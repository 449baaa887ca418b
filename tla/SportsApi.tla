------------------------------ MODULE SportsApi ------------------------------
(***************************************************************************)
(* How the server asks the sports APIs: SportsDataService                  *)
(* (services/sports_api/sports_service.py) tries the configured clients in *)
(* order, each behind a circuit breaker (services/circuit_breaker.py) of   *)
(* its own per operation, in front of a cache in Redis.                    *)
(*                                                                         *)
(* Calls interleave where they await: at the cache, and at the API.        *)
(* Between two awaits a call runs alone, so that the bookkeeping for one   *)
(* client and the entry into the next are one step.                        *)
(***************************************************************************)
EXTENDS Naturals

CONSTANTS
    N,            \* clients, tried in the order 1..N
    Calls,        \* calls that can be in progress at the same time
    Kinds,        \* [Calls -> SUBSET Ops]: what each caller asks for
    Conditions,   \* what can be the matter with an API
    Threshold,    \* CIRCUIT_BREAKER_FAILURE_THRESHOLD
    Timeout,      \* CIRCUIT_BREAKER_TIMEOUT_SECONDS
    Lifetime,     \* time to live of a cache entry
    CacheFaults,  \* whether Redis may fail
    Resetting     \* whether admins reset the breakers

Clients == 1..N
Ops == {"live", "schedule"}      \* get_live_scores, get_schedule

ASSUME NumbersAssumption ==
    /\ {N, Timeout, Lifetime} \subseteq Nat
    /\ Threshold \in Nat \ {0}
ASSUME CallersAssumption ==
    /\ Kinds \in [Calls -> SUBSET Ops]
    /\ Conditions \subseteq {"up", "quiet", "down", "limited"}
    /\ "up" \in Conditions
    /\ {CacheFaults, Resetting} \subseteq BOOLEAN

(***************************************************************************)
(* A breaker.  failures saturates at the threshold, the only number it is  *)
(* compared with; age is the time since the last failure, up to the time   *)
(* out, where a breaker that never failed is, too.                         *)
(***************************************************************************)
Breaker == [state : {"closed", "open", "half_open"}, failures : 0..Threshold,
            age : 0..Timeout]
NewBreaker == [state |-> "closed", failures |-> 0, age |-> Timeout]

Answers == {"none", "games", "empty", "error"}

VARIABLES
    api,      \* the condition of each API
    breaker,  \* [Ops \X Clients -> Breaker]
    cache,    \* the cached answer per operation, and how long it lives
    call,     \* the calls in progress, or their answer
    well      \* history: per call, the clients that had games and a breaker
              \* that was not open, for as long as the call has taken

vars == <<api, breaker, cache, call, well>>

Call == [pc : {"idle", "cache", "api", "store"}, op : Ops, client : Clients \cup {0},
         answer : Answers]
NoCall == [pc |-> "idle", op |-> "live", client |-> 0, answer |-> "none"]

TypeOK ==
    /\ api \in [Clients -> Conditions]
    /\ breaker \in [Ops \X Clients -> Breaker]
    /\ cache \in [Ops -> [value : {"none", "games", "empty"}, left : 0..Lifetime]]
    /\ call \in [Calls -> Call]
    /\ \A c \in Calls : /\ call[c].pc = "api" => call[c].client \in Clients
                        /\ call[c].pc = "store" => call[c].answer \in {"games", "empty"}
    /\ well \in [Calls -> SUBSET Clients]

Init ==
    /\ api = [i \in Clients |-> "up"]
    /\ breaker = [b \in Ops \X Clients |-> NewBreaker]
    /\ cache = [o \in Ops |-> [value |-> "none", left |-> 0]]
    /\ call = [c \in Calls |-> NoCall]
    /\ well = [c \in Calls |-> {}]

-----------------------------------------------------------------------------
(* CircuitBreaker *)

\* async_call lets the call through.
Admits(b) == b.state # "open" \/ b.age >= Timeout

\* ... and the first one after the time-out makes the breaker half-open.
Entered(b) == IF b.state = "open"
              THEN [state |-> "half_open", failures |-> b.failures, age |-> b.age]
              ELSE b

\* Mutant: a success does not forget the failures before it.
OnSuccessKeepingCount(b) ==
    [state |-> IF b.state = "half_open" THEN "closed" ELSE b.state,
     failures |-> b.failures, age |-> b.age]

\* Mutant: a success leaves the breaker half-open.
OnSuccessStayingHalfOpen(b) == [state |-> b.state, failures |-> 0, age |-> b.age]

OnSuccess(b) ==
    [state |-> IF b.state = "half_open" THEN "closed" ELSE b.state,
     failures |-> 0, age |-> b.age]

OnFailure(b) ==
    LET n == IF b.failures < Threshold THEN b.failures + 1 ELSE Threshold
    IN [state |-> IF n >= Threshold THEN "open" ELSE b.state, failures |-> n, age |-> 0]

\* The manual reset, which leaves the time of the last failure.
Restored(b) == [state |-> "closed", failures |-> 0, age |-> b.age]

Older(b) == [state |-> b.state, failures |-> b.failures,
             age |-> IF b.age < Timeout THEN b.age + 1 ELSE b.age]

-----------------------------------------------------------------------------
(* SportsDataService *)

\* The clients answer every error but a rate limit with an empty list.
Reply(condition) ==
    CASE condition = "up" -> "games"
      [] condition \in {"quiet", "down"} -> "empty"
      [] condition = "limited" -> "error"

\* Mutant: an error is taken for an answer.
AcceptsAnything(op, reply) == TRUE

\* get_live_scores takes any list, get_schedule only one with games in it.
Accepts(op, reply) == reply = "games" \/ (op = "live" /\ reply = "empty")

Ends(c, answer) ==
    call' = [call EXCEPT ![c] =
               [call[c] EXCEPT !.pc = "idle", !.client = 0, !.answer = answer]]

\* Mutant: one open breaker is enough to pass over the clients that are left.
PassedTogether(op, i, j, B) == i < j => \E k \in i..(j - 1) : ~Admits(B[<<op, k>>])

\* The clients from i to j - 1 are passed over: their breakers are open.
Passed(op, i, j, B) == \A k \in i..(j - 1) : ~Admits(B[<<op, k>>])

\* The loop over the clients, from i on, with the breakers B.
Try(c, i, B) ==
    LET op == call[c].op IN
    \/ \E j \in i..N :
         /\ Passed(op, i, j, B)
         /\ Admits(B[<<op, j>>])
         /\ breaker' = [B EXCEPT ![<<op, j>>] = Entered(B[<<op, j>>])]
         /\ call' = [call EXCEPT ![c] = [call[c] EXCEPT !.pc = "api", !.client = j]]
    \/ /\ Passed(op, i, N + 1, B)
       /\ breaker' = B
       /\ Ends(c, "error")

Request(c, op) ==
    /\ call[c].pc = "idle"
    /\ op \in Kinds[c]
    /\ call' = [call EXCEPT ![c] = [NoCall EXCEPT !.pc = "cache", !.op = op]]
    /\ UNCHANGED <<api, breaker, cache>>

CacheHit(c) ==
    /\ call[c].pc = "cache"
    /\ cache[call[c].op].left > 0
    /\ Ends(c, cache[call[c].op].value)
    /\ UNCHANGED <<api, breaker, cache>>

\* The entry is missing or has expired, or Redis fails.
CacheMiss(c) ==
    /\ call[c].pc = "cache"
    /\ cache[call[c].op].left = 0 \/ CacheFaults
    /\ Try(c, 1, breaker)
    /\ UNCHANGED <<api, cache>>

\* The API's answer, as things are when it comes.
ApiAnswers(c) ==
    LET x == call[c]
        b == <<x.op, x.client>>
        reply == Reply(api[x.client])
    IN /\ x.pc = "api"
       /\ IF Accepts(x.op, reply)
          THEN /\ breaker' = [breaker EXCEPT ![b] = OnSuccess(breaker[b])]
               /\ call' = [call EXCEPT ![c] = [x EXCEPT !.pc = "store", !.answer = reply]]
          ELSE Try(c, x.client + 1,
                   [breaker EXCEPT ![b] = IF reply = "error" THEN OnFailure(breaker[b])
                                          ELSE OnSuccess(breaker[b])])
       /\ UNCHANGED <<api, cache>>

Store(c) ==
    /\ call[c].pc = "store"
    /\ \/ cache' = [cache EXCEPT ![call[c].op] = [value |-> call[c].answer, left |-> Lifetime]]
       \/ CacheFaults /\ cache' = cache
    /\ Ends(c, call[c].answer)
    /\ UNCHANGED <<api, breaker>>

\* POST /health/reset-circuit-breakers
Reset ==
    /\ Resetting
    /\ breaker' = [b \in Ops \X Clients |-> Restored(breaker[b])]
    /\ UNCHANGED <<api, cache, call>>

-----------------------------------------------------------------------------
(* The world *)

ApiChanges(i, condition) ==
    /\ api' = [api EXCEPT ![i] = condition]
    /\ UNCHANGED <<breaker, cache, call>>

Tick ==
    /\ breaker' = [b \in Ops \X Clients |-> Older(breaker[b])]
    /\ cache' = [o \in Ops |-> [cache[o] EXCEPT !.left = IF @ > 0 THEN @ - 1 ELSE 0]]
    /\ UNCHANGED <<api, call>>

\* The clients that would answer op with games at once.
Well(op, A, B) == {i \in Clients : A[i] = "up" /\ B[<<op, i>>].state # "open"}

Watch ==
    well' = [c \in Calls |->
               IF call'[c].pc = "idle" THEN {}
               ELSE LET now == Well(call'[c].op, api', breaker')
                    IN IF call[c].pc = "idle" THEN now ELSE well[c] \cap now]

Work(c) == (CacheHit(c) \/ CacheMiss(c) \/ ApiAnswers(c) \/ Store(c)) /\ Watch
Ask(c, op) == Request(c, op) /\ Watch
Time == Tick /\ Watch

Next ==
    \/ \E c \in Calls : Work(c) \/ \E op \in Ops : Ask(c, op)
    \/ Time
    \/ Reset /\ Watch
    \/ \E i \in Clients, condition \in Conditions : ApiChanges(i, condition) /\ Watch

Spec == Init /\ [][Next]_vars

\* The callers ask again and again, APIs answer or time out, time passes.
Fairness ==
    /\ \A c \in Calls : WF_vars(Work(c)) /\ \A op \in Ops : SF_vars(Ask(c, op))
    /\ WF_vars(Time)

FairSpec == Spec /\ Fairness

-----------------------------------------------------------------------------
(* Properties *)

\* A breaker that is closed has failures to spare, however the calls it let
\* through overlap and end: an API that failed failure_threshold times in a row
\* is not asked again before the time-out.
ClosedBelowThreshold ==
    \A b \in Ops \X Clients : breaker[b].state = "closed" => breaker[b].failures < Threshold

\* A call ends in an error only if no API could have been asked with success
\* all along: one that had games, behind a breaker that was not open.
NoNeedlessError ==
    [][\A c \in Calls :
         call[c].pc # "idle" /\ call'[c].pc = "idle" /\ call'[c].answer = "error"
           => well[c] = {}]_vars

\* When the first API recovers for good, its breaker for the schedule closes
\* for good: the calls that are on their way, those the cache answers and the
\* failures counted so far cannot keep it open or half-open.
FirstRecovers ==
    1 \in Clients =>
      (<>[](api[1] = "up") => <>[](breaker[<<"schedule", 1>>].state = "closed"))
=============================================================================
