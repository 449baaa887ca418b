---------------------------- MODULE SportsApiProofs ----------------------------
(***************************************************************************)
(* Proofs about SportsApi, for any number of clients, calls in progress,   *)
(* threshold and time-out: its types, that a closed breaker is below the   *)
(* threshold, and that a call ends in an error only if no API would have   *)
(* answered it all along.                                                  *)
(***************************************************************************)
EXTENDS SportsApi, Integers, TLAPS

\* A breaker that is well formed and, while closed, below the threshold.
Sound(b) == b \in Breaker /\ (b.state = "closed" => b.failures < Threshold)

AllSound == /\ breaker \in [Ops \X Clients -> Breaker]
            /\ \A b \in Ops \X Clients : Sound(breaker[b])

\* The operations of a breaker, the manual reset and the passing of time keep
\* it sound.
LEMMA BreakerOperations ==
    ASSUME NEW b, Sound(b)
    PROVE  /\ Sound(OnSuccess(b))
           /\ Sound(OnFailure(b))
           /\ Sound(Entered(b))
           /\ Sound(Restored(b))
           /\ Sound(Older(b))
<1>1. /\ Threshold \in Nat /\ 0 < Threshold /\ Timeout \in Nat
      /\ b.state \in {"closed", "open", "half_open"}
      /\ b.failures \in 0..Threshold /\ b.age \in 0..Timeout
      /\ b.state = "closed" => b.failures < Threshold
  BY NumbersAssumption DEF Sound, Breaker
<1>2. ASSUME NEW s \in {"closed", "open", "half_open"}, NEW n \in 0..Threshold,
             NEW a \in 0..Timeout, s = "closed" => n < Threshold
      PROVE  Sound([state |-> s, failures |-> n, age |-> a])
  BY <1>2 DEF Sound, Breaker
<1>3. 0 \in 0..Threshold /\ 0 \in 0..Timeout
  BY <1>1
<1>4. Sound(OnSuccess(b))
  BY <1>1, <1>2, <1>3 DEF OnSuccess
<1>5. Sound(OnFailure(b))
  <2> DEFINE n == IF b.failures < Threshold THEN b.failures + 1 ELSE Threshold
             s == IF n >= Threshold THEN "open" ELSE b.state
  <2>1. OnFailure(b) = [state |-> s, failures |-> n, age |-> 0]
    BY DEF OnFailure
  <2>2. n \in 0..Threshold
    BY <1>1
  <2>3. s \in {"closed", "open", "half_open"} /\ (s = "closed" => ~(n >= Threshold))
    BY <1>1
  <2>4. s = "closed" => n < Threshold
    BY <1>1, <2>2, <2>3
  <2> HIDE DEF s, n
  <2> QED
    BY <1>2, <1>3, <2>1, <2>2, <2>3, <2>4
<1>6. Sound(Entered(b))
  BY <1>1, <1>2 DEF Entered
<1>7. Sound(Restored(b))
  BY <1>1, <1>2, <1>3 DEF Restored
<1>8. Sound(Older(b))
  <2> DEFINE a == IF b.age < Timeout THEN b.age + 1 ELSE b.age
  <2>1. a \in 0..Timeout
    BY <1>1
  <2>2. Older(b) = [state |-> b.state, failures |-> b.failures, age |-> a]
    BY DEF Older
  <2> HIDE DEF a
  <2> QED
    BY <1>1, <1>2, <2>1, <2>2
<1> QED
  BY <1>4, <1>5, <1>6, <1>7, <1>8

\* Whatever a call does in one step, it keeps the breakers sound.
LEMMA TrySound ==
    ASSUME NEW c \in Calls, NEW i \in Nat, i >= 1, NEW B \in [Ops \X Clients -> Breaker],
           \A b \in Ops \X Clients : Sound(B[b]),
           call[c].op \in Ops, Try(c, i, B)
    PROVE  AllSound'
<1>1. CASE breaker' = B
  BY <1>1 DEF AllSound, Sound
<1>2. CASE \E j \in i..N : breaker' = [B EXCEPT ![<<call[c].op, j>>] =
                                         Entered(B[<<call[c].op, j>>])]
  <2>1. PICK j \in i..N : breaker' = [B EXCEPT ![<<call[c].op, j>>] =
                                         Entered(B[<<call[c].op, j>>])]
    BY <1>2
  <2>2. <<call[c].op, j>> \in Ops \X Clients
    BY NumbersAssumption DEF Clients
  <2>3. Sound(Entered(B[<<call[c].op, j>>]))
    BY <2>2, BreakerOperations
  <2> QED
    BY <2>1, <2>2, <2>3 DEF AllSound, Sound
<1> QED
  BY <1>1, <1>2 DEF Try

\* A call moves on to a client that is there, or ends.
LEMMA TryTypes ==
    ASSUME NEW c \in Calls, NEW i \in Nat, i >= 1, NEW B,
           call \in [Calls -> Call], Try(c, i, B)
    PROVE  /\ call' \in [Calls -> Call]
           /\ call'[c].pc \in {"idle", "api"}
           /\ call'[c].pc = "api" => call'[c].client \in Clients
           /\ \A d \in Calls : d # c => call'[d] = call[d]
           /\ call'[c].op = call[c].op
<1>1. ASSUME NEW j \in i..N,
             call' = [call EXCEPT ![c] = [call[c] EXCEPT !.pc = "api", !.client = j]]
      PROVE  /\ call' \in [Calls -> Call]
             /\ call'[c].pc = "api"
             /\ call'[c].client \in Clients
             /\ \A d \in Calls : d # c => call'[d] = call[d]
             /\ call'[c].op = call[c].op
  <2>1. j \in Clients
    BY NumbersAssumption DEF Clients
  <2>2. [call[c] EXCEPT !.pc = "api", !.client = j] \in Call
    BY <2>1 DEF Call
  <2> QED
    BY <1>1, <2>1, <2>2 DEF Call
<1>2. CASE Ends(c, "error")
  BY <1>2 DEF Ends, Call, Answers
<1> QED
  BY <1>1, <1>2 DEF Try, Ends, Call, Answers

\* What a step of call c, or none, may do to the other variables.
Typed ==
    /\ api \in [Clients -> Conditions]
    /\ cache \in [Ops -> [value : {"none", "games", "empty"}, left : 0..Lifetime]]
    /\ call \in [Calls -> Call]
    /\ \A c \in Calls : /\ call[c].pc = "api" => call[c].client \in Clients
                        /\ call[c].pc = "store" => call[c].answer \in {"games", "empty"}

\* A call that waits for an API waits for one that is there.
LEMMA Waiting ==
    ASSUME Typed, NEW c \in Calls, call[c].pc = "api"
    PROVE  call[c] \in Call /\ call[c].client \in Clients /\ call[c].op \in Ops
<1>1. call[c] \in Call
  BY DEF Typed
<1>2. call[c].op \in Ops
  BY <1>1 DEF Call
<1>3. call[c].client \in Clients
  BY DEF Typed
<1> QED
  BY <1>1, <1>2, <1>3

\* The watch of the calls only ever notes clients.
LEMMA WatchTyped ==
    ASSUME Watch
    PROVE  well' \in [Calls -> SUBSET Clients]
<1>1. ASSUME NEW c \in Calls
      PROVE  Well(call'[c].op, api', breaker') \subseteq Clients
  BY DEF Well
<1> QED
  BY <1>1 DEF Watch

\* A call that turns to the clients keeps the types and the breakers sound.
LEMMA TryKeeps ==
    ASSUME Typed, NEW c \in Calls, NEW i \in Nat, i >= 1,
           NEW B \in [Ops \X Clients -> Breaker],
           \A b \in Ops \X Clients : Sound(B[b]),
           Try(c, i, B), UNCHANGED <<api, cache>>
    PROVE  Typed' /\ AllSound'
<1>1. call \in [Calls -> Call] /\ call[c].op \in Ops
  BY DEF Typed, Call
<1>2. AllSound'
  BY <1>1, TrySound
<1>3. /\ call' \in [Calls -> Call]
      /\ call'[c].pc \in {"idle", "api"}
      /\ call'[c].pc = "api" => call'[c].client \in Clients
      /\ \A d \in Calls : d # c => call'[d] = call[d]
  BY <1>1, TryTypes
<1>4. \A d \in Calls : /\ call'[d].pc = "api" => call'[d].client \in Clients
                       /\ call'[d].pc = "store" => call'[d].answer \in {"games", "empty"}
  <2> TAKE d \in Calls
  <2>1. CASE d = c
    BY <1>3, <2>1
  <2>2. CASE d # c
    BY <1>3, <2>2 DEF Typed
  <2> QED
    BY <2>1, <2>2
<1> QED
  BY <1>2, <1>3, <1>4 DEF Typed

\* A call that ends keeps the types.
LEMMA EndsKeeps ==
    ASSUME Typed, NEW c \in Calls, NEW answer \in Answers, Ends(c, answer)
    PROVE  /\ call' \in [Calls -> Call]
           /\ \A d \in Calls : /\ call'[d].pc = "api" => call'[d].client \in Clients
                               /\ call'[d].pc = "store" => call'[d].answer \in {"games", "empty"}
<1> DEFINE x == [call[c] EXCEPT !.pc = "idle", !.client = 0, !.answer = answer]
<1>1. x \in Call /\ x.pc = "idle"
  BY DEF Typed, Call
<1>2. call' = [call EXCEPT ![c] = x]
  BY DEF Ends
<1> HIDE DEF x
<1>3. \A d \in Calls : call'[d] = IF d = c THEN x ELSE call[d]
  BY <1>2 DEF Typed
<1>4. call' \in [Calls -> Call]
  BY <1>1, <1>2 DEF Typed
<1> QED
  BY <1>1, <1>3, <1>4 DEF Typed

\* Every step keeps the types and keeps the breakers sound.
LEMMA StepKeeps ==
    ASSUME Typed, AllSound, Next
    PROVE  Typed' /\ AllSound'
<1>1. ASSUME NEW c \in Calls, CacheHit(c)
      PROVE  Typed' /\ AllSound'
  <2>1. cache[call[c].op].value \in Answers
    BY DEF Typed, Call, Answers
  <2> QED
    BY <1>1, <2>1, EndsKeeps DEF CacheHit, Typed, AllSound, Sound
<1>2. ASSUME NEW c \in Calls, CacheMiss(c)
      PROVE  Typed' /\ AllSound'
  <2>1. Try(c, 1, breaker) /\ UNCHANGED <<api, cache>>
    BY <1>2 DEF CacheMiss
  <2>2. 1 \in Nat /\ 1 >= 1
    OBVIOUS
  <2> QED
    BY <2>1, <2>2, TryKeeps DEF AllSound
<1>3. ASSUME NEW c \in Calls, ApiAnswers(c)
      PROVE  Typed' /\ AllSound'
  <2> DEFINE x == call[c]
             b == <<x.op, x.client>>
             reply == Reply(api[x.client])
             B == [breaker EXCEPT ![b] = IF reply = "error" THEN OnFailure(breaker[b])
                                         ELSE OnSuccess(breaker[b])]
  <2>1. x \in Call /\ x.client \in Clients /\ x.client \in Nat /\ x.client >= 1
    <3>1. x.pc = "api"
      BY <1>3 DEF ApiAnswers
    <3>2. x \in Call /\ x.client \in Clients
      BY <3>1, Waiting
    <3> HIDE DEF x
    <3> QED
      BY <3>2, NumbersAssumption DEF Clients
  <2>2. b \in Ops \X Clients
    BY <2>1 DEF Call
  <2>3. Sound(OnFailure(breaker[b])) /\ Sound(OnSuccess(breaker[b]))
    BY <2>2, BreakerOperations DEF AllSound
  <2>4. CASE Accepts(x.op, reply)
    <3> DEFINE y == [x EXCEPT !.pc = "store", !.answer = reply]
    <3>1. /\ breaker' = [breaker EXCEPT ![b] = OnSuccess(breaker[b])]
          /\ call' = [call EXCEPT ![c] = y]
          /\ UNCHANGED <<api, cache>>
      BY <1>3, <2>4 DEF ApiAnswers
    <3>2. reply \in {"games", "empty"}
      BY <2>4 DEF Accepts
    <3>3. y \in Call /\ y.pc = "store" /\ y.answer = reply
      BY <2>1, <3>2 DEF Call, Answers
    <3> HIDE DEF x, y, reply, b
    <3>4. \A d \in Calls : call'[d] = IF d = c THEN y ELSE call[d]
      BY <3>1 DEF Typed
    <3>5. Typed'
      BY <3>1, <3>2, <3>3, <3>4 DEF Typed
    <3>6. AllSound'
      BY <2>2, <2>3, <3>1 DEF AllSound, Sound
    <3> QED
      BY <3>5, <3>6
  <2>5. CASE ~Accepts(x.op, reply)
    <3>1. Try(c, x.client + 1, B) /\ UNCHANGED <<api, cache>>
      BY <1>3, <2>5 DEF ApiAnswers
    <3>2. B \in [Ops \X Clients -> Breaker] /\ \A d \in Ops \X Clients : Sound(B[d])
      BY <2>2, <2>3 DEF AllSound, Sound
    <3>3. x.client + 1 \in Nat /\ x.client + 1 >= 1
      BY <2>1
    <3> HIDE DEF x, B
    <3> QED
      BY <3>1, <3>2, <3>3, TryKeeps
  <2> QED
    BY <2>4, <2>5
<1>4. ASSUME NEW c \in Calls, Store(c)
      PROVE  Typed' /\ AllSound'
  <2>1. call[c].answer \in {"games", "empty"} /\ call[c].answer \in Answers /\ call[c].op \in Ops
    BY <1>4 DEF Store, Typed, Call, Answers
  <2>2. cache' \in [Ops -> [value : {"none", "games", "empty"}, left : 0..Lifetime]]
    BY <1>4, <2>1, NumbersAssumption DEF Store, Typed
  <2> QED
    BY <1>4, <2>1, <2>2, EndsKeeps DEF Store, Typed, AllSound, Sound
<1>5. ASSUME NEW c \in Calls, NEW op \in Ops, Request(c, op)
      PROVE  Typed' /\ AllSound'
  <2> DEFINE x == [NoCall EXCEPT !.pc = "cache", !.op = op]
  <2>1. x \in Call /\ x.pc = "cache"
    BY DEF NoCall, Call, Answers
  <2>2. call' = [call EXCEPT ![c] = x] /\ UNCHANGED <<api, breaker, cache>>
    BY <1>5 DEF Request
  <2> HIDE DEF x
  <2>3. \A d \in Calls : call'[d] = IF d = c THEN x ELSE call[d]
    BY <2>2 DEF Typed
  <2> QED
    BY <2>1, <2>2, <2>3 DEF Typed, AllSound, Sound
<1>6. CASE Tick
  <2>1. AllSound'
    BY <1>6, BreakerOperations DEF Tick, AllSound, Sound
  <2>2. ASSUME NEW o \in Ops
        PROVE  [cache[o] EXCEPT !.left = IF @ > 0 THEN @ - 1 ELSE 0] \in
                 [value : {"none", "games", "empty"}, left : 0..Lifetime]
    BY NumbersAssumption DEF Typed
  <2> QED
    BY <1>6, <2>1, <2>2 DEF Tick, Typed
<1>7. CASE Reset
  BY <1>7, BreakerOperations DEF Reset, Typed, AllSound, Sound
<1>8. ASSUME NEW i \in Clients, NEW condition \in Conditions, ApiChanges(i, condition)
      PROVE  Typed' /\ AllSound'
  BY <1>8 DEF ApiChanges, Typed, AllSound, Sound
<1> QED
  BY <1>1, <1>2, <1>3, <1>4, <1>5, <1>6, <1>7, <1>8 DEF Next, Work, Ask, Time

-----------------------------------------------------------------------------
(* The theorems *)

LEMMA InitKeeps ==
    ASSUME Init
    PROVE  Typed /\ AllSound /\ well \in [Calls -> SUBSET Clients]
<1>1. NewBreaker \in Breaker /\ Sound(NewBreaker)
  <2>1. 0 \in 0..Threshold /\ 0 < Threshold /\ Timeout \in 0..Timeout
    BY NumbersAssumption
  <2> QED
    BY <2>1 DEF NewBreaker, Breaker, Sound
<1>2. NoCall \in Call /\ NoCall.pc = "idle"
  BY DEF NoCall, Call, Answers, Ops
<1>3. [value |-> "none", left |-> 0] \in
        [value : {"none", "games", "empty"}, left : 0..Lifetime]
  BY NumbersAssumption
<1> QED
  BY <1>1, <1>2, <1>3, CallersAssumption DEF Init, Typed, AllSound

LEMMA TypeOKIs ==
    /\ TypeOK <=> /\ Typed
                  /\ breaker \in [Ops \X Clients -> Breaker]
                  /\ well \in [Calls -> SUBSET Clients]
    /\ AllSound <=> /\ breaker \in [Ops \X Clients -> Breaker]
                    /\ ClosedBelowThreshold
  BY DEF TypeOK, Typed, AllSound, Sound, ClosedBelowThreshold

\* The inductive invariant of the two theorems that follow.
Kept == Typed /\ AllSound /\ well \in [Calls -> SUBSET Clients]

LEMMA KeptStep == Kept /\ [Next]_vars => Kept'
<1> SUFFICES ASSUME Kept, [Next]_vars PROVE Kept'
  OBVIOUS
<1>1. CASE Next
  <2>1. Watch
    BY <1>1 DEF Next, Work, Ask, Time
  <2> QED
    BY <1>1, <2>1, StepKeeps, WatchTyped DEF Kept
<1>2. CASE UNCHANGED vars
  BY <1>2 DEF vars, Kept, Typed, AllSound, Sound
<1> QED
  BY <1>1, <1>2

LEMMA KeptAlways == Spec => []Kept
<1>1. Init => Kept
  BY InitKeeps DEF Kept
<1> QED
  BY <1>1, KeptStep, PTL DEF Spec

\* Type correctness.
THEOREM TypeCorrect == Spec => []TypeOK
<1>1. Kept => TypeOK
  BY TypeOKIs DEF Kept, AllSound
<1> QED
  BY <1>1, KeptAlways, PTL

\* A closed breaker always has failures to spare, for any threshold and any
\* number of calls that overlap (CircuitBreaker).
THEOREM ClosedIsBelowThreshold == Spec => []ClosedBelowThreshold
<1>1. Kept => ClosedBelowThreshold
  BY TypeOKIs DEF Kept
<1> QED
  BY <1>1, KeptAlways, PTL

-----------------------------------------------------------------------------
(***************************************************************************)
(* A call passes over a client only because its breaker is open, and turns *)
(* away from one it asked only because it had no games: while a call waits *)
(* for client i, none before i has been fit to answer all along.           *)
(***************************************************************************)
WellIsAhead ==
    \A c \in Calls :
      /\ call[c].pc # "idle" => well[c] \subseteq Well(call[c].op, api, breaker)
      /\ call[c].pc = "api" => \A k \in well[c] : k >= call[c].client

\* The watch notes the clients that are fit after the step, and of a call that
\* was in progress keeps only what it had noted.
LEMMA WatchNotes ==
    ASSUME Watch, NEW c \in Calls, call'[c].pc # "idle"
    PROVE  /\ well'[c] \subseteq Well(call'[c].op, api', breaker')
           /\ call[c].pc # "idle" => well'[c] \subseteq well[c]
  BY DEF Watch

\* Turning to the clients from i on, when none before i has been fit, leaves
\* none behind that has.
LEMMA TryLooksAhead ==
    ASSUME Kept, Watch, NEW c \in Calls, NEW i \in Nat, i >= 1, NEW B,
           call[c].pc # "idle",
           \A k \in well[c] : k >= i,
           \A k \in i..N : B[<<call[c].op, k>>] = breaker[<<call[c].op, k>>],
           well[c] \subseteq Well(call[c].op, api, breaker),
           Try(c, i, B)
    PROVE  /\ call'[c].pc = "api" => \A k \in well'[c] : k >= call'[c].client
           /\ call'[c].pc = "idle" => well[c] = {}
<1>1. \A k \in well[c] : /\ k \in Nat /\ i <= k /\ k <= N
                        /\ k \in i..N
                        /\ Admits(B[<<call[c].op, k>>])
  <2> TAKE k \in well[c]
  <2>1. k \in Clients /\ k >= i
    BY DEF Kept
  <2>2. k \in Nat /\ i <= k /\ k <= N /\ k \in i..N
    BY <2>1, NumbersAssumption DEF Clients
  <2>3. breaker[<<call[c].op, k>>].state # "open"
    BY DEF Well
  <2> QED
    BY <2>2, <2>3 DEF Admits
<1>2. ASSUME NEW j \in i..N, Passed(call[c].op, i, j, B),
             call' = [call EXCEPT ![c] = [call[c] EXCEPT !.pc = "api", !.client = j]]
      PROVE  /\ call'[c].pc = "api" /\ call'[c].client = j
             /\ \A k \in well[c] : k >= j
  <2>1. call'[c].pc = "api" /\ call'[c].client = j
    BY <1>2 DEF Kept, Typed, Call
  <2>2. ASSUME NEW k \in well[c], ~(k >= j)
        PROVE  FALSE
    <3>1. k \in i..(j - 1)
      <4>1. N \in Nat /\ k \in Nat /\ i <= k
        BY <1>1, NumbersAssumption
      <4>2. j \in Int
        BY <4>1
      <4> QED
        BY <2>2, <4>1, <4>2
    <3> QED
      BY <1>1, <1>2, <3>1 DEF Passed
  <2> QED
    BY <2>1, <2>2
<1>3. ASSUME Passed(call[c].op, i, N + 1, B), Ends(c, "error")
      PROVE  call'[c].pc = "idle" /\ well[c] = {}
  <2>1. call'[c].pc = "idle"
    BY <1>3 DEF Ends, Kept, Typed, Call
  <2>2. ASSUME NEW k \in well[c]
        PROVE  FALSE
    <3>1. k \in i..((N + 1) - 1)
      <4>1. N \in Nat /\ k \in Nat /\ i <= k /\ k <= N
        BY <1>1, NumbersAssumption
      <4> QED
        BY <4>1
    <3> QED
      BY <1>1, <1>3, <3>1 DEF Passed
  <2> QED
    BY <2>1, <2>2
<1>4. call'[c].pc = "api" => well'[c] \subseteq well[c]
  BY WatchNotes
<1> QED
  BY <1>2, <1>3, <1>4 DEF Try

\* What a step does to a call: a call that ends in an error had no client that
\* was fit all along, and one that waits has none behind it.
LEMMA StepLooksAhead ==
    ASSUME Kept, WellIsAhead, Next, NEW c \in Calls
    PROVE  /\ call'[c].pc = "api" => \A k \in well'[c] : k >= call'[c].client
           /\ call[c].pc # "idle" /\ call'[c].pc = "idle" /\ call'[c].answer = "error"
                => well[c] = {}
<1> DEFINE Ahead == /\ call'[c].pc = "api" => \A k \in well'[c] : k >= call'[c].client
                    /\ call[c].pc # "idle" /\ call'[c].pc = "idle"
                         /\ call'[c].answer = "error" => well[c] = {}
<1>1. Watch
  BY DEF Next, Work, Ask, Time
<1>2. CASE call'[c] = call[c]
  BY <1>1, <1>2, WatchNotes DEF WellIsAhead
<1>3. CASE CacheHit(c)
  <2>1. cache[call[c].op].value # "error" /\ call[c] \in Call
    BY DEF Kept, Typed, Call
  <2> QED
    BY <1>3, <2>1 DEF CacheHit, Ends, Kept, Typed, Call
<1>4. CASE CacheMiss(c)
  <2>1. Try(c, 1, breaker) /\ call[c].pc = "cache"
    BY <1>4 DEF CacheMiss
  <2>2. \A k \in well[c] : k >= 1
    BY NumbersAssumption DEF Kept, Clients
  <2>3. 1 \in Nat /\ 1 >= 1
    OBVIOUS
  <2> QED
    BY <1>1, <2>1, <2>2, <2>3, TryLooksAhead DEF WellIsAhead
<1>5. CASE ApiAnswers(c)
  <2> DEFINE x == call[c]
             b == <<x.op, x.client>>
             reply == Reply(api[x.client])
             B == [breaker EXCEPT ![b] = IF reply = "error" THEN OnFailure(breaker[b])
                                         ELSE OnSuccess(breaker[b])]
  <2>1. x.pc = "api"
    BY <1>5 DEF ApiAnswers
  <2>2. x \in Call /\ x.client \in Clients /\ x.op \in Ops
    BY <2>1, Waiting DEF Kept
  <2>3. CASE Accepts(x.op, reply)
    <3>1. call' = [call EXCEPT ![c] = [x EXCEPT !.pc = "store", !.answer = reply]]
      BY <1>5, <2>3 DEF ApiAnswers
    <3>2. call'[c].pc = "store"
      BY <2>2, <3>1 DEF Kept, Typed, Call
    <3> QED
      BY <3>2
  <2>4. CASE ~Accepts(x.op, reply)
    <3>1. Try(c, x.client + 1, B)
      BY <1>5, <2>4 DEF ApiAnswers
    <3>2. x.client \in Nat /\ x.client + 1 \in Nat /\ x.client + 1 >= 1
      BY <2>2, NumbersAssumption DEF Clients
    <3>3. x.client \notin well[c]
      <4>1. api[x.client] # "up"
        BY <2>4 DEF Accepts, Reply
      <4> QED
        BY <2>1, <4>1 DEF WellIsAhead, Well
    <3>4. \A k \in well[c] : k >= x.client + 1
      <4> TAKE k \in well[c]
      <4>1. k >= x.client /\ k # x.client /\ k \in Clients
        BY <2>1, <3>3 DEF WellIsAhead, Kept
      <4> HIDE DEF x
      <4> QED
        BY <3>2, <4>1, NumbersAssumption DEF Clients
    <3>5. \A k \in (x.client + 1)..N : B[<<x.op, k>>] = breaker[<<x.op, k>>]
      <4> TAKE k \in (x.client + 1)..N
      <4>1. k # x.client /\ k \in Clients
        <5> HIDE DEF x
        <5> QED BY <3>2, NumbersAssumption DEF Clients
      <4>2. <<x.op, k>> # b /\ <<x.op, k>> \in Ops \X Clients
        BY <2>2, <4>1
      <4> QED
        BY <4>2 DEF Kept, AllSound
    <3> HIDE DEF B
    <3> QED
      BY <1>1, <2>1, <3>1, <3>2, <3>4, <3>5, TryLooksAhead DEF WellIsAhead
  <2> QED
    BY <2>3, <2>4
<1>6. CASE Store(c)
  <2>1. call[c].answer # "error" /\ call[c] \in Call
    BY <1>6 DEF Store, Kept, Typed, Call
  <2> QED
    BY <1>6, <2>1 DEF Store, Ends, Kept, Typed, Call
<1>7. ASSUME NEW op \in Ops, Request(c, op)
      PROVE  Ahead
  BY <1>7 DEF Request, NoCall, Kept, Typed
<1>8. ASSUME NEW d \in Calls, d # c,
             CacheHit(d) \/ CacheMiss(d) \/ ApiAnswers(d) \/ Store(d)
                \/ \E op \in Ops : Request(d, op)
      PROVE  call'[c] = call[c]
  BY <1>8 DEF CacheHit, CacheMiss, ApiAnswers, Store, Request, Try, Ends, Kept, Typed
<1>9. ASSUME Tick \/ Reset \/ \E i \in Clients, condition \in Conditions :
                                ApiChanges(i, condition)
      PROVE  call'[c] = call[c]
  BY <1>9 DEF Tick, Reset, ApiChanges
<1> QED
  BY <1>2, <1>3, <1>4, <1>5, <1>6, <1>7, <1>8, <1>9 DEF Next, Work, Ask, Time

LEMMA AheadStep == Kept /\ WellIsAhead /\ [Next]_vars => WellIsAhead'
<1> SUFFICES ASSUME Kept, WellIsAhead, [Next]_vars PROVE WellIsAhead'
  OBVIOUS
<1>1. CASE Next
  <2>1. Watch
    BY <1>1 DEF Next, Work, Ask, Time
  <2> QED
    BY <1>1, <2>1, WatchNotes, StepLooksAhead DEF WellIsAhead, Well
<1>2. CASE UNCHANGED vars
  BY <1>2 DEF vars, WellIsAhead, Well
<1> QED
  BY <1>1, <1>2

\* A call ends in an error only if no API had games, behind a breaker that was
\* not open, for as long as the call took: the loop of SportsDataService over
\* its clients leaves none out, whatever the other calls do to the breakers it
\* shares with them.
THEOREM ErrorsAreNeeded == Spec => NoNeedlessError
<1>1. Init => WellIsAhead
  BY DEF Init, WellIsAhead, NoCall
<1>2. Spec => []WellIsAhead
  BY <1>1, AheadStep, KeptAlways, PTL DEF Spec
<1>3. Kept /\ WellIsAhead /\ [Next]_vars =>
        [\A c \in Calls :
           call[c].pc # "idle" /\ call'[c].pc = "idle" /\ call'[c].answer = "error"
             => well[c] = {}]_vars
  <2> SUFFICES ASSUME Kept, WellIsAhead, Next
               PROVE  \A c \in Calls :
                        call[c].pc # "idle" /\ call'[c].pc = "idle"
                          /\ call'[c].answer = "error" => well[c] = {}
    OBVIOUS
  <2> QED
    BY StepLooksAhead
<1> QED
  BY <1>2, <1>3, KeptAlways, PTL DEF Spec, NoNeedlessError
=============================================================================
