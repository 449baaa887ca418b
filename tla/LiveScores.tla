----------------------------- MODULE LiveScores -----------------------------
(***************************************************************************)
(* The push of live scores: the score job publishes every update to a      *)
(* Redis channel, the API process listens to it and sends what it hears to *)
(* all its WebSocket clients; without Redis the job sends the update       *)
(* itself (services/ws_manager.py, api/ws.py).                             *)
(*                                                                         *)
(* One asyncio process holds the clients. A task runs from one await to    *)
(* the next; a broadcast awaits every send, so connections come and go in  *)
(* the list it walks over by index. The job runs in the same process or in *)
(* that of a worker, whose own list of clients is empty.                   *)
(***************************************************************************)
EXTENDS Integers, FiniteSets, Sequences, SequencesExt

CONSTANTS
    Clients,       \* WebSockets that can be there at the same time
    MaxClients,    \* MAX_WS_CONNECTIONS
    MaxUpdates     \* bound on the updates ever published

Tasks == {"subscriber", "job"}

ASSUME BoundsAssumption ==
    /\ MaxClients \in Nat \ {0} /\ MaxUpdates \in Nat
    /\ IsFiniteSet(Clients)

VARIABLES
    sock,      \* the state of each WebSocket
    conns,     \* _connections
    cast,      \* the broadcasts in progress
    worker,    \* whether the job runs in a process of its own
    published, \* how many updates have been published
    redis,     \* whether Redis answers
    channel,   \* the updates on their way to the subscriber
    sub,       \* what the subscriber task is doing
    inbox,     \* history: per client, the updates sent on its present socket
    crowd,     \* history: the most sockets ever accepted at the same time
    paths      \* history: the tasks that have ever sent something

vars == <<sock, conns, cast, worker, published, redis, channel, sub, inbox, crowd, paths>>

\* next is the index the iteration has reached. For the properties: owed are
\* the clients listed at the start and ever since to whom nothing was sent
\* yet, and removed counts the removals from the list since (as many as there
\* are clients count as enough).
Cast == [update : Nat, next : Nat, stale : SUBSET Clients,
         owed : SUBSET Clients, removed : Nat]
NoCast == [update |-> 0, next |-> 1, stale |-> {}, owed |-> {}, removed |-> 0]

Init ==
    /\ sock = [c \in Clients |-> "closed"] /\ conns = <<>>
    /\ cast = [t \in Tasks |-> NoCast]
    /\ worker \in BOOLEAN /\ published = 0
    /\ redis = TRUE /\ channel = <<>> /\ sub = "connecting"
    /\ inbox = [c \in Clients |-> <<>>] /\ crowd = 0 /\ paths = {}

-----------------------------------------------------------------------------
(* Connections *)

Accepting == {c \in Clients : sock[c] = "accepting"}

\* Mutant: one more than there is room for.
HasRoomForOneMore == Len(conns) <= MaxClients
HasRoom == Len(conns) < MaxClients

\* connect: the check, before the socket is accepted. Without room it is
\* closed, and so it stays.
Connect(c) ==
    /\ sock[c] = "closed" /\ HasRoom
    /\ sock' = [sock EXCEPT ![c] = "accepting"]
    /\ crowd' = IF Cardinality(Accepting) + 1 > crowd THEN Cardinality(Accepting) + 1 ELSE crowd
    /\ UNCHANGED <<conns, cast, worker, published, redis, channel, sub, inbox, paths>>

\* Mutant: new connections go to the front of the list.
Prepended(c) == <<c>> \o conns
Added(c) == Append(conns, c)

\* ... and the socket enters the list.
Accepted(c) ==
    /\ sock[c] = "accepting"
    /\ sock' = [sock EXCEPT ![c] = "open"]
    /\ conns' = Added(c)
    /\ UNCHANGED <<cast, worker, published, redis, channel, sub, inbox, crowd, paths>>

\* The client closes its end (if it does so during the accept, the handler
\* notices at its first receive_text, when the socket is in the list).
ClientLeaves(c) ==
    /\ sock[c] = "open" /\ sock' = [sock EXCEPT ![c] = "gone"]
    /\ UNCHANGED <<conns, cast, worker, published, redis, channel, sub, inbox, crowd, paths>>

\* disconnect: nothing for a socket that is no longer in the list. The next
\* socket of the same client is another object, which nobody calls stale.
NthOf(I, n) == CHOOSE i \in I : Cardinality({k \in I : k <= i}) = n
Without(left) ==
    LET kept == {i \in DOMAIN conns : conns[i] \notin left}
    IN [n \in 1..Cardinality(kept) |-> conns[NthOf(kept, n)]]
Capped(n) == IF n > Cardinality(Clients) THEN Cardinality(Clients) ELSE n
Noted(left) ==
    [t \in Tasks |->
       IF cast[t].update = 0 THEN cast[t]
       ELSE [cast[t] EXCEPT !.owed = @ \ left, !.stale = @ \ left,
                            !.removed = Capped(@ + Cardinality(left \cap Range(conns)))]]

\* Mutant: the handler ends without taking the socket out of the list.
StaysListed(c) == conns
Unlisted(c) == Without({c})

\* receive_text of the handler raises, and the handler ends.
HandlerEnds(c) ==
    /\ sock[c] = "gone"
    /\ sock' = [sock EXCEPT ![c] = "closed"]
    /\ conns' = Unlisted(c)
    /\ cast' = Noted({c})
    /\ inbox' = [inbox EXCEPT ![c] = <<>>]
    /\ UNCHANGED <<worker, published, redis, channel, sub, crowd, paths>>

-----------------------------------------------------------------------------
(* Broadcasts *)

Busy(t) == cast[t].update # 0
Starting(u) == [NoCast EXCEPT !.update = u, !.owed = Range(conns)]

\* Mutant: a socket that fails ends the iteration.
StopsAtFailure(i, failed) == IF failed THEN Len(conns) + 1 ELSE i + 1
Following(i, failed) == i + 1

\* send_text on the connection under the index. On a socket whose client has
\* left it may raise or not.
Send(t) ==
    /\ Busy(t) /\ cast[t].next <= Len(conns)
    /\ LET i == cast[t].next
           c == conns[i]
       IN \E failed \in BOOLEAN :
            /\ sock[c] = "open" => ~failed
            /\ cast' = [cast EXCEPT ![t].next = Following(i, failed),
                                    ![t].owed = @ \ {c},
                                    ![t].stale = IF failed THEN @ \cup {c} ELSE @]
            /\ inbox' = IF sock[c] = "open" THEN [inbox EXCEPT ![c] = Append(@, cast[t].update)]
                                            ELSE inbox
    /\ UNCHANGED <<sock, conns, worker, published, redis, channel, sub, crowd, paths>>

\* The index is past the end; the stale sockets leave the list.
Finish(t) ==
    /\ Busy(t) /\ cast[t].next > Len(conns)
    /\ conns' = Without(cast[t].stale)
    /\ cast' = [Noted(cast[t].stale) EXCEPT ![t] = NoCast]
    /\ UNCHANGED <<sock, worker, published, redis, channel, sub, inbox, crowd, paths>>

\* publish_score_update, once per run of the job, which does not overlap
\* itself: through Redis ...
Publish ==
    /\ ~Busy("job") /\ published < MaxUpdates
    /\ redis
    /\ published' = published + 1
    /\ channel' = IF sub = "listening" THEN Append(channel, published + 1) ELSE channel
    /\ UNCHANGED <<sock, conns, cast, worker, redis, sub, inbox, crowd, paths>>

\* ... or directly, when Redis raises, be it after the update went out.
PublishDirectly ==
    /\ ~Busy("job") /\ published < MaxUpdates
    /\ published' = published + 1
    /\ \/ UNCHANGED channel
       \/ redis /\ sub = "listening" /\ channel' = Append(channel, published + 1)
    /\ cast' = IF worker THEN cast ELSE [cast EXCEPT !["job"] = Starting(published + 1)]
    /\ paths' = IF worker THEN paths ELSE paths \cup {"job"}
    /\ UNCHANGED <<sock, conns, worker, redis, sub, inbox, crowd>>

-----------------------------------------------------------------------------
(* The subscriber *)

Subscribe ==
    /\ sub = "connecting" /\ redis
    /\ sub' = "listening"
    /\ UNCHANGED <<sock, conns, cast, worker, published, redis, channel, inbox, crowd, paths>>

\* The next message of the channel is broadcast before another is taken.
Receive ==
    /\ sub \in {"listening", "cut"} /\ channel # <<>> /\ ~Busy("subscriber")
    /\ cast' = [cast EXCEPT !["subscriber"] = Starting(Head(channel))]
    /\ channel' = Tail(channel)
    /\ paths' = paths \cup {"subscriber"}
    /\ UNCHANGED <<sock, conns, worker, published, redis, sub, inbox, crowd>>

\* Mutant: the task ends with the first error.
GivesUp == "ended"
AfterError == "connecting"

\* listen raises once the connection is lost, and the loop begins again.
Retry ==
    /\ sub = "cut" /\ ~Busy("subscriber")
    /\ sub' = AfterError /\ channel' = <<>>
    /\ UNCHANGED <<sock, conns, cast, worker, published, redis, inbox, crowd, paths>>

\* Redis goes away, with the subscription, or comes back.
RedisChanges ==
    /\ redis' = ~redis
    /\ sub' = IF redis /\ sub = "listening" THEN "cut" ELSE sub
    /\ UNCHANGED <<sock, conns, cast, worker, published, channel, inbox, crowd, paths>>

\* The process is restarted (lifespan: stop_subscriber, start_subscriber).
Restart ==
    /\ sock' = [c \in Clients |-> "closed"] /\ conns' = <<>>
    /\ cast' = [t \in Tasks |-> NoCast]
    /\ channel' = <<>> /\ sub' = "connecting"
    /\ inbox' = [c \in Clients |-> <<>>]
    /\ UNCHANGED <<worker, published, redis, crowd, paths>>

-----------------------------------------------------------------------------
Next ==
    \/ \E c \in Clients : Connect(c) \/ Accepted(c) \/ ClientLeaves(c) \/ HandlerEnds(c)
    \/ \E t \in Tasks : Send(t) \/ Finish(t)
    \/ Publish \/ PublishDirectly \/ Subscribe \/ Receive \/ Retry
    \/ RedisChanges \/ Restart

Spec == Init /\ [][Next]_vars

\* The event loop goes on with every task that can go on: no send, and no
\* close of a socket, waits forever. A subscription that is tried again and
\* again meets a Redis that answers again and again.
Fairness ==
    /\ \A c \in Clients : WF_vars(Accepted(c)) /\ WF_vars(HandlerEnds(c))
    /\ \A t \in Tasks : WF_vars(Send(t) \/ Finish(t))
    /\ WF_vars(Receive) /\ WF_vars(Retry) /\ WF_vars(Subscribe)

FairSpec == Spec /\ Fairness

-----------------------------------------------------------------------------
(* Properties *)

\* The variables have their types, and no socket is listed twice.
TypeOK ==
    /\ sock \in [Clients -> {"closed", "accepting", "open", "gone"}]
    /\ conns \in Seq(Clients)
    /\ \A i, j \in 1..Len(conns) : conns[i] = conns[j] => i = j
    /\ cast \in [Tasks -> Cast]
    /\ worker \in BOOLEAN /\ published \in Nat
    /\ redis \in BOOLEAN /\ channel \in Seq(Nat)
    /\ sub \in {"connecting", "listening", "cut"}
    /\ inbox \in [Clients -> Seq(Nat)]
    /\ crowd \in Nat /\ paths \subseteq Tasks

\* The capacity is exceeded only by sockets that were being accepted together
\* (connect checks before it awaits the accept and appends after it).
OvershootIsBounded ==
    Len(conns) + Cardinality(Accepting) <= MaxClients + (IF crowd = 0 THEN 0 ELSE crowd - 1)

\* As long as only one of the two tasks has ever sent, every client gets the
\* updates in order and none of them twice.
InOrderAndOnce ==
    Cardinality(paths) <= 1 =>
      \A c \in Clients : \A i, j \in 1..Len(inbox[c]) : i < j => inbox[c][i] < inbox[c][j]

\* A broadcast passes over no more of the clients that stay connected than
\* connections were taken out of the list under its iteration.
SkipsAreBounded ==
    \A t \in Tasks : Busy(t) /\ cast[t].next > Len(conns) =>
      Cardinality(cast[t].owed) <= cast[t].removed

\* The socket of a client that has left leaves the list.
LeaversAreForgotten == \A c \in Clients : sock[c] = "gone" ~> c \notin Range(conns)

\* While Redis stays up, the subscriber is listening again and again, and the
\* channel is emptied again and again.
UpdatesKeepFlowing ==
    <>[]redis => []<>(sub = "listening" /\ channel = <<>>)
=============================================================================
