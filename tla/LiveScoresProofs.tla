-------------------------- MODULE LiveScoresProofs --------------------------
(***************************************************************************)
(* Theorems about LiveScores, for every set of clients and every capacity: *)
(* type correctness, that the capacity is exceeded only by sockets that    *)
(* were being accepted together, that one sender delivers in order and     *)
(* once, and how many clients a broadcast can pass over.                   *)
(***************************************************************************)
EXTENDS LiveScores, FiniteSetTheorems, TLAPS

(***************************************************************************)
(* The inductive invariants.  A socket that is not connected is not in the *)
(* list and has an empty history; an iteration starts at index 1.          *)
(***************************************************************************)
Unlistable == {"closed", "accepting"}
ListOK ==
    /\ \A i \in 1..Len(conns) : sock[conns[i]] \notin Unlistable
    /\ \A c \in Clients : sock[c] \in Unlistable => inbox[c] = <<>>
    /\ \A t \in Tasks : cast[t].next >= 1

IInv == TypeOK /\ ListOK

\* Connections that are open or being opened, against the capacity.
CrowdInv == crowd = 0 => Len(conns) = 0 /\ Accepting = {}

\* With one sender t: its clients know no update newer than the one it sends,
\* those still ahead of its index only older ones; what waits in the channel
\* is newer than what the subscriber has sent.
Older(q, u) == \A i \in 1..Len(q) : q[i] < u
Rising(q) == \A i, j \in 1..Len(q) : i < j => q[i] < q[j]

InTime(x, s, box) ==
    /\ \A c \in Clients : Older(box[c], x.update + 1)
    /\ \A k \in 1..Len(s) : k >= x.next => Older(box[s[k]], x.update)
Waiting == Rising(channel) /\ Older(channel, published + 1)
NothingMissed ==
    paths \subseteq {"subscriber"} =>
      \A i \in 1..Len(channel) : /\ \A c \in Clients : Older(inbox[c], channel[i])
                                 /\ cast["subscriber"].update < channel[i]
Sending(t) ==
    /\ cast[t].update <= published /\ (Busy(t) => t \in paths)
    /\ paths \subseteq {t} /\ Busy(t) => InTime(cast[t], conns, inbox)
    /\ paths \subseteq {t} => \A c \in Clients : Rising(inbox[c])
OrderInv ==
    /\ Waiting /\ NothingMissed
    /\ \A c \in Clients : Older(inbox[c], published + 1)
    /\ \A t \in Tasks : Sending(t)

\* The clients before the index of an iteration; those of them to whom it has
\* sent nothing are lost to it, and are no more than the removals since.
Passed(s, n) == {s[k] : k \in {j \in 1..Len(s) : j < n}}
Lost(o, s, n) == o \cap Passed(s, n)
SkipOK(x, s) ==
    x.owed \subseteq Range(s) /\ Cardinality(Lost(x.owed, s, x.next)) <= x.removed
SkipInv == \A t \in Tasks : Busy(t) => SkipOK(cast[t], conns)

-----------------------------------------------------------------------------
(* The list without some sockets *)

\* The members of a set of numbers have places in it, from 1 on, and no place
\* is greater than its number.
LEMMA NthShape ==
  ASSUME NEW N \in Nat, NEW I \in SUBSET (1..N)
  PROVE  /\ Cardinality(I) \in 0..N
         /\ \A n \in 1..Cardinality(I) :
              /\ NthOf(I, n) \in I /\ n <= NthOf(I, n)
              /\ Cardinality({k \in I : k <= NthOf(I, n)}) = n
         /\ \A i \in I : \E n \in 1..Cardinality(I) : n <= i /\ NthOf(I, n) = i
  <1> DEFINE R(i) == {k \in I : k <= i}
             m == Cardinality(I)
  <1>1. IsFiniteSet(I) /\ m \in 0..N
    <2>1. IsFiniteSet(1..N) /\ Cardinality(1..N) = N
      BY FS_Interval
    <2>2. IsFiniteSet(I) /\ m <= N
      BY <2>1, FS_Subset
    <2>3. m \in Nat
      BY <2>2, FS_CardinalityType
    <2> HIDE DEF m
    <2> QED BY <2>2, <2>3
  <1>0. \A i \in I : i \in Nat /\ 1 <= i
    OBVIOUS
  <1>2. ASSUME NEW i \in I
        PROVE  IsFiniteSet(R(i)) /\ Cardinality(R(i)) \in 1..m /\ Cardinality(R(i)) <= i
    <2>1. IsFiniteSet(R(i)) /\ Cardinality(R(i)) <= m /\ Cardinality(R(i)) \in Nat
      <3>1. R(i) \subseteq I
        OBVIOUS
      <3> QED BY <1>1, <3>1, FS_Subset, FS_CardinalityType
    <2>2. i \in R(i) /\ R(i) \subseteq 1..i /\ i \in Nat
      <3>1. \A k \in R(i) : k \in Nat /\ 1 <= k /\ k <= i
        BY <1>0
      <3>2. i \in R(i) /\ i \in Nat
        BY <1>0
      <3> HIDE DEF R
      <3> QED BY <3>1, <3>2
    <2>3. Cardinality(R(i)) # 0
      BY <2>1, <2>2, FS_EmptySet
    <2>4. IsFiniteSet(1..i) /\ Cardinality(1..i) = i
      BY <2>2, FS_Interval
    <2>5. Cardinality(R(i)) <= i
      BY <2>2, <2>4, FS_Subset
    <2> HIDE DEF R, m
    <2> QED BY <1>1, <2>1, <2>3, <2>5
  <1>3. ASSUME NEW i \in I, NEW j \in I, i < j
        PROVE  Cardinality(R(i)) # Cardinality(R(j))
    <2>1. R(i) \subseteq R(j) /\ j \in R(j) /\ j \notin R(i)
      <3>1. i \in Nat /\ j \in Nat
        BY <1>0
      <3>2. \A k \in R(i) : k \in R(j)
        BY <1>0, <1>3
      <3>3. j \in R(j)
        BY <3>1
      <3>4. j \notin R(i)
        BY <1>3, <3>1
      <3> HIDE DEF R
      <3> QED BY <3>2, <3>3, <3>4
    <2>2. R(i) # R(j) /\ IsFiniteSet(R(j))
      <3> HIDE DEF R
      <3> QED BY <1>2, <2>1
    <2> HIDE DEF R
    <2> QED BY <2>1, <2>2, FS_Subset
  <1> DEFINE r == [i \in I |-> Cardinality(R(i))]
  <1>4. r \in Injection(I, 1..m)
    <2>1. r \in [I -> 1..m]
      BY <1>2
    <2>2. ASSUME NEW i \in I, NEW j \in I, r[i] = r[j] PROVE i = j
      BY <1>3, <2>2
    <2> QED BY <2>1, <2>2 DEF Injection, IsInjective
  <1>5. r \in Surjection(I, 1..m)
    <2>1. IsFiniteSet(1..m) /\ Cardinality(1..m) = m
      BY <1>1, FS_Interval
    <2> HIDE DEF r, R
    <2> QED BY <1>4, <2>1, FS_Injection
  <1>6. ASSUME NEW n \in 1..m
        PROVE  /\ NthOf(I, n) \in I /\ n <= NthOf(I, n)
               /\ Cardinality(R(NthOf(I, n))) = n
    <2>1. \E i \in I : Cardinality(R(i)) = n
      BY <1>5 DEF Surjection
    <2>2. NthOf(I, n) \in I /\ Cardinality(R(NthOf(I, n))) = n
      BY <2>1 DEF NthOf
    <2> HIDE DEF R
    <2> QED BY <1>2, <2>2
  <1>7. ASSUME NEW i \in I
        PROVE  \E n \in 1..m : n <= i /\ NthOf(I, n) = i
    <2> DEFINE n == Cardinality(R(i))
    <2>1. n \in 1..m /\ n <= i
      BY <1>2
    <2>2. NthOf(I, n) \in I /\ Cardinality(R(NthOf(I, n))) = n
      BY <1>6, <2>1
    <2>3. ~(NthOf(I, n) < i) /\ ~(i < NthOf(I, n))
      <3> HIDE DEF R
      <3> QED BY <1>3, <2>2
    <2> HIDE DEF n, R
    <2>4. NthOf(I, n) = i
      <3>1. NthOf(I, n) \in Nat /\ i \in Nat
        BY <1>0, <2>2
      <3> QED BY <2>3, <3>1
    <2> QED BY <2>1, <2>4
  <1> QED BY <1>1, <1>6, <1>7

\* Without takes elements of the list from their place or a later one, each
\* at most once, and it leaves none out that is not in left.
LEMMA WithoutShape ==
  ASSUME TypeOK, NEW left
  PROVE  /\ Without(left) \in Seq(Clients)
         /\ Len(Without(left)) \in 0..Len(conns)
         /\ \A n \in 1..Len(Without(left)) : \E k \in 1..Len(conns) :
              n <= k /\ Without(left)[n] = conns[k] /\ conns[k] \notin left
         /\ \A i, j \in 1..Len(Without(left)) : Without(left)[i] = Without(left)[j] => i = j
         /\ \A k \in 1..Len(conns) : conns[k] \notin left =>
              \E n \in 1..Len(Without(left)) : n <= k /\ Without(left)[n] = conns[k]
  <1> DEFINE I == {i \in DOMAIN conns : conns[i] \notin left}
             m == Cardinality(I)
             w == Without(left)
  <1>1. Len(conns) \in Nat /\ DOMAIN conns = 1..Len(conns) /\ I \in SUBSET (1..Len(conns))
    BY DEF TypeOK
  <1>2. w = [n \in 1..m |-> conns[NthOf(I, n)]]
    BY DEF Without
  <1>3. \A i \in 1..Len(conns) : i \in I <=> conns[i] \notin left
    BY <1>1
  <1> HIDE DEF I, w
  <1>4. /\ m \in 0..Len(conns)
        /\ \A n \in 1..m : NthOf(I, n) \in I /\ n <= NthOf(I, n)
        /\ \A n \in 1..m : Cardinality({k \in I : k <= NthOf(I, n)}) = n
        /\ \A i \in I : \E n \in 1..m : n <= i /\ NthOf(I, n) = i
    BY <1>1, NthShape
  <1> HIDE DEF m
  <1>5. \A n \in 1..m : NthOf(I, n) \in 1..Len(conns) /\ w[n] = conns[NthOf(I, n)]
    BY <1>1, <1>2, <1>4
  <1>6. w \in Seq(Clients) /\ Len(w) = m
    <2>1. w \in [1..m -> Clients]
      BY <1>2, <1>5 DEF TypeOK
    <2> QED BY <1>4, <2>1
  <1>7. \A n \in 1..m : \E k \in 1..Len(conns) :
          n <= k /\ w[n] = conns[k] /\ conns[k] \notin left
    BY <1>3, <1>4, <1>5
  <1>8. ASSUME NEW i \in 1..m, NEW j \in 1..m, w[i] = w[j] PROVE i = j
    <2>1. NthOf(I, i) = NthOf(I, j)
      BY <1>5, <1>8 DEF TypeOK
    <2> QED BY <1>4, <2>1
  <1>9. \A k \in 1..Len(conns) : conns[k] \notin left => \E n \in 1..m : n <= k /\ w[n] = conns[k]
    BY <1>3, <1>4, <1>5
  <1> QED BY <1>4, <1>6, <1>7, <1>8, <1>9 DEF w

-----------------------------------------------------------------------------
(* What a step makes of the broadcasts *)

\* The listed clients are clients, and there are finitely many.
LEMMA RangeShape ==
  ASSUME TypeOK, NEW left
  PROVE  /\ Range(conns) \subseteq Clients
         /\ \A c : c \in Range(conns) <=> \E k \in 1..Len(conns) : conns[k] = c
         /\ IsFiniteSet(left \cap Range(conns)) /\ Cardinality(left \cap Range(conns)) \in Nat
         /\ Cardinality(Clients) \in Nat
  <1>1. DOMAIN conns = 1..Len(conns) /\ \A k \in 1..Len(conns) : conns[k] \in Clients
    BY DEF TypeOK
  <1>2. /\ Range(conns) \subseteq Clients
        /\ \A c : c \in Range(conns) <=> \E k \in 1..Len(conns) : conns[k] = c
    BY <1>1 DEF Range
  <1>3. left \cap Range(conns) \in SUBSET Clients
    BY <1>2
  <1>4. IsFiniteSet(left \cap Range(conns))
    BY <1>3, BoundsAssumption, FS_Subset
  <1> QED BY <1>2, <1>4, BoundsAssumption, FS_CardinalityType

\* A broadcast that knows of a removal goes on with the others.
LEMMA NotedShape ==
  ASSUME TypeOK, NEW left
  PROVE  /\ Noted(left) \in [Tasks -> Cast]
         /\ \A t \in Tasks :
              /\ Noted(left)[t].update = cast[t].update
              /\ Noted(left)[t].next = cast[t].next
              /\ Busy(t) => /\ Noted(left)[t].owed = cast[t].owed \ left
                            /\ Noted(left)[t].removed =
                                 Capped(cast[t].removed + Cardinality(left \cap Range(conns)))
  <1> DEFINE n == Cardinality(left \cap Range(conns))
  <1>1. n \in Nat /\ Cardinality(Clients) \in Nat
    BY RangeShape
  <1>2. ASSUME NEW t \in Tasks
        PROVE  /\ Noted(left)[t] \in Cast
               /\ Noted(left)[t].update = cast[t].update
               /\ Noted(left)[t].next = cast[t].next
               /\ Busy(t) => /\ Noted(left)[t].owed = cast[t].owed \ left
                             /\ Noted(left)[t].removed = Capped(cast[t].removed + n)
    <2> DEFINE x == cast[t]
               o == x.owed \ left
               s == x.stale \ left
               m == Capped(x.removed + n)
    <2>1. x \in Cast
      BY DEF TypeOK
    <2>2. CASE x.update = 0
      <3>1. Noted(left)[t] = x
        BY <2>2 DEF Noted
      <3> QED BY <2>1, <2>2, <3>1 DEF Busy
    <2>3. CASE x.update # 0
      <3>1. Noted(left)[t] = [x EXCEPT !.owed = o, !.stale = s, !.removed = m]
        BY <2>3 DEF Noted
      <3>2. o \in SUBSET Clients /\ s \in SUBSET Clients
        BY <2>1 DEF Cast
      <3>3. x.removed + n \in Nat
        BY <1>1, <2>1 DEF Cast
      <3>4. m \in Nat
        BY <1>1, <3>3 DEF Capped
      <3>5. x = cast[t] /\ o = cast[t].owed \ left /\ m = Capped(cast[t].removed + n)
        OBVIOUS
      <3> HIDE DEF x, o, s, m
      <3>6. [x EXCEPT !.owed = o, !.stale = s, !.removed = m] \in Cast
        BY <2>1, <3>2, <3>4 DEF Cast
      <3> QED BY <2>1, <3>1, <3>5, <3>6 DEF Cast
    <2> QED BY <2>2, <2>3
  <1>3. Noted(left) = [t \in Tasks |-> Noted(left)[t]]
    BY DEF Noted
  <1> QED BY <1>2, <1>3

LEMMA SameBusy ==
  ASSUME TypeOK, NEW left, NEW t \in Tasks
  PROVE  Noted(left)[t].update = cast[t].update /\ Noted(left)[t].next = cast[t].next
  <1>1. Noted(left)[t].update = cast[t].update
    BY NotedShape
  <1>2. Noted(left)[t].next = cast[t].next
    BY NotedShape
  <1> QED BY <1>1, <1>2

\* A send moves the index of its broadcast on, and only reaches a client whose
\* socket is open.
LEMMA SendShape ==
  ASSUME IInv, NEW t \in Tasks, Send(t)
  PROVE  /\ Busy(t) /\ cast[t].next \in 1..Len(conns) /\ conns[cast[t].next] \in Clients
         /\ cast' \in [Tasks -> Cast]
         /\ \A o \in Tasks : o # t => cast'[o] = cast[o]
         /\ cast'[t].update = cast[t].update /\ cast'[t].next = cast[t].next + 1
         /\ cast'[t].owed = cast[t].owed \ {conns[cast[t].next]}
         /\ cast'[t].removed = cast[t].removed
         /\ inbox' = IF sock[conns[cast[t].next]] = "open"
                       THEN [inbox EXCEPT ![conns[cast[t].next]] = Append(@, cast[t].update)]
                       ELSE inbox
  <1> DEFINE i == cast[t].next
             c == conns[i]
             x == cast[t]
  <1>1. Busy(t) /\ i \in 1..Len(conns) /\ c \in Clients /\ x \in Cast
    BY DEF IInv, TypeOK, ListOK, Send, Cast
  <1>2. PICK failed \in BOOLEAN :
          /\ cast' = [cast EXCEPT ![t].next = Following(i, failed),
                                  ![t].owed = @ \ {c},
                                  ![t].stale = IF failed THEN @ \cup {c} ELSE @]
          /\ inbox' = IF sock[c] = "open" THEN [inbox EXCEPT ![c] = Append(@, cast[t].update)]
                                          ELSE inbox
    BY DEF Send
  <1> DEFINE o == x.owed \ {c}
             s == IF failed THEN x.stale \cup {c} ELSE x.stale
             y == [x EXCEPT !.next = i + 1, !.owed = o, !.stale = s]
  <1>3. cast' = [cast EXCEPT ![t] = y]
    BY <1>2 DEF IInv, TypeOK, Following
  <1>4. i \in Nat /\ i + 1 \in Nat /\ o \in SUBSET Clients /\ s \in SUBSET Clients
    BY <1>1 DEF Cast
  <1>5. x = cast[t] /\ i = cast[t].next /\ o = cast[t].owed \ {conns[cast[t].next]}
    OBVIOUS
  <1>6. y \in Cast /\ y.update = x.update /\ y.next = i + 1 /\ y.owed = o /\ y.removed = x.removed
    <2> HIDE DEF x, i, o, s
    <2> QED BY <1>1, <1>4 DEF Cast
  <1> HIDE DEF y
  <1>7. cast' \in [Tasks -> Cast] /\ cast'[t] = y /\ \A r \in Tasks : r # t => cast'[r] = cast[r]
    BY <1>3, <1>6 DEF IInv, TypeOK
  <1> QED BY <1>1, <1>2, <1>5, <1>6, <1>7

\* A broadcast starts at the beginning of the list.
LEMMA StartingShape ==
  ASSUME TypeOK, NEW u \in Nat
  PROVE  /\ NoCast \in Cast /\ Starting(u) \in Cast /\ Starting(u).update = u
         /\ Starting(u).next = 1 /\ Starting(u).owed = Range(conns) /\ Starting(u).removed = 0
  <1>1. Range(conns) \in SUBSET Clients
    BY RangeShape
  <1>2. NoCast \in Cast
    BY DEF NoCast, Cast
  <1> DEFINE q == Range(conns)
  <1>3. Starting(u) = [NoCast EXCEPT !.update = u, !.owed = q]
    BY DEF Starting
  <1> HIDE DEF q
  <1> QED BY <1>1, <1>2, <1>3 DEF Cast, NoCast, q
-----------------------------------------------------------------------------
(* Type correctness *)

LEMMA InitIInv == ASSUME Init PROVE IInv
  <1>1. NoCast \in Cast /\ NoCast.next = 1
    BY DEF NoCast, Cast
  <1>2. conns = <<>> /\ Len(conns) = 0 /\ channel = <<>>
    BY DEF Init
  <1>3. TypeOK
    BY <1>1, <1>2 DEF Init, TypeOK, Tasks
  <1> QED BY <1>1, <1>2, <1>3 DEF Init, IInv, ListOK

LEMMA ConnectionIInv ==
  ASSUME IInv, NEW c \in Clients, Connect(c) \/ Accepted(c) \/ ClientLeaves(c)
  PROVE  IInv'
  <1>1. CASE Connect(c)
    <2>1. Accepting \in SUBSET Clients
      BY DEF Accepting
    <2>2. Cardinality(Accepting) \in Nat
      BY <2>1, BoundsAssumption, FS_Subset, FS_CardinalityType
    <2>3. crowd' \in Nat
      BY <1>1, <2>2 DEF Connect, IInv, TypeOK
    <2>4. sock' = [sock EXCEPT ![c] = "accepting"]
      BY <1>1 DEF Connect
    <2>5. TypeOK'
      BY <1>1, <2>3, <2>4 DEF Connect, IInv, TypeOK
    <2>6. \A i \in 1..Len(conns) : conns[i] # c
      BY <1>1 DEF Connect, IInv, ListOK, Unlistable
    <2>7. ListOK'
      BY <1>1, <2>4, <2>6 DEF Connect, IInv, TypeOK, ListOK, Unlistable
    <2> QED BY <2>5, <2>7 DEF IInv
  <1>2. CASE Accepted(c)
    <2>1. \A i \in 1..Len(conns) : conns[i] # c
      BY <1>2 DEF Accepted, IInv, ListOK, Unlistable
    <2>2. /\ conns \in Seq(Clients) /\ conns' = Append(conns, c)
          /\ sock' = [sock EXCEPT ![c] = "open"]
      BY <1>2 DEF Accepted, Added, IInv, TypeOK
    <2>3. /\ conns' \in Seq(Clients) /\ Len(conns') = Len(conns) + 1 /\ Len(conns) \in Nat
          /\ \A i \in 1..Len(conns) : conns'[i] = conns[i]
          /\ conns'[Len(conns) + 1] = c
      BY <2>2
    <2>4. \A i, j \in 1..Len(conns') : conns'[i] = conns'[j] => i = j
      <3>1. \A i, j \in 1..Len(conns) : conns[i] = conns[j] => i = j
        BY DEF IInv, TypeOK
      <3>2. \A i \in 1..Len(conns') :
              \/ i \in 1..Len(conns) /\ conns'[i] = conns[i] /\ conns'[i] # c
              \/ i = Len(conns) + 1 /\ conns'[i] = c
        BY <2>1, <2>3
      <3> QED BY <3>1, <3>2
    <2>5. TypeOK'
      BY <1>2, <2>2, <2>3, <2>4 DEF Accepted, IInv, TypeOK
    <2>6. \A i \in 1..Len(conns') : sock'[conns'[i]] \notin Unlistable
      BY <2>1, <2>2, <2>3 DEF IInv, TypeOK, ListOK, Unlistable
    <2>7. ListOK'
      BY <1>2, <2>2, <2>6 DEF Accepted, IInv, TypeOK, ListOK, Unlistable
    <2> QED BY <2>5, <2>7 DEF IInv
  <1>3. CASE ClientLeaves(c)
    <2>1. sock' = [sock EXCEPT ![c] = "gone"] /\ sock[c] = "open"
      BY <1>3 DEF ClientLeaves
    <2>2. TypeOK'
      BY <1>3, <2>1 DEF ClientLeaves, IInv, TypeOK
    <2>3. ListOK'
      BY <1>3, <2>1 DEF ClientLeaves, IInv, TypeOK, ListOK, Unlistable
    <2> QED BY <2>2, <2>3 DEF IInv
  <1> QED BY <1>1, <1>2, <1>3

LEMMA HandlerIInv ==
  ASSUME IInv, NEW c \in Clients, HandlerEnds(c)
  PROVE  IInv'
  <1> DEFINE w == Without({c})
  <1>1. /\ conns' = w /\ cast' = Noted({c}) /\ sock' = [sock EXCEPT ![c] = "closed"]
        /\ inbox' = [inbox EXCEPT ![c] = <<>>]
        /\ UNCHANGED <<worker, published, redis, channel, sub, crowd, paths>>
    BY DEF HandlerEnds, Unlisted
  <1>2. /\ w \in Seq(Clients) /\ Len(w) \in 0..Len(conns)
        /\ \A n \in 1..Len(w) : \E k \in 1..Len(conns) : w[n] = conns[k] /\ conns[k] \notin {c}
        /\ \A i, j \in 1..Len(w) : w[i] = w[j] => i = j
    <2> DEFINE left == {c}
    <2>1. TypeOK /\ w = Without(left)
      BY DEF IInv
    <2> HIDE DEF w, left
    <2>2. /\ w \in Seq(Clients) /\ Len(w) \in 0..Len(conns)
          /\ \A n \in 1..Len(w) : \E k \in 1..Len(conns) : w[n] = conns[k] /\ conns[k] \notin left
          /\ \A i, j \in 1..Len(w) : w[i] = w[j] => i = j
      BY <2>1, WithoutShape
    <2> QED BY <2>2 DEF left
  <1> HIDE DEF w
  <1>3. Noted({c}) \in [Tasks -> Cast] /\ \A t \in Tasks : Noted({c})[t].next = cast[t].next
    <2> DEFINE left == {c}
    <2>1. TypeOK
      BY DEF IInv
    <2> HIDE DEF left
    <2>2. Noted(left) \in [Tasks -> Cast] /\ \A t \in Tasks : Noted(left)[t].next = cast[t].next
      BY <2>1, NotedShape
    <2> QED BY <2>2 DEF left
  <1>4. TypeOK'
    <2>1. sock' \in [Clients -> {"closed", "accepting", "open", "gone"}]
      BY <1>1 DEF IInv, TypeOK
    <2>2. inbox' \in [Clients -> Seq(Nat)]
      BY <1>1 DEF IInv, TypeOK
    <2> QED BY <1>1, <1>2, <1>3, <2>1, <2>2 DEF IInv, TypeOK
  <1>5. ASSUME NEW i \in 1..Len(w)
        PROVE  sock'[w[i]] \notin Unlistable
    <2>1. PICK k \in 1..Len(conns) : w[i] = conns[k] /\ conns[k] # c
      BY <1>2
    <2>2. conns[k] \in Clients /\ sock[conns[k]] \notin Unlistable
      BY DEF IInv, TypeOK, ListOK
    <2> QED BY <1>1, <2>1, <2>2 DEF IInv, TypeOK
  <1>6. ListOK'
    BY <1>1, <1>3, <1>5 DEF IInv, TypeOK, ListOK, Unlistable
  <1> QED BY <1>4, <1>6 DEF IInv

LEMMA SendIInv ==
  ASSUME IInv, NEW t \in Tasks, Send(t)
  PROVE  IInv'
  <1> DEFINE c == conns[cast[t].next]
             q == Append(inbox[c], cast[t].update)
  <1>1. /\ cast[t].next \in 1..Len(conns) /\ c \in Clients /\ cast' \in [Tasks -> Cast]
        /\ \A o \in Tasks : o # t => cast'[o] = cast[o]
        /\ cast'[t].next = cast[t].next + 1
        /\ inbox' = IF sock[c] = "open" THEN [inbox EXCEPT ![c] = q] ELSE inbox
    BY SendShape DEF IInv, TypeOK
  <1>2. q \in Seq(Nat)
    BY <1>1 DEF IInv, TypeOK, Cast
  <1> HIDE DEF c, q
  <1>3. TypeOK'
    BY <1>1, <1>2 DEF Send, IInv, TypeOK
  <1>4. ListOK'
    BY <1>1 DEF Send, IInv, TypeOK, ListOK, Unlistable
  <1> QED BY <1>3, <1>4 DEF IInv

\* After the iteration the others go on with a shorter list.
LEMMA FinishShape ==
  ASSUME TypeOK, NEW t \in Tasks, Finish(t)
  PROVE  /\ conns' = Without(cast[t].stale)
         /\ cast' \in [Tasks -> Cast] /\ cast'[t] = NoCast
         /\ \A o \in Tasks : o # t => cast'[o] = Noted(cast[t].stale)[o]
  <1> DEFINE n == Noted(cast[t].stale)
  <1>1. n \in [Tasks -> Cast] /\ NoCast \in Cast
    BY NotedShape, StartingShape
  <1>2. cast' = [n EXCEPT ![t] = NoCast] /\ conns' = Without(cast[t].stale)
    BY DEF Finish
  <1> HIDE DEF n
  <1>3. cast' \in [Tasks -> Cast] /\ cast'[t] = NoCast /\ \A o \in Tasks : o # t => cast'[o] = n[o]
    BY <1>1, <1>2
  <1> QED BY <1>2, <1>3 DEF n

LEMMA FinishIInv ==
  ASSUME IInv, NEW t \in Tasks, Finish(t)
  PROVE  IInv'
  <1> DEFINE left == cast[t].stale
             w == Without(left)
  <1>1. /\ conns' = w /\ cast' \in [Tasks -> Cast] /\ cast'[t] = NoCast
        /\ \A o \in Tasks : o # t => cast'[o] = Noted(left)[o]
    BY FinishShape DEF IInv
  <1>2. \A o \in Tasks : Noted(left)[o].next = cast[o].next
    BY NotedShape DEF IInv
  <1>3. /\ w \in Seq(Clients) /\ Len(w) \in 0..Len(conns)
        /\ \A n \in 1..Len(w) : \E k \in 1..Len(conns) : w[n] = conns[k]
        /\ \A i, j \in 1..Len(w) : w[i] = w[j] => i = j
    BY WithoutShape DEF IInv
  <1> HIDE DEF w, left
  <1>4. TypeOK'
    BY <1>1, <1>3 DEF Finish, IInv, TypeOK
  <1>5. \A i \in 1..Len(w) : sock[w[i]] \notin Unlistable
    BY <1>3 DEF IInv, ListOK
  <1>6. \A o \in Tasks : cast'[o].next >= 1
    BY <1>1, <1>2 DEF IInv, ListOK, NoCast
  <1>7. ListOK'
    BY <1>1, <1>5, <1>6 DEF Finish, IInv, ListOK
  <1> QED BY <1>4, <1>7 DEF IInv

LEMMA PublishIInv ==
  ASSUME IInv, Publish \/ PublishDirectly
  PROVE  IInv'
  <1> DEFINE u == published + 1
  <1>1. u \in Nat /\ Append(channel, u) \in Seq(Nat) /\ channel \in Seq(Nat)
    BY DEF IInv, TypeOK
  <1>2. Starting(u) \in Cast /\ Starting(u).next = 1
    BY <1>1, StartingShape DEF IInv
  <1>3. \/ cast' = cast /\ paths' = paths
        \/ cast' = [cast EXCEPT !["job"] = Starting(u)] /\ paths' = paths \cup {"job"}
    BY DEF Publish, PublishDirectly
  <1>4. /\ published' = u /\ channel' \in {channel, Append(channel, u)}
        /\ UNCHANGED <<sock, conns, worker, redis, sub, inbox, crowd>>
    BY DEF Publish, PublishDirectly
  <1> HIDE DEF u
  <1>5. cast' \in [Tasks -> Cast] /\ \A t \in Tasks : cast'[t].next >= 1
    BY <1>2, <1>3 DEF IInv, TypeOK, ListOK, Tasks
  <1>6. TypeOK'
    BY <1>1, <1>3, <1>4, <1>5 DEF IInv, TypeOK, Tasks
  <1>7. ListOK'
    BY <1>4, <1>5 DEF IInv, ListOK
  <1> QED BY <1>6, <1>7 DEF IInv

LEMMA SubscriberIInv ==
  ASSUME IInv, Subscribe \/ Receive \/ Retry \/ RedisChanges \/ Restart
  PROVE  IInv'
  <1>1. CASE Receive
    <2>1. channel \in Seq(Nat) /\ channel # <<>>
      BY <1>1 DEF Receive, IInv, TypeOK
    <2>2. Head(channel) \in Nat /\ Tail(channel) \in Seq(Nat)
      BY <2>1
    <2>3. Starting(Head(channel)) \in Cast /\ Starting(Head(channel)).next = 1
      BY <2>2, StartingShape DEF IInv
    <2>4. TypeOK'
      BY <1>1, <2>2, <2>3 DEF Receive, IInv, TypeOK, Tasks
    <2>5. ListOK'
      BY <1>1, <2>3 DEF Receive, IInv, TypeOK, ListOK, Tasks
    <2> QED BY <2>4, <2>5 DEF IInv
  <1>2. CASE Restart
    <2>1. NoCast \in Cast /\ NoCast.next = 1
      BY DEF NoCast, Cast
    <2>2. conns' = <<>> /\ Len(conns') = 0 /\ channel' = <<>>
      BY <1>2 DEF Restart
    <2>3. TypeOK'
      BY <1>2, <2>1, <2>2 DEF Restart, IInv, TypeOK, Tasks
    <2> QED BY <1>2, <2>1, <2>2, <2>3 DEF Restart, IInv, ListOK
  <1>3. CASE Subscribe \/ Retry \/ RedisChanges
    <2>1. TypeOK'
      <3>1. redis' \in BOOLEAN
        BY <1>3 DEF Subscribe, Retry, RedisChanges, IInv, TypeOK
      <3>2. sub' \in {"connecting", "listening", "cut"} /\ channel' \in Seq(Nat)
        <4>1. sub \in {"connecting", "listening", "cut"} /\ channel \in Seq(Nat)
          BY DEF IInv, TypeOK
        <4>2. <<>> \in Seq(Nat)
          OBVIOUS
        <4> QED BY <1>3, <4>1, <4>2 DEF Subscribe, Retry, RedisChanges, AfterError
      <3> QED BY <1>3, <3>1, <3>2 DEF Subscribe, Retry, RedisChanges, IInv, TypeOK
    <2>2. ListOK'
      BY <1>3 DEF Subscribe, Retry, RedisChanges, IInv, ListOK
    <2> QED BY <2>1, <2>2 DEF IInv
  <1> QED BY <1>1, <1>2, <1>3

LEMMA NextIInv == ASSUME IInv, [Next]_vars PROVE IInv'
  <1>1. CASE UNCHANGED vars
    BY <1>1 DEF vars, IInv, TypeOK, ListOK
  <1> QED BY <1>1, ConnectionIInv, HandlerIInv, SendIInv, FinishIInv, PublishIInv,
             SubscriberIInv DEF Next

THEOREM Invariance == Spec => []IInv
  <1>1. Init => IInv
    BY InitIInv
  <1>2. IInv /\ [Next]_vars => IInv'
    BY NextIInv
  <1> QED BY <1>1, <1>2, PTL DEF Spec

\* All variables have their types, and no socket is listed twice.
THEOREM TypeCorrect == Spec => []TypeOK
  BY Invariance, PTL DEF IInv
-----------------------------------------------------------------------------
(* The capacity *)

LEMMA AcceptingShape ==
  ASSUME TypeOK
  PROVE  /\ IsFiniteSet(Accepting) /\ Cardinality(Accepting) \in Nat
         /\ \A c \in Clients : /\ sock[c] # "accepting" =>
                                    Cardinality(Accepting \cup {c}) = Cardinality(Accepting) + 1
                               /\ sock[c] = "accepting" =>
                                    Cardinality(Accepting \ {c}) = Cardinality(Accepting) - 1
  <1>1. Accepting \in SUBSET Clients
    BY DEF Accepting
  <1>2. IsFiniteSet(Accepting) /\ Cardinality(Accepting) \in Nat
    BY <1>1, BoundsAssumption, FS_Subset, FS_CardinalityType
  <1>3. \A c \in Clients : c \in Accepting <=> sock[c] = "accepting"
    BY DEF Accepting
  <1> QED BY <1>2, <1>3, FS_AddElement, FS_RemoveElement

LEMMA CrowdStep ==
  ASSUME IInv, CrowdInv, OvershootIsBounded, [Next]_vars
  PROVE  CrowdInv' /\ OvershootIsBounded'
  <1> DEFINE a == Cardinality(Accepting)
             n == Len(conns)
  <1>1. a \in Nat /\ n \in Nat /\ crowd \in Nat /\ MaxClients \in Nat
    BY AcceptingShape, BoundsAssumption DEF IInv, TypeOK
  <1>2. /\ crowd = 0 => n = 0 /\ Accepting = {}
        /\ n + a <= MaxClients + (IF crowd = 0 THEN 0 ELSE crowd - 1)
    BY DEF CrowdInv, OvershootIsBounded
  <1>3. CASE UNCHANGED <<sock, conns, crowd>>
    BY <1>3 DEF CrowdInv, OvershootIsBounded, Accepting
  <1>4. ASSUME NEW c \in Clients, Connect(c)
        PROVE  CrowdInv' /\ OvershootIsBounded'
    <2>1. Accepting' = Accepting \cup {c} /\ sock[c] # "accepting"
      BY <1>4 DEF Connect, Accepting, IInv, TypeOK
    <2>2. Cardinality(Accepting') = a + 1
      BY <2>1, AcceptingShape DEF IInv
    <2>3. conns' = conns /\ n < MaxClients /\ crowd' = IF a + 1 > crowd THEN a + 1 ELSE crowd
      BY <1>4 DEF Connect, HasRoom
    <2> HIDE DEF a, n
    <2>4. crowd' >= a + 1 /\ crowd' \in Nat /\ crowd' # 0
      BY <1>1, <2>3
    <2>5. CrowdInv'
      BY <2>4 DEF CrowdInv
    <2>6. n + (a + 1) <= MaxClients + (crowd' - 1)
      BY <1>1, <2>3, <2>4
    <2>7. Len(conns') = n
      BY <2>3 DEF n
    <2>8. OvershootIsBounded'
      BY <2>2, <2>4, <2>6, <2>7 DEF OvershootIsBounded
    <2> QED BY <2>5, <2>8
  <1>5. ASSUME NEW c \in Clients, Accepted(c)
        PROVE  CrowdInv' /\ OvershootIsBounded'
    <2>1. Accepting' = Accepting \ {c} /\ sock[c] = "accepting" /\ c \in Accepting
      BY <1>5 DEF Accepted, Accepting, IInv, TypeOK
    <2>2. Cardinality(Accepting') = a - 1
      BY <2>1, AcceptingShape DEF IInv
    <2>3. conns' = Append(conns, c) /\ crowd' = crowd
      BY <1>5 DEF Accepted, Added
    <2>4. Len(conns') = n + 1
      BY <2>3 DEF IInv, TypeOK
    <2> HIDE DEF a, n
    <2>5. crowd # 0
      BY <1>2, <2>1
    <2> QED BY <1>1, <1>2, <2>2, <2>3, <2>4, <2>5 DEF CrowdInv, OvershootIsBounded
  <1>6. ASSUME Accepting' = Accepting, Len(conns') \in 0..n, crowd' = crowd
        PROVE  CrowdInv' /\ OvershootIsBounded'
    <2>1. Cardinality(Accepting') = a
      BY <1>6
    <2> HIDE DEF a, n
    <2> QED BY <1>1, <1>2, <1>6, <2>1 DEF CrowdInv, OvershootIsBounded
  <1>7. ASSUME NEW c \in Clients, ClientLeaves(c) \/ HandlerEnds(c)
        PROVE  CrowdInv' /\ OvershootIsBounded'
    <2>1. Accepting' = Accepting /\ crowd' = crowd
      BY <1>7 DEF ClientLeaves, HandlerEnds, Accepting, IInv, TypeOK
    <2>2. Len(conns') \in 0..n
      BY <1>1, <1>7, WithoutShape DEF ClientLeaves, HandlerEnds, Unlisted, IInv
    <2> QED BY <1>6, <2>1, <2>2
  <1>8. ASSUME NEW t \in Tasks, Finish(t)
        PROVE  CrowdInv' /\ OvershootIsBounded'
    <2>1. Accepting' = Accepting /\ crowd' = crowd
      BY <1>8 DEF Finish, Accepting
    <2>2. Len(conns') \in 0..n
      BY <1>8, WithoutShape DEF Finish, IInv
    <2> QED BY <1>6, <2>1, <2>2
  <1>9. CASE Restart
    <2>1. Accepting' = {} /\ crowd' = crowd /\ Len(conns') = 0
      BY <1>9 DEF Restart, Accepting
    <2>2. Cardinality(Accepting') = 0
      BY <2>1, FS_EmptySet
    <2> HIDE DEF a, n
    <2> QED BY <1>1, <1>2, <2>1, <2>2 DEF CrowdInv, OvershootIsBounded
  <1>10. (\E t \in Tasks : Send(t)) \/ Publish \/ PublishDirectly \/ Subscribe \/ Receive
           \/ Retry \/ RedisChanges \/ UNCHANGED vars
           => UNCHANGED <<sock, conns, crowd>>
    BY DEF Send, Publish, PublishDirectly, Subscribe, Receive, Retry, RedisChanges, vars
  <1> QED BY <1>3, <1>4, <1>5, <1>7, <1>8, <1>9, <1>10 DEF Next

\* However many sockets connect while others are still being accepted, the
\* list exceeds the capacity by no more than were accepted together, less one.
THEOREM OvershootAlwaysBounded == Spec => []OvershootIsBounded
  <1>1. Init => CrowdInv /\ OvershootIsBounded
    <2> SUFFICES ASSUME Init PROVE CrowdInv /\ OvershootIsBounded
      OBVIOUS
    <2>1. Accepting = {} /\ Len(conns) = 0 /\ crowd = 0
      BY DEF Init, Accepting
    <2>2. Cardinality(Accepting) = 0
      BY <2>1, FS_EmptySet
    <2> QED BY <2>1, <2>2, BoundsAssumption DEF CrowdInv, OvershootIsBounded
  <1>2. IInv /\ CrowdInv /\ OvershootIsBounded /\ [Next]_vars => (CrowdInv /\ OvershootIsBounded)'
    BY CrowdStep
  <1> QED BY <1>1, <1>2, Invariance, PTL DEF Spec
-----------------------------------------------------------------------------
(* Clients a broadcast passes over *)

\* As many clients are passed as the index has passed places of the list.
LEMMA PassedShape ==
  ASSUME NEW s \in Seq(Clients), NEW n \in Nat \ {0},
         \A i, j \in 1..Len(s) : s[i] = s[j] => i = j
  PROVE  /\ IsFiniteSet(Passed(s, n))
         /\ Cardinality(Passed(s, n)) = IF Len(s) < n THEN Len(s) ELSE n - 1
  <1> DEFINE b == IF Len(s) < n THEN Len(s) ELSE n - 1
             f == [k \in 1..b |-> s[k]]
  <1>1. b \in Nat /\ Len(s) \in Nat /\ \A k : k \in 1..b <=> k \in 1..Len(s) /\ k < n
    OBVIOUS
  <1>2. IsFiniteSet(1..b) /\ Cardinality(1..b) = b
    <2> HIDE DEF b
    <2> QED BY <1>1, FS_Interval
  <1> HIDE DEF b
  <1>3. f \in [1..b -> Passed(s, n)]
    BY <1>1 DEF Passed
  <1>4. \A c \in Passed(s, n) : \E k \in 1..b : f[k] = c
    BY <1>1 DEF Passed
  <1>5. \A i, j \in 1..b : f[i] = f[j] => i = j
    BY <1>1
  <1>6. f \in Surjection(1..b, Passed(s, n)) /\ f \in Injection(1..b, Passed(s, n))
    BY <1>3, <1>4, <1>5 DEF Surjection, Injection, IsInjective
  <1> HIDE DEF f
  <1>7. IsFiniteSet(Passed(s, n)) /\ Cardinality(Passed(s, n)) = b
    BY <1>2, <1>6, FS_Surjection
  <1> QED BY <1>7 DEF b

\* A removal moves no more clients behind the index than it takes away.
LEMMA PassedByRemoval ==
  ASSUME TypeOK, NEW left, NEW n \in Nat \ {0}
  PROVE  Cardinality(Passed(Without(left), n) \ Passed(conns, n))
           <= Cardinality(left \cap Range(conns))
  <1> DEFINE w == Without(left)
             P == Passed(conns, n)
             Q == Passed(w, n)
             L == left \cap Range(conns)
  <1>1. /\ w \in Seq(Clients) /\ Len(w) \in 0..Len(conns)
        /\ \A i, j \in 1..Len(w) : w[i] = w[j] => i = j
        /\ \A k \in 1..Len(conns) : conns[k] \notin left =>
             \E m \in 1..Len(w) : m <= k /\ w[m] = conns[k]
    BY WithoutShape
  <1>2. IsFiniteSet(L) /\ Cardinality(L) \in Nat
    BY RangeShape
  <1>3. P \cap left \subseteq L
    BY DEF Passed, Range, TypeOK
  <1> HIDE DEF w
  <1>4. P \ left \subseteq Q
    <2> SUFFICES ASSUME NEW k \in 1..Len(conns), k < n, conns[k] \notin left
                 PROVE  conns[k] \in Q
      BY DEF Passed
    <2>1. PICK m \in 1..Len(w) : m <= k /\ w[m] = conns[k]
      BY <1>1
    <2>2. m < n
      BY <2>1
    <2> QED BY <2>1, <2>2 DEF Passed
  <1>5. IsFiniteSet(P) /\ Cardinality(P) = IF Len(conns) < n THEN Len(conns) ELSE n - 1
    BY PassedShape DEF TypeOK
  <1>6. IsFiniteSet(Q) /\ Cardinality(Q) = IF Len(w) < n THEN Len(w) ELSE n - 1
    BY <1>1, PassedShape
  <1>7. Cardinality(Q) <= Cardinality(P) /\ Cardinality(P) \in Nat /\ Cardinality(Q) \in Nat
    BY <1>1, <1>5, <1>6 DEF TypeOK
  <1> HIDE DEF P, Q, L
  <1>8. Cardinality(P \ left) = Cardinality(P) - Cardinality(P \cap left)
    BY <1>5, FS_Difference
  <1>9. Cardinality(Q \ P) = Cardinality(Q) - Cardinality(Q \cap P)
    BY <1>6, FS_Difference
  <1>10. Cardinality(P \ left) <= Cardinality(Q \cap P)
    <2>1. P \ left \subseteq Q \cap P /\ IsFiniteSet(Q \cap P)
      BY <1>4, <1>6, FS_Intersection
    <2> QED BY <2>1, FS_Subset
  <1>11. Cardinality(P \cap left) <= Cardinality(L)
    BY <1>2, <1>3, FS_Subset
  <1>12. /\ Cardinality(P \ left) \in Nat /\ Cardinality(Q \cap P) \in Nat
         /\ Cardinality(P \cap left) \in Nat
    <2>1. IsFiniteSet(P \ left) /\ IsFiniteSet(Q \cap P) /\ IsFiniteSet(P \cap left)
      BY <1>5, <1>6, FS_Difference, FS_Intersection
    <2> QED BY <2>1, FS_CardinalityType
  <1>13. Cardinality(Q \ P) <= Cardinality(L)
    BY <1>2, <1>7, <1>8, <1>9, <1>10, <1>11, <1>12
  <1> QED BY <1>13 DEF Q, P, L, w

\* Nor does it make the broadcast lose more than it counts.
LEMMA RemovalSkips ==
  ASSUME TypeOK, NEW left, NEW n \in Nat \ {0}, NEW m \in Nat, NEW o,
         o \subseteq Range(conns), Cardinality(Lost(o, conns, n)) <= m
  PROVE  /\ o \ left \subseteq Range(Without(left))
         /\ Cardinality(Lost(o \ left, Without(left), n))
              <= Capped(m + Cardinality(left \cap Range(conns)))
  <1> DEFINE w == Without(left)
             P == Passed(conns, n)
             Q == Passed(w, n)
             N == Cardinality(left \cap Range(conns))
             new == (o \ left) \cap Q
  <1>1. /\ w \in Seq(Clients) /\ Len(w) \in 0..Len(conns)
        /\ \A i, j \in 1..Len(w) : w[i] = w[j] => i = j
        /\ \A k \in 1..Len(conns) : conns[k] \notin left => \E i \in 1..Len(w) : w[i] = conns[k]
    BY WithoutShape
  <1>2. \A c : c \in Range(conns) <=> \E k \in 1..Len(conns) : conns[k] = c
    BY RangeShape
  <1>3. N \in Nat /\ Cardinality(Clients) \in Nat
    BY RangeShape
  <1>4. Cardinality(Q \ P) <= N
    BY PassedByRemoval
  <1> HIDE DEF w, N
  <1>5. o \ left \subseteq Range(w)
    <2>1. DOMAIN w = 1..Len(w)
      BY <1>1
    <2> QED BY <1>1, <1>2, <2>1 DEF Range
  <1>6. IsFiniteSet(P) /\ IsFiniteSet(Q)
    BY <1>1, PassedShape DEF TypeOK
  <1>7. new \subseteq (o \cap P) \cup (Q \ P)
    OBVIOUS
  <1>8. Q \subseteq Clients
    BY <1>1 DEF Passed
  <1>9. Cardinality(o \cap P) <= m
    BY DEF Lost
  <1> HIDE DEF P, Q
  <1>10. IsFiniteSet(o \cap P) /\ IsFiniteSet(Q \ P)
    BY <1>6, FS_Intersection, FS_Difference
  <1>11. /\ Cardinality(o \cap P) \in Nat /\ Cardinality(Q \ P) \in Nat
         /\ Cardinality((o \cap P) \cap (Q \ P)) \in Nat
    BY <1>10, FS_CardinalityType, FS_Intersection
  <1>12. /\ IsFiniteSet((o \cap P) \cup (Q \ P))
         /\ Cardinality((o \cap P) \cup (Q \ P))
              = Cardinality(o \cap P) + Cardinality(Q \ P) - Cardinality((o \cap P) \cap (Q \ P))
    BY <1>10, FS_Union
  <1>13. Cardinality(new) <= Cardinality((o \cap P) \cup (Q \ P)) /\ IsFiniteSet(new)
    BY <1>7, <1>12, FS_Subset
  <1>14. Cardinality(new) <= Cardinality(Clients)
    BY <1>8, BoundsAssumption, FS_Subset
  <1>15. Cardinality(new) \in Nat
    BY <1>13, FS_CardinalityType
  <1> HIDE DEF new
  <1>16. Cardinality(new) <= m + N
    BY <1>3, <1>4, <1>9, <1>11, <1>12, <1>13, <1>15
  <1>17. Cardinality(new) <= Capped(m + N)
    BY <1>3, <1>14, <1>15, <1>16 DEF Capped
  <1> QED BY <1>5, <1>17 DEF Lost, new, w, Q, N
LEMMA SkipStart ==
  ASSUME TypeOK, NEW u \in Nat
  PROVE  SkipOK(Starting(u), conns)
  <1>1. Passed(conns, 1) = {}
    BY DEF Passed
  <1>2. Lost(Range(conns), conns, 1) = {} /\ Cardinality({}) = 0
    BY <1>1, FS_EmptySet DEF Lost
  <1> QED BY <1>2, StartingShape DEF SkipOK

LEMMA SkipRemoval ==
  ASSUME IInv, SkipInv, NEW left, NEW t \in Tasks, Busy(t)
  PROVE  SkipOK(Noted(left)[t], Without(left))
  <1> DEFINE x == cast[t]
             y == Noted(left)[t]
             m == x.removed
  <1>1. x \in Cast /\ x.next \in Nat \ {0} /\ m \in Nat
    BY DEF IInv, TypeOK, ListOK, Cast
  <1>2. /\ y.next = x.next /\ y.owed = x.owed \ left
        /\ y.removed = Capped(m + Cardinality(left \cap Range(conns)))
    BY NotedShape DEF IInv
  <1>3. x.owed \subseteq Range(conns) /\ Cardinality(Lost(x.owed, conns, x.next)) <= m
    BY DEF SkipInv, SkipOK
  <1>4. TypeOK
    BY DEF IInv
  <1> HIDE DEF x, y, m
  <1>5. /\ x.owed \ left \subseteq Range(Without(left))
        /\ Cardinality(Lost(x.owed \ left, Without(left), x.next))
             <= Capped(m + Cardinality(left \cap Range(conns)))
    BY <1>1, <1>3, <1>4, RemovalSkips
  <1>6. SkipOK(y, Without(left))
    BY <1>2, <1>5 DEF SkipOK
  <1> QED BY <1>6 DEF y

LEMMA SkipStep ==
  ASSUME IInv, SkipInv, [Next]_vars
  PROVE  SkipInv'
  <1>0. TypeOK
    BY DEF IInv
  <1>1. CASE UNCHANGED <<conns, cast>>
    BY <1>1 DEF SkipInv, Busy
  <1>2. ASSUME NEW c \in Clients, Accepted(c) PROVE SkipInv'
    <2>1. /\ conns' = Append(conns, c) /\ cast' = cast /\ conns \in Seq(Clients)
          /\ \A k \in 1..Len(conns) : conns[k] # c
      BY <1>2 DEF Accepted, Added, IInv, TypeOK, ListOK, Unlistable
    <2>2. /\ Len(conns') = Len(conns) + 1 /\ conns'[Len(conns) + 1] = c
          /\ \A k \in 1..Len(conns) : conns'[k] = conns[k]
          /\ DOMAIN conns' = 1..Len(conns) + 1 /\ DOMAIN conns = 1..Len(conns)
      BY <2>1
    <2>3. Range(conns) \subseteq Range(conns') /\ c \notin Range(conns)
      BY <2>1, <2>2 DEF Range
    <2>4. ASSUME NEW t \in Tasks, Busy(t) PROVE SkipOK(cast[t], conns')
      <3> DEFINE o == cast[t].owed
                 n == cast[t].next
      <3>1. o \subseteq Range(conns) /\ Cardinality(Lost(o, conns, n)) <= cast[t].removed
        BY <2>4 DEF SkipInv, SkipOK
      <3> HIDE DEF o, n
      <3>2. Passed(conns, n) \subseteq Passed(conns', n)
        BY <2>1, <2>2 DEF Passed
      <3>3. Passed(conns', n) \subseteq Passed(conns, n) \cup {c}
        BY <2>1, <2>2 DEF Passed
      <3>4. Lost(o, conns', n) = Lost(o, conns, n)
        BY <2>3, <3>1, <3>2, <3>3 DEF Lost
      <3> QED BY <2>3, <3>1, <3>4 DEF SkipOK, o, n
    <2> QED BY <2>1, <2>4 DEF SkipInv, Busy
  <1>3. ASSUME NEW c \in Clients, HandlerEnds(c) PROVE SkipInv'
    <2>1. conns' = Without({c}) /\ cast' = Noted({c})
      BY <1>3 DEF HandlerEnds, Unlisted
    <2>2. \A t \in Tasks : Noted({c})[t].update = cast[t].update
      BY <1>0, SameBusy
    <2> QED BY <2>1, <2>2, SkipRemoval DEF SkipInv, Busy
  <1>4. ASSUME NEW t \in Tasks, Finish(t) PROVE SkipInv'
    <2> DEFINE left == cast[t].stale
    <2>1. /\ conns' = Without(left) /\ cast'[t] = NoCast
          /\ \A o \in Tasks : o # t => cast'[o] = Noted(left)[o]
      BY <1>0, <1>4, FinishShape
    <2>2. \A o \in Tasks : Noted(left)[o].update = cast[o].update
      BY <1>0, SameBusy
    <2> HIDE DEF left
    <2> QED BY <2>1, <2>2, SkipRemoval DEF SkipInv, Busy, NoCast
  <1>5. ASSUME NEW t \in Tasks, Send(t) PROVE SkipInv'
    <2> DEFINE n == cast[t].next
               c == conns[n]
               o == cast[t].owed
    <2>1. /\ Busy(t) /\ n \in 1..Len(conns)
          /\ \A r \in Tasks : r # t => cast'[r] = cast[r]
          /\ cast'[t].next = n + 1 /\ cast'[t].owed = o \ {c}
          /\ cast'[t].removed = cast[t].removed /\ cast[t].removed \in Nat
      BY <1>5, SendShape DEF IInv, TypeOK, Cast
    <2>2. conns' = conns /\ conns \in Seq(Clients)
      BY <1>5 DEF Send, IInv, TypeOK
    <2>3. o \subseteq Range(conns) /\ Cardinality(Lost(o, conns, n)) <= cast[t].removed
      BY <2>1 DEF SkipInv, SkipOK
    <2>4. IsFiniteSet(Passed(conns, n))
      BY <1>0, <2>1, PassedShape DEF TypeOK
    <2>5. Passed(conns, n + 1) \subseteq Passed(conns, n) \cup {c}
      <3> HIDE DEF n
      <3> QED BY <2>1, <2>2 DEF Passed, c
    <2> HIDE DEF n, c, o
    <2>6. Lost(o \ {c}, conns, n + 1) \subseteq Lost(o, conns, n)
      BY <2>5 DEF Lost
    <2>7. IsFiniteSet(Lost(o, conns, n))
      BY <2>4, FS_Intersection DEF Lost
    <2>8. /\ Cardinality(Lost(o \ {c}, conns, n + 1)) <= Cardinality(Lost(o, conns, n))
          /\ Cardinality(Lost(o, conns, n)) \in Nat
          /\ Cardinality(Lost(o \ {c}, conns, n + 1)) \in Nat
      BY <2>6, <2>7, FS_Subset, FS_CardinalityType
    <2>9. Cardinality(Lost(o \ {c}, conns, n + 1)) <= cast[t].removed
      BY <2>1, <2>3, <2>8
    <2>10. SkipOK(cast'[t], conns)
      BY <2>1, <2>3, <2>9 DEF SkipOK
    <2> QED BY <2>1, <2>2, <2>10 DEF SkipInv, Busy
  <1>6. CASE Receive
    <2>1. Head(channel) \in Nat
      BY <1>0, <1>6 DEF Receive, TypeOK
    <2>2. SkipOK(Starting(Head(channel)), conns)
      BY <1>0, <2>1, SkipStart
    <2> QED BY <1>0, <1>6, <2>2 DEF Receive, SkipInv, Busy, TypeOK
  <1>7. CASE Publish \/ PublishDirectly
    <2>1. published + 1 \in Nat
      BY <1>0 DEF TypeOK
    <2>2. SkipOK(Starting(published + 1), conns)
      BY <1>0, <2>1, SkipStart
    <2> QED BY <1>0, <1>7, <2>2 DEF Publish, PublishDirectly, SkipInv, Busy, TypeOK
  <1>8. CASE Restart
    BY <1>8 DEF Restart, SkipInv, Busy, NoCast
  <1>9. (\E c \in Clients : Connect(c) \/ ClientLeaves(c)) \/ Subscribe \/ Retry \/ RedisChanges
          \/ UNCHANGED vars
          => UNCHANGED <<conns, cast>>
    BY DEF Connect, ClientLeaves, Subscribe, Retry, RedisChanges, vars
  <1> QED BY <1>1, <1>2, <1>3, <1>4, <1>5, <1>6, <1>7, <1>8, <1>9 DEF Next

\* A broadcast passes over no more of the clients that stay connected than
\* connections were taken out of the list while it walked over it.
THEOREM SkipsAlwaysBounded == Spec => []SkipsAreBounded
  <1>1. Init => SkipInv
    BY DEF Init, SkipInv, Busy, NoCast
  <1>2. IInv /\ SkipInv /\ [Next]_vars => SkipInv'
    BY SkipStep
  <1>3. IInv /\ SkipInv => SkipsAreBounded
    <2> SUFFICES ASSUME IInv, SkipInv, NEW t \in Tasks, Busy(t), cast[t].next > Len(conns)
                 PROVE  Cardinality(cast[t].owed) <= cast[t].removed
      BY DEF SkipsAreBounded
    <2>1. \A k \in 1..Len(conns) : k < cast[t].next
      BY DEF IInv, TypeOK, Cast
    <2>2. Range(conns) \subseteq Passed(conns, cast[t].next)
      BY <2>1 DEF Passed, Range, IInv, TypeOK
    <2>3. Lost(cast[t].owed, conns, cast[t].next) = cast[t].owed
      BY <2>2 DEF Lost, SkipInv, SkipOK
    <2> QED BY <2>3 DEF SkipInv, SkipOK
  <1> QED BY <1>1, <1>2, <1>3, Invariance, PTL DEF Spec
-----------------------------------------------------------------------------
(* Order of the updates *)

LEMMA AppendRising ==
  ASSUME NEW q \in Seq(Nat), NEW u \in Nat
  PROVE  /\ Append(q, u) \in Seq(Nat)
         /\ \A v : Older(q, v) /\ u < v => Older(Append(q, u), v)
         /\ Rising(q) /\ Older(q, u) => Rising(Append(q, u))
  <1>1. /\ Append(q, u) \in Seq(Nat) /\ Len(Append(q, u)) = Len(q) + 1 /\ Len(q) \in Nat
        /\ Append(q, u)[Len(q) + 1] = u /\ \A i \in 1..Len(q) : Append(q, u)[i] = q[i]
    OBVIOUS
  <1> DEFINE r == Append(q, u)
  <1>2. \A i \in 1..Len(r) : \/ i \in 1..Len(q) /\ r[i] = q[i]
                             \/ i = Len(q) + 1 /\ r[i] = u
    BY <1>1
  <1>3. r \in Seq(Nat)
    BY <1>1
  <1> HIDE DEF r
  <1>4. \A v : Older(q, v) /\ u < v => Older(r, v)
    BY <1>2 DEF Older
  <1>5. Rising(q) /\ Older(q, u) => Rising(r)
    BY <1>1, <1>2 DEF Older, Rising
  <1> QED BY <1>3, <1>4, <1>5 DEF r

\* A bound of a history can be raised.
LEMMA OlderWeaken ==
  ASSUME NEW q \in Seq(Nat), NEW u \in Nat, NEW v \in Nat, u <= v, Older(q, u)
  PROVE  Older(q, v)
  <1>1. \A i \in 1..Len(q) : q[i] \in Nat
    OBVIOUS
  <1> QED BY <1>1 DEF Older

LEMMA EmptyHistory ==
  ASSUME NEW u
  PROVE  Older(<<>>, u) /\ Rising(<<>>)
  BY DEF Older, Rising

\* A broadcast that is in time stays so when sockets leave the list and their
\* histories end.
LEMMA InTimeRemoval ==
  ASSUME TypeOK, NEW left, NEW t \in Tasks, NEW y, NEW box,
         InTime(cast[t], conns, inbox),
         y.update = cast[t].update, y.next = cast[t].next,
         \A c \in Clients : box[c] \in {inbox[c], <<>>}
  PROVE  InTime(y, Without(left), box)
  <1> DEFINE w == Without(left)
             u == cast[t].update
             n == cast[t].next
  <1>1. n \in Nat /\ Len(conns) \in Nat /\ \A k \in 1..Len(conns) : conns[k] \in Clients
    BY DEF TypeOK, Cast
  <1>2. /\ Len(w) \in 0..Len(conns)
        /\ \A i \in 1..Len(w) : \E k \in 1..Len(conns) : i <= k /\ w[i] = conns[k]
    BY WithoutShape
  <1>3. /\ \A c \in Clients : Older(inbox[c], u + 1)
        /\ \A k \in 1..Len(conns) : k >= n => Older(inbox[conns[k]], u)
    BY DEF InTime
  <1> HIDE DEF w, u, n
  <1>4. \A c \in Clients : Older(box[c], u + 1)
    BY <1>3, EmptyHistory
  <1>5. ASSUME NEW i \in 1..Len(w), i >= n PROVE Older(box[w[i]], u)
    <2>1. PICK k \in 1..Len(conns) : i <= k /\ w[i] = conns[k]
      BY <1>2
    <2>2. k >= n
      BY <1>1, <1>2, <1>5, <2>1
    <2> QED BY <1>1, <1>3, <2>1, <2>2, EmptyHistory
  <1> QED BY <1>4, <1>5 DEF InTime, w, u, n

LEMMA OrderAccepted ==
  ASSUME IInv, OrderInv, NEW c \in Clients, Accepted(c)
  PROVE  OrderInv'
  <1>1. /\ conns' = Append(conns, c) /\ conns \in Seq(Clients) /\ inbox[c] = <<>>
        /\ UNCHANGED <<cast, published, channel, inbox, paths>>
    BY DEF Accepted, Added, IInv, TypeOK, ListOK, Unlistable
  <1>2. /\ Len(conns') = Len(conns) + 1 /\ Len(conns) \in Nat /\ conns'[Len(conns) + 1] = c
        /\ \A k \in 1..Len(conns) : conns'[k] = conns[k]
    BY <1>1
  <1>3. \A k \in 1..Len(conns') : \/ k \in 1..Len(conns) /\ conns'[k] = conns[k]
                                  \/ conns'[k] = c
    BY <1>2
  <1>4. ASSUME NEW t \in Tasks, InTime(cast[t], conns, inbox)
        PROVE  InTime(cast[t], conns', inbox)
    BY <1>1, <1>3, <1>4, EmptyHistory DEF InTime
  <1>5. Waiting' /\ NothingMissed'
    BY <1>1 DEF OrderInv, Waiting, NothingMissed
  <1>6. \A t \in Tasks : Sending(t)'
    BY <1>1, <1>4 DEF OrderInv, Sending, Busy
  <1> QED BY <1>1, <1>5, <1>6 DEF OrderInv

LEMMA OrderHandlerEnds ==
  ASSUME IInv, OrderInv, NEW c \in Clients, HandlerEnds(c)
  PROVE  OrderInv'
  <1> DEFINE left == {c}
  <1>1. /\ conns' = Without(left) /\ cast' = Noted(left) /\ inbox' = [inbox EXCEPT ![c] = <<>>]
        /\ UNCHANGED <<published, channel, paths>>
    BY DEF HandlerEnds, Unlisted
  <1>2. \A d \in Clients : inbox'[d] \in {inbox[d], <<>>}
    BY <1>1 DEF IInv, TypeOK
  <1> HIDE DEF left
  <1>3. \A t \in Tasks : cast'[t].update = cast[t].update /\ cast'[t].next = cast[t].next
    <2>1. TypeOK
      BY DEF IInv
    <2> QED BY <1>1, <2>1, SameBusy
  <1>5. ASSUME NEW t \in Tasks, InTime(cast[t], conns, inbox)
        PROVE  InTime(cast'[t], conns', inbox')
    BY <1>1, <1>2, <1>3, <1>5, InTimeRemoval DEF IInv
  <1>6. ASSUME NEW d \in Clients
        PROVE  /\ \A u : Older(inbox[d], u) => Older(inbox'[d], u)
               /\ Rising(inbox[d]) => Rising(inbox'[d])
    BY <1>2, EmptyHistory
  <1>7. Waiting' /\ \A d \in Clients : Older(inbox'[d], published' + 1)
    BY <1>1, <1>6 DEF OrderInv, Waiting
  <1>8. NothingMissed'
    BY <1>1, <1>3, <1>6 DEF OrderInv, NothingMissed, Tasks
  <1>9. \A t \in Tasks : Sending(t)'
    BY <1>1, <1>3, <1>5, <1>6 DEF OrderInv, Sending, Busy
  <1> QED BY <1>7, <1>8, <1>9 DEF OrderInv

LEMMA OrderFinish ==
  ASSUME IInv, OrderInv, NEW t \in Tasks, Finish(t)
  PROVE  OrderInv'
  <1> DEFINE left == cast[t].stale
  <1>1. /\ conns' = Without(left) /\ cast'[t] = NoCast
        /\ \A o \in Tasks : o # t => cast'[o] = Noted(left)[o]
        /\ UNCHANGED <<inbox, published, channel, paths>>
    BY FinishShape DEF IInv, Finish
  <1>2. \A o \in Tasks : /\ Noted(left)[o].update = cast[o].update
                         /\ Noted(left)[o].next = cast[o].next
    <2>1. TypeOK
      BY DEF IInv
    <2> QED BY <2>1, SameBusy
  <1> HIDE DEF left
  <1>3. ASSUME NEW o \in Tasks, o # t, InTime(cast[o], conns, inbox)
        PROVE  InTime(cast'[o], conns', inbox)
    BY <1>1, <1>2, <1>3, InTimeRemoval DEF IInv
  <1>4. Waiting'
    BY <1>1 DEF OrderInv, Waiting
  <1>5. NoCast.update = 0 /\ \A o \in Tasks : cast[o].update \in Nat
    BY DEF NoCast, IInv, TypeOK, Cast
  <1>6. \A o \in Tasks : cast'[o].update \in {0, cast[o].update}
    BY <1>1, <1>2, <1>5
  <1>7. \A i \in 1..Len(channel) : channel[i] \in Nat
    BY DEF IInv, TypeOK
  <1>8. NothingMissed'
    BY <1>1, <1>5, <1>6, <1>7 DEF OrderInv, NothingMissed, Tasks
  <1>9. published \in Nat
    BY DEF IInv, TypeOK
  <1>10. \A o \in Tasks : Sending(o)'
    BY <1>1, <1>2, <1>3, <1>5, <1>9 DEF OrderInv, Sending, Busy
  <1> QED BY <1>1, <1>4, <1>8, <1>10 DEF OrderInv
LEMMA OrderSend ==
  ASSUME IInv, OrderInv, NEW t \in Tasks, Send(t)
  PROVE  OrderInv'
  <1> DEFINE n == cast[t].next
             c == conns[n]
             u == cast[t].update
             q == Append(inbox[c], u)
  <1>1. /\ Busy(t) /\ n \in 1..Len(conns) /\ c \in Clients
        /\ \A o \in Tasks : o # t => cast'[o] = cast[o]
        /\ cast'[t].update = u /\ cast'[t].next = n + 1
        /\ inbox' = IF sock[c] = "open" THEN [inbox EXCEPT ![c] = q] ELSE inbox
        /\ UNCHANGED <<conns, published, channel, paths>>
    BY SendShape DEF Send, IInv, TypeOK
  <1>2. t \in paths /\ u <= published /\ u \in Nat /\ published \in Nat
    BY <1>1 DEF OrderInv, Sending, IInv, TypeOK, Cast
  <1>3. q \in Seq(Nat) /\ (\A v : Older(inbox[c], v) /\ u < v => Older(q, v))
          /\ (Rising(inbox[c]) /\ Older(inbox[c], u) => Rising(q))
    BY <1>1, <1>2, AppendRising DEF IInv, TypeOK
  <1>4. \A d \in Clients : inbox'[d] = inbox[d] \/ (d = c /\ inbox'[d] = q)
    BY <1>1 DEF IInv, TypeOK
  <1>5. c = conns[n] /\ n = cast[t].next /\ u = cast[t].update
    OBVIOUS
  <1> HIDE DEF c, u, q, n
  <1>6. \A d \in Clients : \A v : Older(inbox[d], v) /\ u < v => Older(inbox'[d], v)
    BY <1>3, <1>4
  <1>7. Waiting' /\ \A d \in Clients : Older(inbox'[d], published' + 1)
    BY <1>1, <1>2, <1>6 DEF OrderInv, Waiting
  <1>8. NothingMissed'
    <2> SUFFICES ASSUME paths \subseteq {"subscriber"}, NEW i \in 1..Len(channel)
                 PROVE  /\ \A d \in Clients : Older(inbox'[d], channel[i])
                        /\ cast'["subscriber"].update < channel[i]
      BY <1>1 DEF NothingMissed
    <2>1. t = "subscriber"
      BY <1>2
    <2>2. (\A d \in Clients : Older(inbox[d], channel[i])) /\ u < channel[i]
      BY <1>5, <2>1 DEF OrderInv, NothingMissed
    <2> QED BY <1>1, <1>6, <2>1, <2>2
  <1>9. ASSUME NEW o \in Tasks
        PROVE  Sending(o)'
    <2>1. CASE o # t
      BY <1>1, <1>2, <2>1 DEF OrderInv, Sending, Busy
    <2>2. CASE o = t
      <3>1. cast'[t].update <= published /\ (Busy(t)' => t \in paths')
        BY <1>1, <1>2
      <3>2. ASSUME paths \subseteq {t}
            PROVE  InTime(cast'[t], conns, inbox') /\ \A d \in Clients : Rising(inbox'[d])
        <4>1. /\ \A d \in Clients : Older(inbox[d], u + 1) /\ Rising(inbox[d])
              /\ \A k \in 1..Len(conns) : k >= n => Older(inbox[conns[k]], u)
          BY <1>1, <1>5, <3>2 DEF OrderInv, Sending, InTime
        <4>2. Older(inbox[c], u)
          BY <1>1, <1>5, <4>1
        <4>3. \A d \in Clients : Older(inbox'[d], u + 1)
          BY <1>2, <1>6, <4>1
        <4>4. \A d \in Clients : Rising(inbox'[d])
          BY <1>3, <1>4, <4>1, <4>2
        <4>5. ASSUME NEW k \in 1..Len(conns), k >= n + 1
              PROVE  Older(inbox'[conns[k]], u)
          <5>1. conns[k] # c /\ conns[k] \in Clients
            BY <1>1, <1>5, <4>5 DEF IInv, TypeOK
          <5>2. k >= n
            BY <1>1, <4>5
          <5> QED BY <1>4, <4>1, <5>1, <5>2
        <4> QED BY <1>1, <4>3, <4>4, <4>5 DEF InTime
      <3> QED BY <1>1, <2>2, <3>1, <3>2 DEF Sending
    <2> QED BY <2>1, <2>2
  <1> QED BY <1>7, <1>8, <1>9 DEF OrderInv

\* A new update is newer than everything sent so far.
LEMMA OrderPublish ==
  ASSUME IInv, OrderInv, Publish \/ PublishDirectly
  PROVE  OrderInv'
  <1> DEFINE u == published + 1
  <1>1. /\ published \in Nat /\ u \in Nat /\ published' = u /\ channel \in Seq(Nat)
        /\ channel' \in {channel, Append(channel, u)}
        /\ UNCHANGED <<conns, inbox>> /\ ~Busy("job")
        /\ \/ cast' = cast /\ paths' = paths
           \/ cast' = [cast EXCEPT !["job"] = Starting(u)] /\ paths' = paths \cup {"job"}
    BY DEF Publish, PublishDirectly, IInv, TypeOK
  <1>2. Starting(u).update = u /\ Starting(u).next = 1
    BY <1>1, StartingShape DEF IInv
  <1>3. u = published + 1 /\ u < u + 1
    BY <1>1
  <1> HIDE DEF u
  <1>4. cast'["subscriber"] = cast["subscriber"]
    BY <1>1 DEF IInv, TypeOK, Tasks
  <1>5. \/ cast'["job"] = cast["job"] /\ paths' = paths
        \/ cast'["job"].update = u /\ cast'["job"].next = 1 /\ paths' = paths \cup {"job"}
    BY <1>1, <1>2 DEF IInv, TypeOK, Tasks
  <1>6. \A c \in Clients : Older(inbox[c], u) /\ Older(inbox[c], u + 1)
    <2>1. \A c \in Clients : inbox[c] \in Seq(Nat) /\ Older(inbox[c], u)
      BY <1>3 DEF OrderInv, IInv, TypeOK
    <2>2. u + 1 \in Nat /\ u <= u + 1
      BY <1>1
    <2> QED BY <1>1, <2>1, <2>2, OlderWeaken
  <1>7. Older(channel, u) /\ Older(channel, u + 1) /\ Rising(channel)
    <2>1. Older(channel, u) /\ Rising(channel)
      BY <1>3 DEF OrderInv, Waiting
    <2>2. u + 1 \in Nat /\ u <= u + 1
      BY <1>1
    <2> QED BY <1>1, <2>1, <2>2, OlderWeaken
  <1>8. Waiting'
    <2>1. Rising(Append(channel, u)) /\ Older(Append(channel, u), u + 1)
      BY <1>1, <1>3, <1>7, AppendRising
    <2> QED BY <1>1, <1>7, <2>1 DEF Waiting
  <1>9. \A i \in 1..Len(channel') : \/ i \in 1..Len(channel) /\ channel'[i] = channel[i]
                                    \/ channel'[i] = u
    <2>1. CASE channel' = channel
      BY <2>1
    <2>2. CASE channel' = Append(channel, u)
      BY <1>1, <2>2
    <2> QED BY <1>1, <2>1, <2>2
  <1>10. \A t \in Tasks : cast[t].update <= published /\ cast[t].update \in Nat
    BY DEF OrderInv, Sending, IInv, TypeOK, Cast
  <1>11. NothingMissed'
    <2> SUFFICES ASSUME paths' \subseteq {"subscriber"}, NEW i \in 1..Len(channel')
                 PROVE  /\ \A c \in Clients : Older(inbox[c], channel'[i])
                        /\ cast'["subscriber"].update < channel'[i]
      BY <1>1 DEF NothingMissed
    <2>1. paths \subseteq {"subscriber"}
      BY <1>5
    <2>2. CASE i \in 1..Len(channel) /\ channel'[i] = channel[i]
      BY <1>4, <2>1, <2>2 DEF OrderInv, NothingMissed
    <2>3. CASE channel'[i] = u
      <3>1. cast["subscriber"].update < u
        BY <1>1, <1>3, <1>10 DEF Tasks
      <3> QED BY <1>4, <1>6, <2>3, <3>1
    <2> QED BY <1>9, <2>2, <2>3
  <1>12. ASSUME NEW t \in Tasks
         PROVE  Sending(t)'
    <2>1. CASE cast'[t] = cast[t]
      <3>1. cast[t].update <= u
        BY <1>1, <1>3, <1>10
      <3>2. paths \subseteq paths'
        BY <1>1
      <3>3. t \in paths /\ paths' \subseteq {t} => paths \subseteq {t}
        BY <3>2
      <3> QED BY <1>1, <2>1, <3>1, <3>2 DEF OrderInv, Sending, Busy
    <2>2. CASE t = "job" /\ cast'["job"].update = u /\ cast'["job"].next = 1
                /\ paths' = paths \cup {"job"}
      <3>1. \A k \in 1..Len(conns) : conns[k] \in Clients
        BY DEF IInv, TypeOK
      <3>2. InTime(cast'["job"], conns, inbox)
        BY <1>6, <2>2, <3>1 DEF InTime
      <3>3. u <= u
        BY <1>1
      <3> QED BY <1>1, <2>2, <3>2, <3>3 DEF OrderInv, Sending
    <2> QED BY <1>4, <1>5, <2>1, <2>2 DEF Tasks
  <1> QED BY <1>1, <1>3, <1>6, <1>8, <1>11, <1>12 DEF OrderInv
\* What the subscriber takes from the channel is newer than all it has sent.
LEMMA OrderReceive ==
  ASSUME IInv, OrderInv, Receive
  PROVE  OrderInv'
  <1> DEFINE u == Head(channel)
  <1>1. /\ channel \in Seq(Nat) /\ channel # <<>> /\ channel' = Tail(channel)
        /\ cast' = [cast EXCEPT !["subscriber"] = Starting(u)]
        /\ paths' = paths \cup {"subscriber"}
        /\ UNCHANGED <<conns, inbox, published>>
    BY DEF Receive, IInv, TypeOK
  <1>2. /\ u \in Nat /\ u = channel[1] /\ Len(channel) \in Nat /\ Len(channel) >= 1
        /\ Len(channel') = Len(channel) - 1
        /\ \A i \in 1..Len(channel') : channel'[i] = channel[i + 1]
    BY <1>1
  <1>3. Starting(u).update = u /\ Starting(u).next = 1
    BY <1>2, StartingShape DEF IInv
  <1> HIDE DEF u
  <1>4. /\ cast'["subscriber"].update = u /\ cast'["subscriber"].next = 1
        /\ cast'["job"] = cast["job"]
    BY <1>1, <1>3 DEF IInv, TypeOK, Tasks
  <1>5. Rising(channel) /\ Older(channel, published + 1)
    BY DEF OrderInv, Waiting
  <1>6. \A i \in 1..Len(channel') : i + 1 \in 1..Len(channel) /\ 1 < i + 1
    BY <1>2
  <1>7. Waiting'
    <2>1. ASSUME NEW i \in 1..Len(channel'), NEW j \in 1..Len(channel'), i < j
          PROVE  channel'[i] < channel'[j]
      <3>1. i + 1 < j + 1
        BY <2>1
      <3> QED BY <1>2, <1>5, <1>6, <3>1 DEF Rising
    <2>2. \A i \in 1..Len(channel') : channel'[i] < published + 1
      BY <1>2, <1>5, <1>6 DEF Older
    <2> QED BY <1>1, <2>1, <2>2 DEF Waiting, Rising, Older
  <1>8. u <= published /\ published \in Nat
    BY <1>2, <1>5 DEF Older, IInv, TypeOK
  <1>9. ASSUME paths' \subseteq {"subscriber"}
        PROVE  \A c \in Clients : inbox[c] \in Seq(Nat) /\ Older(inbox[c], u) /\ Rising(inbox[c])
    <2>1. paths \subseteq {"subscriber"} /\ 1 \in 1..Len(channel)
      BY <1>1, <1>2, <1>9
    <2>2. \A c \in Clients : Older(inbox[c], channel[1])
      BY <2>1 DEF OrderInv, NothingMissed
    <2>3. \A c \in Clients : Rising(inbox[c])
      BY <2>1 DEF OrderInv, Sending, Tasks
    <2> QED BY <1>2, <2>2, <2>3 DEF IInv, TypeOK
  <1>10. NothingMissed'
    <2> SUFFICES ASSUME paths' \subseteq {"subscriber"}, NEW i \in 1..Len(channel')
                 PROVE  /\ \A c \in Clients : Older(inbox[c], channel'[i])
                        /\ cast'["subscriber"].update < channel'[i]
      BY <1>1 DEF NothingMissed
    <2>1. paths \subseteq {"subscriber"}
      BY <1>1
    <2>2. \A c \in Clients : Older(inbox[c], channel'[i])
      BY <1>2, <1>6, <2>1 DEF OrderInv, NothingMissed
    <2>3. u < channel'[i]
      BY <1>2, <1>5, <1>6 DEF Rising
    <2> QED BY <1>4, <2>2, <2>3
  <1>11. Sending("subscriber")'
    <2>1. ASSUME paths' \subseteq {"subscriber"}
          PROVE  InTime(cast'["subscriber"], conns, inbox)
      <3>1. \A k \in 1..Len(conns) : conns[k] \in Clients
        BY DEF IInv, TypeOK
      <3>2. u + 1 \in Nat /\ u <= u + 1
        BY <1>2
      <3>3. \A c \in Clients : Older(inbox[c], u + 1)
        BY <1>2, <1>9, <2>1, <3>2, OlderWeaken
      <3> QED BY <1>4, <1>9, <2>1, <3>1, <3>3 DEF InTime
    <2> QED BY <1>1, <1>4, <1>8, <1>9, <2>1 DEF Sending
  <1>12. Sending("job")'
    <2>1. ~(paths' \subseteq {"job"})
      BY <1>1
    <2>2. Busy("job") => "job" \in paths
      BY DEF OrderInv, Sending, Tasks
    <2>3. cast["job"].update <= published
      BY DEF OrderInv, Sending, Tasks
    <2> QED BY <1>1, <1>4, <2>1, <2>2, <2>3 DEF Sending, Busy
  <1> QED BY <1>1, <1>7, <1>10, <1>11, <1>12 DEF OrderInv, Tasks

LEMMA OrderOthers ==
  ASSUME IInv, OrderInv,
         \/ UNCHANGED <<conns, cast, published, channel, inbox, paths>>
         \/ Retry \/ Restart
  PROVE  OrderInv'
  <1>1. CASE UNCHANGED <<conns, cast, published, channel, inbox, paths>>
    <2>1. Waiting' /\ NothingMissed'
      BY <1>1 DEF OrderInv, Waiting, NothingMissed
    <2>2. \A t \in Tasks : Sending(t)'
      BY <1>1 DEF OrderInv, Sending, Busy, InTime
    <2> QED BY <1>1, <2>1, <2>2 DEF OrderInv
  <1>2. CASE Retry \/ Restart
    <2>1. /\ Len(channel') = 0 /\ published' = published /\ paths' = paths
          /\ published \in Nat
      BY <1>2 DEF Retry, Restart, IInv, TypeOK
    <2>2. Waiting' /\ NothingMissed'
      BY <2>1 DEF Waiting, NothingMissed, Rising, Older
    <2>3. CASE Retry
      <3>1. UNCHANGED <<conns, cast, inbox, published, paths>>
        BY <2>3 DEF Retry
      <3>2. \A t \in Tasks : Sending(t)'
        BY <3>1 DEF OrderInv, Sending, Busy, InTime
      <3> QED BY <2>2, <3>1, <3>2 DEF OrderInv
    <2>4. CASE Restart
      <3>1. \A t \in Tasks : cast'[t].update = 0
        BY <2>4 DEF Restart, NoCast
      <3>2. \A c \in Clients : inbox'[c] = <<>>
        BY <2>4 DEF Restart
      <3>3. \A t \in Tasks : Sending(t)'
        BY <2>1, <3>1, <3>2, EmptyHistory DEF Sending, Busy
      <3> QED BY <2>2, <3>2, <3>3, EmptyHistory DEF OrderInv
    <2> QED BY <1>2, <2>3, <2>4
  <1> QED BY <1>1, <1>2

LEMMA OrderStep ==
  ASSUME IInv, OrderInv, [Next]_vars
  PROVE  OrderInv'
  <1>1. (\E c \in Clients : Connect(c) \/ ClientLeaves(c)) \/ Subscribe \/ RedisChanges
          \/ UNCHANGED vars
          => UNCHANGED <<conns, cast, published, channel, inbox, paths>>
    BY DEF Connect, ClientLeaves, Subscribe, RedisChanges, vars
  <1> QED BY <1>1, OrderAccepted, OrderHandlerEnds, OrderSend, OrderFinish, OrderPublish,
             OrderReceive, OrderOthers DEF Next

\* As long as only one of the two tasks has ever sent, every client gets the
\* updates in order and none of them twice, whoever comes and goes meanwhile.
THEOREM AlwaysInOrderAndOnce == Spec => []InOrderAndOnce
  <1>1. Init => OrderInv
    <2> SUFFICES ASSUME Init PROVE OrderInv
      OBVIOUS
    <2>1. Len(channel) = 0 /\ \A c \in Clients : inbox[c] = <<>>
      BY DEF Init
    <2>2. \A t \in Tasks : cast[t].update = 0
      BY DEF Init, NoCast
    <2>3. published = 0
      BY DEF Init
    <2>4. Waiting /\ NothingMissed
      BY <2>1 DEF Waiting, NothingMissed, Rising, Older
    <2>5. \A t \in Tasks : Sending(t)
      BY <2>1, <2>2, <2>3, EmptyHistory DEF Sending, Busy
    <2> QED BY <2>1, <2>4, <2>5, EmptyHistory DEF OrderInv
  <1>2. IInv /\ OrderInv /\ [Next]_vars => OrderInv'
    BY OrderStep
  <1>3. IInv /\ OrderInv => InOrderAndOnce
    <2> SUFFICES ASSUME IInv, OrderInv, Cardinality(paths) <= 1, NEW c \in Clients
                 PROVE  Rising(inbox[c])
      BY DEF InOrderAndOnce, Rising
    <2>1. paths \subseteq {"subscriber"} \/ paths \subseteq {"job"}
      <3>1. paths \subseteq {"subscriber", "job"}
        BY DEF IInv, TypeOK, Tasks
      <3>2. ASSUME paths = {"job"} \cup {"subscriber"} PROVE FALSE
        <4>1. IsFiniteSet({"job"}) /\ Cardinality({"job"}) = 1 /\ "subscriber" \notin {"job"}
          BY FS_Singleton
        <4>2. Cardinality({"job"} \cup {"subscriber"}) = 2
          BY <4>1, FS_AddElement
        <4> QED BY <3>2, <4>2
      <3>3. "subscriber" \notin paths \/ "job" \notin paths
        BY <3>1, <3>2
      <3> QED BY <3>1, <3>3
    <2> QED BY <2>1 DEF OrderInv, Sending, Tasks
  <1> QED BY <1>1, <1>2, <1>3, Invariance, PTL DEF Spec
===============================================================================
