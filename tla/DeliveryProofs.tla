--------------------------- MODULE DeliveryProofs ---------------------------
(***************************************************************************)
(* What becomes of a packet once it is dispatched, for every set of rooms,  *)
(* users, connections and packets and every channel capacity: it reaches no *)
(* connection twice, and a command is not lost but with its connection or   *)
(* to a motion frame.                                                       *)
(***************************************************************************)
EXTENDS GatewayProofs, FiniteSetTheorems, FunctionTheorems

-----------------------------------------------------------------------------
(* Occurrences of a packet in a channel.                                    *)

Places(s, p) == {i \in DOMAIN s : s[i] = p}

\* The places of a packet in a sequence can be counted.
LEMMA PlacesFinite ==
  ASSUME NEW s \in Seq(Packets), NEW p
  PROVE  /\ IsFiniteSet(Places(s, p))
         /\ Occurrences(s, p) = Cardinality(Places(s, p)) /\ Occurrences(s, p) \in Nat
         /\ Occurrences(s, p) = 0 <=> Places(s, p) = {}
<1>1. Places(s, p) \in SUBSET (1 .. Len(s)) /\ Len(s) \in Int /\ 1 \in Int
  BY DEF Places
<1>2. IsFiniteSet(Places(s, p))
  BY <1>1, FS_Interval, FS_Subset
<1>3. Occurrences(s, p) = Cardinality(Places(s, p))
  BY DEF Occurrences, Places
<1>4. QED
  BY <1>2, <1>3, FS_CardinalityType, FS_EmptySet

\* push_back adds one occurrence of the item.
LEMMA AppendOccurs ==
  ASSUME NEW s \in Seq(Packets), NEW x \in Packets, NEW p
  PROVE  Occurrences(Append(s, x), p) = Occurrences(s, p) + (IF x = p THEN 1 ELSE 0)
<1>1. /\ Append(s, x) \in Seq(Packets) /\ Len(s) \in Nat
      /\ DOMAIN s = 1 .. Len(s) /\ DOMAIN Append(s, x) = 1 .. Len(s) + 1
      /\ \A i \in 1 .. Len(s) : Append(s, x)[i] = s[i]
      /\ Append(s, x)[Len(s) + 1] = x
  OBVIOUS
<1>2. /\ IsFiniteSet(Places(s, p)) /\ Occurrences(s, p) = Cardinality(Places(s, p))
      /\ Occurrences(s, p) \in Nat
      /\ Occurrences(Append(s, x), p) = Cardinality(Places(Append(s, x), p))
  BY <1>1, PlacesFinite
<1>3. Len(s) + 1 \notin Places(s, p)
  BY <1>1 DEF Places
<1>4. CASE x = p
  <2>1. Places(Append(s, x), p) = Places(s, p) \cup {Len(s) + 1}
    BY <1>1, <1>4 DEF Places
  <2>2. Cardinality(Places(s, p) \cup {Len(s) + 1}) = Cardinality(Places(s, p)) + 1
    BY <1>2, <1>3, FS_AddElement
  <2>3. QED
    BY <1>2, <1>4, <2>1, <2>2
<1>5. CASE x # p
  <2>1. Places(Append(s, x), p) = Places(s, p)
    BY <1>1, <1>5 DEF Places
  <2>2. QED
    BY <1>2, <1>5, <2>1
<1>6. QED
  BY <1>4, <1>5

\* pop_front takes one occurrence of the oldest item.
LEMMA TailOccurs ==
  ASSUME NEW s \in Seq(Packets), s # <<>>, NEW p
  PROVE  Occurrences(s, p) = Occurrences(Tail(s), p) + (IF Head(s) = p THEN 1 ELSE 0)
<1>1. /\ Tail(s) \in Seq(Packets) /\ Len(s) \in Nat \ {0} /\ Head(s) = s[1]
      /\ DOMAIN s = 1 .. Len(s) /\ DOMAIN Tail(s) = 1 .. Len(s) - 1
      /\ \A i \in 1 .. Len(s) - 1 : Tail(s)[i] = s[i + 1]
  OBVIOUS
<1> DEFINE S == Places(Tail(s), p)
           T == Places(s, p) \ {1}
           F == [i \in S |-> i + 1]
<1>2. \A i \in S : i \in Nat /\ i + 1 \in T
  BY <1>1 DEF Places
<1>3. \A j \in T : j - 1 \in S /\ j = (j - 1) + 1
  BY <1>1 DEF Places
<1>4. F \in Bijection(S, T)
  <2>1. F \in [S -> T]
    BY <1>2
  <2>2. \A a, b \in S : F[a] = F[b] => a = b
    BY <1>2
  <2>3. \A t \in T : \E a \in S : F[a] = t
    BY <1>3
  <2>4. QED
    BY <2>1, <2>2, <2>3, Fun_IsBij
<1>5. Cardinality(T) = Cardinality(S) /\ IsFiniteSet(T)
  <2>1. ExistsBijection(S, T)
    BY <1>4 DEF ExistsBijection
  <2>2. IsFiniteSet(S)
    BY <1>1, PlacesFinite
  <2>3. QED
    BY <2>1, <2>2, FS_Bijection
<1>6. /\ Occurrences(s, p) = Cardinality(Places(s, p))
      /\ Occurrences(Tail(s), p) = Cardinality(S) /\ Occurrences(Tail(s), p) \in Nat
  BY <1>1, PlacesFinite
<1>7. CASE Head(s) = p
  <2>1. Places(s, p) = T \cup {1} /\ 1 \notin T
    BY <1>1, <1>7 DEF Places
  <2>2. Cardinality(T \cup {1}) = Cardinality(T) + 1
    BY <1>5, <2>1, FS_AddElement
  <2>3. QED
    BY <1>5, <1>6, <1>7, <2>1, <2>2
<1>8. CASE Head(s) # p
  <2>1. Places(s, p) = T
    BY <1>1, <1>8 DEF Places
  <2>2. Cardinality(Places(s, p)) = Cardinality(T)
    BY <2>1
  <2>3. Occurrences(s, p) = Occurrences(Tail(s), p)
    BY <1>5, <1>6, <2>2
  <2>4. QED
    BY <1>6, <1>8, <2>3
<1>9. QED
  BY <1>7, <1>8
-----------------------------------------------------------------------------
(* The inductive invariant.                                                 *)

\* A snapshot holds nobody who has been served, nor, while it is collected,
\* anybody whose name is still to be visited.
SnapshotsFresh ==
  \A p \in Packets :
    /\ targets[p] \cap offered[p] = {}
    /\ route[p] \in {"none", "spawned", "unicast"} => targets[p] = {} /\ offered[p] = {}
    /\ route[p] = "visit" =>
         offered[p] = {} /\ \A c \in targets[p] : name[c].user \notin todo[p]

DInv == GInv /\ SnapshotsFresh /\ AtMostOnce /\ CommandKeptOrDisconnected

\* So can its copies in a connection's queue and hands.
LEMMA CopiesAreNumbers ==
  ASSUME GInv
  PROVE  \A p \in Packets, c \in Conns : Copies(p, c) \in Nat
<1> SUFFICES ASSUME NEW p \in Packets, NEW c \in Conns PROVE Copies(p, c) \in Nat
  OBVIOUS
<1>1. queue[c] \in Seq(Packets) /\ handed[c] \in Seq(Packets)
  BY DEF GInv, ConnTypes
<1>2. Occurrences(queue[c], p) \in Nat /\ Occurrences(handed[c], p) \in Nat
  BY <1>1, PlacesFinite
<1>3. QED
  BY <1>2 DEF Copies

\* A registration is the only step that gives a connection an entry.
LEMMA NoNewEntry ==
  ASSUME GInv, Next, NEW d \in Conns, pc[d] # "new", Registered(d)'
  PROVE  Registered(d) /\ name'[d] = name[d]
<1>1. /\ pc \in [Conns -> ConnStates] /\ name \in [Conns -> Names \cup {NoName}]
      /\ member \in [Rooms -> [Users -> Conns \cup {NoSender}]]
  BY RegistryFacts DEF GInv, ConnTypes
<1>2. ASSUME Shrinks, name' = name
      PROVE  Registered(d) /\ name'[d] = name[d]
  BY <1>2, ShrinksEntries
<1>3. ASSUME member' = member
      PROVE  Shrinks
  BY <1>1, <1>3 DEF Shrinks
<1>4. ASSUME NEW c \in Conns, Connect(c)
      PROVE  Registered(d) /\ name'[d] = name[d]
  <2>1. PICK n \in Names : name' = [name EXCEPT ![c] = n] /\ R!Register(n.room, n.user, c)
    BY <1>4 DEF Connect
  <2>2. name'[d] = name[d] /\ c # d
    BY <1>1, <1>4, <2>1 DEF Connect
  <2>3. name[d] \in Names /\ name[d].room \in Rooms /\ name[d].user \in Users
    BY DEF GInv, NamesKnown, Names
  <2>4. member'[name[d].room][name[d].user] = d
    BY <2>2 DEF Registered
  <2>5. member[name[d].room][name[d].user] = d
    BY <1>1, <2>1, <2>2, <2>3, <2>4 DEF R!Register
  <2>6. QED
    BY <2>2, <2>5 DEF Registered
<1>5. ASSUME NEW t \in Tasks, t \notin Packets,
             \/ \E r \in Rooms, u \in Users : R!UnregRemove(t, r, u)
             \/ R!UnregCheck(t) \/ R!UnregCleanup(t)
      PROVE  Shrinks
  BY <1>5, UnregShrinks
<1>6. ASSUME NEW c \in Conns, Leave(c) \/ LeaveStep(c)
      PROVE  Shrinks /\ name' = name
  <2>1. (name[c].room \in Rooms /\ name[c].user \in Users) \/ ~Leave(c)
    BY DEF Leave, GInv, NamesKnown, Names
  <2>2. QED
    BY <1>3, <1>5, <1>6, <2>1, TasksAreTasks, OtherTasks DEF Leave, LeaveStep, registry
<1>7. ASSUME NEW p \in Packets, NEW c \in Conns, RetryUnregister(p, c) \/ RetryUnregStep(p, c)
      PROVE  Shrinks /\ name' = name
  <2>1. pkt[p].room \in Rooms /\ name[c].user \in Users
    <3>1. c \in offered[p]
      BY <1>7 DEF RetryUnregister, RetryUnregStep, GInv, HeadersKnown
    <3>2. Addressed(p, c)
      BY <3>1 DEF GInv, SnapshotsFit
    <3>3. QED
      BY <3>2 DEF Addressed, GInv, NamesKnown, Names
  <2>2. QED
    BY <1>3, <1>5, <1>7, <2>1, TasksAreTasks, OtherTasks
    DEF RetryUnregister, RetryUnregStep, registry, conn
<1>8. ASSUME NEW c \in Conns,
             \/ RecvItem(c) \/ RecvNone(c) \/ Park(c) \/ Notified(c) \/ Tick(c)
             \/ SendReturns(c) \/ ClientFrame(c) \/ ClientClose(c) \/ CloseSent(c)
      PROVE  member' = member /\ name' = name
  BY <1>8 DEF RecvItem, RecvNone, Park, Notified, Tick, SendReturns, ClientFrame,
              ClientClose, CloseSent, registry
<1>9. ASSUME NEW p \in Packets, RecvUdp(p) \/ RouteStep(p)
      PROVE  member' = member /\ name' = name
  BY <1>9
  DEF RecvUdp, Arrive, RouteStep, RouteLookup, RoomNotFound, RouteVisit, RouteDispatch, RouteEnd,
      RouteUnicast, R!ReadBegin, R!ReadEnd, registry, conn
<1>10. ASSUME NEW p \in Packets, NEW c \in Conns,
              RecvWs(c, p) \/ RetryPush(p, c) \/ RetryTimeout(p, c)
       PROVE  member' = member /\ name' = name
  BY <1>10 DEF RecvWs, Arrive, RetryPush, RetryTimeout, registry, conn
<1>11. QED
  BY <1>2, <1>3, <1>4, <1>6, <1>7, <1>8, <1>9, <1>10 DEF Next, ConnStep, RetryStep

\* A step that makes no copy and dispatches nothing keeps the two properties,
\* if a command whose last copy goes is given up, and a command that is given
\* up takes its connection out.
LEMMA CopiesKeep ==
  ASSUME DInv, Next, GInv', offered' = offered,
         \A p \in Packets : offered[p] # {} => pkt'[p] = pkt[p],
         \A p \in Packets, c \in Conns :
           /\ Copies(p, c)' <= Copies(p, c)
           /\ Copies(p, c)' = 0 => Copies(p, c) = 0 \/ retry'[p][c] = "giveup"
           /\ retry[p][c] = "giveup" => retry'[p][c] = "giveup" \/ ~Registered(c)'
  PROVE  AtMostOnce' /\ CommandKeptOrDisconnected'
<1>1. ASSUME NEW p \in Packets, NEW c \in Conns
      PROVE  Copies(p, c) \in Nat /\ Copies(p, c)' \in Nat
  <2>1. queue'[c] \in Seq(Packets) /\ handed'[c] \in Seq(Packets)
    BY DEF GInv, ConnTypes
  <2>2. Occurrences(queue'[c], p) \in Nat /\ Occurrences(handed'[c], p) \in Nat
    BY <2>1, PlacesFinite
  <2>3. Copies(p, c)' \in Nat
    BY <2>2 DEF Copies
  <2>4. QED
    BY <2>3, CopiesAreNumbers DEF DInv
<1>2. AtMostOnce'
  <2> SUFFICES ASSUME NEW p \in Packets, NEW c \in Conns
               PROVE  Copies(p, c)' <= (IF c \in offered[p] THEN 1 ELSE 0)
    BY DEF AtMostOnce
  <2>1. Copies(p, c) <= (IF c \in offered[p] THEN 1 ELSE 0)
    BY DEF DInv, AtMostOnce
  <2>2. Copies(p, c)' <= Copies(p, c)
    OBVIOUS
  <2>3. QED
    BY <1>1, <2>1, <2>2
<1>3. CommandKeptOrDisconnected'
  <2> SUFFICES ASSUME NEW p \in Packets, NEW c \in Conns, pkt'[p].kind = "SystemCmd",
                      c \in offered[p], Copies(p, c)' = 0
               PROVE  \/ retry'[p][c] = "giveup" \/ ~Registered(c)'
                      \/ \E q \in Packets : pkt'[q].kind = "RawMotion" /\ c \in offered[q]
    BY DEF CommandKeptOrDisconnected
  <2>1. pkt'[p] = pkt[p] /\ pc[c] # "new"
    BY DEF DInv, GInv, SnapshotsFit, Addressed
  <2>2. CASE retry'[p][c] = "giveup"
    BY <2>2
  <2>3. CASE Copies(p, c) = 0
    <3>1. CASE retry[p][c] = "giveup"
      BY <3>1
    <3>2. CASE ~Registered(c)
      BY <2>1, <3>2, NoNewEntry DEF DInv
    <3>3. CASE \E q \in Packets : pkt[q].kind = "RawMotion" /\ c \in offered[q]
      BY <3>3
    <3>4. QED
      BY <2>1, <2>3, <3>1, <3>2, <3>3 DEF DInv, CommandKeptOrDisconnected
  <2>4. QED
    BY <2>2, <2>3
<1>4. QED
  BY <1>2, <1>3
\* A pair whose channel and retry a step leaves alone keeps its copies.
LEMMA SameCopies ==
  ASSUME NEW p \in Packets, NEW c \in Conns, queue'[c] = queue[c], handed'[c] = handed[c],
         retry'[p][c] = "trying" <=> retry[p][c] = "trying"
  PROVE  Copies(p, c)' = Copies(p, c)
BY DEF Copies

\* Steps that leave channels, retries and dispatches alone.
LEMMA UntouchedKeep ==
  ASSUME DInv, Next, GInv', UNCHANGED <<queue, handed, retry, offered>>,
         \A p \in Packets : offered[p] # {} => pkt'[p] = pkt[p]
  PROVE  AtMostOnce' /\ CommandKeptOrDisconnected'
<1>1. \A p \in Packets, c \in Conns : Copies(p, c)' = Copies(p, c) /\ Copies(p, c) \in Nat
  BY SameCopies, CopiesAreNumbers DEF DInv
<1>2. \A p \in Packets, c \in Conns : Copies(p, c)' <= Copies(p, c)
  BY <1>1
<1>3. QED
  BY <1>1, <1>2, CopiesKeep

\* The recv arm moves the oldest item from the queue to the socket.
LEMMA RecvKeeps ==
  ASSUME DInv, Next, GInv', NEW c \in Conns, RecvItem(c)
  PROVE  AtMostOnce' /\ CommandKeptOrDisconnected'
<1>1. /\ queue \in [Conns -> Seq(Packets)] /\ handed \in [Conns -> Seq(Packets)]
      /\ queue[c] # <<>> /\ queue' = [queue EXCEPT ![c] = Tail(@)]
      /\ handed' = [handed EXCEPT ![c] = Append(@, Head(queue[c]))]
      /\ UNCHANGED <<router, retry>>
  BY DEF DInv, GInv, ConnTypes, RecvItem
<1>2. ASSUME NEW p \in Packets, NEW d \in Conns
      PROVE  Copies(p, d)' = Copies(p, d) /\ Copies(p, d) \in Nat
  <2>1. Copies(p, d) \in Nat
    BY CopiesAreNumbers DEF DInv
  <2>2. CASE d = c
    <3>1. queue[c] \in Seq(Packets) /\ handed[c] \in Seq(Packets) /\ Head(queue[c]) \in Packets
      BY <1>1, DequeTypes
    <3>2. queue'[c] = Tail(queue[c]) /\ handed'[c] = Append(handed[c], Head(queue[c]))
      BY <1>1
    <3>3. Occurrences(queue[c], p)
            = Occurrences(Tail(queue[c]), p) + (IF Head(queue[c]) = p THEN 1 ELSE 0)
      BY <1>1, <3>1, TailOccurs
    <3>4. Occurrences(Append(handed[c], Head(queue[c])), p)
            = Occurrences(handed[c], p) + (IF Head(queue[c]) = p THEN 1 ELSE 0)
      BY <3>1, AppendOccurs
    <3>5. Tail(queue[c]) \in Seq(Packets)
      BY <1>1, <3>1, DequeTypes
    <3>6. Occurrences(Tail(queue[c]), p) \in Nat /\ Occurrences(handed[c], p) \in Nat
      BY <3>1, <3>5, PlacesFinite
    <3>7. QED
      BY <1>1, <2>1, <2>2, <3>2, <3>3, <3>4, <3>6 DEF Copies
  <2>3. CASE d # c
    BY <1>1, <2>1, <2>3, SameCopies
  <2>4. QED
    BY <2>2, <2>3
<1>3. \A p \in Packets, d \in Conns : Copies(p, d)' <= Copies(p, d)
  BY <1>2
<1>4. QED
  BY <1>1, <1>2, <1>3, CopiesKeep DEF router

\* A retry delivers its copy, or gives it up; giving up ends when the
\* connection has no entry.
LEMMA RetryCopies ==
  ASSUME DInv, Next, GInv', NEW p \in Packets, NEW c \in Conns, RetryStep(p, c)
  PROVE  AtMostOnce' /\ CommandKeptOrDisconnected'
<1>1. /\ queue \in [Conns -> Seq(Packets)] /\ retry \in [Packets -> [Conns -> RetryStates]]
      /\ UNCHANGED <<conn, router>>
  BY RetriesMove DEF DInv, GInv, ConnTypes, RouterTypes, RetryMoves
<1>2. PICK s : retry' = [retry EXCEPT ![p][c] = s]
  BY RetriesMove DEF DInv, RetryMoves
<1>3. \A q \in Packets, d \in Conns : ~(q = p /\ d = c) => retry'[q][d] = retry[q][d]
  BY <1>1, <1>2
<1>4. ASSUME NEW q \in Packets, NEW d \in Conns
      PROVE  /\ Copies(q, d)' <= Copies(q, d)
             /\ Copies(q, d)' = 0 => Copies(q, d) = 0 \/ retry'[q][d] = "giveup"
  <2>1. Copies(q, d) \in Nat
    BY CopiesAreNumbers DEF DInv
  <2>2. CASE RetryPush(p, c)
    <3>1. /\ queue' = [queue EXCEPT ![c] = Append(@, p)] /\ retry[p][c] = "trying"
          /\ retry'[p][c] = "delivered"
      BY <1>1, <2>2 DEF RetryPush, SetRetry
    <3>2. CASE d = c
      <4>1. queue'[c] = Append(queue[c], p) /\ queue[c] \in Seq(Packets)
        BY <1>1, <3>1
      <4>2. Occurrences(queue'[c], q) = Occurrences(queue[c], q) + (IF p = q THEN 1 ELSE 0)
        BY <4>1, AppendOccurs
      <4>3. Occurrences(queue[c], q) \in Nat /\ Occurrences(handed[c], q) \in Nat
        BY <4>1, PlacesFinite DEF DInv, GInv, ConnTypes
      <4>4. Copies(q, d)' = Copies(q, d)
        BY <1>1, <1>3, <3>1, <3>2, <4>2, <4>3 DEF Copies, conn
      <4>5. QED
        BY <2>1, <4>4
    <3>3. CASE d # c
      BY <1>1, <1>3, <2>1, <3>1, <3>3, SameCopies DEF conn
    <3>4. QED
      BY <3>2, <3>3
  <2>3. CASE RetryTimeout(p, c)
    <3>1. queue' = queue /\ retry[p][c] = "trying" /\ retry'[p][c] = "giveup"
      BY <1>1, <2>3 DEF RetryTimeout, SetRetry
    <3>2. CASE q = p /\ d = c
      <4>1. Occurrences(queue[c], q) \in Nat /\ Occurrences(handed[c], q) \in Nat
        BY PlacesFinite DEF DInv, GInv, ConnTypes
      <4>2. QED
        BY <1>1, <3>1, <3>2, <4>1 DEF Copies, conn
    <3>3. CASE ~(q = p /\ d = c)
      BY <1>1, <1>3, <2>1, <3>1, <3>3, SameCopies DEF conn
    <3>4. QED
      BY <3>2, <3>3
  <2>4. CASE RetryUnregister(p, c) \/ RetryUnregStep(p, c)
    <3>1. queue' = queue /\ retry[p][c] # "trying" /\ retry'[p][c] # "trying"
      BY <1>1, <2>4 DEF RetryUnregister, RetryUnregStep, SetRetry
    <3>2. Copies(q, d)' = Copies(q, d)
      BY <1>1, <1>3, <3>1, SameCopies DEF conn
    <3>3. QED
      BY <2>1, <3>2
  <2>5. QED
    BY <2>2, <2>3, <2>4 DEF RetryStep
<1>5. ASSUME NEW q \in Packets, NEW d \in Conns, retry[q][d] = "giveup"
      PROVE  retry'[q][d] = "giveup" \/ ~Registered(d)'
  <2>1. CASE ~(q = p /\ d = c)
    BY <1>3, <1>5, <2>1
  <2>2. CASE q = p /\ d = c
    <3>1. RetryUnregister(p, c)
      BY <1>5, <2>2 DEF RetryStep, RetryPush, RetryTimeout, RetryUnregStep
    <3>2. /\ Addressed(p, c) /\ name[c] \in Names
          /\ name[c].room \in Rooms /\ name[c].user \in Users
      BY <1>5, <2>2 DEF DInv, GInv, HeadersKnown, SnapshotsFit, Addressed, NamesKnown, Names
    <3>3. member'[name[c].room][name[c].user] = NoSender
      BY <3>1, <3>2, RegistryFacts DEF DInv, Addressed, RetryUnregister, R!UnregRemove, registry
    <3>4. QED
      BY <1>1, <2>2, <3>3, NoValuesAssumption DEF Registered, conn
  <2>3. QED
    BY <2>1, <2>2
<1>6. QED
  BY <1>1, <1>4, <1>5, CopiesKeep DEF router
\* The first dispatch of a packet to a connection makes one copy at most and
\* costs another packet its copy only if it is a motion frame.
LEMMA DispatchCopies ==
  ASSUME DInv, Next, GInv', NEW p \in Packets, NEW c \in Conns, Dispatch(p, c),
         c \notin offered[p], route[p] # "none", UNCHANGED <<conn, pkt>>
  PROVE  AtMostOnce' /\ CommandKeptOrDisconnected'
<1>1. /\ queue \in [Conns -> Seq(Packets)] /\ retry \in [Packets -> [Conns -> RetryStates]]
      /\ offered \in [Packets -> SUBSET Conns]
      /\ offered' = [offered EXCEPT ![p] = @ \cup {c}]
      /\ pkt[p].kind \in KindSet
  BY KindsAssumption DEF DInv, GInv, ConnTypes, RouterTypes, HeadersKnown, Headers, Dispatch
<1>2. /\ \A q \in Packets, d \in Conns :
           d \in offered'[q] <=> d \in offered[q] \/ (q = p /\ d = c)
  BY <1>1
<1>3. \A q \in Packets, d \in Conns :
        /\ Copies(q, d) \in Nat
        /\ Copies(q, d) <= (IF d \in offered[q] THEN 1 ELSE 0)
  BY CopiesAreNumbers DEF DInv, AtMostOnce
<1>4. retry[p][c] = "none"
  BY DEF DInv, GInv, HeadersKnown
<1>5. ASSUME NEW q \in Packets
      PROVE  Occurrences(queue[c], q) \in Nat /\ Occurrences(handed[c], q) \in Nat
  BY PlacesFinite DEF DInv, GInv, ConnTypes
<1>6. \/ pkt[p].kind = "RawMotion" /\ queue' = [queue EXCEPT ![c] = DropOldest(@, p)]
         /\ retry' = retry
      \/ queue' = [queue EXCEPT ![c] = Append(@, p)] /\ retry' = retry
      \/ queue' = queue /\ retry' = [retry EXCEPT ![p][c] = "trying"]
      \/ pkt[p].kind # "SystemCmd" /\ queue' = queue /\ retry' = retry
  BY DEF Dispatch
<1>7. \A q \in Packets, d \in Conns :
        /\ d # c => queue'[d] = queue[d]
        /\ ~(q = p /\ d = c) => retry'[q][d] = retry[q][d]
  BY <1>1, <1>6
<1>8. \A q \in Packets, d \in Conns : d # c => Copies(q, d)' = Copies(q, d)
  BY <1>7, SameCopies DEF conn
<1>9. ASSUME NEW q \in Packets
      PROVE  /\ Copies(q, c)' \in Nat
             /\ Copies(q, c)' <= Copies(q, c) + (IF q = p THEN 1 ELSE 0)
             /\ Copies(q, c)' = 0 =>
                  \/ pkt[p].kind = "RawMotion"
                  \/ q = p /\ pkt[p].kind # "SystemCmd"
                  \/ q # p /\ Copies(q, c) = 0
  <2>1. queue[c] \in Seq(Packets)
    BY <1>1
  <2>2. CASE pkt[p].kind = "RawMotion" /\ queue' = [queue EXCEPT ![c] = DropOldest(@, p)]
             /\ retry' = retry
    <3> DEFINE s == IF IsFull(queue[c]) THEN Tail(queue[c]) ELSE queue[c]
    <3>1. queue'[c] = Append(s, p)
      BY <1>1, <2>2 DEF DropOldest
    <3>2. s \in Seq(Packets) /\ Occurrences(s, q) \in Nat
          /\ Occurrences(s, q) <= Occurrences(queue[c], q)
      <4>1. CASE ~IsFull(queue[c])
        BY <1>5, <2>1, <4>1
      <4>2. CASE IsFull(queue[c])
        <5>1. queue[c] # <<>>
          BY <2>1, <4>2, CapacityAssumption DEF IsFull
        <5>2. Tail(queue[c]) \in Seq(Packets)
          BY <2>1, <5>1
        <5>3. Occurrences(Tail(queue[c]), q) \in Nat
          BY <5>2, PlacesFinite
        <5>4. Occurrences(queue[c], q)
                = Occurrences(Tail(queue[c]), q) + (IF Head(queue[c]) = q THEN 1 ELSE 0)
          BY <2>1, <5>1, TailOccurs
        <5>5. QED
          BY <4>2, <5>2, <5>3, <5>4
      <4>3. QED
        BY <4>1, <4>2
    <3> HIDE DEF s
    <3>3. Occurrences(queue'[c], q) = Occurrences(s, q) + (IF p = q THEN 1 ELSE 0)
      BY <3>1, <3>2, AppendOccurs
    <3>4. QED
      BY <1>5, <2>2, <3>2, <3>3 DEF Copies, conn
  <2>3. CASE queue' = [queue EXCEPT ![c] = Append(@, p)] /\ retry' = retry
    <3>1. queue'[c] = Append(queue[c], p)
      BY <1>1, <2>3
    <3>2. Occurrences(queue'[c], q) = Occurrences(queue[c], q) + (IF p = q THEN 1 ELSE 0)
      BY <2>1, <3>1, AppendOccurs
    <3>3. QED
      BY <1>5, <2>3, <3>2 DEF Copies, conn
  <2>4. CASE queue' = queue /\ retry' = [retry EXCEPT ![p][c] = "trying"]
    <3>1. CASE q = p
      <4>1. retry'[p][c] = "trying" /\ retry[p][c] = "none"
        BY <1>1, <1>4, <2>4
      <4>2. Copies(q, c)' = Copies(q, c) + 1
        BY <1>5, <2>4, <3>1, <4>1 DEF Copies, conn
      <4>3. QED
        BY <1>3, <3>1, <4>2
    <3>2. CASE q # p
      <4>1. Copies(q, c)' = Copies(q, c)
        BY <1>7, <2>4, <3>2, SameCopies DEF conn
      <4>2. QED
        BY <1>3, <3>2, <4>1
    <3>3. QED
      BY <3>1, <3>2
  <2>5. CASE pkt[p].kind # "SystemCmd" /\ queue' = queue /\ retry' = retry
    <3>1. Copies(q, c)' = Copies(q, c)
      BY <2>5, SameCopies DEF conn
    <3>2. QED
      BY <1>3, <2>5, <3>1
  <2>6. QED
    BY <1>6, <2>2, <2>3, <2>4, <2>5
<1>10. AtMostOnce'
  <2> SUFFICES ASSUME NEW q \in Packets, NEW d \in Conns
               PROVE  Copies(q, d)' <= (IF d \in offered'[q] THEN 1 ELSE 0)
    BY DEF AtMostOnce
  <2>1. CASE d # c
    BY <1>2, <1>3, <1>8, <2>1
  <2>2. CASE d = c /\ q # p
    BY <1>2, <1>3, <1>9, <2>2
  <2>3. CASE d = c /\ q = p
    BY <1>2, <1>3, <1>9, <2>3
  <2>4. QED
    BY <2>1, <2>2, <2>3
<1>11. CommandKeptOrDisconnected'
  <2> SUFFICES ASSUME NEW q \in Packets, NEW d \in Conns, pkt[q].kind = "SystemCmd",
                      d \in offered'[q], Copies(q, d)' = 0
               PROVE  \/ retry'[q][d] = "giveup" \/ ~Registered(d)'
                      \/ \E m \in Packets : pkt[m].kind = "RawMotion" /\ d \in offered'[m]
    BY DEF CommandKeptOrDisconnected
  <2>1. CASE pkt[p].kind = "RawMotion" /\ d = c
    BY <1>2, <2>1
  <2>2. CASE ~(pkt[p].kind = "RawMotion" /\ d = c)
    <3>1. ~(q = p /\ d = c) /\ Copies(q, d) = 0 /\ d \in offered[q]
      BY <1>2, <1>8, <1>9, <2>2
    <3>2. \/ retry[q][d] = "giveup" \/ ~Registered(d)
          \/ \E m \in Packets : pkt[m].kind = "RawMotion" /\ d \in offered[m]
      BY <3>1 DEF DInv, CommandKeptOrDisconnected
    <3>3. pc[d] # "new"
      BY <3>1 DEF DInv, GInv, SnapshotsFit, Addressed
    <3>4. ~Registered(d) => ~Registered(d)'
      BY <3>3, NoNewEntry DEF DInv
    <3>5. QED
      BY <1>2, <1>7, <3>1, <3>2, <3>4
  <2>3. QED
    BY <2>1, <2>2
<1>12. QED
  BY <1>10, <1>11
-----------------------------------------------------------------------------
(* Snapshots, and the theorem.                                              *)

\* A step that leaves the places, snapshots and names alone.
LEMMA SnapshotFrame ==
  ASSUME DInv, UNCHANGED <<route, todo, targets, offered>>,
         \A c \in Conns : pc[c] # "new" => name'[c] = name[c]
  PROVE  SnapshotsFresh'
<1>1. \A p \in Packets, c \in Conns : c \in targets[p] => name'[c] = name[c]
  BY DEF DInv, GInv, SnapshotsFit, Addressed
<1>2. \A p \in Packets : targets[p] \subseteq Conns
  BY DEF DInv, GInv, RouterTypes
<1>3. QED
  BY <1>1, <1>2 DEF DInv, SnapshotsFresh

\* The steps that take a packet from one place to the next.
LEMMA SnapshotSteps ==
  ASSUME DInv, NEW p \in Packets, NEW s, s # "none", route' = [route EXCEPT ![p] = s],
         UNCHANGED <<name, targets, offered>>, targets[p] = {},
         s \in {"visit", "spawned", "unicast"} => offered[p] = {},
         \A q \in Packets : q # p => todo'[q] = todo[q]
  PROVE  SnapshotsFresh'
<1>1. route'[p] = s /\ \A q \in Packets : q # p => route'[q] = route[q]
  BY DEF DInv, GInv, RouterTypes
<1> SUFFICES ASSUME NEW q \in Packets
             PROVE  /\ targets[q] \cap offered[q] = {}
                    /\ route'[q] \in {"none", "spawned", "unicast"} => targets[q] = {} /\ offered[q] = {}
                    /\ route'[q] = "visit" =>
                         offered[q] = {} /\ \A c \in targets[q] : name[c].user \notin todo'[q]
  BY DEF SnapshotsFresh
<1>2. CASE q # p
  BY <1>1, <1>2 DEF DInv, SnapshotsFresh
<1>3. CASE q = p
  BY <1>1, <1>3
<1>4. QED
  BY <1>2, <1>3
\* A dispatch takes its connection from the snapshot, if it came from there.
LEMMA SnapshotDispatch ==
  ASSUME DInv, NEW p \in Packets, NEW c \in Conns, UNCHANGED <<name, todo>>,
         targets' = [targets EXCEPT ![p] = @ \ {c}],
         offered' = [offered EXCEPT ![p] = @ \cup {c}],
         route'[p] \in {"dispatch", "done"},
         \A q \in Packets : q # p => route'[q] = route[q]
  PROVE  SnapshotsFresh'
<1>1. targets'[p] = targets[p] \ {c} /\ offered'[p] = offered[p] \cup {c}
  BY DEF DInv, GInv, RouterTypes
<1>2. \A q \in Packets : q # p => targets'[q] = targets[q] /\ offered'[q] = offered[q]
  BY DEF DInv, GInv, RouterTypes
<1> SUFFICES ASSUME NEW q \in Packets
             PROVE  /\ targets'[q] \cap offered'[q] = {}
                    /\ route'[q] \in {"none", "spawned", "unicast"}
                         => targets'[q] = {} /\ offered'[q] = {}
                    /\ route'[q] = "visit" =>
                         offered'[q] = {} /\ \A d \in targets'[q] : name[d].user \notin todo[q]
  BY DEF SnapshotsFresh
<1>3. CASE q = p
  <2>1. targets[p] \cap offered[p] = {}
    BY DEF DInv, SnapshotsFresh
  <2>2. QED
    BY <1>1, <1>3, <2>1
<1>4. CASE q # p
  BY <1>2, <1>4 DEF DInv, SnapshotsFresh
<1>5. QED
  BY <1>3, <1>4

\* The visit of a user adds a connection of that name, which no other user
\* visited before can have.
LEMMA SnapshotVisit ==
  ASSUME DInv, NEW p \in Packets, RouteVisit(p)
  PROVE  SnapshotsFresh'
<1>1. PICK u \in todo[p] :
        /\ todo' = [todo EXCEPT ![p] = @ \ {u}]
        /\ targets' = [targets EXCEPT ![p] = @ \cup ({member[pkt[p].room][u]} \ {NoSender})]
  BY DEF RouteVisit
<1>2. /\ route[p] = "visit" /\ UNCHANGED <<name, offered>> /\ offered[p] = {}
      /\ u \in Users /\ pkt[p].room \in Rooms
  BY <1>1 DEF RouteVisit, conn, DInv, GInv, SnapshotsFresh, RouterTypes, HeadersKnown, Headers
<1>3. PICK s \in {"visit", "dispatch"} : route' = [route EXCEPT ![p] = s]
  BY DEF RouteVisit
<1>4. /\ route'[p] = s /\ todo'[p] = todo[p] \ {u}
      /\ targets'[p] = targets[p] \cup ({member[pkt[p].room][u]} \ {NoSender})
      /\ \A q \in Packets :
           q # p => route'[q] = route[q] /\ todo'[q] = todo[q] /\ targets'[q] = targets[q]
  BY <1>1, <1>3 DEF DInv, GInv, RouterTypes
<1>5. member[pkt[p].room][u] # NoSender => name[member[pkt[p].room][u]].user = u
  <2>1. member[pkt[p].room][u] # NoSender =>
          name[member[pkt[p].room][u]] = [room |-> pkt[p].room, user |-> u]
    BY <1>2 DEF DInv, GInv, NamesKnown
  <2>2. QED
    BY <2>1
<1> SUFFICES ASSUME NEW q \in Packets
             PROVE  /\ targets'[q] \cap offered[q] = {}
                    /\ route'[q] \in {"none", "spawned", "unicast"} => targets'[q] = {} /\ offered[q] = {}
                    /\ route'[q] = "visit" =>
                         offered[q] = {} /\ \A c \in targets'[q] : name[c].user \notin todo'[q]
  BY <1>2 DEF SnapshotsFresh
<1>6. CASE q = p
  <2>1. \A c \in targets[p] : name[c].user \notin todo[p]
    BY <1>2 DEF DInv, SnapshotsFresh
  <2>2. QED
    BY <1>2, <1>4, <1>5, <1>6, <2>1
<1>7. CASE q # p
  BY <1>4, <1>7 DEF DInv, SnapshotsFresh
<1>8. QED
  BY <1>6, <1>7

\* The unicast of a packet that nobody was served.
LEMMA UnicastDelivers ==
  ASSUME DInv, Next, GInv', NEW p \in Packets, RouteUnicast(p)
  PROVE  SnapshotsFresh' /\ AtMostOnce' /\ CommandKeptOrDisconnected'
<1> DEFINE c == member[pkt[p].room][pkt[p].user]
<1>1. /\ route[p] = "unicast" /\ UNCHANGED <<conn, pkt, todo, targets>>
      /\ route' = [route EXCEPT ![p] = "done"]
      /\ targets[p] = {} /\ offered[p] = {}
      /\ targets \in [Packets -> SUBSET Conns] /\ route \in [Packets -> RouteStates]
  BY DEF RouteUnicast, DInv, SnapshotsFresh, GInv, RouterTypes
<1>2. c \in Conns \cup {NoSender}
  BY <1>1, RegistryFacts DEF DInv, GInv, HeadersKnown, Headers
<1>3. CASE c \in Conns /\ Dispatch(p, c)
  <2>1. AtMostOnce' /\ CommandKeptOrDisconnected'
    BY <1>1, <1>3, DispatchCopies
  <2>2. offered' = [offered EXCEPT ![p] = @ \cup {c}]
    BY <1>3 DEF Dispatch
  <2>3. targets' = [targets EXCEPT ![p] = @ \ {c}]
    BY <1>1
  <2>4. route'[p] = "done" /\ \A q \in Packets : q # p => route'[q] = route[q]
    BY <1>1
  <2>5. QED
    BY <1>1, <1>3, <2>1, <2>2, <2>3, <2>4, SnapshotDispatch DEF conn
<1>4. CASE UNCHANGED <<queue, offered, retry>>
  <2>1. AtMostOnce' /\ CommandKeptOrDisconnected'
    BY <1>1, <1>4, UntouchedKeep DEF conn
  <2>2. SnapshotsFresh'
    BY <1>1, <1>4, SnapshotSteps DEF conn
  <2>3. QED
    BY <2>1, <2>2
<1>5. QED
  BY <1>2, <1>3, <1>4 DEF RouteUnicast
\* Every step keeps the invariant.
LEMMA NextDInv == DInv /\ [Next]_vars => DInv'
<1> SUFFICES ASSUME DInv, [Next]_vars PROVE DInv'
  OBVIOUS
<1>1. GInv'
  BY NextGInv DEF DInv
<1>2. CASE UNCHANGED vars
  BY <1>1, <1>2
  DEF vars, registry, conn, router, DInv, SnapshotsFresh, AtMostOnce, CommandKeptOrDisconnected,
      Copies, Registered
<1>3. CASE Next
  <2> USE <1>1, <1>3
  <2>1. ASSUME NEW c \in Conns, Connect(c)
        PROVE  DInv'
    <3>1. UNCHANGED <<queue, handed, router, retry>>
      BY <2>1 DEF Connect
    <3>2. \A d \in Conns : pc[d] # "new" => name'[d] = name[d]
      BY <2>1 DEF Connect, DInv, GInv, ConnTypes
    <3>3. QED
      BY <3>1, <3>2, UntouchedKeep, SnapshotFrame DEF router, DInv
  <2>2. ASSUME NEW c \in Conns,
               \/ RecvNone(c) \/ Park(c) \/ Notified(c) \/ Tick(c) \/ SendReturns(c)
               \/ ClientFrame(c) \/ ClientClose(c) \/ Leave(c) \/ LeaveStep(c) \/ CloseSent(c)
        PROVE  DInv'
    <3>1. UNCHANGED <<name, queue, handed, router, retry>>
      BY <2>2 DEF RecvNone, Park, Notified, Tick, SendReturns, ClientFrame, ClientClose, Leave,
                  LeaveStep, CloseSent
    <3>2. QED
      BY <3>1, UntouchedKeep, SnapshotFrame DEF router, DInv
  <2>3. ASSUME NEW c \in Conns, RecvItem(c)
        PROVE  DInv'
    <3>1. UNCHANGED <<name, router>>
      BY <2>3 DEF RecvItem
    <3>2. QED
      BY <2>3, <3>1, RecvKeeps, SnapshotFrame DEF router, DInv
  <2>4. ASSUME NEW p \in Packets, RecvUdp(p) \/ \E c \in Conns : RecvWs(c, p)
        PROVE  DInv'
    <3>1. /\ route[p] = "none" /\ route' = [route EXCEPT ![p] = "spawned"]
          /\ UNCHANGED <<name, queue, handed, todo, targets, offered, retry>>
      BY <2>4 DEF RecvUdp, RecvWs, Arrive, conn
    <3>2. targets[p] = {} /\ offered[p] = {}
      BY <3>1 DEF DInv, SnapshotsFresh
    <3>3. \A q \in Packets : q # p => pkt'[q] = pkt[q]
      BY <2>4 DEF RecvUdp, RecvWs, Arrive, DInv, GInv, RouterTypes
    <3>4. QED
      BY <3>1, <3>2, <3>3, UntouchedKeep, SnapshotSteps DEF DInv
  <2>5. ASSUME NEW p \in Packets, RouteLookup(p) \/ RoomNotFound(p) \/ RouteEnd(p)
        PROVE  DInv'
    <3>1. /\ UNCHANGED <<conn, pkt, queue, targets, offered, retry>>
          /\ \E s \in {"visit", "unicast", "done"} : route' = [route EXCEPT ![p] = s]
          /\ route[p] = "spawned" \/ RouteEnd(p)
      BY <2>5 DEF RouteLookup, RoomNotFound, RouteEnd
    <3>2. targets[p] = {} /\ (route[p] = "spawned" => offered[p] = {})
      BY <3>1 DEF RouteEnd, DInv, SnapshotsFresh
    <3>3. RouteEnd(p) => route' = [route EXCEPT ![p] = "done"] /\ todo' = todo
      BY DEF RouteEnd
    <3>4. \A q \in Packets : q # p => todo'[q] = todo[q]
      BY <2>5 DEF RouteLookup, RoomNotFound, RouteEnd, DInv, GInv, RouterTypes
    <3>5. SnapshotsFresh'
      BY <3>1, <3>2, <3>3, <3>4, SnapshotSteps DEF conn
    <3>6. QED
      BY <3>1, <3>5, UntouchedKeep DEF conn, DInv
  <2>6. ASSUME NEW p \in Packets, RouteVisit(p)
        PROVE  DInv'
    <3>1. UNCHANGED <<conn, queue, pkt, offered, retry>>
      BY <2>6 DEF RouteVisit
    <3>2. QED
      BY <2>6, <3>1, SnapshotVisit, UntouchedKeep DEF conn, DInv
  <2>7. ASSUME NEW p \in Packets, RouteDispatch(p)
        PROVE  DInv'
    <3>1. PICK c \in targets[p] : Dispatch(p, c) /\ targets' = [targets EXCEPT ![p] = @ \ {c}]
      BY <2>7 DEF RouteDispatch
    <3>2. /\ c \in Conns /\ c \notin offered[p]
          /\ route[p] = "dispatch" /\ UNCHANGED <<conn, pkt, route, todo>>
      BY <2>7, <3>1 DEF RouteDispatch, DInv, GInv, RouterTypes, SnapshotsFresh
    <3>3. offered' = [offered EXCEPT ![p] = @ \cup {c}]
      BY <3>1 DEF Dispatch
    <3>4. AtMostOnce' /\ CommandKeptOrDisconnected'
      BY <3>1, <3>2, DispatchCopies
    <3>5. SnapshotsFresh'
      BY <3>1, <3>2, <3>3, SnapshotDispatch DEF conn
    <3>6. QED
      BY <3>4, <3>5 DEF DInv
  <2>8. ASSUME NEW p \in Packets, RouteUnicast(p)
        PROVE  DInv'
    BY <2>8, UnicastDelivers DEF DInv
  <2>9. ASSUME NEW p \in Packets, NEW c \in Conns, RetryStep(p, c)
        PROVE  DInv'
    <3>1. UNCHANGED <<conn, router>>
      BY <2>9, RetriesMove DEF DInv, RetryMoves
    <3>2. QED
      BY <2>9, <3>1, RetryCopies, SnapshotFrame DEF conn, router, DInv
  <2>10. QED
    BY <2>1, <2>2, <2>3, <2>4, <2>5, <2>6, <2>7, <2>8, <2>9 DEF Next, ConnStep, RouteStep
<1>4. QED
  BY <1>2, <1>3

\* Before anything arrives there are no copies.
LEMMA InitDInv == Init => DInv
<1> SUFFICES ASSUME Init PROVE DInv
  OBVIOUS
<1>1. GInv
  BY InitGInv
<1>2. SnapshotsFresh /\ CommandKeptOrDisconnected
  BY DEF Init, SnapshotsFresh, CommandKeptOrDisconnected
<1>3. AtMostOnce
  <2> SUFFICES ASSUME NEW p \in Packets, NEW c \in Conns PROVE Copies(p, c) = 0
    BY DEF AtMostOnce
  <2>1. queue[c] = <<>> /\ handed[c] = <<>> /\ retry[p][c] = "none"
    BY DEF Init
  <2>2. <<>> \in Seq(Packets) /\ Places(<<>>, p) = {}
    BY DEF Places
  <2>3. Occurrences(<<>>, p) = 0
    BY <2>2, PlacesFinite
  <2>4. QED
    BY <2>1, <2>3 DEF Copies
<1>4. QED
  BY <1>1, <1>2, <1>3 DEF DInv

\* For every set of rooms, users, connections and packets and every capacity:
\* no packet reaches a connection twice, and a command that was dispatched is
\* queued, handed over or being retried, or its connection is taken out, or a
\* motion frame has evicted it.
THEOREM DeliverySafety == Spec => [](AtMostOnce /\ CommandKeptOrDisconnected)
BY InitDInv, NextDInv, PTL DEF Spec, DInv

-----------------------------------------------------------------------------
(* Connections that are out of the registry.                                *)

\* Only a task that has still to unregister has an entry.
LEMMA OutMeansNoEntry ==
  ASSUME GInv, NEW c \in Conns
  PROVE  Out(c) <=> pc[c] # "new" /\ ~Registered(c)
BY DEF GInv, NoZombieEntry, InLoop, Out

\* No connection starts again.
LEMMA NeverNewAgain ==
  ASSUME GInv, Next, NEW c \in Conns, pc[c] # "new"
  PROVE  pc'[c] # "new"
<1>1. pc \in [Conns -> ConnStates]
  BY DEF GInv, ConnTypes
<1>2. ASSUME NEW d \in Conns,
             \E s \in ConnStates \ {"new"} : pc' = [pc EXCEPT ![d] = s]
      PROVE  pc'[c] # "new"
  BY <1>1, <1>2
<1>3. ASSUME NEW d \in Conns,
             \/ Connect(d) \/ ConnStep(d) \/ Tick(d) \/ SendReturns(d) \/ ClientFrame(d)
             \/ ClientClose(d) \/ CloseSent(d)
      PROVE  \E s \in ConnStates \ {"new"} : pc' = [pc EXCEPT ![d] = s]
  BY <1>3 DEF Connect, ConnStep, RecvItem, RecvNone, Park, Notified, Leave, LeaveStep, Tick,
              SendReturns, ClientFrame, ClientClose, CloseSent, Goto, ConnStates, InLoop
<1>4. ASSUME NEW p \in Packets, NEW d \in Conns, RecvWs(d, p)
      PROVE  \E s \in ConnStates \ {"new"} : pc' = [pc EXCEPT ![d] = s]
  BY <1>4 DEF RecvWs, Goto, ConnStates, InLoop
<1>5. ASSUME NEW p \in Packets, RecvUdp(p) \/ RouteStep(p) \/ \E d \in Conns : RetryStep(p, d)
      PROVE  pc' = pc
  BY <1>5, RetriesMove
  DEF RecvUdp, RouteStep, RouteLookup, RoomNotFound, RouteVisit, RouteDispatch, RouteEnd,
      RouteUnicast, RetryMoves, conn
<1>6. QED
  BY <1>2, <1>3, <1>4, <1>5 DEF Next

\* c is out, and no clone of its sender is with the task that routes p.
Unreached(p, c) == Out(c) /\ c \notin targets[p] /\ c \notin offered[p]

\* Nobody finds a connection in a room that is out of it.
LEMMA OutIsNoMember ==
  ASSUME GInv, NEW c \in Conns, Out(c), NEW r \in Rooms, NEW u \in Users
  PROVE  member[r][u] # c
<1> SUFFICES ASSUME member[r][u] = c PROVE FALSE
  OBVIOUS
<1>1. name[c] = [room |-> r, user |-> u]
  BY NoValuesAssumption DEF GInv, NamesKnown
<1>2. name[c] # NoName
  BY <1>1, NoValuesAssumption DEF NoName
<1>3. QED
  BY <1>1, <1>2, OutMeansNoEntry DEF Registered

\* The task that routes p does not come to have one.
LEMMA UnreachedStays ==
  ASSUME DInv, [Next]_vars, NEW p \in Packets, NEW c \in Conns, Unreached(p, c)
  PROVE  Unreached(p, c)'
<1>1. GInv /\ GInv'
  BY NextGInv DEF DInv
<1>2. CASE UNCHANGED vars
  BY <1>2 DEF vars, registry, conn, router, Unreached, Out, Registered
<1>3. CASE Next
  <2>1. Out(c)'
    <3>1. pc'[c] # "new" /\ ~Registered(c)'
      BY <1>1, <1>3, NoNewEntry, NeverNewAgain, OutMeansNoEntry DEF Unreached
    <3>2. QED
      BY <3>1 DEF Out
  <2>2. /\ targets \in [Packets -> SUBSET Conns] /\ offered \in [Packets -> SUBSET Conns]
        /\ route[p] # "none" => pkt[p].room \in Rooms /\ pkt[p].user \in Users
    BY <1>1 DEF GInv, RouterTypes, HeadersKnown, Headers
  <2>3. ASSUME UNCHANGED <<targets, offered>>
        PROVE  c \notin targets'[p] /\ c \notin offered'[p]
    BY <2>3 DEF Unreached
  <2>4. ASSUME NEW q \in Packets, RouteVisit(q)
        PROVE  c \notin targets'[p] /\ c \notin offered'[p]
    <3>1. PICK u \in todo[q] :
            targets' = [targets EXCEPT ![q] = @ \cup ({member[pkt[q].room][u]} \ {NoSender})]
      BY <2>4 DEF RouteVisit
    <3>2. offered' = offered /\ u \in Users /\ route[q] = "visit"
      BY <1>1, <2>4 DEF RouteVisit, GInv, RouterTypes
    <3>3. q = p => member[pkt[p].room][u] # c
      BY <1>1, <2>2, <3>2, OutIsNoMember DEF Unreached
    <3>4. QED
      BY <2>2, <3>1, <3>2, <3>3 DEF Unreached
  <2>5. ASSUME NEW q \in Packets, NEW d, Dispatch(q, d), q = p => d # c
        PROVE  c \notin offered'[p]
    BY <2>2, <2>5 DEF Dispatch, Unreached
  <2>6. ASSUME NEW q \in Packets, RouteDispatch(q)
        PROVE  c \notin targets'[p] /\ c \notin offered'[p]
    <3>1. PICK d \in targets[q] : Dispatch(q, d) /\ targets' = [targets EXCEPT ![q] = @ \ {d}]
      BY <2>6 DEF RouteDispatch
    <3>2. c \notin targets'[p]
      BY <2>2, <3>1 DEF Unreached
    <3>3. QED
      BY <2>5, <3>1, <3>2 DEF Unreached
  <2>7. ASSUME NEW q \in Packets, RouteUnicast(q)
        PROVE  c \notin targets'[p] /\ c \notin offered'[p]
    <3>1. targets' = targets /\ route[q] = "unicast"
      BY <2>7 DEF RouteUnicast
    <3>2. q = p => member[pkt[q].room][pkt[q].user] # c
      BY <1>1, <2>2, <3>1, OutIsNoMember DEF Unreached
    <3>3. offered' = offered \/ Dispatch(q, member[pkt[q].room][pkt[q].user])
      BY <2>7 DEF RouteUnicast
    <3>4. QED
      BY <2>5, <3>1, <3>2, <3>3 DEF Unreached
  <2>8. ASSUME NEW d \in Conns,
               \/ Connect(d) \/ ConnStep(d) \/ Tick(d) \/ SendReturns(d) \/ ClientFrame(d)
               \/ ClientClose(d) \/ CloseSent(d)
        PROVE  UNCHANGED <<targets, offered>>
    BY <2>8 DEF Connect, ConnStep, RecvItem, RecvNone, Park, Notified, Leave, LeaveStep, Tick,
                SendReturns, ClientFrame, ClientClose, CloseSent, router
  <2>9. ASSUME NEW q \in Packets,
               \/ RecvUdp(q) \/ RouteLookup(q) \/ RoomNotFound(q) \/ RouteEnd(q)
               \/ \E d \in Conns : RecvWs(d, q) \/ RetryStep(q, d)
        PROVE  UNCHANGED <<targets, offered>>
    BY <2>9, <1>1, RetriesMove
    DEF RecvUdp, RecvWs, Arrive, RouteLookup, RoomNotFound, RouteEnd, RetryMoves, router
  <2>10. c \notin targets'[p] /\ c \notin offered'[p]
    BY <1>3, <2>3, <2>4, <2>6, <2>7, <2>8, <2>9 DEF Next, RouteStep
  <2>11. QED
    BY <2>1, <2>10 DEF Unreached
<1>4. QED
  BY <1>2, <1>3

\* Whoever is out of the registry, taken over, disconnected by a retry or gone by
\* itself, is never dispatched a packet whose route has not yet looked its
\* room up, for any number of connections, packets and retries.
THEOREM GoneStayUnreached == Spec => NothingReachesTheGone
<1> SUFFICES ASSUME NEW p \in Packets, NEW c \in Conns
             PROVE  Spec => [](Out(c) /\ route[p] \in {"none", "spawned"} => [](c \notin offered[p]))
  BY DEF NothingReachesTheGone
<1>1. DInv /\ Out(c) /\ route[p] \in {"none", "spawned"} => Unreached(p, c)
  BY DEF DInv, SnapshotsFresh, Unreached
<1>2. DInv /\ Unreached(p, c) /\ [Next]_vars => Unreached(p, c)'
  BY UnreachedStays
<1>3. Unreached(p, c) => c \notin offered[p]
  BY DEF Unreached
<1>4. QED
  BY <1>1, <1>2, <1>3, InitDInv, NextDInv, PTL DEF Spec
=============================================================================
