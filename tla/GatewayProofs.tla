--------------------------- MODULE GatewayProofs ---------------------------
(***************************************************************************)
(* The safety of the running gateway for every set of rooms, users,         *)
(* connections and packets and every channel capacity.  Its registry is the *)
(* one of Registry, whose invariant RegistryProofs shows; the rest of the   *)
(* argument is who may hold an entry, a snapshot or a retry of which name.  *)
(***************************************************************************)
EXTENDS Gateway, TLAPS

RP == INSTANCE RegistryProofs WITH Senders <- Conns, Procs <- Tasks

-----------------------------------------------------------------------------
(* The inductive invariant.                                                 *)

ConnTypes ==
  /\ pc \in [Conns -> ConnStates]
  /\ name \in [Conns -> Names \cup {NoName}]
  /\ queue \in [Conns -> Seq(Packets)]
  /\ handed \in [Conns -> Seq(Packets)]

RouterTypes ==
  /\ pkt \in [Packets -> Headers \cup {NoHeader}]
  /\ route \in [Packets -> RouteStates]
  /\ todo \in [Packets -> SUBSET Users]
  /\ targets \in [Packets -> SUBSET Conns]
  /\ offered \in [Packets -> SUBSET Conns]
  /\ retry \in [Packets -> [Conns -> RetryStates]]

\* A connection has a name once it has registered, and keeps its entries
\* under that name only.
NamesKnown ==
  /\ \A c \in Conns : IF pc[c] = "new" THEN name[c] = NoName ELSE name[c] \in Names
  /\ \A r \in Rooms, u \in Users :
       member[r][u] # NoSender => name[member[r][u]] = [room |-> r, user |-> u]

\* A packet has a header from its arrival on, and only a broadcast is given
\* a snapshot.
HeadersKnown ==
  \A p \in Packets :
    /\ IF route[p] = "none" THEN targets[p] = {} /\ offered[p] = {} ELSE pkt[p] \in Headers
    /\ route[p] \in {"visit", "dispatch"} => pkt[p].target = "Broadcast"
    /\ \A c \in Conns : retry[p][c] # "none" => c \in offered[p]

Addressed(p, c) ==
  /\ pc[c] # "new"
  /\ name[c].room = pkt[p].room
  /\ pkt[p].target = "Unicast" => name[c].user = pkt[p].user

\* Snapshots and dispatches hold connections of the packet's room only.
SnapshotsFit ==
  \A p \in Packets, c \in Conns : c \in targets[p] \cup offered[p] => Addressed(p, c)

\* A task that routes holds the guard of its packet's room.
RoutesHoldGuards ==
  \A p \in Packets :
    op[p] = IF route[p] \in {"unicast", "visit", "dispatch"}
            THEN [stage |-> "reading", room |-> pkt[p].room]
            ELSE R!Idle

GInv ==
  /\ RP!RInv /\ ConnTypes /\ RouterTypes /\ NamesKnown /\ HeadersKnown /\ SnapshotsFit
  /\ RoutesHoldGuards /\ NoZombieEntry /\ BroadcastReachesMembers

-----------------------------------------------------------------------------
(* The registry of the gateway is the registry of RegistryProofs.           *)

\* The registry of Gateway and the one that the lemmas of RegistryProofs are about are the same.
LEMMA SameRegistry ==
  /\ R!RegistryInit <=> RP!RegistryInit
  /\ R!RegistryNext <=> RP!RegistryNext
  /\ \A c \in Tasks : R!UnregCleanup(c) <=> RP!UnregCleanup(c)
<1>1. R!Idle = RP!Idle
  BY DEF R!Idle, RP!Idle
<1>2. \A r : R!Unguarded(r) <=> RP!Unguarded(r)
  BY DEF R!Unguarded, RP!Unguarded, R!HoldsGuard, RP!HoldsGuard
<1>3. \A r : R!IsEmpty(r) <=> RP!IsEmpty(r)
  BY DEF R!IsEmpty, RP!IsEmpty
<1>4. \A r, u, s : R!Register(r, u, s) <=> RP!Register(r, u, s)
  BY <1>2 DEF R!Register, RP!Register
<1>5. \A p, r : R!ReadBegin(p, r) <=> RP!ReadBegin(p, r)
  BY <1>1 DEF R!ReadBegin, RP!ReadBegin
<1>6. \A p : R!ReadEnd(p) <=> RP!ReadEnd(p)
  BY <1>1 DEF R!ReadEnd, RP!ReadEnd
<1>7. \A p, r, u : R!UnregRemove(p, r, u) <=> RP!UnregRemove(p, r, u)
  BY <1>1 DEF R!UnregRemove, RP!UnregRemove
<1>8. \A p : R!UnregCheck(p) <=> RP!UnregCheck(p)
  BY <1>1, <1>3 DEF R!UnregCheck, RP!UnregCheck
<1>9. \A p : R!UnregCleanup(p) <=> RP!UnregCleanup(p)
  BY <1>1, <1>2, <1>3 DEF R!UnregCleanup, RP!UnregCleanup
<1>10. R!RegistryNext <=> RP!RegistryNext
  BY <1>4, <1>5, <1>6, <1>7, <1>8, <1>9 DEF R!RegistryNext, RP!RegistryNext
<1>11. R!RegistryInit <=> RP!RegistryInit
  BY <1>1 DEF R!RegistryInit, RP!RegistryInit
<1>12. QED
  BY <1>9, <1>10, <1>11
\* An absent room has no members.
LEMMA RegistryFacts ==
  ASSUME GInv
  PROVE  /\ member \in [Rooms -> [Users -> Conns \cup {NoSender}]]
         /\ op \in [Tasks -> [stage : R!Stages, room : Rooms \cup {NoRoom}]]
         /\ \A r \in Rooms, u \in Users : r \notin present => member[r][u] = NoSender
BY DEF GInv, RP!RInv, RP!RegistryTypeOK, RP!MembersArePresent, RP!IsEmpty, RP!Stages, R!Stages

-----------------------------------------------------------------------------
(* Every step is a step of the registry, or leaves it alone.                *)

\* Connections, packets and retries are tasks of the registry.
LEMMA TasksAreTasks ==
  /\ \A c \in Conns : c \in Tasks
  /\ \A p \in Packets : p \in Tasks
  /\ \A p \in Packets, c \in Conns : <<p, c>> \in Tasks
BY DEF Tasks

\* Every action of the gateway is one step of the registry or leaves it alone.
LEMMA StepOfRegistry ==
  ASSUME GInv, Next
  PROVE  R!RegistryNext \/ UNCHANGED registry
<1> USE TasksAreTasks
<1>1. ASSUME NEW c \in Conns, Connect(c)
      PROVE  R!RegistryNext
  <2>1. PICK n \in Names : R!Register(n.room, n.user, c)
    BY <1>1 DEF Connect
  <2>2. n.room \in Rooms /\ n.user \in Users
    BY DEF Names
  <2>3. QED
    BY <2>1, <2>2 DEF R!RegistryNext
<1>2. ASSUME NEW c \in Conns, Leave(c)
      PROVE  R!RegistryNext \/ UNCHANGED registry
  <2>1. name[c].room \in Rooms /\ name[c].user \in Users
    BY <1>2 DEF Leave, GInv, NamesKnown, Names
  <2>2. QED
    BY <1>2, <2>1 DEF Leave, R!RegistryNext
<1>3. ASSUME NEW c \in Conns, LeaveStep(c)
      PROVE  R!RegistryNext
  BY <1>3 DEF LeaveStep, R!RegistryNext
<1>4. ASSUME NEW p \in Packets, RouteLookup(p)
      PROVE  R!RegistryNext
  <2>1. pkt[p].room \in Rooms
    BY <1>4 DEF RouteLookup, GInv, HeadersKnown, Headers
  <2>2. QED
    BY <1>4, <2>1 DEF RouteLookup, R!RegistryNext
<1>5. ASSUME NEW p \in Packets, RouteEnd(p) \/ RouteUnicast(p)
      PROVE  R!RegistryNext
  BY <1>5 DEF RouteEnd, RouteUnicast, R!RegistryNext
<1>6. ASSUME NEW p \in Packets, NEW c \in Conns, RetryUnregister(p, c)
      PROVE  R!RegistryNext \/ UNCHANGED registry
  <2>1. c \in offered[p] /\ Addressed(p, c)
    BY <1>6 DEF RetryUnregister, GInv, HeadersKnown, SnapshotsFit
  <2>2. pkt[p].room \in Rooms /\ name[c].user \in Users
    BY <2>1 DEF Addressed, GInv, NamesKnown, Names
  <2>3. QED
    BY <1>6, <2>2 DEF RetryUnregister, R!RegistryNext
<1>7. ASSUME NEW p \in Packets, NEW c \in Conns, RetryUnregStep(p, c)
      PROVE  R!RegistryNext
  BY <1>7 DEF RetryUnregStep, R!RegistryNext
<1>8. ASSUME NEW c \in Conns,
             \/ RecvItem(c) \/ RecvNone(c) \/ Park(c) \/ Notified(c) \/ Tick(c)
             \/ SendReturns(c) \/ ClientFrame(c) \/ ClientClose(c) \/ CloseSent(c)
      PROVE  UNCHANGED registry
  BY <1>8 DEF RecvItem, RecvNone, Park, Notified, Tick, SendReturns, ClientFrame, ClientClose,
              CloseSent
<1>9. ASSUME NEW p \in Packets,
             RecvUdp(p) \/ RoomNotFound(p) \/ RouteVisit(p) \/ RouteDispatch(p)
      PROVE  UNCHANGED registry
  BY <1>9 DEF RecvUdp, Arrive, RoomNotFound, RouteVisit, RouteDispatch
<1>10. ASSUME NEW p \in Packets, NEW c \in Conns,
              RecvWs(c, p) \/ RetryPush(p, c) \/ RetryTimeout(p, c)
       PROVE  UNCHANGED registry
  BY <1>10 DEF RecvWs, Arrive, RetryPush, RetryTimeout
<1>11. QED
  BY <1>1, <1>2, <1>3, <1>4, <1>5, <1>6, <1>7, <1>8, <1>9, <1>10
  DEF Next, ConnStep, RouteStep, RetryStep

\* Every step keeps the invariant of the registry.
LEMMA RegistryKept ==
  ASSUME GInv, Next
  PROVE  RP!RInv'
<1>1. RP!RegistryNext \/ UNCHANGED RP!registryVars
  BY StepOfRegistry, SameRegistry DEF registry, RP!registryVars
<1>2. RP!RInv
  BY DEF GInv
<1>3. RP!NamesAssumption
  BY NoValuesAssumption DEF RP!NamesAssumption
<1>4. QED
  BY <1>1, <1>2, <1>3, RP!RegistryNextRInv
-----------------------------------------------------------------------------
(* What the steps do to the variables of the connections and of the router. *)

\* The deque of a channel stays a sequence of packets.
LEMMA DequeTypes ==
  ASSUME NEW q \in Seq(Packets), NEW p \in Packets
  PROVE  /\ Append(q, p) \in Seq(Packets)
         /\ DropOldest(q, p) \in Seq(Packets)
         /\ q # <<>> => Tail(q) \in Seq(Packets) /\ Head(q) \in Packets
<1>1. Len(q) \in Nat /\ (IsFull(q) => q # <<>>)
  BY CapacityAssumption DEF IsFull
<1>2. QED
  BY <1>1 DEF DropOldest

\* A connection that is not new goes on, and nothing else changes but its
\* own channel.
Moves(c) ==
  /\ UNCHANGED <<registry, name, router, retry>>
  /\ \E s \in InLoop \cup {"leaving"} :
       pc[c] \in InLoop /\ pc' = [pc EXCEPT ![c] = s]
  /\ queue' \in [Conns -> Seq(Packets)]
  /\ handed' \in [Conns -> Seq(Packets)]

\* The arms of select! move the task, its deque and what it has handed over, and nothing else.
LEMMA LoopMoves ==
  ASSUME GInv, NEW c \in Conns,
         \/ RecvItem(c) \/ RecvNone(c) \/ Park(c) \/ Notified(c) \/ Tick(c)
         \/ SendReturns(c) \/ ClientFrame(c) \/ ClientClose(c)
  PROVE  Moves(c)
<1>1. queue \in [Conns -> Seq(Packets)] /\ handed \in [Conns -> Seq(Packets)]
  BY DEF GInv, ConnTypes
<1>2. CASE RecvItem(c)
  <2>1. Tail(queue[c]) \in Seq(Packets) /\ Head(queue[c]) \in Packets
    BY <1>1, <1>2, DequeTypes DEF RecvItem
  <2>2. Append(handed[c], Head(queue[c])) \in Seq(Packets)
    BY <1>1, <2>1
  <2>3. queue' \in [Conns -> Seq(Packets)] /\ handed' \in [Conns -> Seq(Packets)]
    BY <1>1, <1>2, <2>1, <2>2 DEF RecvItem
  <2>4. QED
    BY <1>2, <2>3 DEF Moves, RecvItem, Goto, InLoop
<1>3. CASE ~RecvItem(c)
  BY <1>1, <1>3
  DEF Moves, RecvNone, Park, Notified, Tick, SendReturns, ClientFrame, ClientClose, Goto, InLoop
<1>4. QED
  BY <1>2, <1>3

\* What dispatch does for one connection.
LEMMA DispatchTypes ==
  ASSUME GInv, NEW p \in Packets, NEW c \in Conns, Dispatch(p, c)
  PROVE  /\ offered' = [offered EXCEPT ![p] = @ \cup {c}]
         /\ offered' \in [Packets -> SUBSET Conns]
         /\ queue' \in [Conns -> Seq(Packets)]
         /\ retry' \in [Packets -> [Conns -> RetryStates]]
         /\ \A q \in Packets, d \in Conns :
              retry'[q][d] # "none" => retry[q][d] # "none" \/ (q = p /\ d = c)
<1>1. /\ queue \in [Conns -> Seq(Packets)]
      /\ offered \in [Packets -> SUBSET Conns]
      /\ retry \in [Packets -> [Conns -> RetryStates]]
  BY DEF GInv, ConnTypes, RouterTypes
<1>2. offered' = [offered EXCEPT ![p] = @ \cup {c}] /\ offered' \in [Packets -> SUBSET Conns]
  BY <1>1 DEF Dispatch
<1>3. Append(queue[c], p) \in Seq(Packets) /\ DropOldest(queue[c], p) \in Seq(Packets)
  BY <1>1, DequeTypes
<1>4. queue' \in [Conns -> Seq(Packets)]
  BY <1>1, <1>3 DEF Dispatch
<1>5. UNCHANGED retry \/ retry' = [retry EXCEPT ![p][c] = "trying"]
  BY DEF Dispatch
<1>6. retry' \in [Packets -> [Conns -> RetryStates]]
  <2>1. [retry[p] EXCEPT ![c] = "trying"] \in [Conns -> RetryStates]
    BY <1>1 DEF RetryStates
  <2>2. [retry EXCEPT ![p] = [retry[p] EXCEPT ![c] = "trying"]] \in [Packets -> [Conns -> RetryStates]]
    BY <1>1, <2>1
  <2>3. QED
    BY <1>1, <1>5, <2>2
<1>7. \A q \in Packets, d \in Conns :
        retry'[q][d] # "none" => retry[q][d] # "none" \/ (q = p /\ d = c)
  BY <1>1, <1>5
<1>8. QED
  BY <1>2, <1>4, <1>6, <1>7

\* What a retry task does to the router.
RetryMoves(p, c) ==
  /\ UNCHANGED <<conn, router>>
  /\ retry[p][c] # "none"
  /\ \E s \in RetryStates : retry' = [retry EXCEPT ![p][c] = s]
  /\ queue' \in [Conns -> Seq(Packets)]

\* A retry moves itself, and fills at most the deque it was made for.
LEMMA RetriesMove ==
  ASSUME GInv, NEW p \in Packets, NEW c \in Conns, RetryStep(p, c)
  PROVE  RetryMoves(p, c)
<1>1. queue \in [Conns -> Seq(Packets)]
  BY DEF GInv, ConnTypes
<1>2. CASE RetryPush(p, c)
  <2>1. Append(queue[c], p) \in Seq(Packets)
    BY <1>1, DequeTypes
  <2>2. queue' \in [Conns -> Seq(Packets)]
    BY <1>1, <1>2, <2>1 DEF RetryPush
  <2>3. QED
    BY <1>2, <2>2 DEF RetryPush, RetryMoves, SetRetry, RetryStates
<1>3. CASE RetryTimeout(p, c)
  BY <1>1, <1>3 DEF RetryTimeout, RetryMoves, SetRetry, RetryStates
<1>4. CASE RetryUnregister(p, c)
  BY <1>1, <1>4 DEF RetryUnregister, RetryMoves, SetRetry, RetryStates
<1>5. CASE RetryUnregStep(p, c)
  BY <1>1, <1>5 DEF RetryUnregStep, RetryMoves, SetRetry, RetryStates
<1>6. QED
  BY <1>2, <1>3, <1>4, <1>5 DEF RetryStep
-----------------------------------------------------------------------------
(* The steps that register nobody and leave the routing alone.              *)

\* Entries may go, no more.
Shrinks == \A r \in Rooms, u \in Users : member'[r][u] \in {member[r][u], NoSender}

\* The parts of the invariant that speak of names, snapshots and guards.
Routing ==
  NamesKnown /\ HeadersKnown /\ SnapshotsFit /\ RoutesHoldGuards /\ BroadcastReachesMembers

\* What routes know stays true while entries only go and no packet moves.
LEMMA FrameKeeps ==
  ASSUME GInv, Shrinks, UNCHANGED <<name, pkt, route, todo, targets, offered>>,
         \A c \in Conns : pc'[c] = "new" <=> pc[c] = "new",
         \A p \in Packets : op'[p] = op[p],
         \A p \in Packets, c \in Conns : retry'[p][c] # "none" => retry[p][c] # "none"
  PROVE  Routing'
<1>1. NamesKnown'
  <2>1. \A r \in Rooms, u \in Users :
          member'[r][u] # NoSender => name'[member'[r][u]] = [room |-> r, user |-> u]
    BY DEF Shrinks, GInv, NamesKnown
  <2>2. QED
    BY <2>1 DEF GInv, NamesKnown
<1>2. HeadersKnown'
  BY DEF GInv, HeadersKnown
<1>3. SnapshotsFit'
  BY DEF GInv, SnapshotsFit, Addressed
<1>4. RoutesHoldGuards'
  BY DEF GInv, RoutesHoldGuards, R!Idle
<1>5. BroadcastReachesMembers'
  <2> SUFFICES ASSUME NEW p \in Packets, route[p] \in {"visit", "dispatch"},
                      NEW u \in Users \ todo[p]
               PROVE  member'[pkt[p].room][u] \in targets[p] \cup offered[p] \cup {NoSender}
    BY DEF BroadcastReachesMembers
  <2>1. pkt[p].room \in Rooms
    BY DEF GInv, HeadersKnown, Headers
  <2>2. member[pkt[p].room][u] \in targets[p] \cup offered[p] \cup {NoSender}
    BY DEF GInv, BroadcastReachesMembers
  <2>3. QED
    BY <2>1, <2>2 DEF Shrinks
<1>6. QED
  BY <1>1, <1>2, <1>3, <1>4, <1>5 DEF Routing

\* The steps of unregister_internal, taken by a task that routes nothing.
LEMMA UnregShrinks ==
  ASSUME GInv, NEW t \in Tasks, t \notin Packets,
         \/ \E r \in Rooms, u \in Users : R!UnregRemove(t, r, u)
         \/ R!UnregCheck(t) \/ R!UnregCleanup(t)
  PROVE  Shrinks /\ \A p \in Packets : op'[p] = op[p]
<1>1. ASSUME NEW p \in Packets PROVE op'[p] = op[p]
  <2>1. p \in Tasks /\ p # t
    BY TasksAreTasks
  <2>2. op \in [Tasks -> [stage : R!Stages, room : Rooms \cup {NoRoom}]]
    BY RegistryFacts
  <2>3. \E v : op' = [op EXCEPT ![t] = v]
    BY DEF R!UnregRemove, R!UnregCheck, R!UnregCleanup
  <2>4. QED
    BY <2>1, <2>2, <2>3
<1>2. Shrinks
  <2>1. ASSUME NEW r \in Rooms, NEW u \in Users, R!UnregRemove(t, r, u)
        PROVE  Shrinks
    BY <2>1, RegistryFacts DEF R!UnregRemove, Shrinks
  <2>2. CASE R!UnregCheck(t)
    BY <2>2 DEF R!UnregCheck, Shrinks
  <2>3. CASE R!UnregCleanup(t)
    <3>1. RP!UnregCleanup(t)
      BY <2>3, SameRegistry
    <3>2. member' = member
      BY <3>1, RP!CleanupKeepsMembers, NoValuesAssumption DEF GInv
    <3>3. QED
      BY <3>2 DEF Shrinks
  <2>4. QED
    BY <2>1, <2>2, <2>3
<1>3. QED
  BY <1>1, <1>2

\* An entry that is left was there before.
LEMMA ShrinksEntries ==
  ASSUME GInv, Shrinks, UNCHANGED name, NEW d \in Conns, Registered(d)'
  PROVE  Registered(d)
<1>1. name[d] # NoName /\ name[d] \in Names
  BY DEF Registered, GInv, ConnTypes
<1>2. name[d].room \in Rooms /\ name[d].user \in Users
  BY <1>1 DEF Names
<1>3. d # NoSender
  BY NoValuesAssumption
<1>4. QED
  BY <1>1, <1>2, <1>3 DEF Registered, Shrinks
\* The tasks of connections and of retries route no packet.
LEMMA OtherTasks ==
  /\ \A c \in Conns : c \notin Packets
  /\ \A p \in Packets, c \in Conns : <<p, c>> \notin Packets
<1>1. \A p \in Packets, c \in Conns : <<p, c>> \in Packets \X Conns
  OBVIOUS
<1>2. QED
  BY <1>1, TasksAssumption

\* The arms of select! keep the invariant.
LEMMA LoopKeeps ==
  ASSUME GInv, RP!RInv', NEW c \in Conns, Moves(c)
  PROVE  GInv'
<1>1. PICK s \in InLoop \cup {"leaving"} : pc[c] \in InLoop /\ pc' = [pc EXCEPT ![c] = s]
  BY DEF Moves
<1>2. pc \in [Conns -> ConnStates] /\ name \in [Conns -> Names \cup {NoName}]
  BY DEF GInv, ConnTypes
<1>3. ConnTypes' /\ RouterTypes'
  <2>1. pc' \in [Conns -> ConnStates]
    BY <1>1, <1>2 DEF ConnStates, InLoop
  <2>2. QED
    BY <2>1 DEF Moves, GInv, ConnTypes, RouterTypes, router
<1>4. \A d \in Conns : pc'[d] = "new" <=> pc[d] = "new"
  BY <1>1, <1>2 DEF InLoop
<1>5. Routing'
  <2>1. Shrinks
    BY DEF Moves, registry, Shrinks
  <2>2. QED
    BY <1>4, <2>1, FrameKeeps DEF Moves, registry, router
<1>6. NoZombieEntry'
  <2> SUFFICES ASSUME NEW d \in Conns, Registered(d)'
               PROVE  pc'[d] \in InLoop \cup {"leaving"}
    BY DEF NoZombieEntry
  <2>1. Registered(d)
    BY DEF Moves, registry, Registered
  <2>2. QED
    BY <1>1, <1>2, <2>1 DEF GInv, NoZombieEntry
<1>7. QED
  BY <1>3, <1>5, <1>6 DEF GInv, Routing

\* The steps after the loop keep the invariant: the first takes the entry of
\* the connection's name out, or there is none because there is no room.
LEMMA LeavingKeeps ==
  ASSUME GInv, RP!RInv', NEW c \in Conns, Leave(c) \/ LeaveStep(c) \/ CloseSent(c)
  PROVE  GInv'
<1>1. /\ pc \in [Conns -> ConnStates] /\ name \in [Conns -> Names \cup {NoName}]
      /\ c \in Tasks /\ c \notin Packets
  BY TasksAreTasks, OtherTasks DEF GInv, ConnTypes
<1>2. /\ UNCHANGED <<name, queue, handed, router, retry>>
      /\ pc[c] \in {"leaving", "unreg", "closing"}
  BY DEF Leave, LeaveStep, CloseSent
<1>3. PICK s \in {"unreg", "closing", "closed"} : pc' = [pc EXCEPT ![c] = s]
  BY DEF Leave, LeaveStep, CloseSent, Goto
<1>4. \/ \E r \in Rooms, u \in Users : R!UnregRemove(c, r, u)
      \/ R!UnregCheck(c) \/ R!UnregCleanup(c)
      \/ UNCHANGED registry
  <2>1. CASE Leave(c)
    <3>1. name[c].room \in Rooms /\ name[c].user \in Users
      BY <2>1 DEF Leave, GInv, NamesKnown, Names
    <3>2. QED
      BY <2>1, <3>1 DEF Leave
  <2>2. CASE ~Leave(c)
    BY <2>2 DEF LeaveStep, CloseSent
  <2>3. QED
    BY <2>1, <2>2
<1>5. Shrinks /\ \A p \in Packets : op'[p] = op[p]
  <2>1. CASE UNCHANGED registry
    BY <2>1 DEF registry, Shrinks
  <2>2. CASE ~UNCHANGED registry
    BY <1>1, <1>4, <2>2, UnregShrinks
  <2>3. QED
    BY <2>1, <2>2
<1>6. ConnTypes' /\ RouterTypes'
  <2>1. pc' \in [Conns -> ConnStates]
    BY <1>1, <1>3 DEF ConnStates
  <2>2. QED
    BY <1>2, <2>1 DEF GInv, ConnTypes, RouterTypes, router
<1>7. Routing'
  <2>1. \A d \in Conns : pc'[d] = "new" <=> pc[d] = "new"
    BY <1>1, <1>2, <1>3
  <2>2. QED
    BY <1>2, <1>5, <2>1, FrameKeeps DEF router
<1>8. NoZombieEntry'
  <2> SUFFICES ASSUME NEW d \in Conns, Registered(d)'
               PROVE  pc'[d] \in InLoop \cup {"leaving"}
    BY DEF NoZombieEntry
  <2>1. Registered(d)
    BY <1>2, <1>5, ShrinksEntries
  <2>2. pc[d] \in InLoop \cup {"leaving"}
    BY <2>1 DEF GInv, NoZombieEntry
  <2>3. d # c
    <3>1. CASE Leave(c)
      <4>1. name[c].room \in Rooms /\ name[c].user \in Users
        BY <3>1 DEF Leave, GInv, NamesKnown, Names
      <4>2. member'[name[c].room][name[c].user] = NoSender
        BY <3>1, <4>1, RegistryFacts DEF Leave, R!UnregRemove, registry
      <4>3. QED
        BY <1>2, <4>2, NoValuesAssumption DEF Registered
    <3>2. CASE LeaveStep(c) \/ CloseSent(c)
      BY <2>2, <3>2 DEF LeaveStep, CloseSent, InLoop
    <3>3. QED
      BY <3>1, <3>2
  <2>4. QED
    BY <1>1, <1>3, <2>2, <2>3
<1>9. QED
  BY <1>6, <1>7, <1>8 DEF GInv, Routing

\* A retry keeps the invariant, its unregistration by name included.
LEMMA RetryKeeps ==
  ASSUME GInv, RP!RInv', NEW p \in Packets, NEW c \in Conns, RetryStep(p, c)
  PROVE  GInv'
<1>1. RetryMoves(p, c)
  BY RetriesMove
<1>2. PICK s \in RetryStates : retry' = [retry EXCEPT ![p][c] = s]
  BY <1>1 DEF RetryMoves
<1>3. retry \in [Packets -> [Conns -> RetryStates]] /\ retry[p][c] # "none"
  BY <1>1 DEF GInv, RouterTypes, RetryMoves
<1>4. <<p, c>> \in Tasks /\ <<p, c>> \notin Packets
  BY TasksAreTasks, OtherTasks
<1>5. \/ \E r \in Rooms, u \in Users : R!UnregRemove(<<p, c>>, r, u)
      \/ R!UnregCheck(<<p, c>>) \/ R!UnregCleanup(<<p, c>>)
      \/ UNCHANGED registry
  <2>1. c \in offered[p] /\ Addressed(p, c)
    BY <1>3 DEF GInv, HeadersKnown, SnapshotsFit
  <2>2. pkt[p].room \in Rooms /\ name[c].user \in Users
    BY <2>1 DEF Addressed, GInv, NamesKnown, Names
  <2>3. QED
    BY <2>2 DEF RetryStep, RetryUnregister, RetryUnregStep, RetryPush, RetryTimeout
<1>6. Shrinks /\ \A q \in Packets : op'[q] = op[q]
  <2>1. CASE UNCHANGED registry
    BY <2>1 DEF registry, Shrinks
  <2>2. CASE ~UNCHANGED registry
    BY <1>4, <1>5, <2>2, UnregShrinks
  <2>3. QED
    BY <2>1, <2>2
<1>7. ConnTypes' /\ RouterTypes'
  <2>1. [retry[p] EXCEPT ![c] = s] \in [Conns -> RetryStates]
    BY <1>3
  <2>2. retry' \in [Packets -> [Conns -> RetryStates]]
    BY <1>2, <1>3, <2>1
  <2>3. QED
    BY <1>1, <2>2 DEF RetryMoves, GInv, ConnTypes, RouterTypes, conn, router
<1>8. Routing'
  <2>1. \A q \in Packets, d \in Conns : retry'[q][d] # "none" => retry[q][d] # "none"
    BY <1>2, <1>3
  <2>2. QED
    BY <1>1, <1>6, <2>1, FrameKeeps DEF RetryMoves, conn, router
<1>9. NoZombieEntry'
  <2> SUFFICES ASSUME NEW d \in Conns, Registered(d)'
               PROVE  pc'[d] \in InLoop \cup {"leaving"}
    BY DEF NoZombieEntry
  <2>1. name' = name /\ pc' = pc
    BY <1>1 DEF RetryMoves, conn
  <2>2. Registered(d)
    BY <1>6, <2>1, ShrinksEntries
  <2>3. QED
    BY <2>1, <2>2 DEF GInv, NoZombieEntry
<1>10. QED
  BY <1>7, <1>8, <1>9 DEF GInv, Routing
-----------------------------------------------------------------------------
(* A registration.                                                          *)

\* A registration keeps the invariant: the connection is in no snapshot yet,
\* and the write lock keeps it out of every room that is being read.
LEMMA ConnectKeeps ==
  ASSUME GInv, RP!RInv', NEW c \in Conns, Connect(c)
  PROVE  GInv'
<1>1. PICK n \in Names : name' = [name EXCEPT ![c] = n] /\ R!Register(n.room, n.user, c)
  BY DEF Connect
<1>2. /\ pc \in [Conns -> ConnStates] /\ name \in [Conns -> Names \cup {NoName}]
      /\ n.room \in Rooms /\ n.user \in Users /\ n = [room |-> n.room, user |-> n.user]
  BY DEF GInv, ConnTypes, Names
<1>3. /\ pc[c] = "new" /\ name[c] = NoName /\ pc' = [pc EXCEPT ![c] = "ready"]
      /\ UNCHANGED <<queue, handed, router, retry>>
  BY DEF Connect, Goto, GInv, NamesKnown
<1>4. /\ member' = [member EXCEPT ![n.room][n.user] = c] /\ op' = op
      /\ \A p \in Tasks : ~R!HoldsGuard(p, n.room)
  BY <1>1 DEF R!Register, R!Unguarded
<1>5. /\ \A d \in Conns : d # c => name'[d] = name[d] /\ pc'[d] = pc[d]
      /\ name'[c] = n /\ pc'[c] = "ready"
  BY <1>1, <1>2, <1>3
<1>6. ASSUME NEW r \in Rooms, NEW u \in Users
      PROVE  /\ r = n.room /\ u = n.user => member'[r][u] = c
             /\ ~(r = n.room /\ u = n.user) => member'[r][u] = member[r][u]
             /\ member[r][u] \in Conns \cup {NoSender}
             /\ member[r][u] # c
  <2>1. ASSUME member[r][u] = c PROVE FALSE
    <3>1. name[c] = [room |-> r, user |-> u]
      BY <2>1, NoValuesAssumption DEF GInv, NamesKnown
    <3>2. name[c].room = NoRoom
      BY <1>3 DEF NoName
    <3>3. QED
      BY <3>1, <3>2, NoValuesAssumption
  <2>2. member[r][u] # c
    BY <2>1
  <2>3. QED
    BY <1>2, <1>4, <2>2, RegistryFacts
<1>7. ConnTypes' /\ RouterTypes'
  <2>1. pc' \in [Conns -> ConnStates] /\ name' \in [Conns -> Names \cup {NoName}]
    BY <1>1, <1>2, <1>3 DEF ConnStates, InLoop
  <2>2. QED
    BY <1>3, <2>1 DEF GInv, ConnTypes, RouterTypes, router
<1>8. NamesKnown'
  <2>1. \A d \in Conns : IF pc'[d] = "new" THEN name'[d] = NoName ELSE name'[d] \in Names
    BY <1>5 DEF GInv, NamesKnown
  <2>2. ASSUME NEW r \in Rooms, NEW u \in Users, member'[r][u] # NoSender
        PROVE  name'[member'[r][u]] = [room |-> r, user |-> u]
    <3>1. CASE r = n.room /\ u = n.user
      BY <1>2, <1>5, <1>6, <3>1
    <3>2. CASE ~(r = n.room /\ u = n.user)
      <4>1. member'[r][u] = member[r][u] /\ member[r][u] # c
        BY <1>6, <3>2
      <4>2. name'[member[r][u]] = name[member[r][u]]
        BY <1>5, <1>6, <2>2, <4>1
      <4>3. QED
        BY <2>2, <4>1, <4>2 DEF GInv, NamesKnown
    <3>3. QED
      BY <3>1, <3>2
  <2>3. QED
    BY <2>1, <2>2 DEF NamesKnown
<1>9. HeadersKnown'
  BY <1>3 DEF router, GInv, HeadersKnown
<1>10. SnapshotsFit'
  <2> SUFFICES ASSUME NEW p \in Packets, NEW d \in Conns, d \in targets[p] \cup offered[p]
               PROVE  Addressed(p, d)'
    BY <1>3 DEF router, SnapshotsFit
  <2>1. Addressed(p, d)
    BY DEF GInv, SnapshotsFit
  <2>2. d # c
    BY <1>3, <2>1 DEF Addressed
  <2>3. QED
    BY <1>3, <1>5, <2>1, <2>2 DEF router, Addressed
<1>11. RoutesHoldGuards'
  BY <1>3, <1>4 DEF router, GInv, RoutesHoldGuards, R!Idle
<1>12. NoZombieEntry'
  <2> SUFFICES ASSUME NEW d \in Conns, Registered(d)', d # c
               PROVE  pc[d] \in InLoop \cup {"leaving"}
    BY <1>5 DEF NoZombieEntry, InLoop
  <2>1. name[d] # NoName /\ name[d] \in Names
    BY <1>2, <1>5 DEF Registered
  <2>2. name[d].room \in Rooms /\ name[d].user \in Users
    BY <2>1 DEF Names
  <2>3. Registered(d)
    BY <1>5, <1>6, <2>1, <2>2 DEF Registered
  <2>4. QED
    BY <2>3 DEF GInv, NoZombieEntry
<1>13. BroadcastReachesMembers'
  <2> SUFFICES ASSUME NEW p \in Packets, route[p] \in {"visit", "dispatch"},
                      NEW u \in Users \ todo[p]
               PROVE  member'[pkt[p].room][u] \in targets[p] \cup offered[p] \cup {NoSender}
    BY <1>3 DEF router, BroadcastReachesMembers
  <2>1. op[p] = [stage |-> "reading", room |-> pkt[p].room] /\ pkt[p].room \in Rooms
    BY DEF GInv, RoutesHoldGuards, HeadersKnown, Headers
  <2>2. pkt[p].room # n.room
    BY <1>4, <2>1, TasksAreTasks DEF R!HoldsGuard
  <2>3. member'[pkt[p].room][u] = member[pkt[p].room][u]
    BY <1>6, <2>1, <2>2
  <2>4. QED
    BY <2>3 DEF GInv, BroadcastReachesMembers
<1>14. QED
  BY <1>7, <1>8, <1>9, <1>10, <1>11, <1>12, <1>13 DEF GInv

-----------------------------------------------------------------------------
(* Arrival and routing.                                                     *)

\* The arrival of a packet keeps the invariant.
LEMMA ArriveKeeps ==
  ASSUME GInv, RP!RInv', NEW p \in Packets,
         RecvUdp(p) \/ \E c \in Conns : RecvWs(c, p)
  PROVE  GInv'
<1>1. /\ route[p] = "none" /\ route' = [route EXCEPT ![p] = "spawned"]
      /\ UNCHANGED <<registry, name, queue, handed, todo, targets, offered, retry>>
  BY DEF RecvUdp, RecvWs, Arrive, conn
<1>2. PICK h \in Headers : pkt' = [pkt EXCEPT ![p] = h]
  BY DEF RecvUdp, RecvWs, Arrive
<1>3. pc' = pc \/ \E c \in Conns : pc[c] \in InLoop /\ pc' = [pc EXCEPT ![c] = "ready"]
  BY DEF RecvUdp, RecvWs, Goto, InLoop, conn
<1>4. /\ pc \in [Conns -> ConnStates]
      /\ pkt \in [Packets -> Headers \cup {NoHeader}] /\ route \in [Packets -> RouteStates]
  BY DEF GInv, ConnTypes, RouterTypes
<1>5. /\ pc' \in [Conns -> ConnStates]
      /\ \A d \in Conns : pc'[d] = "new" <=> pc[d] = "new"
      /\ \A d \in Conns : pc[d] \in InLoop \cup {"leaving"} => pc'[d] \in InLoop \cup {"leaving"}
  BY <1>3, <1>4 DEF ConnStates, InLoop
<1>6. ConnTypes' /\ RouterTypes'
  <2>1. pkt' \in [Packets -> Headers \cup {NoHeader}] /\ route' \in [Packets -> RouteStates]
    BY <1>1, <1>2, <1>4 DEF RouteStates
  <2>2. QED
    BY <1>1, <1>5, <2>1 DEF GInv, ConnTypes, RouterTypes
<1>7. /\ route'[p] = "spawned" /\ pkt'[p] \in Headers
      /\ \A q \in Packets : q # p => route'[q] = route[q] /\ pkt'[q] = pkt[q]
  BY <1>1, <1>2, <1>4
<1>8. targets[p] = {} /\ offered[p] = {}
  BY <1>1 DEF GInv, HeadersKnown
<1>9. NamesKnown'
  BY <1>1, <1>5 DEF registry, GInv, NamesKnown
<1>10. HeadersKnown'
  BY <1>1, <1>7 DEF GInv, HeadersKnown
<1>11. SnapshotsFit'
  BY <1>1, <1>5, <1>7, <1>8 DEF GInv, SnapshotsFit, Addressed
<1>12. RoutesHoldGuards'
  BY <1>1, <1>7 DEF registry, GInv, RoutesHoldGuards, R!Idle
<1>13. NoZombieEntry'
  BY <1>1, <1>5 DEF registry, GInv, NoZombieEntry, Registered
<1>14. BroadcastReachesMembers'
  BY <1>1, <1>7 DEF registry, GInv, BroadcastReachesMembers
<1>15. QED
  BY <1>6, <1>9, <1>10, <1>11, <1>12, <1>13, <1>14 DEF GInv
\* What the steps of route leave alone, and how its own place changes.
Routes(p, s) ==
  /\ UNCHANGED <<conn, pkt, present, member>>
  /\ route' = [route EXCEPT ![p] = s]
  /\ route[p] # "none" /\ s \in RouteStates \ {"none"}
  /\ queue' \in [Conns -> Seq(Packets)]

\* The parts that no step of route disturbs.
LEMMA RoutesKeep ==
  ASSUME GInv, NEW p \in Packets, NEW s, Routes(p, s)
  PROVE  ConnTypes' /\ NamesKnown' /\ NoZombieEntry' /\ route' \in [Packets -> RouteStates]
<1>1. ConnTypes'
  BY DEF GInv, ConnTypes, Routes, conn
<1>2. NamesKnown' /\ NoZombieEntry'
  BY DEF GInv, NamesKnown, NoZombieEntry, Registered, Routes, conn
<1>3. route' \in [Packets -> RouteStates]
  BY DEF GInv, RouterTypes, Routes
<1>4. QED
  BY <1>1, <1>2, <1>3

\* The steps that take or give back the guard, and the one that finds no
\* room, keep the invariant.
LEMMA LookupKeeps ==
  ASSUME GInv, RP!RInv', NEW p \in Packets, RouteLookup(p) \/ RoomNotFound(p) \/ RouteEnd(p)
  PROVE  GInv'
<1>1. /\ UNCHANGED <<conn, pkt, present, member, queue, targets, offered, retry>>
      /\ route[p] \in {"spawned", "dispatch"}
  BY DEF RouteLookup, RoomNotFound, RouteEnd, R!ReadBegin, R!ReadEnd, registry
<1>2. PICK s \in {"visit", "unicast", "done"} : route' = [route EXCEPT ![p] = s]
  BY DEF RouteLookup, RoomNotFound, RouteEnd
<1>3. /\ route \in [Packets -> RouteStates] /\ todo \in [Packets -> SUBSET Users]
      /\ op \in [Tasks -> [stage : R!Stages, room : Rooms \cup {NoRoom}]] /\ p \in Tasks
  BY RegistryFacts, TasksAreTasks DEF GInv, RouterTypes
<1>4. Routes(p, s)
  BY <1>1, <1>2, <1>3 DEF Routes, RouteStates, GInv, ConnTypes
<1>5. route'[p] = s /\ \A q \in Packets : q # p => route'[q] = route[q]
  BY <1>2, <1>3
<1>6. /\ \A q \in Packets : q # p => todo'[q] = todo[q]
      /\ s = "visit" => todo'[p] = Users /\ pkt[p].target = "Broadcast"
      /\ todo' \in [Packets -> SUBSET Users]
  BY <1>3, <1>5 DEF RouteLookup, RoomNotFound, RouteEnd
<1>7. ConnTypes' /\ NamesKnown' /\ NoZombieEntry' /\ RouterTypes'
  BY <1>1, <1>4, <1>6, RoutesKeep DEF GInv, RouterTypes
<1>8. HeadersKnown'
  BY <1>1, <1>2, <1>5, <1>6 DEF GInv, HeadersKnown
<1>9. SnapshotsFit'
  BY <1>1 DEF conn, GInv, SnapshotsFit, Addressed
<1>10. RoutesHoldGuards'
  <2>1. \A q \in Packets : q # p => op'[q] = op[q]
    BY <1>3, TasksAreTasks DEF RouteLookup, RoomNotFound, RouteEnd, R!ReadBegin, R!ReadEnd, registry
  <2>2. op'[p] = IF s = "done" THEN R!Idle ELSE [stage |-> "reading", room |-> pkt[p].room]
    <3>1. CASE RouteLookup(p)
      BY <1>3, <1>5, <3>1 DEF RouteLookup, R!ReadBegin
    <3>2. CASE RoomNotFound(p)
      BY <1>3, <1>5, <3>2 DEF RoomNotFound, registry, GInv, RoutesHoldGuards
    <3>3. CASE RouteEnd(p)
      BY <1>3, <1>5, <3>3 DEF RouteEnd, R!ReadEnd
    <3>4. QED
      BY <3>1, <3>2, <3>3
  <2>3. QED
    BY <1>1, <1>2, <1>5, <2>1, <2>2 DEF GInv, RoutesHoldGuards, R!Idle
<1>11. BroadcastReachesMembers'
  BY <1>1, <1>2, <1>5, <1>6 DEF GInv, BroadcastReachesMembers
<1>12. QED
  BY <1>7, <1>8, <1>9, <1>10, <1>11 DEF GInv

\* A member that is visited is of the packet's room.
LEMMA MembersAreAddressed ==
  ASSUME GInv, NEW p \in Packets, route[p] # "none", NEW u \in Users,
         NEW c \in Conns, member[pkt[p].room][u] = c,
         pkt[p].target = "Unicast" => u = pkt[p].user
  PROVE  Addressed(p, c)
<1>1. pkt[p].room \in Rooms
  BY DEF GInv, HeadersKnown, Headers
<1>2. c # NoSender
  BY NoValuesAssumption
<1>3. name[c] = [room |-> pkt[p].room, user |-> u]
  BY <1>1, <1>2 DEF GInv, NamesKnown
<1>4. name[c].room = pkt[p].room /\ name[c].user = u
  BY <1>3
<1>5. pc[c] # "new"
  <2>1. name[c] # NoName
    BY <1>1, <1>4, NoValuesAssumption DEF NoName
  <2>2. QED
    BY <2>1 DEF GInv, NamesKnown
<1>6. QED
  BY <1>4, <1>5 DEF Addressed

\* The visit of a user keeps the invariant.
LEMMA VisitKeeps ==
  ASSUME GInv, RP!RInv', NEW p \in Packets, RouteVisit(p)
  PROVE  GInv'
<1>1. PICK u \in todo[p] :
        /\ todo' = [todo EXCEPT ![p] = @ \ {u}]
        /\ targets' = [targets EXCEPT ![p] = @ \cup ({member[pkt[p].room][u]} \ {NoSender})]
  BY DEF RouteVisit
<1>2. /\ route[p] = "visit" /\ pkt[p].target = "Broadcast" /\ pkt[p].room \in Rooms
      /\ UNCHANGED <<registry, conn, queue, pkt, offered, retry>>
  BY DEF RouteVisit, GInv, HeadersKnown, Headers
<1>3. PICK s \in {"visit", "dispatch"} : route' = [route EXCEPT ![p] = s]
  BY DEF RouteVisit
<1>4. /\ route \in [Packets -> RouteStates] /\ todo \in [Packets -> SUBSET Users]
      /\ targets \in [Packets -> SUBSET Conns] /\ u \in Users
      /\ member[pkt[p].room][u] \in Conns \cup {NoSender}
  BY <1>1, <1>2, RegistryFacts DEF GInv, RouterTypes
<1>5. Routes(p, s)
  BY <1>2, <1>3 DEF Routes, RouteStates, registry, GInv, ConnTypes
<1>6. /\ route'[p] = s /\ todo'[p] = todo[p] \ {u}
      /\ targets'[p] = targets[p] \cup ({member[pkt[p].room][u]} \ {NoSender})
      /\ \A q \in Packets :
           q # p => route'[q] = route[q] /\ todo'[q] = todo[q] /\ targets'[q] = targets[q]
  BY <1>1, <1>3, <1>4
<1>7. ConnTypes' /\ NamesKnown' /\ NoZombieEntry' /\ RouterTypes'
  <2>1. todo' \in [Packets -> SUBSET Users] /\ targets' \in [Packets -> SUBSET Conns]
    BY <1>1, <1>4
  <2>2. QED
    BY <1>2, <1>5, <2>1, RoutesKeep DEF GInv, RouterTypes
<1>8. HeadersKnown'
  BY <1>2, <1>3, <1>6 DEF GInv, HeadersKnown
<1>9. SnapshotsFit'
  <2> SUFFICES ASSUME NEW q \in Packets, NEW c \in Conns, c \in targets'[q] \cup offered[q]
               PROVE  Addressed(q, c)
    BY <1>2 DEF conn, SnapshotsFit, Addressed
  <2>1. CASE c \in targets[q] \cup offered[q]
    BY <2>1 DEF GInv, SnapshotsFit
  <2>2. CASE q = p /\ c = member[pkt[p].room][u]
    BY <1>2, <1>4, <2>2, MembersAreAddressed
  <2>3. QED
    BY <1>6, <2>1, <2>2
<1>10. RoutesHoldGuards'
  BY <1>2, <1>3, <1>6 DEF registry, GInv, RoutesHoldGuards, R!Idle
<1>11. BroadcastReachesMembers'
  <2> SUFFICES ASSUME NEW q \in Packets, route'[q] \in {"visit", "dispatch"},
                      NEW v \in Users \ todo'[q]
               PROVE  member[pkt[q].room][v] \in targets'[q] \cup offered[q] \cup {NoSender}
    BY <1>2 DEF registry, BroadcastReachesMembers
  <2>1. CASE q = p /\ v = u
    BY <1>6, <2>1
  <2>2. CASE q = p /\ v # u
    BY <1>2, <1>6, <2>2 DEF GInv, BroadcastReachesMembers
  <2>3. CASE q # p
    BY <1>6, <2>3 DEF GInv, BroadcastReachesMembers
  <2>4. QED
    BY <2>1, <2>2, <2>3
<1>12. QED
  BY <1>7, <1>8, <1>9, <1>10, <1>11 DEF GInv
\* A dispatch from the snapshot keeps the invariant: who leaves the targets
\* is among the offered.
LEMMA DispatchKeeps ==
  ASSUME GInv, RP!RInv', NEW p \in Packets, RouteDispatch(p)
  PROVE  GInv'
<1>1. PICK c \in targets[p] : Dispatch(p, c) /\ targets' = [targets EXCEPT ![p] = @ \ {c}]
  BY DEF RouteDispatch
<1>2. /\ route[p] = "dispatch" /\ UNCHANGED <<registry, conn, pkt, route, todo>>
      /\ targets \in [Packets -> SUBSET Conns] /\ c \in Conns
  BY <1>1 DEF RouteDispatch, GInv, RouterTypes
<1>3. /\ offered' = [offered EXCEPT ![p] = @ \cup {c}]
      /\ offered' \in [Packets -> SUBSET Conns] /\ queue' \in [Conns -> Seq(Packets)]
      /\ retry' \in [Packets -> [Conns -> RetryStates]]
      /\ \A q \in Packets, d \in Conns :
           retry'[q][d] # "none" => retry[q][d] # "none" \/ (q = p /\ d = c)
  BY <1>1, <1>2, DispatchTypes
<1>4. offered \in [Packets -> SUBSET Conns]
  BY DEF GInv, RouterTypes
<1>5. /\ targets'[p] = targets[p] \ {c} /\ offered'[p] = offered[p] \cup {c}
      /\ \A q \in Packets : q # p => targets'[q] = targets[q] /\ offered'[q] = offered[q]
  BY <1>1, <1>2, <1>3, <1>4
<1>6. ConnTypes' /\ RouterTypes'
  <2>1. targets' \in [Packets -> SUBSET Conns]
    BY <1>1, <1>2
  <2>2. QED
    BY <1>2, <1>3, <2>1 DEF conn, GInv, ConnTypes, RouterTypes
<1>7. NamesKnown' /\ NoZombieEntry'
  BY <1>2 DEF conn, registry, GInv, NamesKnown, NoZombieEntry, Registered
<1>8. HeadersKnown'
  BY <1>2, <1>3, <1>5 DEF GInv, HeadersKnown
<1>9. SnapshotsFit'
  <2>1. \A q \in Packets : targets'[q] \cup offered'[q] \subseteq targets[q] \cup offered[q]
    BY <1>1, <1>5
  <2>2. QED
    BY <1>2, <2>1 DEF conn, GInv, SnapshotsFit, Addressed
<1>10. RoutesHoldGuards'
  BY <1>2 DEF registry, GInv, RoutesHoldGuards, R!Idle
<1>11. BroadcastReachesMembers'
  <2>1. \A q \in Packets : targets[q] \cup offered[q] \subseteq targets'[q] \cup offered'[q]
    BY <1>5
  <2>2. QED
    BY <1>2, <2>1 DEF registry, GInv, BroadcastReachesMembers
<1>12. QED
  BY <1>6, <1>7, <1>8, <1>9, <1>10, <1>11 DEF GInv

\* A unicast keeps the invariant.
LEMMA UnicastKeeps ==
  ASSUME GInv, RP!RInv', NEW p \in Packets, RouteUnicast(p)
  PROVE  GInv'
<1> DEFINE c == member[pkt[p].room][pkt[p].user]
<1>1. /\ route[p] = "unicast" /\ route' = [route EXCEPT ![p] = "done"]
      /\ UNCHANGED <<conn, pkt, todo, targets, present, member>>
      /\ op' = [op EXCEPT ![p] = R!Idle]
  BY DEF RouteUnicast, R!ReadEnd
<1>2. /\ pkt[p].room \in Rooms /\ pkt[p].user \in Users /\ c \in Conns \cup {NoSender}
      /\ op \in [Tasks -> [stage : R!Stages, room : Rooms \cup {NoRoom}]]
      /\ route \in [Packets -> RouteStates] /\ offered \in [Packets -> SUBSET Conns]
  BY <1>1, RegistryFacts DEF GInv, HeadersKnown, Headers, RouterTypes
<1>3. \/ c \in Conns /\ Dispatch(p, c)
      \/ UNCHANGED <<queue, offered, retry>>
  BY <1>2 DEF RouteUnicast
<1>4. /\ offered' \in [Packets -> SUBSET Conns] /\ queue' \in [Conns -> Seq(Packets)]
      /\ retry' \in [Packets -> [Conns -> RetryStates]]
      /\ \A q \in Packets : offered[q] \subseteq offered'[q]
      /\ \A q \in Packets, d \in Conns :
           d \in offered'[q] => d \in offered[q] \/ (q = p /\ d = c)
      /\ \A q \in Packets, d \in Conns :
           retry'[q][d] # "none" => retry[q][d] # "none" \/ (q = p /\ d = c /\ c \in offered'[p])
  <2>1. CASE c \in Conns /\ Dispatch(p, c)
    <3>1. /\ offered' = [offered EXCEPT ![p] = @ \cup {c}]
          /\ offered' \in [Packets -> SUBSET Conns] /\ queue' \in [Conns -> Seq(Packets)]
          /\ retry' \in [Packets -> [Conns -> RetryStates]]
          /\ \A q \in Packets, d \in Conns :
               retry'[q][d] # "none" => retry[q][d] # "none" \/ (q = p /\ d = c)
      BY <2>1, DispatchTypes
    <3>2. offered'[p] = offered[p] \cup {c} /\ \A q \in Packets : q # p => offered'[q] = offered[q]
      BY <1>2, <3>1
    <3>3. QED
      BY <3>1, <3>2
  <2>2. CASE UNCHANGED <<queue, offered, retry>>
    BY <2>2 DEF GInv, ConnTypes, RouterTypes
  <2>3. QED
    BY <1>3, <2>1, <2>2
<1>5. route'[p] = "done" /\ \A q \in Packets : q # p => route'[q] = route[q]
  BY <1>1, <1>2
<1>6. Routes(p, "done")
  BY <1>1, <1>4 DEF Routes, RouteStates
<1>7. ConnTypes' /\ NamesKnown' /\ NoZombieEntry' /\ RouterTypes'
  BY <1>1, <1>4, <1>6, RoutesKeep DEF GInv, RouterTypes
<1>8. HeadersKnown'
  <2> SUFFICES ASSUME NEW q \in Packets
               PROVE  /\ IF route'[q] = "none" THEN targets[q] = {} /\ offered'[q] = {}
                         ELSE pkt[q] \in Headers
                      /\ route'[q] \in {"visit", "dispatch"} => pkt[q].target = "Broadcast"
                      /\ \A d \in Conns : retry'[q][d] # "none" => d \in offered'[q]
    BY <1>1 DEF HeadersKnown
  <2>1. /\ IF route[q] = "none" THEN targets[q] = {} /\ offered[q] = {} ELSE pkt[q] \in Headers
        /\ route[q] \in {"visit", "dispatch"} => pkt[q].target = "Broadcast"
        /\ \A d \in Conns : retry[q][d] # "none" => d \in offered[q]
    BY DEF GInv, HeadersKnown
  <2>2. \A d \in Conns : retry'[q][d] # "none" => d \in offered'[q]
    BY <1>4, <2>1
  <2>3. CASE q = p
    BY <1>1, <1>5, <2>1, <2>2, <2>3
  <2>4. CASE q # p
    <3>1. route[q] = "none" => offered'[q] = {}
      BY <1>4, <2>1, <2>4
    <3>2. QED
      BY <1>5, <2>1, <2>2, <2>4, <3>1
  <2>5. QED
    BY <2>3, <2>4
<1>9. SnapshotsFit'
  <2> SUFFICES ASSUME NEW q \in Packets, NEW d \in Conns, d \in targets[q] \cup offered'[q]
               PROVE  Addressed(q, d)
    BY <1>1 DEF conn, SnapshotsFit, Addressed
  <2>1. CASE d \in targets[q] \cup offered[q]
    BY <2>1 DEF GInv, SnapshotsFit
  <2>2. CASE q = p /\ d = c
    BY <1>1, <1>2, <2>2, MembersAreAddressed
  <2>3. QED
    BY <1>4, <2>1, <2>2
<1>10. RoutesHoldGuards'
  <2>1. op'[p] = R!Idle /\ \A q \in Packets : q # p => op'[q] = op[q]
    BY <1>1, <1>2, TasksAreTasks
  <2>2. QED
    BY <1>1, <1>5, <2>1 DEF GInv, RoutesHoldGuards, R!Idle
<1>11. BroadcastReachesMembers'
  BY <1>1, <1>4, <1>5 DEF GInv, BroadcastReachesMembers
<1>12. QED
  BY <1>7, <1>8, <1>9, <1>10, <1>11 DEF GInv

-----------------------------------------------------------------------------
(* The theorems.                                                            *)

\* The gateway starts without rooms, names or packets.
LEMMA InitGInv == Init => GInv
<1> SUFFICES ASSUME Init PROVE GInv
  OBVIOUS
<1>1. RP!RInv
  BY SameRegistry, RP!RegistryInitRInv, NoValuesAssumption DEF Init, RP!NamesAssumption
<1>2. ConnTypes
  BY DEF Init, ConnTypes, ConnStates
<1>3. RouterTypes
  BY DEF Init, RouterTypes, RouteStates, RetryStates
<1>4. /\ member = [r \in Rooms |-> [u \in Users |-> NoSender]]
      /\ op = [t \in Tasks |-> R!Idle]
  BY DEF Init, R!RegistryInit
<1>5. NamesKnown /\ HeadersKnown /\ SnapshotsFit
  BY <1>4 DEF Init, NamesKnown, HeadersKnown, SnapshotsFit
<1>6. RoutesHoldGuards
  BY <1>4, TasksAreTasks DEF Init, RoutesHoldGuards
<1>7. NoZombieEntry /\ BroadcastReachesMembers
  BY DEF Init, NoZombieEntry, Registered, BroadcastReachesMembers
<1>8. QED
  BY <1>1, <1>2, <1>3, <1>5, <1>6, <1>7 DEF GInv

\* Every step keeps the inductive invariant.
LEMMA NextGInv == GInv /\ [Next]_vars => GInv'
<1> SUFFICES ASSUME GInv, [Next]_vars PROVE GInv'
  OBVIOUS
<1>1. CASE Next
  <2>1. RP!RInv'
    BY <1>1, RegistryKept
  <2>2. ASSUME NEW c \in Conns,
               \/ Connect(c) \/ ConnStep(c) \/ Tick(c) \/ SendReturns(c) \/ ClientFrame(c)
               \/ ClientClose(c) \/ CloseSent(c)
        PROVE  GInv'
    BY <2>1, <2>2, ConnectKeeps, LoopMoves, LoopKeeps, LeavingKeeps DEF ConnStep
  <2>3. ASSUME NEW p \in Packets, RecvUdp(p) \/ RouteStep(p)
        PROVE  GInv'
    BY <2>1, <2>3, ArriveKeeps, LookupKeeps, VisitKeeps, DispatchKeeps, UnicastKeeps DEF RouteStep
  <2>4. ASSUME NEW p \in Packets, NEW c \in Conns, RecvWs(c, p) \/ RetryStep(p, c)
        PROVE  GInv'
    BY <2>1, <2>4, ArriveKeeps, RetryKeeps
  <2>5. QED
    BY <1>1, <2>2, <2>3, <2>4 DEF Next
<1>2. CASE UNCHANGED vars
  <2> USE <1>2 DEF vars, registry, conn, router
  <2>1. RP!RInv'
    <3>1. UNCHANGED RP!registryVars
      BY DEF RP!registryVars
    <3>2. QED
      BY <3>1, RP!RegistryNextRInv, NoValuesAssumption DEF GInv, RP!NamesAssumption
  <2>2. ConnTypes' /\ RouterTypes'
    BY DEF GInv, ConnTypes, RouterTypes
  <2>3. NamesKnown' /\ HeadersKnown' /\ SnapshotsFit' /\ RoutesHoldGuards'
    BY DEF GInv, NamesKnown, HeadersKnown, SnapshotsFit, Addressed, RoutesHoldGuards, R!Idle
  <2>4. NoZombieEntry' /\ BroadcastReachesMembers'
    BY DEF GInv, NoZombieEntry, Registered, BroadcastReachesMembers
  <2>5. QED
    BY <2>1, <2>2, <2>3, <2>4 DEF GInv
<1>3. QED
  BY <1>1, <1>2

\* The inductive invariant holds in every reachable state.
THEOREM GatewayInvariant == Spec => []GInv
BY InitGInv, NextGInv, PTL DEF Spec

\* A packet is addressed as its snapshots are.
LEMMA AddresseesOnly == GInv => OnlyAddressees
BY DEF GInv, SnapshotsFit, Addressed, OnlyAddressees

\* An empty gateway has no room: its members would be entries, and an empty
\* room would have a task on its way to remove it.
LEMMA RoomsGo == GInv => NoRoomOutlivesItsUsers
<1> SUFFICES ASSUME GInv, \A c \in Conns : pc[c] \in {"new", "closing", "closed"},
                    \A t \in Tasks : op[t] = R!Idle, NEW r \in present
             PROVE  FALSE
  BY DEF NoRoomOutlivesItsUsers
<1>1. r \in Rooms
  BY DEF GInv, RP!RInv, RP!RegistryTypeOK
<1>2. ~RP!IsEmpty(r)
  BY <1>1 DEF GInv, RP!RInv, RP!NoEmptyRoomLeak, R!Idle
<1>3. PICK u \in Users : member[r][u] # NoSender
  BY <1>2 DEF RP!IsEmpty
<1>4. member[r][u] \in Conns /\ name[member[r][u]] = [room |-> r, user |-> u]
  BY <1>1, <1>3, RegistryFacts DEF GInv, NamesKnown
<1>5. Registered(member[r][u])
  <2>1. [room |-> r, user |-> u] # NoName
    BY <1>1, NoValuesAssumption DEF NoName
  <2>2. QED
    BY <1>4, <2>1 DEF Registered
<1>6. QED
  BY <1>4, <1>5 DEF GInv, NoZombieEntry, InLoop

\* The type invariant of the gateway, its registry's included.
LEMMA TypesHold == GInv => TypeOK
<1>1. RP!RegistryTypeOK => R!RegistryTypeOK
  BY DEF RP!RegistryTypeOK, R!RegistryTypeOK, RP!Stages, R!Stages
<1>2. QED
  BY <1>1 DEF GInv, RP!RInv, ConnTypes, RouterTypes, TypeOK

\* For every set of rooms, users, connections and packets: a packet reaches
\* its addressees only, a broadcast misses no member, no entry outlives its
\* task and no room its users.
THEOREM GatewaySafety ==
  Spec => [](/\ TypeOK /\ OnlyAddressees /\ NoZombieEntry /\ NoRoomOutlivesItsUsers
             /\ BroadcastReachesMembers)
<1>1. GInv => /\ TypeOK /\ OnlyAddressees /\ NoZombieEntry /\ NoRoomOutlivesItsUsers
              /\ BroadcastReachesMembers
  BY AddresseesOnly, RoomsGo, TypesHold DEF GInv
<1>2. QED
  BY <1>1, GatewayInvariant, PTL

\* Whatever its connections, routes and retries do to rooms, the gateway binds
\* names to connections like one flat table: a step binds one name, unbinds
\* one name, or leaves every name bound as it was.
THEOREM GatewayImplementsFlat == Spec => R!ImplementsFlatRegistry
<1>1. Init => R!Flat!FlatInit
  BY DEF Init, R!RegistryInit, R!Flat!FlatInit
<1>2. GInv /\ [Next]_vars => [R!Flat!FlatNext]_member
  <2> SUFFICES ASSUME GInv, [Next]_vars PROVE [R!Flat!FlatNext]_member
    OBVIOUS
  <2>1. [RP!RegistryNext]_(RP!registryVars)
    BY StepOfRegistry, SameRegistry DEF vars, registry, RP!registryVars
  <2>2. [RP!Flat!FlatNext]_member
    BY <2>1, RP!FlatStep, NoValuesAssumption DEF GInv, RP!NamesAssumption
  <2>3. RP!Flat!FlatNext => R!Flat!FlatNext
    BY DEF RP!Flat!FlatNext, RP!Flat!Bind, RP!Flat!Unbind,
           R!Flat!FlatNext, R!Flat!Bind, R!Flat!Unbind
  <2> QED
    BY <2>2, <2>3
<1>3. QED
  BY <1>1, <1>2, GatewayInvariant, PTL DEF Spec, R!ImplementsFlatRegistry, R!Flat!FlatSpec

\* The entry of a connection is where its name says.
LEMMA EntryPlace ==
  ASSUME GInv, NEW d \in Conns, Registered(d)
  PROVE  /\ name[d] \in Names /\ name[d].room \in Rooms /\ name[d].user \in Users
         /\ member[name[d].room][name[d].user] = d /\ pc[d] # "new"
<1>1. name[d] \in Names
  BY DEF Registered, GInv, ConnTypes
<1>2. QED
  BY <1>1 DEF Registered, GInv, NamesKnown, Names

\* A step that keeps names and entries takes no connection out.
LEMMA EntryStays ==
  ASSUME NEW d \in Conns, Registered(d), UNCHANGED <<name, member>>
  PROVE  Registered(d)'
BY DEF Registered

\* Two names with the same room and user are the same.
LEMMA SameName ==
  ASSUME NEW m \in Names, NEW n \in Names, m.room = n.room, m.user = n.user
  PROVE  m = n
BY DEF Names

\* Which steps take a connection out of the registry, and under which name.
LEMMA StepByName ==
  ASSUME GInv, Next, NEW d \in Conns, Registered(d), ~Registered(d)'
  PROVE  \E c \in Conns :
           /\ name'[c] = name[d]
           /\ \/ pc[c] \in {"new", "leaving"} /\ pc'[c] # pc[c]
              \/ \E p \in Packets : retry[p][c] = "giveup" /\ retry'[p][c] # "giveup"
<1> DEFINE r == name[d].room
           u == name[d].user
<1>1. /\ r \in Rooms /\ u \in Users /\ name[d] \in Names /\ name[d] # NoName
      /\ member[r][u] = d /\ pc[d] # "new"
  BY EntryPlace DEF Registered
<1>2. /\ pc \in [Conns -> ConnStates] /\ name \in [Conns -> Names \cup {NoName}]
      /\ retry \in [Packets -> [Conns -> RetryStates]]
      /\ member \in [Rooms -> [Users -> Conns \cup {NoSender}]]
  BY RegistryFacts DEF GInv, ConnTypes, RouterTypes
<1>3. ASSUME NEW c \in Conns, Connect(c)
      PROVE  name'[c] = name[d] /\ pc[c] = "new" /\ pc'[c] # pc[c]
  <2>1. PICK n \in Names : name' = [name EXCEPT ![c] = n] /\ R!Register(n.room, n.user, c)
    BY <1>3 DEF Connect
  <2>2. pc[c] = "new" /\ pc'[c] # pc[c] /\ c # d
    BY <1>1, <1>2, <1>3 DEF Connect, Goto
  <2>3. name'[d] = name[d] /\ name'[c] = n
    BY <1>2, <2>1, <2>2
  <2>4. member'[r][u] # d
    BY <1>1, <2>3 DEF Registered
  <2>5. r = n.room /\ u = n.user
    BY <1>1, <1>2, <2>1, <2>4 DEF R!Register
  <2>6. QED
    BY <1>1, <2>2, <2>3, <2>5, SameName
<1>4. ASSUME NEW c \in Conns, Leave(c)
      PROVE  name'[c] = name[d] /\ pc[c] = "leaving" /\ pc'[c] # pc[c]
  <2>1. name' = name /\ pc[c] = "leaving" /\ pc'[c] # pc[c] /\ name[c] \in Names
    BY <1>2, <1>4 DEF Leave, Goto, GInv, NamesKnown
  <2>2. member'[r][u] # d
    BY <1>1, <2>1 DEF Registered
  <2>3. R!UnregRemove(c, name[c].room, name[c].user)
    BY <1>1, <1>4, <2>2 DEF Leave, registry
  <2>4. r = name[c].room /\ u = name[c].user
    BY <1>1, <1>2, <2>2, <2>3 DEF R!UnregRemove
  <2>5. QED
    BY <1>1, <2>1, <2>4, SameName
<1>5. ASSUME NEW p \in Packets, NEW c \in Conns, RetryUnregister(p, c)
      PROVE  name'[c] = name[d] /\ retry[p][c] = "giveup" /\ retry'[p][c] # "giveup"
  <2>1. name' = name /\ retry[p][c] = "giveup" /\ retry'[p][c] # "giveup"
    BY <1>2, <1>5 DEF RetryUnregister, SetRetry, conn
  <2>2. name[c] \in Names /\ pkt[p].room = name[c].room
    BY <2>1 DEF GInv, HeadersKnown, SnapshotsFit, Addressed, NamesKnown
  <2>3. member'[r][u] # d
    BY <1>1, <2>1 DEF Registered
  <2>4. R!UnregRemove(<<p, c>>, pkt[p].room, name[c].user)
    BY <1>1, <1>5, <2>3 DEF RetryUnregister, registry
  <2>5. r = name[c].room /\ u = name[c].user
    BY <1>1, <1>2, <2>2, <2>3, <2>4 DEF R!UnregRemove
  <2>6. QED
    BY <1>1, <2>1, <2>2, <2>5, SameName
<1>6. ASSUME NEW t \in Tasks, R!UnregCheck(t) \/ R!UnregCleanup(t)
      PROVE  member' = member
  BY <1>6, SameRegistry, RP!CleanupKeepsMembers, NoValuesAssumption DEF GInv, R!UnregCheck
<1>7. ASSUME NEW c \in Conns, LeaveStep(c)
      PROVE  FALSE
  BY <1>6, <1>7, TasksAreTasks, EntryStays DEF LeaveStep
<1>8. ASSUME NEW p \in Packets, NEW c \in Conns, RetryUnregStep(p, c)
      PROVE  FALSE
  BY <1>6, <1>8, TasksAreTasks, EntryStays DEF RetryUnregStep, conn
<1>9. ASSUME NEW c \in Conns,
             \/ RecvItem(c) \/ RecvNone(c) \/ Park(c) \/ Notified(c) \/ Tick(c)
             \/ SendReturns(c) \/ ClientFrame(c) \/ ClientClose(c) \/ CloseSent(c)
      PROVE  FALSE
  BY <1>9, EntryStays DEF RecvItem, RecvNone, Park, Notified, Tick, SendReturns, ClientFrame,
                          ClientClose, CloseSent, registry
<1>10. ASSUME NEW p \in Packets, RecvUdp(p) \/ RouteStep(p)
       PROVE  FALSE
  BY <1>10, EntryStays
  DEF RecvUdp, Arrive, RouteStep, RouteLookup, RoomNotFound, RouteVisit, RouteDispatch, RouteEnd,
      RouteUnicast, R!ReadBegin, R!ReadEnd, registry, conn
<1>11. ASSUME NEW p \in Packets, NEW c \in Conns,
              RecvWs(c, p) \/ RetryPush(p, c) \/ RetryTimeout(p, c)
       PROVE  FALSE
  BY <1>11, EntryStays DEF RecvWs, Arrive, RetryPush, RetryTimeout, registry, conn
<1>12. QED
  BY <1>3, <1>4, <1>5, <1>7, <1>8, <1>9, <1>10, <1>11 DEF Next, ConnStep, RetryStep

\* A connection loses its entry to a step under its own name only, whatever
\* is routed, retried and taken over meanwhile.
THEOREM EntryGoesByItsName == Spec => RemovedByItsName
<1>1. GInv /\ [Next]_vars =>
        [\A d \in Conns :
           Registered(d) /\ ~Registered(d)' =>
             \E c \in Conns :
               /\ name'[c] = name[d]
               /\ \/ pc[c] \in {"new", "leaving"} /\ pc'[c] # pc[c]
                  \/ \E p \in Packets : retry[p][c] = "giveup" /\ retry'[p][c] # "giveup"]_vars
  BY StepByName
<1>2. QED
  BY <1>1, GatewayInvariant, PTL DEF Spec, RemovedByItsName
=============================================================================
