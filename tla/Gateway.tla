------------------------------ MODULE Gateway ------------------------------
(***************************************************************************)
(* The running gateway: the tasks of src/network.rs (one per WebSocket      *)
(* connection, one per routed packet) over the router of src/routing.rs     *)
(* (its registry, its dispatch policies and the retry tasks it spawns).     *)
(*                                                                         *)
(* A connection stands for its task, for its channel and for the sender in  *)
(* the registry.  The channel is the one that BoundedChannel shows to wake  *)
(* its receiver on every push: a parked receiver resumes when its queue is  *)
(* not empty.  The registry is the one of Registry, step by step.           *)
(***************************************************************************)
EXTENDS ChannelOps, FiniteSets

CONSTANTS Rooms, Users, NoSender, NoRoom, NoUser,
          Conns,       \* the WebSocket connections of a behaviour, a bound
          Packets,     \* the packets of a behaviour, a bound
          Kinds        \* the packet types that arrive

VARIABLES present, member, op,   \* the registry, see Registry
          pc,          \* where the task of each connection is
          name,        \* the room and the user it was accepted for
          queue,       \* the deque of its channel
          handed,      \* history: the packets given to ws_sender.send
          pkt,         \* each packet's header: kind, target, room, user
          route,       \* where the task that routes it is
          todo,        \* broadcast: the users the snapshot has still to visit
          targets,     \* broadcast: the cloned senders not yet served
          offered,     \* history: the connections it was dispatched to
          retry        \* retry[p][c]: the task send_timeout runs in

registry == <<present, member, op>>
conn == <<pc, name, handed>>
router == <<pkt, route, todo, targets, offered>>
vars == <<registry, conn, queue, router, retry>>

Tasks == Conns \cup Packets \cup (Packets \X Conns)

R == INSTANCE Registry WITH Senders <- Conns, Procs <- Tasks

KindSet == {"RawMotion", "AiEvent", "SystemCmd", "Heartbeat"}
TargetSet == {"Broadcast", "Unicast"}

ASSUME KindsAssumption == Kinds \subseteq KindSet

\* The values that stand for nothing are none of the others, and the tasks of
\* connections, packets and retries are different tasks.
ASSUME NoValuesAssumption == NoSender \notin Conns /\ NoRoom \notin Rooms

ASSUME TasksAssumption ==
  /\ Conns \cap Packets = {}
  /\ (Conns \cup Packets) \cap (Packets \X Conns) = {}

\* "ready": select! is about to poll; "parked": rx.recv is pending and so is
\* everything else; "sending", "pinging": in ws_sender.send of an arm.
InLoop == {"ready", "parked", "sending", "pinging"}

\* "leaving": out of the loop; "unreg": inside router.unregister; "closing":
\* in ws_sender.send of the close frame, with the receiver not yet dropped.
ConnStates == {"new", "leaving", "unreg", "closing", "closed"} \cup InLoop

RouteStates == {"none", "spawned", "unicast", "visit", "dispatch", "done"}

\* "giveup": send_timeout returned Err; "unreg": in unregister_internal.
RetryStates == {"none", "trying", "giveup", "unreg", "delivered", "failed"}

NoName == [room |-> NoRoom, user |-> NoUser]
Names == [room : Rooms, user : Users]

NoHeader == [kind |-> "none", target |-> "none", room |-> NoRoom, user |-> NoUser]
Headers == [kind : Kinds, target : TargetSet, room : Rooms, user : Users]

Init ==
  /\ R!RegistryInit
  /\ pc = [c \in Conns |-> "new"]
  /\ name = [c \in Conns |-> NoName]
  /\ queue = [c \in Conns |-> <<>>]
  /\ handed = [c \in Conns |-> <<>>]
  /\ pkt = [p \in Packets |-> NoHeader]
  /\ route = [p \in Packets |-> "none"]
  /\ todo = [p \in Packets |-> {}]
  /\ targets = [p \in Packets |-> {}]
  /\ offered = [p \in Packets |-> {}]
  /\ retry = [p \in Packets |-> [c \in Conns |-> "none"]]

Registered(c) == name[c] # NoName /\ member[name[c].room][name[c].user] = c

\* Arc::strong_count > 1: a clone of c's sender is still somewhere.
HasSender(c) ==
  \/ Registered(c)
  \/ \E p \in Packets : c \in targets[p] \/ retry[p][c] \in {"trying", "giveup", "unreg"}

-----------------------------------------------------------------------------
(* The task of a connection: handle_ws_connection.                          *)

Goto(c, state) == pc' = [pc EXCEPT ![c] = state]

Connect(c) ==
  /\ pc[c] = "new"
  /\ \E n \in Names :
       /\ name' = [name EXCEPT ![c] = n]
       /\ R!Register(n.room, n.user, c)
  /\ Goto(c, "ready")
  /\ UNCHANGED <<queue, handed, router, retry>>

\* Mutant: a send for two items at a time.
RecvPair(c) ==
  /\ pc[c] = "ready"
  /\ Len(queue[c]) > 1
  /\ queue' = [queue EXCEPT ![c] = Tail(Tail(@))]
  /\ handed' = [handed EXCEPT ![c] = @ \o SubSeq(queue[c], 1, 2)]
  /\ Goto(c, "sending")
  /\ UNCHANGED <<registry, name, router, retry>>

\* The recv arm with an item: the task stays in ws_sender.send.
RecvItem(c) ==
  /\ pc[c] = "ready"
  /\ queue[c] # <<>>
  /\ queue' = [queue EXCEPT ![c] = Tail(@)]
  /\ handed' = [handed EXCEPT ![c] = Append(@, Head(queue[c]))]
  /\ Goto(c, "sending")
  /\ UNCHANGED <<registry, name, router, retry>>

\* Mutant: None is taken for an empty queue and the loop goes on.
RecvNoneContinues(c) ==
  /\ pc[c] = "ready"
  /\ queue[c] = <<>>
  /\ ~HasSender(c)
  /\ Goto(c, "parked")
  /\ UNCHANGED <<registry, name, queue, handed, router, retry>>

\* The recv arm with None.
RecvNone(c) ==
  /\ pc[c] = "ready"
  /\ queue[c] = <<>>
  /\ ~HasSender(c)
  /\ Goto(c, "leaving")
  /\ UNCHANGED <<registry, name, queue, handed, router, retry>>

\* Every arm is pending; a sender that goes away will not wake the task.
Park(c) ==
  /\ pc[c] = "ready"
  /\ queue[c] = <<>>
  /\ HasSender(c)
  /\ Goto(c, "parked")
  /\ UNCHANGED <<registry, name, queue, handed, router, retry>>

Notified(c) ==
  /\ pc[c] = "parked"
  /\ queue[c] # <<>>
  /\ Goto(c, "ready")
  /\ UNCHANGED <<registry, name, queue, handed, router, retry>>

\* The ping arm: the interval fires and the ping is being sent.
Tick(c) ==
  /\ pc[c] \in {"ready", "parked"}
  /\ Goto(c, "pinging")
  /\ UNCHANGED <<registry, name, queue, handed, router, retry>>

\* ws_sender.send returns; after a ping last_alive may be too old, and an
\* error ends the loop in either arm.
SendReturns(c) ==
  /\ pc[c] \in {"sending", "pinging"}
  /\ \/ Goto(c, "ready")
     \/ Goto(c, "leaving")
  /\ UNCHANGED <<registry, name, queue, handed, router, retry>>

\* The incoming arm: a pong, a ping, text, or a packet that does not decode.
ClientFrame(c) ==
  /\ pc[c] = "parked"
  /\ Goto(c, "ready")
  /\ UNCHANGED <<registry, name, queue, handed, router, retry>>

\* The incoming arm: a close frame, the end of the stream or a read error.
ClientClose(c) ==
  /\ pc[c] \in {"ready", "parked"}
  /\ Goto(c, "leaving")
  /\ UNCHANGED <<registry, name, queue, handed, router, retry>>

\* Mutants: no unregister after the loop; one that only removes the user.
LeaveSilently(c) ==
  /\ pc[c] = "leaving"
  /\ Goto(c, "closed")
  /\ UNCHANGED <<registry, name, queue, handed, router, retry>>

LeaveNoCleanup(c) ==
  /\ pc[c] = "leaving"
  /\ member' = [member EXCEPT ![name[c].room][name[c].user] = NoSender]
  /\ Goto(c, "closed")
  /\ UNCHANGED <<present, op, name, queue, handed, router, retry>>

\* router.unregister(&room, &user): by name, whoever has the name by now.
Leave(c) ==
  /\ pc[c] = "leaving"
  /\ \/ /\ R!UnregRemove(c, name[c].room, name[c].user)
        /\ Goto(c, "unreg")
     \/ /\ name[c].room \notin present
        /\ UNCHANGED registry
        /\ Goto(c, "closing")
  /\ UNCHANGED <<name, queue, handed, router, retry>>

LeaveStep(c) ==
  /\ pc[c] = "unreg"
  /\ R!UnregCheck(c) \/ R!UnregCleanup(c)
  /\ Goto(c, IF op'[c] = R!Idle THEN "closing" ELSE "unreg")
  /\ UNCHANGED <<name, queue, handed, router, retry>>

\* The best-effort close frame is sent, or fails.
CloseSent(c) ==
  /\ pc[c] = "closing"
  /\ Goto(c, "closed")
  /\ UNCHANGED <<registry, name, queue, handed, router, retry>>

-----------------------------------------------------------------------------
(* Packets: the two receive loops and Router::route, which never awaits.    *)

\* Mutant: the senders are looked up before the routing task runs.
ArriveResolved(p) ==
  /\ route[p] = "none"
  /\ \E h \in Headers :
       /\ pkt' = [pkt EXCEPT ![p] = h]
       /\ targets' = [targets EXCEPT ![p] = {member[h.room][u] : u \in Users} \ {NoSender}]
  /\ route' = [route EXCEPT ![p] = "spawned"]
  /\ UNCHANGED <<registry, queue, todo, offered, retry>>

\* A packet that decodes is routed by a task of its own.
Arrive(p) ==
  /\ route[p] = "none"
  /\ \E h \in Headers : pkt' = [pkt EXCEPT ![p] = h]
  /\ route' = [route EXCEPT ![p] = "spawned"]
  /\ UNCHANGED <<registry, queue, todo, targets, offered, retry>>

RecvUdp(p) == Arrive(p) /\ UNCHANGED conn

RecvWs(c, p) ==
  /\ pc[c] \in {"ready", "parked"}
  /\ Arrive(p)
  /\ Goto(c, "ready")
  /\ UNCHANGED <<name, handed>>

\* Mutant: the guard is not kept after the lookup.
RouteLookupUnguarded(p) ==
  /\ route[p] = "spawned"
  /\ pkt[p].room \in present
  /\ route' = [route EXCEPT ![p] = IF pkt[p].target = "Broadcast" THEN "visit" ELSE "unicast"]
  /\ todo' = [todo EXCEPT ![p] = Users]
  /\ UNCHANGED <<registry, conn, queue, pkt, targets, offered, retry>>

RouteLookup(p) ==
  /\ route[p] = "spawned"
  /\ R!ReadBegin(p, pkt[p].room)
  /\ IF pkt[p].target = "Broadcast"
     THEN /\ route' = [route EXCEPT ![p] = "visit"]
          /\ todo' = [todo EXCEPT ![p] = Users]
     ELSE /\ route' = [route EXCEPT ![p] = "unicast"]
          /\ UNCHANGED todo
  /\ UNCHANGED <<conn, queue, pkt, targets, offered, retry>>

RoomNotFound(p) ==
  /\ route[p] = "spawned"
  /\ pkt[p].room \notin present
  /\ route' = [route EXCEPT ![p] = "done"]
  /\ UNCHANGED <<registry, conn, queue, pkt, todo, targets, offered, retry>>

\* Mutant: a visited user without a sender is taken for one with.
RouteVisitAll(p) ==
  /\ route[p] = "visit"
  /\ \E u \in todo[p] :
       /\ todo' = [todo EXCEPT ![p] = @ \ {u}]
       /\ targets' = [targets EXCEPT ![p] = @ \cup {member[pkt[p].room][u]}]
  /\ route' = [route EXCEPT ![p] = IF todo'[p] = {} THEN "dispatch" ELSE "visit"]
  /\ UNCHANGED <<registry, conn, queue, pkt, offered, retry>>

\* The iterator locks one shard of the room after the other: each user is
\* seen as it is at a moment of its own.
RouteVisit(p) ==
  /\ route[p] = "visit"
  /\ \E u \in todo[p] :
       /\ todo' = [todo EXCEPT ![p] = @ \ {u}]
       /\ targets' = [targets EXCEPT ![p] = @ \cup ({member[pkt[p].room][u]} \ {NoSender})]
  /\ route' = [route EXCEPT ![p] = IF todo'[p] = {} THEN "dispatch" ELSE "visit"]
  /\ UNCHANGED <<registry, conn, queue, pkt, offered, retry>>

\* The backpressure policy of each packet type.
Dispatch(p, c) ==
  /\ offered' = [offered EXCEPT ![p] = @ \cup {c}]
  /\ \/ /\ pkt[p].kind = "RawMotion"
        /\ queue' = [queue EXCEPT ![c] = DropOldest(@, p)]
        /\ UNCHANGED retry
     \/ /\ pkt[p].kind # "RawMotion" /\ ~IsFull(queue[c])
        /\ queue' = [queue EXCEPT ![c] = Append(@, p)]
        /\ UNCHANGED retry
     \/ /\ pkt[p].kind = "SystemCmd" /\ IsFull(queue[c])
        /\ retry' = [retry EXCEPT ![p][c] = "trying"]
        /\ UNCHANGED queue
     \/ /\ pkt[p].kind \in {"AiEvent", "Heartbeat"} /\ IsFull(queue[c])
        /\ UNCHANGED <<queue, retry>>

\* Mutant: the snapshot is served again and again.
RouteDispatchAgain(p) ==
  /\ route[p] = "dispatch"
  /\ \E c \in targets[p] : Dispatch(p, c)
  /\ UNCHANGED <<registry, conn, pkt, route, todo, targets>>

RouteDispatch(p) ==
  /\ route[p] = "dispatch"
  /\ \E c \in targets[p] :
       /\ Dispatch(p, c)
       /\ targets' = [targets EXCEPT ![p] = @ \ {c}]
  /\ UNCHANGED <<registry, conn, pkt, route, todo>>

\* route returns and drops its guard.
RouteEnd(p) ==
  /\ route[p] = "dispatch"
  /\ targets[p] = {}
  /\ R!ReadEnd(p)
  /\ route' = [route EXCEPT ![p] = "done"]
  /\ UNCHANGED <<conn, queue, pkt, todo, targets, offered, retry>>

\* Mutant: a unicast goes to anyone in the room.
RouteUnicastAnyone(p) ==
  /\ route[p] = "unicast"
  /\ \E u \in Users :
       LET c == member[pkt[p].room][u]
       IN  \/ c # NoSender /\ Dispatch(p, c)
           \/ c = NoSender /\ UNCHANGED <<queue, offered, retry>>
  /\ R!ReadEnd(p)
  /\ route' = [route EXCEPT ![p] = "done"]
  /\ UNCHANGED <<conn, pkt, todo, targets>>

\* room.get(target_user) and the dispatch under its guard, then the return.
RouteUnicast(p) ==
  /\ route[p] = "unicast"
  /\ LET c == member[pkt[p].room][pkt[p].user]
     IN  \/ c # NoSender /\ Dispatch(p, c)
         \/ c = NoSender /\ UNCHANGED <<queue, offered, retry>>
  /\ R!ReadEnd(p)
  /\ route' = [route EXCEPT ![p] = "done"]
  /\ UNCHANGED <<conn, pkt, todo, targets>>

-----------------------------------------------------------------------------
(* The task dispatch spawns for a SystemCmd that found the channel full.    *)

SetRetry(p, c, state) == retry' = [retry EXCEPT ![p][c] = state]

RetryPush(p, c) ==
  /\ retry[p][c] = "trying"
  /\ ~IsFull(queue[c])
  /\ queue' = [queue EXCEPT ![c] = Append(@, p)]
  /\ SetRetry(p, c, "delivered")
  /\ UNCHANGED <<registry, conn, router>>

\* Mutant: the failed command is dropped.
RetryTimeoutDrops(p, c) ==
  /\ retry[p][c] = "trying"
  /\ IsFull(queue[c])
  /\ SetRetry(p, c, "failed")
  /\ UNCHANGED <<registry, conn, queue, router>>

\* The attempt after the 50 ms finds the channel full: Err.
RetryTimeout(p, c) ==
  /\ retry[p][c] = "trying"
  /\ IsFull(queue[c])
  /\ SetRetry(p, c, "giveup")
  /\ UNCHANGED <<registry, conn, queue, router>>

\* Mutant: the user id of the packet is unregistered, its sender in a broadcast.
RetryUnregisterSender(p, c) ==
  /\ retry[p][c] = "giveup"
  /\ \/ /\ R!UnregRemove(<<p, c>>, pkt[p].room, pkt[p].user)
        /\ SetRetry(p, c, "unreg")
     \/ /\ pkt[p].room \notin present
        /\ UNCHANGED registry
        /\ SetRetry(p, c, "failed")
  /\ UNCHANGED <<conn, queue, router>>

\* unregister_internal(&rooms, &room_id, &user_id): by name again.
RetryUnregister(p, c) ==
  /\ retry[p][c] = "giveup"
  /\ \/ /\ R!UnregRemove(<<p, c>>, pkt[p].room, name[c].user)
        /\ SetRetry(p, c, "unreg")
     \/ /\ pkt[p].room \notin present
        /\ UNCHANGED registry
        /\ SetRetry(p, c, "failed")
  /\ UNCHANGED <<conn, queue, router>>

RetryUnregStep(p, c) ==
  /\ retry[p][c] = "unreg"
  /\ R!UnregCheck(<<p, c>>) \/ R!UnregCleanup(<<p, c>>)
  /\ SetRetry(p, c, IF op'[<<p, c>>] = R!Idle THEN "failed" ELSE "unreg")
  /\ UNCHANGED <<conn, queue, router>>

-----------------------------------------------------------------------------

\* What the task of a connection does without its client or the clock.
ConnStep(c) == RecvItem(c) \/ RecvNone(c) \/ Park(c) \/ Notified(c) \/ Leave(c) \/ LeaveStep(c)

RouteStep(p) ==
  \/ RouteLookup(p) \/ RoomNotFound(p) \/ RouteVisit(p)
  \/ RouteDispatch(p) \/ RouteEnd(p) \/ RouteUnicast(p)

RetryStep(p, c) ==
  RetryPush(p, c) \/ RetryTimeout(p, c) \/ RetryUnregister(p, c) \/ RetryUnregStep(p, c)

Next ==
  \/ \E c \in Conns :
       Connect(c) \/ ConnStep(c) \/ Tick(c) \/ SendReturns(c) \/ ClientFrame(c) \/ ClientClose(c)
         \/ CloseSent(c)
  \/ \E p \in Packets : RecvUdp(p) \/ RouteStep(p)
  \/ \E p \in Packets, c \in Conns : RecvWs(c, p) \/ RetryStep(p, c)

Spec == Init /\ [][Next]_vars

\* tokio runs every ready task; the ping interval fires for ever; select!
\* polls its arms in random order, so an arm that is ready again and again
\* is taken in the end.
TaskFairness ==
  /\ \A c \in Conns : WF_vars(ConnStep(c)) /\ WF_vars(Tick(c))
                      /\ SF_vars(RecvItem(c)) /\ SF_vars(RecvNone(c))
  /\ \A p \in Packets : WF_vars(RouteStep(p))
  /\ \A p \in Packets, c \in Conns : WF_vars(RetryStep(p, c))

\* The client, or TCP, lets every send of the task end.
SocketFairness == \A c \in Conns : WF_vars(SendReturns(c) \/ CloseSent(c))

TaskFairSpec == Spec /\ TaskFairness
FairSpec == Spec /\ TaskFairness /\ SocketFairness

-----------------------------------------------------------------------------
(* Properties.                                                              *)

TypeOK ==
  /\ R!RegistryTypeOK
  /\ pc \in [Conns -> ConnStates]
  /\ name \in [Conns -> Names \cup {NoName}]
  /\ queue \in [Conns -> Seq(Packets)]
  /\ handed \in [Conns -> Seq(Packets)]
  /\ pkt \in [Packets -> Headers \cup {NoHeader}]
  /\ route \in [Packets -> RouteStates]
  /\ todo \in [Packets -> SUBSET Users]
  /\ targets \in [Packets -> SUBSET Conns]
  /\ offered \in [Packets -> SUBSET Conns]
  /\ retry \in [Packets -> [Conns -> RetryStates]]

\* "avoids zombie connections": an entry of the registry belongs to a task
\* that is in its loop or has its unregister still to come.
NoZombieEntry ==
  \A c \in Conns : Registered(c) => pc[c] \in InLoop \cup {"leaving"}

\* When every connection is closed and no task is under way, no room is left.
NoRoomOutlivesItsUsers ==
  (\A c \in Conns : pc[c] \in {"new", "closing", "closed"}) /\ (\A t \in Tasks : op[t] = R!Idle)
    => present = {}

\* A packet reaches connections of its room only, and a unicast only those
\* of its user, however names are taken over while it is routed or retried.
OnlyAddressees ==
  \A c \in Conns, p \in Packets :
    c \in offered[p] =>
      name[c].room = pkt[p].room /\ (pkt[p].target = "Unicast" => name[c].user = pkt[p].user)

Occurrences(s, p) == Cardinality({i \in DOMAIN s : s[i] = p})

Copies(p, c) ==
  Occurrences(queue[c], p) + Occurrences(handed[c], p) + (IF retry[p][c] = "trying" THEN 1 ELSE 0)

\* No packet reaches a connection twice, and none it was not dispatched to:
\* dispatch, its retry task and the snapshot never duplicate it.
AtMostOnce ==
  \A c \in Conns, p \in Packets : Copies(p, c) <= (IF c \in offered[p] THEN 1 ELSE 0)

\* A broadcast misses nobody: while it is routed, whoever is in the room
\* under a name already visited has been served or is about to be, because
\* the guard keeps registrations out until the last dispatch.
BroadcastReachesMembers ==
  \A p \in Packets :
    route[p] \in {"visit", "dispatch"} =>
      \A u \in Users \ todo[p] :
        member[pkt[p].room][u] \in targets[p] \cup offered[p] \cup {NoSender}

\* "reliability priority": a command that was dispatched to a connection is
\* queued, handed to its socket or still being retried, unless a retry failed
\* and took the connection out of the registry, or a motion frame that was
\* dispatched to the connection too has evicted it.
CommandKeptOrDisconnected ==
  \A p \in Packets, c \in Conns :
    pkt[p].kind = "SystemCmd" /\ c \in offered[p] /\ Copies(p, c) = 0 =>
      \/ retry[p][c] = "giveup" \/ ~Registered(c)
      \/ \E q \in Packets : pkt[q].kind = "RawMotion" /\ c \in offered[q]

\* A connection loses its entry by a step under its own name only: a later
\* registration, the leaving of a connection of that name, or the forced
\* disconnect of one.  In particular a broadcast that cannot be delivered to
\* one member disconnects neither its sender nor another member.
RemovedByItsName ==
  [][\A d \in Conns :
       Registered(d) /\ ~Registered(d)' =>
         \E c \in Conns :
           /\ name'[c] = name[d]
           /\ \/ pc[c] \in {"new", "leaving"} /\ pc'[c] # pc[c]
              \/ \E p \in Packets : retry[p][c] = "giveup" /\ retry'[p][c] # "giveup"]_vars

\* c was taken over, disconnected by a retry or unregistered by its task.
Out(c) ==
  \/ pc[c] \in {"unreg", "closing", "closed"}
  \/ pc[c] # "new" /\ ~Registered(c)

\* A connection that is out stays out: no packet that looks its room up from
\* then on is ever dispatched to it, however it went.  What its deque may
\* still get, read by nobody, is what routes under way hold a clone for.
NothingReachesTheGone ==
  \A p \in Packets, c \in Conns :
    [](Out(c) /\ route[p] \in {"none", "spawned"} => [](c \notin offered[p]))

\* A connection that lost its entry, because it was replaced or because a
\* command could not be delivered, is closed in the end.
UnregisteredCloses ==
  \A c \in Conns : (pc[c] # "new" /\ ~Registered(c)) ~> pc[c] = "closed"

\* A packet that was queued leaves the queue, or its connection closes.
QueuedIsHanded ==
  \A c \in Conns : queue[c] # <<>> ~> (queue[c] = <<>> \/ pc[c] = "closed")

\* "a forced disconnect on final failure": a connection whose command could
\* not be delivered is closed, whatever its client does.
ForcedDisconnectCloses ==
  \A p \in Packets, c \in Conns : retry[p][c] = "failed" ~> pc[c] = "closed"

\* "the later connection kicks the earlier one": what takes a connection out
\* of the registry is its own leaving, a later one of the same name or, after
\* a failed retry, a forced disconnect; never another connection's leaving.
KickedOnlyByLater ==
  [][\A c, d \in Conns :
       Registered(c) /\ pc[d] = "leaving" /\ pc'[d] # "leaving" /\ c # d
         => Registered(c)']_vars

\* "a forced disconnect on final failure": the connection that is taken out
\* is the one whose channel was full.
DisconnectsTheFullOne ==
  [][\A p \in Packets, c, d \in Conns :
       Registered(d) /\ retry[p][c] = "giveup" /\ retry'[p][c] # "giveup" /\ c # d
         => Registered(d)']_vars
=============================================================================
