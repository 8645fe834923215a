------------------------------ MODULE Registry ------------------------------
(***************************************************************************)
(* The router's registry, src/routing.rs: a DashMap of rooms, each a        *)
(* DashMap from users to senders.  A guard that `rooms.get` returns is a    *)
(* read lock on the room's shard, `entry` and `remove_if` take the write    *)
(* lock.  unregister_internal works in three steps with the read guard      *)
(* released before the last, so registrations, routes and other             *)
(* unregistrations of the room come in between.                             *)
(*                                                                         *)
(* Rooms are taken to lie in different shards: rooms that share one only    *)
(* exclude each other more.                                                 *)
(***************************************************************************)
CONSTANTS Rooms, Users,
          Senders,     \* the sender halves, one per connection
          NoSender,    \* no entry for the user
          NoRoom,      \* the room of a task that works on none
          Procs        \* the tasks that route or unregister

ASSUME NamesAssumption == NoSender \notin Senders /\ NoRoom \notin Rooms

VARIABLES present,     \* the rooms that have an entry in the outer map
          member,      \* member[r][u]: the inner map of room r at user u
          op           \* what each task is doing: its stage and its room

registryVars == <<present, member, op>>

\* "reading": route holds the guard.  "removed": unregister_internal holds
\* it, the user removed and is_empty still to come.  "cleanup": the guard is
\* released and remove_if still to come.
Stages == {"idle", "reading", "removed", "cleanup"}

Idle == [stage |-> "idle", room |-> NoRoom]

RegistryInit ==
  /\ present = {}
  /\ member = [r \in Rooms |-> [u \in Users |-> NoSender]]
  /\ op = [p \in Procs |-> Idle]

IsEmpty(r) == \A u \in Users : member[r][u] = NoSender

HoldsGuard(p, r) == op[p].room = r /\ op[p].stage \in {"reading", "removed"}

\* The write lock of the room's shard can be taken.
Unguarded(r) == \A p \in Procs : ~HoldsGuard(p, r)

\* entry().or_insert_with() keeps the write lock until the insert is done.
Register(r, u, s) ==
  /\ Unguarded(r)
  /\ present' = present \cup {r}
  /\ member' = [member EXCEPT ![r][u] = s]
  /\ UNCHANGED op

\* route: rooms.get and, later, the drop of the guard.
ReadBegin(p, r) ==
  /\ op[p] = Idle
  /\ r \in present
  /\ op' = [op EXCEPT ![p] = [stage |-> "reading", room |-> r]]
  /\ UNCHANGED <<present, member>>

ReadEnd(p) ==
  /\ op[p].stage = "reading"
  /\ op' = [op EXCEPT ![p] = Idle]
  /\ UNCHANGED <<present, member>>

\* unregister_internal: get and remove; a room that is absent ends the call.
UnregRemove(p, r, u) ==
  /\ op[p] = Idle
  /\ r \in present
  /\ member' = [member EXCEPT ![r][u] = NoSender]
  /\ op' = [op EXCEPT ![p] = [stage |-> "removed", room |-> r]]
  /\ UNCHANGED present

\* Mutants: no cleanup after the last user; the room of the call is kept.
UnregNoCleanup(p) ==
  /\ op[p].stage = "removed"
  /\ op' = [op EXCEPT ![p] = Idle]
  /\ UNCHANGED <<present, member>>

UnregCheckKeepsRoom(p) ==
  /\ op[p].stage = "removed"
  /\ op' = [op EXCEPT ![p].stage = IF IsEmpty(op[p].room) THEN "cleanup" ELSE "idle"]
  /\ UNCHANGED <<present, member>>

\* is_empty, then the guard is dropped.
UnregCheck(p) ==
  /\ op[p].stage = "removed"
  /\ op' = [op EXCEPT ![p] =
              IF IsEmpty(@.room) THEN [@ EXCEPT !.stage = "cleanup"] ELSE Idle]
  /\ UNCHANGED <<present, member>>

\* Mutants: remove instead of remove_if; no write lock.
UnregCleanupUnchecked(p) ==
  /\ op[p].stage = "cleanup"
  /\ Unguarded(op[p].room)
  /\ present' = present \ {op[p].room}
  /\ member' = [member EXCEPT ![op[p].room] = [u \in Users |-> NoSender]]
  /\ op' = [op EXCEPT ![p] = Idle]

UnregCleanupUnlocked(p) ==
  /\ op[p].stage = "cleanup"
  /\ present' = IF IsEmpty(op[p].room) THEN present \ {op[p].room} ELSE present
  /\ op' = [op EXCEPT ![p] = Idle]
  /\ UNCHANGED member

\* remove_if tests is_empty again under the write lock.
UnregCleanup(p) ==
  /\ op[p].stage = "cleanup"
  /\ Unguarded(op[p].room)
  /\ present' = IF IsEmpty(op[p].room) THEN present \ {op[p].room} ELSE present
  /\ member' = [member EXCEPT ![op[p].room] =
                  IF op[p].room \in present' THEN @ ELSE [u \in Users |-> NoSender]]
  /\ op' = [op EXCEPT ![p] = Idle]

RegistryNext ==
  \/ \E r \in Rooms, u \in Users, s \in Senders : Register(r, u, s)
  \/ \E p \in Procs, r \in Rooms : ReadBegin(p, r)
  \/ \E p \in Procs, r \in Rooms, u \in Users : UnregRemove(p, r, u)
  \/ \E p \in Procs : ReadEnd(p) \/ UnregCheck(p) \/ UnregCleanup(p)

RegistrySpec == RegistryInit /\ [][RegistryNext]_registryVars

\* A task that has started a call is run to its end; nothing here awaits.
\* A lock that is free is taken, but readers may keep a writer waiting.
RegistryFairness ==
  \A p \in Procs : WF_registryVars(ReadEnd(p) \/ UnregCheck(p) \/ UnregCleanup(p))

FairRegistrySpec == RegistrySpec /\ RegistryFairness

-----------------------------------------------------------------------------
(* Properties.                                                              *)

RegistryTypeOK ==
  /\ present \subseteq Rooms
  /\ member \in [Rooms -> [Users -> Senders \cup {NoSender}]]
  /\ op \in [Procs -> [stage : Stages, room : Rooms \cup {NoRoom}]]
  /\ \A p \in Procs : op[p].stage = "idle" <=> op[p].room = NoRoom

\* A room is never destroyed under a task that holds a guard on it.
GuardedRoomPresent ==
  \A p \in Procs, r \in Rooms : HoldsGuard(p, r) => r \in present

\* A user is only ever in a room that exists.
MembersArePresent ==
  \A r \in Rooms : r \notin present => IsEmpty(r)

\* "the last user leaving a room destroys the room entry": a room without
\* users is there only while the unregistration that emptied it, or another
\* one of the room, is still on its way to remove it.
NoEmptyRoomLeak ==
  \A r \in Rooms : r \in present /\ IsEmpty(r) =>
    \E p \in Procs : op[p].room = r /\ op[p].stage \in {"removed", "cleanup"}

\* Creating and destroying rooms is invisible to the names: a destroyed room
\* takes no user with it, one that registered in the meantime included.
Flat == INSTANCE FlatRegistry WITH bound <- member
ImplementsFlatRegistry == Flat!FlatSpec

\* Once no route reads a room, it does not stay empty for ever.
EmptyRoomGoes ==
  \A r \in Rooms :
    <>[](\A p \in Procs : op[p].stage = "reading" => op[p].room # r)
      => []<>(r \notin present \/ ~IsEmpty(r))
=============================================================================
