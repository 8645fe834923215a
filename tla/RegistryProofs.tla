--------------------------- MODULE RegistryProofs ---------------------------
(***************************************************************************)
(* The safety of the nested registry for every set of rooms, users, senders *)
(* and tasks, and that it implements the flat table of FlatRegistry.        *)
(***************************************************************************)
EXTENDS Registry, TLAPS

\* The inductive invariant.
RInv ==
  RegistryTypeOK /\ GuardedRoomPresent /\ MembersArePresent /\ NoEmptyRoomLeak

\* The empty registry satisfies the inductive invariant.
LEMMA RegistryInitRInv == RegistryInit => RInv
BY NamesAssumption
DEF RegistryInit, RInv, RegistryTypeOK, GuardedRoomPresent, MembersArePresent,
    NoEmptyRoomLeak, IsEmpty, HoldsGuard, Idle, Stages

\* register keeps the invariant: the room it writes has a user afterwards.
LEMMA RegisterKeeps ==
  ASSUME NEW r \in Rooms, NEW u \in Users, NEW s \in Senders, RInv, Register(r, u, s)
  PROVE  RInv'
<1>1. RegistryTypeOK'
  BY DEF RInv, RegistryTypeOK, Register
<1>2. GuardedRoomPresent'
  BY DEF RInv, GuardedRoomPresent, HoldsGuard, Register
<1>3. ~IsEmpty(r)'
  BY NamesAssumption DEF RInv, RegistryTypeOK, Register, IsEmpty
<1>4. \A q \in Rooms : q # r => (IsEmpty(q)' <=> IsEmpty(q)) /\ (q \in present' <=> q \in present)
  BY DEF RInv, RegistryTypeOK, Register, IsEmpty
<1>5. MembersArePresent'
  BY <1>4 DEF RInv, MembersArePresent, Register
<1>6. NoEmptyRoomLeak'
  BY <1>3, <1>4 DEF RInv, NoEmptyRoomLeak, Register
<1>7. QED
  BY <1>1, <1>2, <1>5, <1>6 DEF RInv

\* The two ends of a route's guard keep the invariant.
LEMMA ReadKeeps ==
  ASSUME NEW p \in Procs, RInv, (\E r \in Rooms : ReadBegin(p, r)) \/ ReadEnd(p)
  PROVE  RInv'
<1>1. present' = present /\ member' = member /\ (\A q \in Rooms : IsEmpty(q)' <=> IsEmpty(q))
  BY DEF ReadBegin, ReadEnd, IsEmpty
<1>2. RegistryTypeOK'
  BY NamesAssumption DEF RInv, RegistryTypeOK, ReadBegin, ReadEnd, Idle, Stages
<1>3. GuardedRoomPresent'
  BY NamesAssumption
  DEF RInv, RegistryTypeOK, GuardedRoomPresent, HoldsGuard, ReadBegin, ReadEnd, Idle
<1>4. NoEmptyRoomLeak'
  <2> SUFFICES ASSUME NEW q \in Rooms, q \in present, IsEmpty(q)
               PROVE  \E t \in Procs : op'[t].room = q /\ op'[t].stage \in {"removed", "cleanup"}
    BY <1>1 DEF NoEmptyRoomLeak
  <2>1. PICK t \in Procs : op[t].room = q /\ op[t].stage \in {"removed", "cleanup"}
    BY DEF RInv, NoEmptyRoomLeak
  <2>2. t # p
    BY <2>1 DEF ReadBegin, ReadEnd, Idle
  <2>3. op'[t] = op[t]
    BY <2>2 DEF RInv, RegistryTypeOK, ReadBegin, ReadEnd
  <2>4. QED
    BY <2>1, <2>3
<1>5. QED
  BY <1>1, <1>2, <1>3, <1>4 DEF RInv, MembersArePresent

\* The first step of unregister_internal keeps the invariant: the caller
\* itself is the task that will look at the room it may have emptied.
LEMMA UnregRemoveKeeps ==
  ASSUME NEW p \in Procs, NEW r \in Rooms, NEW u \in Users, RInv, UnregRemove(p, r, u)
  PROVE  RInv'
<1>1. RegistryTypeOK'
  BY NamesAssumption DEF RInv, RegistryTypeOK, UnregRemove, Idle, Stages
<1>2. GuardedRoomPresent'
  BY DEF RInv, RegistryTypeOK, GuardedRoomPresent, HoldsGuard, UnregRemove
<1>3. \A q \in Rooms : q # r => (IsEmpty(q)' <=> IsEmpty(q))
  BY DEF RInv, RegistryTypeOK, UnregRemove, IsEmpty
<1>4. MembersArePresent'
  BY <1>3 DEF RInv, MembersArePresent, UnregRemove
<1>5. op'[p].room = r /\ op'[p].stage = "removed" /\ \A t \in Procs : t # p => op'[t] = op[t]
  BY DEF RInv, RegistryTypeOK, UnregRemove
<1>6. op[p].stage = "idle"
  BY DEF UnregRemove, Idle
<1>7. NoEmptyRoomLeak'
  <2> SUFFICES ASSUME NEW q \in Rooms, q \in present', IsEmpty(q)'
               PROVE  \E t \in Procs : op'[t].room = q /\ op'[t].stage \in {"removed", "cleanup"}
    BY DEF NoEmptyRoomLeak
  <2>1. CASE q = r
    BY <2>1, <1>5
  <2>2. CASE q # r
    <3>1. q \in present /\ IsEmpty(q)
      BY <2>2, <1>3 DEF UnregRemove
    <3>2. PICK t \in Procs : op[t].room = q /\ op[t].stage \in {"removed", "cleanup"}
      BY <3>1 DEF RInv, NoEmptyRoomLeak
    <3>3. QED
      BY <3>2, <1>5, <1>6
  <2>3. QED
    BY <2>1, <2>2
<1>8. QED
  BY <1>1, <1>2, <1>4, <1>7 DEF RInv

\* is_empty under the guard keeps the invariant: a task gives up the room
\* only if it saw a user in it.
LEMMA UnregCheckKeeps ==
  ASSUME NEW p \in Procs, RInv, UnregCheck(p)
  PROVE  RInv'
<1>1. present' = present /\ member' = member /\ (\A q \in Rooms : IsEmpty(q)' <=> IsEmpty(q))
  BY DEF UnregCheck, IsEmpty
<1>2. /\ op[p] \in [stage : Stages, room : Rooms \cup {NoRoom}]
      /\ op[p].stage = "removed"
      /\ \A t \in Procs : t # p => op'[t] = op[t]
      /\ IsEmpty(op[p].room) => op'[p] = [op[p] EXCEPT !.stage = "cleanup"]
      /\ ~IsEmpty(op[p].room) => op'[p] = Idle
  BY DEF RInv, RegistryTypeOK, UnregCheck
<1>3. RegistryTypeOK'
  <2>1. op'[p] \in [stage : Stages, room : Rooms \cup {NoRoom}]
    BY <1>2 DEF Stages, Idle
  <2>2. op'[p].stage = "idle" <=> op'[p].room = NoRoom
    BY <1>2 DEF RInv, RegistryTypeOK, Idle
  <2>3. op' \in [Procs -> [stage : Stages, room : Rooms \cup {NoRoom}]]
    BY <2>1 DEF RInv, RegistryTypeOK, UnregCheck
  <2>4. QED
    BY <1>1, <1>2, <2>2, <2>3 DEF RInv, RegistryTypeOK
<1>4. GuardedRoomPresent'
  <2> SUFFICES ASSUME NEW t \in Procs, NEW q \in Rooms, HoldsGuard(t, q)'
               PROVE  q \in present'
    BY DEF GuardedRoomPresent
  <2>1. t # p
    BY <1>2, NamesAssumption DEF HoldsGuard, Idle
  <2>2. HoldsGuard(t, q)
    BY <2>1, <1>2 DEF HoldsGuard
  <2>3. QED
    BY <2>2, <1>1 DEF RInv, GuardedRoomPresent
<1>5. NoEmptyRoomLeak'
  <2> SUFFICES ASSUME NEW q \in Rooms, q \in present, IsEmpty(q)
               PROVE  \E t \in Procs : op'[t].room = q /\ op'[t].stage \in {"removed", "cleanup"}
    BY <1>1 DEF NoEmptyRoomLeak
  <2>1. PICK t \in Procs : op[t].room = q /\ op[t].stage \in {"removed", "cleanup"}
    BY DEF RInv, NoEmptyRoomLeak
  <2>2. CASE t = p
    <3>1. op'[p] = [op[p] EXCEPT !.stage = "cleanup"]
      BY <2>1, <2>2, <1>2
    <3>2. op'[p].room = q /\ op'[p].stage = "cleanup"
      BY <3>1, <2>1, <2>2, <1>2
    <3>3. QED
      BY <3>2
  <2>3. CASE t # p
    BY <2>1, <2>3, <1>2
  <2>4. QED
    BY <2>2, <2>3
<1>6. QED
  BY <1>1, <1>3, <1>4, <1>5 DEF RInv, MembersArePresent

\* remove_if changes no entry of the inner maps: it removes a room only when
\* it finds it without users.
LEMMA CleanupKeepsMembers ==
  ASSUME NEW p \in Procs, RInv, UnregCleanup(p)
  PROVE  /\ member' = member
         /\ op[p].room \in Rooms
<1>1. op[p].stage = "cleanup" /\ op[p].room \in Rooms
  BY DEF RInv, RegistryTypeOK, UnregCleanup
<1> DEFINE r == op[p].room
<1>2. CASE r \in present'
  BY <1>1, <1>2 DEF UnregCleanup, RInv, RegistryTypeOK
<1>3. CASE r \notin present'
  <2>1. IsEmpty(r)
    BY <1>1, <1>3 DEF UnregCleanup, RInv, MembersArePresent
  <2>2. member[r] = [u \in Users |-> NoSender]
    BY <2>1, <1>1 DEF IsEmpty, RInv, RegistryTypeOK
  <2>3. member' = [member EXCEPT ![r] = [u \in Users |-> NoSender]]
    BY <1>3 DEF UnregCleanup
  <2>4. QED
    BY <2>2, <2>3, <1>1 DEF RInv, RegistryTypeOK
<1>4. QED
  BY <1>1, <1>2, <1>3

\* remove_if keeps the invariant.
LEMMA UnregCleanupKeeps ==
  ASSUME NEW p \in Procs, RInv, UnregCleanup(p)
  PROVE  RInv'
<1>1. member' = member /\ op[p].room \in Rooms /\ \A q \in Rooms : IsEmpty(q)' <=> IsEmpty(q)
  BY CleanupKeepsMembers DEF IsEmpty
<1>2. op' = [op EXCEPT ![p] = Idle] /\ op[p].stage = "cleanup" /\ Unguarded(op[p].room)
  BY DEF UnregCleanup
<1>3. present' = IF IsEmpty(op[p].room) THEN present \ {op[p].room} ELSE present
  BY DEF UnregCleanup
<1>4. RegistryTypeOK'
  BY <1>1, <1>2, <1>3 DEF RInv, RegistryTypeOK, Idle, Stages
<1>5. GuardedRoomPresent'
  <2> SUFFICES ASSUME NEW t \in Procs, NEW q \in Rooms, HoldsGuard(t, q)'
               PROVE  q \in present'
    BY DEF GuardedRoomPresent
  <2>1. t # p /\ HoldsGuard(t, q)
    BY <1>2 DEF HoldsGuard, Idle, RInv, RegistryTypeOK
  <2>2. q \in present /\ q # op[p].room
    BY <2>1, <1>2 DEF RInv, GuardedRoomPresent, Unguarded
  <2>3. QED
    BY <2>2, <1>3
<1>6. MembersArePresent'
  BY <1>1, <1>3 DEF RInv, MembersArePresent
<1>7. NoEmptyRoomLeak'
  <2> SUFFICES ASSUME NEW q \in Rooms, q \in present', IsEmpty(q)
               PROVE  \E t \in Procs : op'[t].room = q /\ op'[t].stage \in {"removed", "cleanup"}
    BY <1>1 DEF NoEmptyRoomLeak
  <2>1. q \in present /\ q # op[p].room
    BY <1>3
  <2>2. PICK t \in Procs : op[t].room = q /\ op[t].stage \in {"removed", "cleanup"}
    BY <2>1 DEF RInv, NoEmptyRoomLeak
  <2>3. op'[t] = op[t]
    BY <2>1, <2>2, <1>2 DEF RInv, RegistryTypeOK
  <2>4. QED
    BY <2>2, <2>3
<1>8. QED
  BY <1>4, <1>5, <1>6, <1>7 DEF RInv

\* Every step keeps the invariant.
LEMMA RegistryNextRInv == RInv /\ [RegistryNext]_registryVars => RInv'
<1> SUFFICES ASSUME RInv, [RegistryNext]_registryVars PROVE RInv'
  OBVIOUS
<1>1. CASE RegistryNext
  BY <1>1, RegisterKeeps, ReadKeeps, UnregRemoveKeeps, UnregCheckKeeps, UnregCleanupKeeps
  DEF RegistryNext
<1>2. CASE UNCHANGED registryVars
  BY <1>2 DEF registryVars, RInv, RegistryTypeOK, GuardedRoomPresent, MembersArePresent,
              NoEmptyRoomLeak, IsEmpty, HoldsGuard
<1>3. QED
  BY <1>1, <1>2

\* The inductive invariant holds in every reachable state.
THEOREM RegistryInvariant == RegistrySpec => []RInv
<1>1. QED
  BY RegistryInitRInv, RegistryNextRInv, PTL DEF RegistrySpec

\* For every set of rooms, users and tasks: types are right, no room is
\* destroyed under a guard, members are in rooms that exist, and a room that
\* is empty has a task on its way to remove it.
THEOREM RegistrySafety ==
  RegistrySpec =>
    [](RegistryTypeOK /\ GuardedRoomPresent /\ MembersArePresent /\ NoEmptyRoomLeak)
<1>1. QED
  BY RegistryInvariant, PTL DEF RInv

\* A step of the registry binds or unbinds one name, or none.
LEMMA FlatStep == RInv /\ [RegistryNext]_registryVars => [Flat!FlatNext]_member
<1> SUFFICES ASSUME RInv, [RegistryNext]_registryVars PROVE [Flat!FlatNext]_member
  OBVIOUS
<1>1. ASSUME NEW r \in Rooms, NEW u \in Users, NEW s \in Senders, Register(r, u, s)
      PROVE  Flat!FlatNext
  BY <1>1 DEF Register, Flat!Bind, Flat!FlatNext
<1>2. ASSUME NEW p \in Procs, NEW r \in Rooms, NEW u \in Users, UnregRemove(p, r, u)
      PROVE  Flat!FlatNext
  BY <1>2 DEF UnregRemove, Flat!Unbind, Flat!FlatNext
<1>3. ASSUME NEW p \in Procs, UnregCleanup(p)
      PROVE  UNCHANGED member
  BY <1>3, CleanupKeepsMembers
<1>4. ASSUME NEW p \in Procs,
             (\E r \in Rooms : ReadBegin(p, r)) \/ ReadEnd(p) \/ UnregCheck(p)
      PROVE  UNCHANGED member
  BY <1>4 DEF ReadBegin, ReadEnd, UnregCheck
<1> QED
  BY <1>1, <1>2, <1>3, <1>4 DEF RegistryNext, registryVars

\* Creating and destroying rooms is invisible: every step of the registry is
\* a step of the flat table or leaves it alone.
THEOREM RegistryImplementsFlat == RegistrySpec => ImplementsFlatRegistry
<1>1. RegistryInit => Flat!FlatInit
  BY DEF RegistryInit, Flat!FlatInit
<1>2. QED
  BY <1>1, FlatStep, RegistryInvariant, PTL DEF RegistrySpec, ImplementsFlatRegistry, Flat!FlatSpec
=============================================================================
