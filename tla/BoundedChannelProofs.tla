------------------------ MODULE BoundedChannelProofs ------------------------
(***************************************************************************)
(* The safety of the bounded channel for every capacity, every set of       *)
(* sender handles and every bound, and that it implements LossyChannel.     *)
(***************************************************************************)
EXTENDS BoundedChannel, FiniteSetTheorems, TLAPS

\* The inductive invariant: no conjunct is inductive without TypeOK, and
\* Conservation needs QueueIsLatest to know which item leaves the deque.
IInv == TypeOK /\ NoLostWakeup /\ QueueIsLatest /\ Conservation /\ ClosedIsFinal

-----------------------------------------------------------------------------
(* Lemmas on the deque.                                                     *)

\* The deque whose last item is number n, in acceptance order without a gap.
Latest(q, n) ==
  /\ Len(q) <= n
  /\ \A i \in 1 .. Len(q) : q[i] = n - Len(q) + i

\* Taking the head of a deque of latest items takes the oldest of them and
\* leaves a deque of latest items (pop_front in recv and in an eviction).
LEMMA LatestTail ==
  ASSUME NEW q \in Seq(Nat), NEW n \in Nat, Latest(q, n), q # <<>>
  PROVE  /\ Tail(q) \in Seq(Nat)
         /\ Len(Tail(q)) = Len(q) - 1
         /\ Latest(Tail(q), n)
         /\ Head(q) = n - Len(q) + 1
<1>1. Tail(q) \in Seq(Nat) /\ Len(Tail(q)) = Len(q) - 1 /\ Len(q) \in Nat /\ Len(q) > 0
  OBVIOUS
<1>2. \A i \in 1 .. Len(Tail(q)) : Tail(q)[i] = q[i + 1]
  OBVIOUS
<1>3. Head(q) = q[1]
  OBVIOUS
<1>4. QED
  BY <1>1, <1>2, <1>3 DEF Latest

\* Pushing item n + 1 behind the latest ones keeps them the latest ones.
LEMMA LatestAppend ==
  ASSUME NEW q \in Seq(Nat), NEW n \in Nat, Latest(q, n)
  PROVE  /\ Append(q, n + 1) \in Seq(Nat)
         /\ Len(Append(q, n + 1)) = Len(q) + 1
         /\ Latest(Append(q, n + 1), n + 1)
<1>1. /\ Append(q, n + 1) \in Seq(Nat)
      /\ Len(Append(q, n + 1)) = Len(q) + 1
      /\ Len(q) \in Nat
  OBVIOUS
<1>2. \A i \in 1 .. Len(q) : Append(q, n + 1)[i] = q[i]
  OBVIOUS
<1>3. Append(q, n + 1)[Len(q) + 1] = n + 1
  OBVIOUS
<1>4. ASSUME NEW i \in 1 .. Len(q) + 1
      PROVE  Append(q, n + 1)[i] = (n + 1) - (Len(q) + 1) + i
  <2>1. CASE i \in 1 .. Len(q)
    BY <1>1, <1>2, <2>1 DEF Latest
  <2>2. CASE i = Len(q) + 1
    BY <1>1, <1>3, <2>2
  <2>3. QED
    BY <1>1, <2>1, <2>2
<1>5. QED
  BY <1>1, <1>4 DEF Latest

-----------------------------------------------------------------------------

\* The initial state of a channel satisfies the inductive invariant.
LEMMA InitIInv == Init => IInv
<1> SUFFICES ASSUME Init PROVE IInv
  OBVIOUS
<1> USE CapacityAssumption, BoundsAssumption
<1>1. TypeOK
  <2>0. queue \in Seq(Nat)
    BY DEF Init
  <2>1. permit \in BOOLEAN /\ rx \in RxStates /\ sent \in Nat
    BY DEF Init, RxStates
  <2>2. snd \in [Handles -> SndStates]
    BY DEF Init, SndStates
  <2>3. elapsed \in [Handles -> 0 .. Budget + 1]
    BY DEF Init
  <2>4. QED
    BY <2>0, <2>1, <2>2, <2>3 DEF Init, TypeOK
<1>2. NoLostWakeup /\ QueueIsLatest /\ Conservation /\ ClosedIsFinal
  BY DEF Init, NoLostWakeup, QueueIsLatest, Conservation, ClosedIsFinal
<1>3. QED
  BY <1>1, <1>2 DEF IInv

\* What an accepted push does to everything but the state of the handles.
LEMMA PushKeeps ==
  ASSUME IInv, Push
  PROVE  /\ queue' \in Seq(Nat) /\ permit' \in BOOLEAN /\ rx' \in RxStates
         /\ sent' \in Nat /\ delivered' \subseteq Nat /\ evicted' \subseteq Nat
         /\ NoLostWakeup' /\ QueueIsLatest' /\ Conservation'
         /\ (rx' = "closed" => rx = "closed")
<1> USE CapacityAssumption
<1>1. queue \in Seq(Nat) /\ sent \in Nat /\ Latest(queue, sent)
  BY DEF IInv, TypeOK, QueueIsLatest, Latest
<1>2. /\ queue' \in Seq(Nat)
      /\ Len(queue') = Len(queue) + 1
      /\ Latest(queue', sent')
      /\ sent' = sent + 1
  BY <1>1, LatestAppend DEF Push
<1>3. /\ permit' \in BOOLEAN
      /\ rx' \in RxStates
      /\ rx' # "parked"
      /\ rx' = "wait" => permit'
      /\ rx' = "closed" => rx = "closed"
  BY DEF IInv, TypeOK, Push, NotifyOne, RxStates
<1>4. delivered' = delivered /\ evicted' = evicted
  BY DEF Push
<1>5. NoLostWakeup'
  BY <1>3 DEF NoLostWakeup
<1>6. QueueIsLatest'
  BY <1>1, <1>2 DEF QueueIsLatest, Latest, Push, IsFull
<1>7. Conservation'
  <2>1. sent' - Len(queue') = sent - Len(queue)
    BY <1>1, <1>2
  <2>2. QED
    BY <2>1, <1>4 DEF IInv, Conservation
<1>8. QED
  BY <1>1, <1>2, <1>3, <1>4, <1>5, <1>6, <1>7 DEF IInv, TypeOK

\* Every step keeps the inductive invariant.
LEMMA NextIInv == IInv /\ [Next]_vars => IInv'
<1> SUFFICES ASSUME IInv, [Next]_vars PROVE IInv'
  OBVIOUS
<1> USE CapacityAssumption, BoundsAssumption
<1>1. /\ queue \in Seq(Nat) /\ sent \in Nat /\ Latest(queue, sent)
      /\ Len(queue) \in Nat /\ Len(queue) <= Capacity /\ sent - Len(queue) \in Nat
  BY DEF IInv, TypeOK, QueueIsLatest, Latest
<1>2. ASSUME NEW h \in Handles, TrySend(h) PROVE IInv'
  <2>1. CASE Push
    <3>1. snd' \in [Handles -> SndStates] /\ elapsed' = elapsed
      BY <1>2, <2>1 DEF TrySend, IInv, TypeOK, SndStates, Refuse, Push
    <3>2. rx # "closed"
      BY <1>2 DEF IInv, ClosedIsFinal, TrySend, CanCall, AtRest, live
    <3>3. QED
      BY <3>1, <3>2, <2>1, PushKeeps DEF IInv, TypeOK, ClosedIsFinal
  <2>2. CASE Refuse /\ snd' = [snd EXCEPT ![h] = "failed"]
    <3>1. UNCHANGED <<queue, permit, rx, sent, delivered, evicted, elapsed>>
      BY <1>2, <2>2 DEF Refuse, TrySend
    <3>2. TypeOK'
      BY <3>1, <2>2 DEF IInv, TypeOK, SndStates
    <3>3. ClosedIsFinal'
      BY <3>1, <1>2 DEF IInv, ClosedIsFinal, TrySend, CanCall, AtRest, live
    <3>4. QED
      BY <3>1, <3>2, <3>3 DEF IInv, NoLostWakeup, QueueIsLatest, Conservation
  <2>3. QED
    BY <1>2, <2>1, <2>2 DEF TrySend
<1>3. ASSUME NEW h \in Handles, SendDropOldest(h) PROVE IInv'
  <2>1. snd' \in [Handles -> SndStates] /\ elapsed' = elapsed
    BY <1>3 DEF SendDropOldest, IInv, TypeOK, SndStates
  <2>2. /\ permit' \in BOOLEAN
        /\ rx' \in RxStates \ {"parked", "closed"}
        /\ rx' = "wait" => permit'
    BY <1>3 DEF IInv, TypeOK, ClosedIsFinal, SendDropOldest, CanCall, AtRest,
                NotifyOne, RxStates, live
  <2>3. CASE ~IsFull(queue)
    <3>1. Push
      BY <1>3, <2>3 DEF SendDropOldest, DropOldest, Push
    <3>2. QED
      BY <3>1, <2>1, <2>2, PushKeeps DEF IInv, TypeOK, ClosedIsFinal
  <2>4. CASE IsFull(queue)
    <3>1. queue # <<>> /\ Len(queue) = Capacity
      BY <1>1, <2>4 DEF IsFull
    <3> DEFINE rest == Tail(queue)
    <3>2. /\ rest \in Seq(Nat)
          /\ Len(rest) = Len(queue) - 1
          /\ Latest(rest, sent)
          /\ Head(queue) = sent - Len(queue) + 1
      BY <3>1, <1>1, LatestTail
    <3>3. queue' = Append(rest, sent + 1) /\ sent' = sent + 1
      BY <1>3, <2>4 DEF SendDropOldest, DropOldest
    <3> HIDE DEF rest
    <3>4. queue' \in Seq(Nat) /\ Len(queue') = Len(queue) /\ Latest(queue', sent')
      BY <3>2, <3>3, <1>1, LatestAppend
    <3>5. delivered' = delivered /\ evicted' = evicted \cup {sent - Len(queue) + 1}
      BY <1>3, <2>4, <3>2 DEF SendDropOldest
    <3>6. TypeOK'
      <4>1. sent - Len(queue) + 1 \in Nat
        BY <1>1 DEF Latest
      <4>2. delivered' \subseteq Nat /\ evicted' \subseteq Nat
        BY <4>1, <3>5 DEF IInv, TypeOK
      <4>3. sent' \in Nat /\ queue' \in Seq(Nat)
        BY <1>1, <3>3, <3>4
      <4>4. QED
        BY <4>2, <4>3, <2>1, <2>2 DEF IInv, TypeOK
    <3>7. QueueIsLatest'
      BY <3>1, <3>4 DEF QueueIsLatest, Latest
    <3>8. Conservation'
      <4>1. delivered \cup evicted = 1 .. (sent - Len(queue)) /\ delivered \cap evicted = {}
        BY DEF IInv, Conservation
      <4> DEFINE k == Len(queue)
      <4>0. sent \in Nat /\ k \in Nat /\ sent' = sent + 1 /\ Len(queue') = k /\ sent - k \in Nat
        BY <3>3, <3>4, <1>1
      <4> HIDE DEF k
      <4>2. sent' - Len(queue') = (sent - k) + 1 /\ sent - k \in Nat
        BY <4>0
      <4> USE DEF k
      <4>3. sent - Len(queue) + 1 \notin delivered
        BY <4>1, <4>2
      <4>4. QED
        BY <3>5, <4>1, <4>2, <4>3 DEF Conservation
    <3>9. QED
      BY <3>6, <3>7, <3>8, <2>2 DEF IInv, NoLostWakeup, ClosedIsFinal
  <2>5. QED
    BY <2>3, <2>4
<1>4. ASSUME NEW h \in Handles, SendTimeoutTry(h) PROVE IInv'
  <2>1. rx # "closed" /\ elapsed' = elapsed
    BY <1>4 DEF IInv, ClosedIsFinal, SendTimeoutTry, live
  <2>2. snd' \in [Handles -> SndStates]
    BY <1>4 DEF SendTimeoutTry, IInv, TypeOK, SndStates
  <2>3. CASE Push
    BY <2>1, <2>2, <2>3, PushKeeps DEF IInv, TypeOK, ClosedIsFinal
  <2>4. CASE Refuse
    BY <2>1, <2>2, <2>4
    DEF Refuse, IInv, TypeOK, NoLostWakeup, QueueIsLatest, Conservation, ClosedIsFinal
  <2>5. QED
    BY <1>4, <2>3, <2>4 DEF SendTimeoutTry
<1>5. ASSUME NEW h \in Handles,
             \/ SendTimeoutBegin(h) \/ SendTimeoutWake(h) \/ DropSender(h)
             \/ \E g \in Handles : Clone(h, g)
      PROVE  IInv'
  <2>1. UNCHANGED <<queue, permit, rx, sent, delivered, evicted>>
    BY <1>5 DEF SendTimeoutBegin, SendTimeoutWake, DropSender, Clone
  <2>2. snd' \in [Handles -> SndStates]
    BY <1>5 DEF SendTimeoutBegin, SendTimeoutWake, DropSender, Clone, IInv, TypeOK, SndStates
  <2>3. elapsed' \in [Handles -> 0 .. Budget + 1]
    <3>1. CASE SendTimeoutWake(h)
      <4>1. PICK t \in (elapsed[h] + 1) .. (Budget + 1) : elapsed' = [elapsed EXCEPT ![h] = t]
        BY <3>1 DEF SendTimeoutWake
      <4>2. elapsed \in [Handles -> 0 .. Budget + 1] /\ t \in 0 .. Budget + 1
        BY <4>1 DEF IInv, TypeOK
      <4>3. QED
        BY <4>1, <4>2
    <3>2. CASE ~SendTimeoutWake(h)
      BY <3>2, <1>5 DEF SendTimeoutBegin, DropSender, Clone, IInv, TypeOK
    <3>3. QED
      BY <3>1, <3>2
  <2>4. rx # "closed"
    BY <1>5 DEF SendTimeoutBegin, SendTimeoutWake, DropSender, Clone, CanCall, AtRest,
                IInv, ClosedIsFinal, live
  <2>5. QED
    BY <2>1, <2>2, <2>3, <2>4
    DEF IInv, TypeOK, NoLostWakeup, QueueIsLatest, Conservation, ClosedIsFinal
<1>6. CASE RecvItem
  <2>1. /\ Tail(queue) \in Seq(Nat)
        /\ Len(Tail(queue)) = Len(queue) - 1
        /\ Latest(Tail(queue), sent)
        /\ Head(queue) = sent - Len(queue) + 1
    BY <1>6, <1>1, LatestTail DEF RecvItem
  <2>2. /\ queue' = Tail(queue)
        /\ delivered' = delivered \cup {sent - Len(queue) + 1}
        /\ rx' = "idle"
        /\ UNCHANGED <<permit, snd, elapsed, sent, evicted>>
    BY <1>6, <2>1 DEF RecvItem
  <2>3. delivered \cup evicted = 1 .. (sent - Len(queue)) /\ delivered \cap evicted = {}
    BY DEF IInv, Conservation
  <2>4. sent - Len(queue) \in Nat /\ sent' - Len(queue') = (sent - Len(queue)) + 1
    BY <1>1, <2>1, <2>2
  <2>5. TypeOK'
    <3>0. sent - Len(queue) + 1 \in Nat
      BY <2>4
    <3>1. delivered' \subseteq Nat
      BY <3>0, <2>2, Zenon DEF IInv, TypeOK
    <3>2. rx' \in RxStates
      BY <2>2 DEF RxStates
    <3>3. queue' \in Seq(Nat)
      BY <2>1, <2>2
    <3>4. QED
      BY <2>2, <3>1, <3>2, <3>3 DEF IInv, TypeOK
  <2>6. Conservation'
    BY <2>2, <2>3, <2>4 DEF Conservation
  <2>7. QueueIsLatest'
    BY <1>1, <2>1, <2>2 DEF QueueIsLatest, Latest
  <2>8. QED
    BY <2>2, <2>5, <2>6, <2>7 DEF IInv, NoLostWakeup, ClosedIsFinal
<1>7. CASE RecvCall \/ RecvNone \/ RecvUnlock \/ RecvResume
  BY <1>7 DEF RecvCall, RecvNone, RecvUnlock, RecvResume, IInv, TypeOK, RxStates,
              NoLostWakeup, QueueIsLatest, Conservation, ClosedIsFinal, live
<1>8. CASE RecvAwait
  BY <1>8 DEF RecvAwait, IInv, TypeOK, RxStates, NoLostWakeup, QueueIsLatest,
              Conservation, ClosedIsFinal, live
<1>9. CASE RecvCancel \/ DropReceiver
  BY <1>9 DEF RecvCancel, DropReceiver, IInv, TypeOK, RxStates, NoLostWakeup,
              QueueIsLatest, Conservation, ClosedIsFinal, live
<1>10. CASE UNCHANGED vars
  BY <1>10 DEF vars, IInv, TypeOK, NoLostWakeup, QueueIsLatest, Conservation,
               ClosedIsFinal, live
<1>11. QED
  BY <1>2, <1>3, <1>4, <1>5, <1>6, <1>7, <1>8, <1>9, <1>10
  DEF Next, SenderStep, RecvStep

\* The inductive invariant holds in every reachable state.
THEOREM ChannelInvariant == Spec => []IInv
<1>1. Init => IInv
  BY InitIInv
<1>2. IInv /\ [Next]_vars => IInv'
  BY NextIInv
<1>3. QED
  BY <1>1, <1>2, PTL DEF Spec

\* For every capacity the type invariant and the four safety invariants that
\* TLC checks hold: no lost wakeup, a gapless deque within its capacity,
\* conservation of the items, and a final None.
THEOREM ChannelSafety ==
  Spec => [](TypeOK /\ NoLostWakeup /\ QueueIsLatest /\ Conservation /\ ClosedIsFinal)
<1>1. IInv => TypeOK /\ NoLostWakeup /\ QueueIsLatest /\ Conservation /\ ClosedIsFinal
  BY DEF IInv
<1>2. QED
  BY <1>1, ChannelInvariant, PTL

-----------------------------------------------------------------------------
(* The refinement.                                                          *)

\* The pending numbers are those in the deque: an interval that ends at sent,
\* as many as the deque holds.
LEMMA PendingIsQueue ==
  ASSUME IInv
  PROVE  /\ Lossy!Pending = (sent - Len(queue) + 1) .. sent
         /\ Cardinality(Lossy!Pending) = Len(queue)
<1> DEFINE k == Len(queue)
<1>1. sent \in Nat /\ k \in Nat /\ sent - k \in Nat
  BY DEF IInv, TypeOK, QueueIsLatest
<1>2. delivered \cup evicted = 1 .. (sent - k)
  BY DEF IInv, Conservation
<1> HIDE DEF k
<1>3. Lossy!Pending = (sent - k + 1) .. sent
  BY <1>1, <1>2 DEF Lossy!Pending
<1>4. Cardinality((sent - k + 1) .. sent) = k
  <2>1. sent - k + 1 \in Int /\ sent \in Int
    BY <1>1
  <2>2. Cardinality((sent - k + 1) .. sent) =
          IF sent - k + 1 > sent THEN 0 ELSE sent - (sent - k + 1) + 1
    BY <2>1, FS_Interval
  <2>3. QED
    BY <1>1, <2>2
<1>5. QED
  BY <1>3, <1>4 DEF k

\* The item at the front of the deque is the oldest pending one.
LEMMA HeadIsOldest ==
  ASSUME IInv, queue # <<>>
  PROVE  Lossy!IsOldest(Head(queue))
<1>1. queue \in Seq(Nat) /\ sent \in Nat /\ Latest(queue, sent)
  BY DEF IInv, TypeOK, QueueIsLatest, Latest
<1>2. Head(queue) = sent - Len(queue) + 1
  BY <1>1, LatestTail
<1>3. Len(queue) \in Nat /\ Len(queue) > 0 /\ sent - Len(queue) \in Nat
  BY <1>1 DEF IInv, QueueIsLatest
<1> DEFINE k == Len(queue)
<1>4. Lossy!Pending = (sent - k + 1) .. sent
  BY PendingIsQueue
<1>5. k \in Nat /\ k > 0 /\ sent \in Nat /\ sent - k \in Nat /\ Head(queue) = sent - k + 1
  BY <1>1, <1>2, <1>3
<1> HIDE DEF k
<1>6. QED
  BY <1>4, <1>5 DEF Lossy!IsOldest

\* The abstract channel counts with the same Cardinality.
LEMMA SameCardinality == \A S : Lossy!Cardinality(S) = Cardinality(S)
  BY DEF Lossy!Cardinality, Cardinality, Lossy!IsFiniteSet, IsFiniteSet

\* A push into a deque with room is an Accept of the abstract channel.
LEMMA PushAccepts == ASSUME IInv, Push PROVE Lossy!Accept
<1>1. Cardinality(Lossy!Pending) < Capacity
  BY PendingIsQueue, CapacityAssumption DEF Push, IsFull, IInv, TypeOK
<1>2. QED
  BY <1>1, SameCardinality DEF Lossy!Accept, Push

\* Every step of the channel is a step or a stutter of the abstract one.
LEMMA StepImplements == IInv /\ [Next]_vars => [Lossy!Next]_(Lossy!lossyVars)
<1> SUFFICES ASSUME IInv, [Next]_vars PROVE [Lossy!Next]_(Lossy!lossyVars)
  OBVIOUS
<1>1. ASSUME UNCHANGED <<sent, delivered, evicted>>
      PROVE  [Lossy!Next]_(Lossy!lossyVars)
  BY <1>1 DEF Lossy!lossyVars
<1>2. CASE Push
  BY <1>2, PushAccepts DEF Lossy!Next
<1>3. ASSUME NEW h \in Handles, SendDropOldest(h)
      PROVE  [Lossy!Next]_(Lossy!lossyVars)
  <2>1. CASE ~IsFull(queue)
    <3>1. Push
      BY <1>3, <2>1 DEF SendDropOldest, DropOldest, Push
    <3>2. QED
      BY <3>1, <1>2
  <2>2. CASE IsFull(queue)
    <3>1. Len(queue) = Capacity /\ queue # <<>>
      BY <2>2, CapacityAssumption DEF IsFull, IInv, QueueIsLatest, TypeOK
    <3>2. Cardinality(Lossy!Pending) = Capacity
      BY <3>1, PendingIsQueue
    <3>3. Lossy!IsOldest(Head(queue)) /\ Head(queue) \in Lossy!Pending
      BY <3>1, HeadIsOldest DEF Lossy!IsOldest
    <3>4. sent' = sent + 1 /\ delivered' = delivered /\ evicted' = evicted \cup {Head(queue)}
      BY <1>3, <2>2 DEF SendDropOldest
    <3>5. Lossy!AcceptEvicting
      BY <3>2, <3>3, <3>4, SameCardinality DEF Lossy!AcceptEvicting
    <3>6. QED
      BY <3>5 DEF Lossy!Next
  <2>3. QED
    BY <2>1, <2>2
<1>4. CASE RecvItem
  <2>1. queue # <<>> /\ delivered' = delivered \cup {Head(queue)} /\ UNCHANGED <<sent, evicted>>
    BY <1>4 DEF RecvItem
  <2>2. Lossy!IsOldest(Head(queue)) /\ Head(queue) \in Lossy!Pending
    BY <2>1, HeadIsOldest DEF Lossy!IsOldest
  <2>3. QED
    BY <2>1, <2>2 DEF Lossy!Deliver, Lossy!Next
<1>5. ASSUME NEW h \in Handles, TrySend(h) \/ SendTimeoutTry(h)
      PROVE  [Lossy!Next]_(Lossy!lossyVars)
  <2>1. Push \/ UNCHANGED <<sent, delivered, evicted>>
    BY <1>5 DEF TrySend, SendTimeoutTry, Refuse
  <2>2. QED
    BY <1>1, <1>2, <2>1
<1>6. ASSUME NEW h \in Handles,
             \/ SendTimeoutBegin(h) \/ SendTimeoutWake(h) \/ DropSender(h)
             \/ \E g \in Handles : Clone(h, g)
      PROVE  [Lossy!Next]_(Lossy!lossyVars)
  BY <1>6, <1>1 DEF SendTimeoutBegin, SendTimeoutWake, DropSender, Clone
<1>7. CASE RecvCall \/ RecvNone \/ RecvUnlock \/ RecvAwait \/ RecvResume
  BY <1>7, <1>1 DEF RecvCall, RecvNone, RecvUnlock, RecvAwait, RecvResume
<1>8. CASE RecvCancel \/ DropReceiver \/ UNCHANGED vars
  BY <1>8, <1>1 DEF RecvCancel, DropReceiver, vars
<1>9. QED
  BY <1>3, <1>4, <1>5, <1>6, <1>7, <1>8 DEF Next, SenderStep, RecvStep

\* The channel implements LossyChannel for every capacity: whatever the
\* senders, the retries and select! do, only the oldest pending item leaves,
\* and it is dropped only for a newer one when Capacity are pending.
THEOREM ChannelImplementsLossy == Spec => ImplementsLossyChannel
<1>1. Init => Lossy!Init
  BY DEF Init, Lossy!Init
<1>2. IInv /\ [Next]_vars => [Lossy!Next]_(Lossy!lossyVars)
  BY StepImplements
<1>3. QED
  BY <1>1, <1>2, ChannelInvariant, PTL DEF Spec, ImplementsLossyChannel, Lossy!Spec
=============================================================================
