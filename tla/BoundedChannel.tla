--------------------------- MODULE BoundedChannel ---------------------------
(***************************************************************************)
(* The bounded MPSC channel of src/routing.rs: BoundedSender handles, the   *)
(* one BoundedReceiver, the deque they share and the tokio Notify that the  *)
(* receiver parks on.                                                       *)
(*                                                                         *)
(* The deque lock is held from the test to the notify_one of every send, so *)
(* a send is one step.  The receiver is split at its two suspension points: *)
(* the unlock between its test of the deque and `notified()`, and the await *)
(* itself.  Accepted items are numbered in the order of acceptance.         *)
(***************************************************************************)
EXTENDS ChannelOps, FiniteSets

CONSTANTS Handles,     \* identities of BoundedSender values
          FirstHandle, \* the sender `bounded` returns
          Budget,      \* timeout of send_timeout, in back-offs of 5 ms
          MaxSends     \* bound: no send is called once so many were accepted

ASSUME HandlesAssumption == FirstHandle \in Handles
ASSUME BoundsAssumption == Budget \in Nat /\ MaxSends \in Nat

VARIABLES queue,       \* ChannelInner::queue, item numbers, front first
          permit,      \* the permit Notify stores when nobody is waiting
          snd,         \* each handle: "absent", or what its last call left
          elapsed,     \* start.elapsed() of a send_timeout, in back-offs
          rx,          \* where the receiver is
          sent,        \* history: how many items were accepted
          delivered,   \* history: the items recv returned
          evicted      \* history: the items send_drop_oldest popped

vars == <<queue, permit, snd, elapsed, rx, sent, delivered, evicted>>

\* "failed": the last call of the handle returned Err(item).
SndStates == {"absent", "ready", "failed", "trying", "sleeping"}

\* "check": before the locked test; "wait": after the unlock, before
\* notified(); "parked" and "woken": in the await, without and with a
\* notification; "closed": recv returned None; "gone": receiver dropped.
RxStates == {"idle", "check", "wait", "parked", "woken", "closed", "gone"}

live == {h \in Handles : snd[h] # "absent"}

Init ==
  /\ queue = <<>>
  /\ permit = FALSE
  /\ snd = [h \in Handles |-> IF h = FirstHandle THEN "ready" ELSE "absent"]
  /\ elapsed = [h \in Handles |-> 0]
  /\ rx = "idle"
  /\ sent = 0
  /\ delivered = {}
  /\ evicted = {}

-----------------------------------------------------------------------------
(* tokio::sync::Notify with at most one waiter.                             *)

\* Mutant: a notification without a waiter is lost.
NotifyWaiterOnly ==
  /\ rx' = IF rx = "parked" THEN "woken" ELSE rx
  /\ UNCHANGED permit

NotifyOne ==
  IF rx = "parked"
  THEN rx' = "woken" /\ UNCHANGED permit
  ELSE permit' = TRUE /\ UNCHANGED rx

-----------------------------------------------------------------------------
(* Senders.                                                                 *)

\* A handle that is not inside a call.
AtRest(h) == snd[h] \in {"ready", "failed"}

\* MaxSends bounds the calls; one already in send_timeout may still push.
CanCall(h) == AtRest(h) /\ sent < MaxSends

\* The Ok branch of try_send.
Push ==
  /\ ~IsFull(queue)
  /\ queue' = Append(queue, sent + 1)
  /\ sent' = sent + 1
  /\ NotifyOne
  /\ UNCHANGED <<delivered, evicted>>

\* The Err branch of try_send.
Refuse == IsFull(queue) /\ UNCHANGED <<queue, permit, rx, sent, delivered, evicted>>

TrySend(h) ==
  /\ CanCall(h)
  /\ \/ Push /\ snd' = [snd EXCEPT ![h] = "ready"]
     \/ Refuse /\ snd' = [snd EXCEPT ![h] = "failed"]
  /\ UNCHANGED elapsed

\* Mutant: the newest item is evicted.
SendDropNewest(h) ==
  /\ CanCall(h)
  /\ queue' = IF IsFull(queue) THEN [queue EXCEPT ![Len(queue)] = sent + 1]
                               ELSE Append(queue, sent + 1)
  /\ evicted' = IF IsFull(queue) THEN evicted \cup {sent} ELSE evicted
  /\ sent' = sent + 1
  /\ snd' = [snd EXCEPT ![h] = "ready"]
  /\ NotifyOne
  /\ UNCHANGED <<elapsed, delivered>>

\* Mutant: an evicting push does not notify.
SendDropOldestSilent(h) ==
  /\ CanCall(h)
  /\ queue' = DropOldest(queue, sent + 1)
  /\ evicted' = IF IsFull(queue) THEN evicted \cup {Head(queue)} ELSE evicted
  /\ sent' = sent + 1
  /\ snd' = [snd EXCEPT ![h] = "ready"]
  /\ UNCHANGED <<elapsed, delivered, permit, rx>>

SendDropOldest(h) ==
  /\ CanCall(h)
  /\ queue' = DropOldest(queue, sent + 1)
  /\ evicted' = IF IsFull(queue) THEN evicted \cup {Head(queue)} ELSE evicted
  /\ sent' = sent + 1
  /\ snd' = [snd EXCEPT ![h] = "ready"]
  /\ NotifyOne
  /\ UNCHANGED <<elapsed, delivered>>

SendTimeoutBegin(h) ==
  /\ CanCall(h)
  /\ snd' = [snd EXCEPT ![h] = "trying"]
  /\ elapsed' = [elapsed EXCEPT ![h] = 0]
  /\ UNCHANGED <<queue, permit, rx, sent, delivered, evicted>>

\* Mutant: the elapsed time is never compared with the timeout.
SendTimeoutTryForEver(h) ==
  /\ snd[h] = "trying"
  /\ \/ Push /\ snd' = [snd EXCEPT ![h] = "ready"]
     \/ Refuse /\ snd' = [snd EXCEPT ![h] = "sleeping"]
  /\ UNCHANGED elapsed

\* One turn of the loop of send_timeout: return Ok, return Err, or back off.
SendTimeoutTry(h) ==
  /\ snd[h] = "trying"
  /\ \/ /\ Push
        /\ snd' = [snd EXCEPT ![h] = "ready"]
     \/ /\ Refuse
        /\ elapsed[h] >= Budget
        /\ snd' = [snd EXCEPT ![h] = "failed"]
     \/ /\ Refuse
        /\ elapsed[h] < Budget
        /\ snd' = [snd EXCEPT ![h] = "sleeping"]
  /\ UNCHANGED elapsed

\* Mutant: the back-off is added to a deadline instead of measured.
SendTimeoutWakeLate(h) ==
  /\ snd[h] = "sleeping"
  /\ snd' = [snd EXCEPT ![h] = "trying"]
  /\ elapsed' = [elapsed EXCEPT ![h] = @ + Budget + 2]
  /\ UNCHANGED <<queue, permit, rx, sent, delivered, evicted>>

\* The sleep lasts 5 ms or more: a busy runtime resumes the task later.
SendTimeoutWake(h) ==
  /\ snd[h] = "sleeping"
  /\ snd' = [snd EXCEPT ![h] = "trying"]
  /\ \E t \in (elapsed[h] + 1) .. (Budget + 1) :
        elapsed' = [elapsed EXCEPT ![h] = t]
  /\ UNCHANGED <<queue, permit, rx, sent, delivered, evicted>>

Clone(h, g) ==
  /\ AtRest(h)
  /\ snd[g] = "absent"
  /\ snd' = [snd EXCEPT ![g] = "ready"]
  /\ UNCHANGED <<queue, permit, elapsed, rx, sent, delivered, evicted>>

\* BoundedSender has no Drop of its own: only the Arc count goes down.
DropSender(h) ==
  /\ AtRest(h)
  /\ snd' = [snd EXCEPT ![h] = "absent"]
  /\ UNCHANGED <<queue, permit, elapsed, rx, sent, delivered, evicted>>

-----------------------------------------------------------------------------
(* The receiver.                                                            *)

RecvCall ==
  /\ rx = "idle"
  /\ rx' = "check"
  /\ UNCHANGED <<queue, permit, snd, elapsed, sent, delivered, evicted>>

\* Mutant: the newest item is taken.
RecvNewest ==
  /\ rx = "check"
  /\ queue # <<>>
  /\ queue' = SubSeq(queue, 1, Len(queue) - 1)
  /\ delivered' = delivered \cup {queue[Len(queue)]}
  /\ rx' = "idle"
  /\ UNCHANGED <<permit, snd, elapsed, sent, evicted>>

\* The locked section of recv: an item, None, or on to the slow path.
RecvItem ==
  /\ rx = "check"
  /\ queue # <<>>
  /\ queue' = Tail(queue)
  /\ delivered' = delivered \cup {Head(queue)}
  /\ rx' = "idle"
  /\ UNCHANGED <<permit, snd, elapsed, sent, evicted>>

\* Mutant: None without a look at the Arc count.
RecvNoneWhenEmpty ==
  /\ rx = "check"
  /\ queue = <<>>
  /\ rx' = "closed"
  /\ UNCHANGED <<queue, permit, snd, elapsed, sent, delivered, evicted>>

RecvNone ==
  /\ rx = "check"
  /\ queue = <<>>
  /\ live = {}
  /\ rx' = "closed"
  /\ UNCHANGED <<queue, permit, snd, elapsed, sent, delivered, evicted>>

RecvUnlock ==
  /\ rx = "check"
  /\ queue = <<>>
  /\ live # {}
  /\ rx' = "wait"
  /\ UNCHANGED <<queue, permit, snd, elapsed, sent, delivered, evicted>>

\* The first poll of notified(): take the stored permit, or park.
RecvAwait ==
  /\ rx = "wait"
  /\ rx' = IF permit THEN "check" ELSE "parked"
  /\ permit' = FALSE
  /\ UNCHANGED <<queue, snd, elapsed, sent, delivered, evicted>>

RecvResume ==
  /\ rx = "woken"
  /\ rx' = "check"
  /\ UNCHANGED <<queue, permit, snd, elapsed, sent, delivered, evicted>>

\* select! drops the recv future at its await; a notification the future
\* had already been given goes back to the Notify.
RecvCancel ==
  /\ rx \in {"parked", "woken"}
  /\ rx' = "idle"
  /\ permit' = (rx = "woken" \/ permit)
  /\ UNCHANGED <<queue, snd, elapsed, sent, delivered, evicted>>

\* Drop for BoundedReceiver, when no recv is in flight.
DropReceiver ==
  /\ rx \in {"idle", "closed"}
  /\ rx' = "gone"
  /\ permit' = TRUE
  /\ UNCHANGED <<queue, snd, elapsed, sent, delivered, evicted>>

-----------------------------------------------------------------------------

SenderStep(h) ==
  \/ TrySend(h)
  \/ SendDropOldest(h)
  \/ SendTimeoutBegin(h)
  \/ SendTimeoutTry(h)
  \/ SendTimeoutWake(h)
  \/ DropSender(h)
  \/ \E g \in Handles : Clone(h, g)

\* What the receiver does by itself once its owner keeps calling recv.
RecvStep ==
  RecvCall \/ RecvItem \/ RecvNone \/ RecvUnlock \/ RecvAwait \/ RecvResume

Next ==
  \/ \E h \in Handles : SenderStep(h)
  \/ RecvStep
  \/ RecvCancel
  \/ DropReceiver

Spec == Init /\ [][Next]_vars

\* The runtime runs every ready task and fires every timer: a pending recv
\* and a pending send_timeout are polled again.
FairRecv ==
  /\ WF_vars(RecvStep)
  /\ \A h \in Handles : WF_vars(SendTimeoutTry(h)) /\ WF_vars(SendTimeoutWake(h))

RecvSpec == Spec /\ FairRecv

-----------------------------------------------------------------------------
(* Properties.                                                              *)

TypeOK ==
  /\ queue \in Seq(Nat)
  /\ permit \in BOOLEAN
  /\ snd \in [Handles -> SndStates]
  /\ elapsed \in [Handles -> 0 .. Budget + 1]
  /\ rx \in RxStates
  /\ sent \in Nat
  /\ delivered \subseteq Nat
  /\ evicted \subseteq Nat

\* No push is missed between the unlock of recv and its await, nor by a recv
\* that select! drops: a receiver that found the deque empty and sees items
\* now has a permit waiting, and one that is parked without a notification
\* has nothing to receive.
NoLostWakeup ==
  /\ rx = "wait" /\ queue # <<>> => permit
  /\ rx = "parked" => queue = <<>>

\* The deque holds the latest accepted items, in order and without a gap:
\* whatever mixture of try_send, send_drop_oldest, retries and recv ran.
QueueIsLatest ==
  /\ Len(queue) <= sent
  /\ Len(queue) <= Capacity
  /\ \A i \in 1 .. Len(queue) : queue[i] = sent - Len(queue) + i

\* Nothing is lost silently or handed out twice: the items that left are
\* exactly the older ones, each delivered or evicted and never both.
Conservation ==
  /\ delivered \cup evicted = 1 .. (sent - Len(queue))
  /\ delivered \cap evicted = {}

\* None is the last word: recv returned it with nothing left to deliver and
\* no handle that could ever send again.
ClosedIsFinal == rx = "closed" => live = {} /\ queue = <<>>

\* The channel implements the queue-less one of LossyChannel.
Lossy == INSTANCE LossyChannel
ImplementsLossyChannel == Lossy!Spec

\* An accepted item never stays in the deque of a receiver that keeps
\* calling recv: it is delivered or evicted, whatever select! drops.
EveryItemLeaves ==
  \A n \in 1 .. MaxSends + Cardinality(Handles) :
    n <= sent ~> (n \in delivered \cup evicted \/ rx = "gone")

\* send_timeout returns, even on a channel that stays full for ever.
SendTimeoutReturns ==
  \A h \in Handles : snd[h] = "trying" ~> snd[h] \in {"ready", "failed", "absent"}
=============================================================================
