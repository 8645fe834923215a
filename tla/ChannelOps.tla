----------------------------- MODULE ChannelOps -----------------------------
(***************************************************************************)
(* What one locked section of a BoundedSender does to the VecDeque of the   *)
(* channel (src/routing.rs, `ChannelInner::queue`).  The queue is a         *)
(* sequence whose head is the front of the deque.                           *)
(***************************************************************************)
EXTENDS Naturals, Sequences

CONSTANT Capacity      \* ChannelInner::capacity; WS_CHANNEL_CAPACITY is 64

\* A channel of capacity 0 is never built: the one caller passes 64.
ASSUME CapacityAssumption == Capacity \in Nat \ {0}

IsFull(q) == Len(q) >= Capacity

\* The deque after send_drop_oldest: pop_front when full, then push_back.
DropOldest(q, item) == Append(IF IsFull(q) THEN Tail(q) ELSE q, item)
=============================================================================
