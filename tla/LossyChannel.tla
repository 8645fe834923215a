---------------------------- MODULE LossyChannel ----------------------------
(***************************************************************************)
(* What the per-connection channel promises, without a queue, a lock or a   *)
(* notification.  The items it has accepted are numbered 1 .. sent in the   *)
(* order of acceptance.  Every accepted item is delivered, evicted or still *)
(* pending; only the oldest pending item may leave, so what is delivered is *)
(* a subsequence of what was accepted; and an item is evicted only to make  *)
(* room for a newer one when Capacity items are pending.                    *)
(***************************************************************************)
EXTENDS Naturals, FiniteSets

CONSTANT Capacity

VARIABLES sent,        \* how many items have been accepted
          delivered,   \* the numbers handed to the receiver
          evicted      \* the numbers dropped to make room

lossyVars == <<sent, delivered, evicted>>

Pending == (1 .. sent) \ (delivered \cup evicted)

IsOldest(n) == n \in Pending /\ \A m \in Pending : n <= m

Init == sent = 0 /\ delivered = {} /\ evicted = {}

Accept ==
  /\ Cardinality(Pending) < Capacity
  /\ sent' = sent + 1
  /\ UNCHANGED <<delivered, evicted>>

AcceptEvicting ==
  /\ Cardinality(Pending) = Capacity
  /\ \E n \in Pending : IsOldest(n) /\ evicted' = evicted \cup {n}
  /\ sent' = sent + 1
  /\ UNCHANGED delivered

Deliver ==
  /\ \E n \in Pending : IsOldest(n) /\ delivered' = delivered \cup {n}
  /\ UNCHANGED <<sent, evicted>>

Next == Accept \/ AcceptEvicting \/ Deliver

Spec == Init /\ [][Next]_lossyVars
=============================================================================
