-------------------------- MODULE MCBoundedChannel --------------------------
(* Small instances of BoundedChannel for TLC.                               *)
EXTENDS BoundedChannel, TLC

CONSTANTS h1, h2, h3

TwoHandles == {h1, h2}
ThreeHandles == {h1, h2, h3}

\* The handles other than the first are interchangeable.
HandleSymmetry == Permutations({h2, h3})
=============================================================================
