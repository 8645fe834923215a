----------------------------- MODULE MCGateway -----------------------------
(* Small instances of Gateway for TLC.                                      *)
EXTENDS Gateway, TLC

CONSTANTS c1, c2, c3, k1, k2, k3, u1, u2, r1, r2

\* Nothing in Gateway distinguishes connections, packets or users.
GatewaySymmetry ==
  Permutations(Conns) \cup Permutations(Packets) \cup Permutations(Users)
=============================================================================
