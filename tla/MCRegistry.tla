----------------------------- MODULE MCRegistry -----------------------------
(* Small instances of Registry for TLC.                                     *)
EXTENDS Registry, TLC

CONSTANTS r1, r2, u1, u2, s1, s2, p1, p2, p3

RegistrySymmetry ==
  Permutations(Rooms) \cup Permutations(Users) \cup Permutations(Senders) \cup Permutations(Procs)
=============================================================================
