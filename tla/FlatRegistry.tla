---------------------------- MODULE FlatRegistry ----------------------------
(***************************************************************************)
(* What the router's registry is to its callers: one table from             *)
(* (room, user) to the sender registered last and not unregistered since.   *)
(* Rooms are no objects here; that the nested maps create and destroy them  *)
(* must not be visible in what a name is bound to.                          *)
(***************************************************************************)
CONSTANTS Rooms, Users, Senders, NoSender

VARIABLE bound         \* bound[r][u]: the sender of user u of room r

FlatInit == bound = [r \in Rooms |-> [u \in Users |-> NoSender]]

Bind(r, u, s) == bound' = [bound EXCEPT ![r][u] = s]

Unbind(r, u) == bound' = [bound EXCEPT ![r][u] = NoSender]

FlatNext ==
  \E r \in Rooms, u \in Users :
    \/ \E s \in Senders : Bind(r, u, s)
    \/ Unbind(r, u)

FlatSpec == FlatInit /\ [][FlatNext]_bound
=============================================================================
