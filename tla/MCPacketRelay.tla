--------------------------- MODULE MCPacketRelay ---------------------------
(* Small instances of PacketRelay for TLC: eight byte values, six of them   *)
(* ASCII, names of up to two bytes, a sequence number of two bytes and a    *)
(* length of one.                                                           *)
EXTENDS PacketRelay

\* Names of up to two bytes over a zero, letters and a byte that is not ASCII,
\* with a zero at every place, the empty name and one that is too long.
SomeNames == BoundedSeq({0, 1, 5, 6}, 2) \cup {<<1, 5, 1>>}
SomeUsers == BoundedSeq({0, 5, 7}, 2) \cup {<<5, 1, 1>>}

Zeros(n) == [i \in 1 .. n |-> 0]

SomeMessages ==
  [version : {1, 2}, kind : {0, 3, 5}, target : {2, 3}, room : {<<1, 5>>}, user : {<<5>>},
   seq : {7, 63, 64}, payload : {<<>>, <<3, 4>>}]
  \cup
  [version : {2}, kind : {1, 4}, target : {1}, room : SomeNames, user : SomeUsers,
   seq : {13}, payload : {Zeros(n) : n \in {0, 1, 7, 8}}]

SomeFields == TupleOf({0, 1, 6}, 2)

\* Whole headers with every byte right or wrong, and headers cut short.
SomeStrangers ==
  { <<v, k, t, r>> \o room \o user \o <<1, 5, len>> \o body :
      v \in {1, 2}, k \in {0, 4, 5}, t \in {0, 2, 3}, r \in {0, 1},
      room \in SomeFields, user \in SomeFields, len \in 0 .. 2, body \in {<<>>, <<7>>} }
  \cup { SubSeq(<<2, 1, 1, 0, 1, 1, 1, 1, 0, 0, 0>>, 1, n) : n \in 0 .. 10 }

AllOrigins == {"rust", "python", "js"}
=============================================================================
