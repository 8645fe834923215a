SPECIFICATION Spec
CONSTANTS
  c1 = c1
  c2 = c2
  c3 = c3
  k1 = k1
  k2 = k2
  k3 = k3
  u1 = u1
  u2 = u2
  r1 = r1
  r2 = r2
  Conns = {c1, c2}
  Packets = {k1, k2}
  Kinds = {"SystemCmd"}
  Rooms = {r1}
  Users = {u1}
  NoSender = NoSender
  NoRoom = NoRoom
  NoUser = NoUser
  Capacity = 1
PROPERTY DisconnectsTheFullOne
CHECK_DEADLOCK FALSE
