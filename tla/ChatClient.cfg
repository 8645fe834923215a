SPECIFICATION Spec
CONSTANTS
  Sockets = {s1, s2, s3}
  NoSocket = NoSocket
  Rooms = {r1, r2}
  Users = {u1, u2}
  NoUser = NoUser
  NoRoom = NoRoom
  MaxSends = 2
SYMMETRY ChatSymmetry
INVARIANTS TypeOK PageShowsItsSocket PacketsCarryTheirConnection
CHECK_DEADLOCK FALSE
