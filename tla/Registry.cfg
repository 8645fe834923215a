SPECIFICATION FairRegistrySpec
CONSTANTS
  r1 = r1
  r2 = r2
  u1 = u1
  u2 = u2
  s1 = s1
  s2 = s2
  p1 = p1
  p2 = p2
  p3 = p3
  Rooms = {r1, r2}
  Users = {u1, u2}
  Senders = {s1, s2}
  Procs = {p1, p2, p3}
  NoSender = NoSender
  NoRoom = NoRoom
INVARIANTS RegistryTypeOK GuardedRoomPresent NoEmptyRoomLeak
PROPERTIES ImplementsFlatRegistry EmptyRoomGoes
