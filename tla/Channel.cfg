SPECIFICATION RecvSpec
CONSTANTS
  h1 = h1
  h2 = h2
  h3 = h3
  Handles <- TwoHandles
  FirstHandle = h1
  Capacity = 2
  Budget = 1
  MaxSends = 4
INVARIANTS TypeOK NoLostWakeup Conservation ClosedIsFinal
PROPERTIES ImplementsLossyChannel EveryItemLeaves SendTimeoutReturns
CHECK_DEADLOCK FALSE
