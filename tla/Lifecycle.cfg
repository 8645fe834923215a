SPECIFICATION FairSpec
CONSTANTS
  Procs = {g1, g2}
  Nobody = Nobody
  Other = Other
INVARIANTS TypeOK
PROPERTIES BindsUnlessForeign ComesUp SignalStops
CHECK_DEADLOCK FALSE
