\* Three panics, an operator, a failing call and a kill.
SPECIFICATION Spec
CONSTANTS
  Panics = {p1, p2, p3}
  MemTotal = 100
  InitialLimits <- MCInitialLimits
  TunedLimits <- MCTunedLimits
  Usages <- MCUsages
  Durations = {"none", "valid", "invalid"}
  MaxTunes = 1
  MaxFaults = 1
  MaxKills = 1
SYMMETRY Alike
INVARIANTS TypeOK NestedPanicsRestore ReductionIsReported
PROPERTIES UndisturbedPanicRestores
CHECK_DEADLOCK FALSE
