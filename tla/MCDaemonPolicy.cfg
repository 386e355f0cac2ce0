\* Pressure at will until tick 8, then it stays; an operator changes limits
\* once.  Both profiles have every class, so that reductions can be reverted.
SPECIFICATION FairSpec
CONSTANTS
  autopilot_cooldown_ticks = 3
  autopilot_revert_window_ticks = 2
  Slice <- MCSlice
  MiB = 4
  GiB = 64
  Profiles <- TwoProfiles
  NoProfile = no_profile
  BadProfile = bad_profile
  Metrics <- HeavyMetrics
  InitialLimits <- MixedLimits
  TunedLimits <- TwoTunings
  Modes = {"loop"}
  MaxTick = 14
  MaxFaults = 0
  MaxStops = 0
  MaxTunes = 1
  MaxSwitches = 0
  Horizon = 8
INVARIANTS TypeOK
PROPERTIES ThrashFree RevertRestoresBase SettlesWhenCalm
CHECK_DEADLOCK FALSE
