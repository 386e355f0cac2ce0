\* A second reduction before the first is reverted.
SPECIFICATION Spec
CONSTANTS
  autopilot_cooldown_ticks = 3
  autopilot_revert_window_ticks = 2
  Slice <- MCSlice
  MiB = 4
  GiB = 64
  Profiles <- FixedProfile
  NoProfile = no_profile
  BadProfile = bad_profile
  Metrics <- AllMetrics
  InitialLimits <- AppliedLimits
  TunedLimits <- NoTuning
  Modes = {"loop"}
  MaxTick = 12
  MaxFaults = 0
  MaxStops = 0
  MaxTunes = 0
  MaxSwitches = 0
  Horizon = 12
INVARIANTS PriorLimitsReturn
CHECK_DEADLOCK FALSE
