\* Liveness: pressure on a resource no class of the profile answers to.
SPECIFICATION FairSpec
CONSTANTS
  autopilot_cooldown_ticks = 3
  autopilot_revert_window_ticks = 2
  Slice <- MCSlice
  MiB = 4
  GiB = 64
  Profiles <- LeanProfile
  NoProfile = no_profile
  BadProfile = bad_profile
  Metrics <- AllMetrics
  InitialLimits <- AppliedLimits
  TunedLimits <- NoTuning
  Modes = {"loop"}
  MaxTick = 14
  MaxFaults = 0
  MaxStops = 0
  MaxTunes = 0
  MaxSwitches = 0
  Horizon = 7
PROPERTIES PendingIsReverted
CHECK_DEADLOCK FALSE
