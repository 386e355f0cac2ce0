\* One failing call, one stop and one profile switch, also to a profile with
\* another heavy slice, in both modes.
SPECIFICATION Spec
CONSTANTS
  autopilot_cooldown_ticks = 3
  autopilot_revert_window_ticks = 2
  Slice <- MCSlice
  MiB = 4
  GiB = 64
  Profiles <- FullAndWork
  NoProfile = no_profile
  BadProfile = bad_profile
  Metrics <- FewMetrics
  InitialLimits <- AppliedLimits
  TunedLimits <- NoTuning
  Modes = {"loop", "once"}
  MaxTick = 7
  MaxFaults = 1
  MaxStops = 1
  MaxTunes = 0
  MaxSwitches = 1
  Horizon = 7
INVARIANTS PolicyGate AppliedIsPending
PROPERTIES ImplementsGate RevertRestoresBase OtherSlicesUntouched
CHECK_DEADLOCK FALSE
