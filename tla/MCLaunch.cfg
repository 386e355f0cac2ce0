\* Two processes; four commands, or three and an edit of a profile, a failing
\* call or a kill.
SPECIFICATION Spec
CONSTANTS
  Processes = {"admin", "user"}
  Names = {"auto", "hand"}
  HandWritten <- MCHandWritten
  Machines <- MCMachines
  Commands <- MCCommands
  Absent = Absent
  Torn = Torn
  Stores <- MCStores
  MaxEvents = 4
  MaxFaults = 1
INVARIANTS TypeOK ContainedRuns FallbackOnlyWhenMissing AppliedClassesRun AutoProfilesFit InstalledLimitsAreOrdered
INVARIANTS DiffIsEmptyAfterApply DoctorFindsMissingSlices StatusAgreesWithRun TopRowsAreLive
PROPERTIES SetupReadies RescueFallsBack
CHECK_DEADLOCK FALSE
