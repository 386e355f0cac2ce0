\* The copy of a file into the backup fails half way.
SPECIFICATION Spec
CONSTANTS
  Proc = {p1}
  Slice = {"browsers.slice"}
  Content <- MCContent
  Profile <- MCProfile
  Request <- OneEach
  InitialFiles <- OnlyOwnFiles
  Absent = Absent
  Torn = Torn
  None = None
  FailingCalls <- AllCalls
  TearingCalls <- TornBackups
  MaxCommands = 1
  MaxFaults = 1
  MaxCrashes = 0
PROPERTIES FailedApplyRestores
CHECK_DEADLOCK FALSE
