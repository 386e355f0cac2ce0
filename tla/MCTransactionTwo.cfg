\* Two processes at once, with one failing write and one kill.
SPECIFICATION Spec
CONSTANTS
  Proc = {p1, p2}
  Slice = {"browsers.slice"}
  Content <- MCContent
  Profile <- MCProfile
  Request <- DropInsOnly
  InitialFiles <- OnlyOwnFiles
  Absent = Absent
  Torn = Torn
  None = None
  FailingCalls <- Writes
  TearingCalls <- WholeBackups
  MaxCommands = 3
  MaxFaults = 1
  MaxCrashes = 1
INVARIANTS StateNamesManifest ManifestIsComplete OriginalsAreKept
CHECK_DEADLOCK FALSE
