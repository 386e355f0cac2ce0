\* Commands one after the other, with one failing call and one kill.
SPECIFICATION Spec
CONSTANTS
  Proc = {p1}
  Slice = {"browsers.slice"}
  Content <- MCContent
  Profile <- MCProfile
  Request <- AllRequests
  InitialFiles <- EitherFiles
  Absent = Absent
  Torn = Torn
  None = None
  FailingCalls <- AllCalls
  TearingCalls <- WholeBackups
  MaxCommands = 3
  MaxFaults = 1
  MaxCrashes = 1
INVARIANTS TypeOK OriginalsAreKept
PROPERTIES CommandsAreAtomic LoadedWhenDone
CHECK_DEADLOCK FALSE
