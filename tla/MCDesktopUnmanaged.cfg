\* Wrapper and unwrap in the wrong mode.
SPECIFICATION Spec
CONSTANTS
  Processes = {p1}
  Words <- MCWords
  SystemEntries <- MCSystemEntries
  UserFiles <- MCUserFiles
  Commands <- UnwrapCommands
  Scopes <- MCScopes
  Rules <- MCRules
  Threshold = 70
  MaxCommands = 3
  MaxFaults = 0
INVARIANTS UnmanagedFilesSurvive
CHECK_DEADLOCK FALSE
