\* Two processes, and a failing call or a kill.
SPECIFICATION Spec
CONSTANTS
  Processes = {p1, p2}
  Words <- MCWords
  SystemEntries <- MCSystemEntries
  UserFiles <- MCUserFiles
  Commands <- MCCommands
  Scopes <- MCScopes
  Rules <- MCRules
  Threshold = 70
  MaxCommands = 3
  MaxFaults = 1
SYMMETRY Alike
INVARIANTS TypeOK SuggestWrapsWhatItFound SuggestConverges MappingTellsTruth WrappersKeepResolution
PROPERTIES WrapsKeepOriginals UnwrapUndoesWrap UnforcedKeepsFiles
CHECK_DEADLOCK FALSE
