\* Directories of two levels, one name of which cannot be entered, and a
\* string of four parts.
SPECIFICATION CmdSpec
CONSTANTS
  DirNames = {"a", "c"}
  ClosedName = "c"
  TreeDepth = 2
  MaxPath = 4
PROPERTIES
  PartInThreeWays
  UpGoesUp
CHECK_DEADLOCK FALSE
