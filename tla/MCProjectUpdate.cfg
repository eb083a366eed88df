CONSTANTS
  Funcs = {"sum", "mean"}
  Home <- MCHome
  Names = {"x", "y", "n", "r", "s"}
  Descriptions <- MCDescriptions
  MaxVer = 2
  Bad <- MCBad
  MaxEdits = 2
  MaxCrashes = 2
  None = None
SPECIFICATION Spec
INVARIANTS TypeOK FunctionsResolve RecordedIsBuilt 
