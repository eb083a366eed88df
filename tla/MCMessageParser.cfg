CONSTANTS
  Bodies <- MCBodies
  HeadSum = 247
  TextSum = 900
  MaxSent = 2
SPECIFICATION Spec
INVARIANT AllParsed
CHECK_DEADLOCK FALSE
