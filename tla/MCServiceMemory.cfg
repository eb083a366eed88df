CONSTANTS
  Conns = {"c1", "c2"}
  MaxCmds = 3
  MaxJres = 2
  None = None
SPECIFICATION FairSpec
INVARIANTS TypeOK PingsSentAsAsked StatusTrue
PROPERTY ShellGoesOn
CHECK_DEADLOCK FALSE
