SPECIFICATION Spec
CONSTANTS
  NPos = 255
  MaxComponents = 3
  MaxLength = 3
  MaxWidth = 12
  NoWidth = NoWidth
  None = None
  c1 = c1
  s1 = s1
  s2 = s2
  Consoles = {c1}
  Syslogs = {s1, s2}
  Facilities = {daemon, local}
  Configured <- MCConfigured
CHECK_DEADLOCK FALSE
INVARIANTS TypeOK FitsTheWidth CutsNoMoreThanNeeded SyslogIsClosed
