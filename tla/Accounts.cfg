SPECIFICATION Spec
CONSTANTS
  Devices = {d1, d2}
  Calls = {c1, c2}
  MaxTokens = 4
  MaxVersions = 2
  MaxFaults = 1
  MaxExpired = 1
SYMMETRY Symmetry
INVARIANTS
  OneLivePerLogin
  ChangeEndsSessions
PROPERTIES
  SessionsEndForAReason
CHECK_DEADLOCK FALSE
