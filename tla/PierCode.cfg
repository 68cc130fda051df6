SPECIFICATION Spec
CONSTANTS
  c1 = c1
  c2 = c2
  n1 = n1
  n2 = n2
  m1 = m1
  m2 = m2
  m3 = m3
  h = h
  Campaigns <- MCCampaigns
  Hashes = {h}
  None = None
  Assignments <- MCAssignments
  GrantLists <- MCGrantLists
  Messages = {m1, m2, m3}
  Topic <- MCTopic
  Legacy = {m3}
  Filters = {"r", "g"}
  Asked <- MCAsked
  DefaultExposure = 3
  RunnerEnvs = {{}, {"HOME"}}
  MaxBoard = 2
  MaxRecords = 2
  MaxFrames = 3
  MaxChanges = 4
INVARIANTS
  EffectsAreConsented
  ShotIsBounded
  SignalOnce
CHECK_DEADLOCK FALSE
