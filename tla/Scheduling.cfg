SPECIFICATION MCSpec
CONSTANTS
  Unknown = None
  Unset = None
  Absent = None
  FailOpen = {}
  Turn = 12
  Samples = 4
  Step = 1
  DefaultHandoffLeadSeconds = 3
  UserHandoffLeadSeconds = 1
  ObstructionApproachSeconds = 1
  PollSeconds <- MCPollSeconds
  Circle = 12
  One = 2
  Fleet <- MCFleet
  Tasks <- MCTasks
  Streams <- MCStreams
  Configs <- MCConfigs
  Seats = 2
  Horizon = 6
INVARIANTS
  WavesAreOne
  AgendaIsSound
  PointingIsSafe
  HandoffWarnsInTime
  PlanKeepsIntent
  PublishedPackIsSound
PROPERTIES
  RunEnds
