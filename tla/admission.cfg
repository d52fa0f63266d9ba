SPECIFICATION Spec
CONSTANTS
  api = api
  web = web
  OURS = OURS
  THEIRS = THEIRS
  None = None
  Broken = Broken
  Names = {api, web}
  Pins <- MCPins
  Payloads <- MCPayloads
  Keys = {"TOKEN"}
  MaxCommands = 2
  MaxInterrupts = 1
  Possible = {"credentials", "replay_seq", "port_exhausted", "ports_unwritable"}
  MaxTroubles = 1
  MaxJobs = 3
  MaxWork = 3
  MaxFaults = 1
  MaxLog = 0
INVARIANTS
  TypeOK
  RestingAppsLoad
  SlotIsTheService
  OnlyOwnSecrets
  ProtectedKept
  GreenMeansGo
  AnsweredIsInTheLog
SYMMETRY MCSymmetry
CHECK_DEADLOCK FALSE
