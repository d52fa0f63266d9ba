\* One request at a time.
CONSTANTS
  r1 = r1  r2 = r2  d1 = d1  d2 = d2  d3 = d3  e1 = e1  e2 = e2
  None = None
  Runs = {r1, r2}
  Digests = {d1, d2, d3}
  Envs = {e1, e2}
  Payloads <- MCPayloads
  Trusted = {d1, d2}
  Sound <- MCSound
  Unprobed = {d2}
  Providers = {"proxy", "dns"}
  RollbackEnabled = TRUE
  OneAtATime = TRUE
  MaxDeploys = 3
  MaxHistory = 1
SPECIFICATION FairSpec
INVARIANTS
  GoodIsSound
  AnswerIsTrue
  NoDowngrade
PROPERTIES
  ExposureGate
  ImplementsLedger
  EveryRequestEnds
