\* init server, init integrations, doctor and upgrade, with crashes and reboots.
SPECIFICATION FairSpec
CONSTANTS
  Releases <- MCReleases
  Typed <- MCTyped
  Answers <- MCAnswers
  MaxCommands = 3
  MaxFaults = 1
  None = None
INVARIANTS TypeOK NextBootSucceeds DoctorIsRight RestartTookEffect TestedIsSaved
PROPERTIES AgentComesBack
CHECK_DEADLOCK FALSE
