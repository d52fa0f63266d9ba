\* upgrade replaces the binary and refreshes the unit.
SPECIFICATION Spec
CONSTANTS
  Releases <- MCReleases
  Typed <- MCTyped
  Answers <- MCAnswers
  MaxCommands = 2
  MaxFaults = 0
  None = None
INVARIANTS UpgradeRefreshesUnit
CHECK_DEADLOCK FALSE
