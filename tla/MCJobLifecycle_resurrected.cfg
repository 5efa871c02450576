SPECIFICATION OfficeSpec
CONSTANTS
  j1 = j1
  j2 = j2
  NoJob = NoJob
  Jobs <- OneJob
  Children <- NoChild
  MaxAgents = 6
  MaxDevelopers = 2
  MaxSpawnRetries = 1
  MaxJobRetries = 1
  MaxFaults = 2
  Env = {"wait"}
PROPERTY EndedStaysEnded
CHECK_DEADLOCK FALSE
