SPECIFICATION OfficeSpec
CONSTANTS
  j1 = j1
  j2 = j2
  NoJob = NoJob
  Jobs <- OneJob
  Children <- OneJob
  MaxAgents = 6
  MaxDevelopers = 2
  MaxSpawnRetries = 1
  MaxJobRetries = 1
  MaxFaults = 2
  Env = {"exit","conflict"}
CHECK_DEADLOCK FALSE
PROPERTY OrphanIsRescued
