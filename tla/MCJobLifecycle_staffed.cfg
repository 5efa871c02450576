SPECIFICATION OfficeSpec
CONSTANTS
  j1 = j1
  j2 = j2
  NoJob = NoJob
  Jobs <- OneJob
  Children <- OneJob
  MaxAgents = 6
  MaxDevelopers = 2
  MaxSpawnRetries = 1
  MaxJobRetries = 1
  MaxFaults = 2
  Env = {"exit", "late", "reject", "quit", "override", "cancel", "kill", "halt", "reboot", "requeue"}
CHECK_DEADLOCK FALSE
PROPERTY ReviewIsStaffed
PROPERTY QueuedIsDispatched
PROPERTY OrphanIsRescued
PROPERTY JobsSettle
