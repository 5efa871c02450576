SPECIFICATION Spec
CONSTANTS
  j1 = j1
  j2 = j2
  NoJob = NoJob
  Jobs <- TwoJobs
  Children <- TwoJobs
  MaxAgents = 8
  MaxDevelopers = 1
  MaxSpawnRetries = 1
  MaxJobRetries = 1
  MaxFaults = 3
  Env = {"startfail", "conflict", "reject", "quit", "cancel", "kill", "halt", "reboot"}
CHECK_DEADLOCK FALSE
INVARIANT DeveloperCap
SYMMETRY JobSymmetry
PROPERTY ReviewerIsFresh
