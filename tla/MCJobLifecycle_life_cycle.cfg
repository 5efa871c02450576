SPECIFICATION Spec
CONSTANTS
  j1 = j1
  j2 = j2
  NoJob = NoJob
  Jobs <- OneJob
  Children <- OneJob
  MaxAgents = 8
  MaxDevelopers = 2
  MaxSpawnRetries = 1
  MaxJobRetries = 1
  MaxFaults = 3
  Env = {"exit", "startfail", "conflict", "reject", "quit", "override", "cancel", "kill", "halt", "reboot", "wait", "slow"}
CHECK_DEADLOCK FALSE
INVARIANT OneAgentPerPost
INVARIANT OneMergeAtATime
INVARIANT DoneMeansLanded
INVARIANT MergedRetiresDeveloper
INVARIANT AssigneeIsDeveloper
PROPERTY EndedNeverActs
PROPERTY ImplementsBoard
