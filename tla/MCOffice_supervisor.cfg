SPECIFICATION Spec
CHECK_DEADLOCK FALSE
CONSTANTS
  Requests = {r1, r2}
  NoRequest = NoRequest
  MaxMail = 2
  MaxEvents = 3
  MaxAlarms = 3
  MaxAlarmEvents = 2
  PerRound = 2
  MaxIncidents = 2
  MaxFirefighters = 2
  MaxFireEvents = 1
  Agents <- TwoPosts
  MaxStopEvents = 2
  MaxNamers = 3
  ValidNames = {nameA, nameB}
  NoName = NoName
  Failed = Failed
  Fallback = Fallback
  pm = pm
  kid = kid
  repo = repo
  Lead = pm
  Kids = {kid}
  Repos = {repo}
  RepoOf <- OneRepo
  MaxNames = 1
  MaxTreeEvents = 2
  MaxCEOs = 5
  MaxRestarts = 1
  MaxRetries = 1
  MaxCEOEvents = 4
  Lines <- ThreeLines
  Limits <- SomeLimits
  Rows = 2
  MaxOutputs = 2
  MaxTails = 1
  MaxMinutes = 1
INVARIANT TypesOK
INVARIANT SessionsAreTrue
INVARIANT BranchesAreKept
PROPERTY InputsInOrder
PROPERTY AgentsAreAnswered
PROPERTY AlarmsAreAttended
PROPERTY OfficeStops
PROPERTY CEOIsReplaced
