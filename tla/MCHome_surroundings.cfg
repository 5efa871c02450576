SPECIFICATION Spec
CHECK_DEADLOCK FALSE
CONSTANTS
  LoadDirs = {1, 2, 3}
  LoadNames = {1, 2, 3, 4}
  MaxRequires = 2
  Sources <- SomeSources
  Versions <- SomeVersions
  Constraints <- SomeConstraints
  m1 = m1
  PluginCount = 2
  Triggers = {m1}
  AsyncLimit = 1
  MaxPluginEvents = 2
  Installed = {1, 2}
  Bundled = {2}
  Revisions = {1, 2, 3}
  BrokenRevisions = {3}
  MaxUpdateEvents = 3
  MaxSetupEvents = 2
  Updaters = {1, 2}
  PublishedReleases = {1, 2}
  MaxSelfUpdates = 2
  Launchers = {1, 2}
  Stoppers = {1}
  MaxCompanies = 2
  MaxServiceEvents = 2
  Viewers = {1}
  ReplayLimit = 1
  StreamLimit = 1
  TypingLimit = 1
  AckLimit = 1
  MaxChunks = 2
  MaxInputs = 2
  Commands = {1, 2}
  MaxCommands = 1
  ProjectPaths = {1, 2}
  ProjectRequests = {1, 2}
  Ids = {1, 2}
  InstanceLimit = 2
  OfficeAgents = {1}
  MaxProjectRequests = 2
  FirstTrusted <- TrustsOne
  TuiAgents = {1, 2}
  TuiPlugins = {1}
  MaxUiJobs = 2
  MaxUiEvents = 1
  Scopes = {1, 2}
  RoleScopes = {1}
  MaxUsageEvents = 2
  FirstLevels <- AllUsedUp
  WebNames = {"a", "b"}
  WebDirs = {"a"}
  Literal = {"a"}
  MaxCarry = 6
  MaxRead = 2
INVARIANT TypesOK
PROPERTY PluginsInOrder
PROPERTY FilesAreWhole
PROPERTY CompanyIsTrue
PROPERTY CompanyAnswers
PROPERTY ScreenIsTrue
PROPERTY UsageStops
