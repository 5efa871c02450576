SPECIFICATION Spec
CONSTANTS
  c1 = c1
  c2 = c2
  j1 = j1
  j2 = j2
  j3 = j3
  NoOffice = NoOffice
  NoJob = NoJob
  Offices <- TwoOffices
  Jobs <- ThreeJobs
  HomeOf <- ThreeHomes
  Limit = 1
  MaxAttempts = 2
  MaxSpawns = 3
  MaxFaults = 1
SYMMETRY JobSymmetry
CHECK_DEADLOCK FALSE
INVARIANT TypeOK
INVARIANT LeasesCounted
INVARIANT AgentsHoldLeases
INVARIANT ReleasesAreKnown
INVARIANT NoLostWakeup
