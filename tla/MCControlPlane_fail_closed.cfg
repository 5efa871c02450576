SPECIFICATION FairSpec
CONSTANTS
  c1 = c1
  c2 = c2
  j1 = j1
  j2 = j2
  j3 = j3
  NoOffice = NoOffice
  NoJob = NoJob
  Offices <- OneOffice
  Jobs <- TwoJobs
  HomeOf <- TwoHomes
  Limit = 1
  MaxAttempts = 2
  MaxSpawns = 3
  MaxFaults = 2
CHECK_DEADLOCK FALSE
PROPERTY UnusedLeaseReturns
PROPERTY LossEndsOffices
