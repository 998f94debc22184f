\* A gate job and a pack job, both polled, over a registry of one, under fairness.
CONSTANTS
  j1 = j1
  j2 = j2
  j3 = j3
  NoJob = NoJob
  Jobs <- Two
  OwnTerminal <- First
  Packs <- Second
  Polled <- Two
  MaxJobs = 1
  MaxAge = 0
  MaxClock = 0
SPECIFICATION FairSpec
PROPERTIES KeepsContract StartsAreAnswered BrowsersAreTold
CHECK_DEADLOCK FALSE
