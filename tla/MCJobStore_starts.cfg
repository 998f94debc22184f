\* Three concurrent starts over a registry of one: eviction, no pollers.
CONSTANTS
  j1 = j1
  j2 = j2
  j3 = j3
  NoJob = NoJob
  Jobs <- Three
  OwnTerminal <- None
  Packs <- None
  Polled <- None
  MaxJobs = 1
  MaxAge = 0
  MaxClock = 1
SPECIFICATION Spec
SYMMETRY Alike
INVARIANTS RegistryBounded AgedAreFinished
CHECK_DEADLOCK FALSE
