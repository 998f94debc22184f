\* A batch that uploads an export twice, and a sweep; the export may be deleted.
CONSTANTS
  export = export
  dump = dump
  binary = binary
  old = old
  new = new
  sales = sales
  salesToo = salesToo
  junk = junk
  load = load
  clean = clean
  refresh = refresh
  first = first
  pack = pack
  sweep = sweep
  Nothing = Nothing
  Torn = Torn
  Files <- TwoFiles
  Contents <- MCContents
  Names <- MCNames
  Kind <- MCKind
  Pipelines <- MCPipelines
  Shipped <- OldShipped
  Batches <- Later
  Uploads <- AgainAndJunk
  Packs <- None
  Bases <- MCBases
  EtlBase <- MCEtlBase
  ReportBase <- OwnNames
  Sweeps <- OneSweep
  Ships <- MCShips
  Removable <- Refreshed
SPECIFICATION FairSpec
INVARIANTS FreshSweepIsCurrent
PROPERTIES JobsEnd
CHECK_DEADLOCK FALSE
