\* Two overlapping batches and a pack over them; sources may be deleted.
CONSTANTS
  export = export
  dump = dump
  binary = binary
  old = old
  new = new
  sales = sales
  salesToo = salesToo
  junk = junk
  load = load
  clean = clean
  refresh = refresh
  first = first
  pack = pack
  sweep = sweep
  Nothing = Nothing
  Torn = Torn
  Files <- TwoFiles
  Contents <- MCContents
  Names <- MCNames
  Kind <- MCKind
  Pipelines <- MCPipelines
  Shipped <- NoneShipped
  Batches <- Both
  Uploads <- Interrupted
  Packs <- OnePack
  Bases <- MCBases
  EtlBase <- MCEtlBase
  ReportBase <- OwnNames
  Sweeps <- None
  Ships <- MCShips
  Removable <- TwoFiles
SPECIFICATION Spec
INVARIANTS ConvertedIsRecorded OneVersionPerExport ManifestIsExact
PROPERTIES NothingIsLost
CHECK_DEADLOCK FALSE
