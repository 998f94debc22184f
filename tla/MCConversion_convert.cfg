\* Every small mapping, Talend job and pair of outputs, one at a time.
SPECIFICATION FairSpec
CONSTANTS
  lead = lead
  side = side
  join = join
  gone = gone
  load = load
  check = check
  mail = mail
  start = start
  one = one
  uno = uno
  two = two
  id = id
  sum = sum
  more = more
  NoCell = NoCell
  NoKey = NoKey
  NoStep = NoStep
  MaxPasses = 2
  Steps <- MCSteps
  Ghosts <- MCGhosts
  Mappings <- AllMappings
  Components <- MCComponents
  Start = start
  Callers <- AllCallers
  Columns <- MCColumns
  Cells <- MCCells
  Alike <- MCAlike
  Outputs <- AllOutputs
  Sources <- MCSources
INVARIANTS LegsAreServed CallsAreKept DiffIsHonest ReviewIsRight
PROPERTIES ConversionEnds
CHECK_DEADLOCK FALSE
