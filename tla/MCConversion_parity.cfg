\* Small outputs matched by a column that need not be a key.
SPECIFICATION Spec
CONSTANTS
  lead = lead
  side = side
  join = join
  gone = gone
  load = load
  check = check
  mail = mail
  start = start
  one = one
  uno = uno
  two = two
  id = id
  sum = sum
  more = more
  NoCell = NoCell
  NoKey = NoKey
  NoStep = NoStep
  MaxPasses = 2
  Steps <- MCSteps
  Ghosts <- MCGhosts
  Mappings <- OneMapping
  Components <- MCComponents
  Start = start
  Callers <- OneCaller
  Columns <- MCColumns
  Cells <- MCCells
  Alike <- MCAlike
  Outputs <- AllOutputs
  Sources <- OutputSources
INVARIANT PassIsAlwaysEquivalent
CHECK_DEADLOCK FALSE
