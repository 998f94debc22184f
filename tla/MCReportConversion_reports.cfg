SPECIFICATION ReportSpec
CONSTANTS
  noCommand = noCommand
  noTopN = noTopN
  noValue = noValue
  Operands <- MCOperands
  Situations <- MCSituations
  NoValue = noValue
  NoCommand = noCommand
  NoTopN = noTopN
  OthersLabel <- Others
  Dumps <- MCDumps
INVARIANTS FormulasKeepTheirMeaning QueryKeepsTheRows SavedRowsMatch LayoutKeepsItsOrder ReadyPrintsItsLayout
CHECK_DEADLOCK FALSE
