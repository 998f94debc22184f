\* Two statements broken in every way, and three checks on two slots.
SPECIFICATION GateFairSpec
CONSTANTS
  ann = ann
  annex = annex
  first = first
  second = second
  third = third
  NoCustomer = NoCustomer
  NoAmount = NoAmount
  Customers <- MCCustomers
  Longer <- MCLonger
  Amounts <- MCAmounts
  GroupCap = 60
  SparseLines = 3
  SparseSlack = 2
  FurnitureLines = 3
  OrphanLines = 8
  DriftSlack = 2
  Checks <- MCChecks
  Slots = 2
  NoteCap = 8
  Cases <- MCCases
INVARIANTS SlotsAreKept VerdictIsFair
PROPERTIES ChecksEnd
CHECK_DEADLOCK FALSE
