CONSTANTS
  StatementEnd <- Semicolon
  Sequences <- Mine
SPECIFICATION Spec
INVARIANTS DefaultRunIsKept InputsAreFed TogglesReach GroupsKeepTheirTotals
CHECK_DEADLOCK FALSE
