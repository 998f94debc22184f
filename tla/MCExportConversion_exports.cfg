\* Small exports: every way to connect a mapping, translations that fail.
SPECIFICATION Spec
CONSTANTS
  Exports <- MCExports
INVARIANTS RowsKeepTheirWay KeysAreKept TablesKeepTheirRows NothingIsHidden JobsRunTheirWorkflow
CHECK_DEADLOCK FALSE
