CONSTANTS
  a = a
  Imports = {i1, i2}
  Exports = {e1, e2}
  Rows = {a}
  Nothing = Nothing
  Torn = Torn
  Garbage = Garbage
  Malformed = Malformed
  Uploads <- MixedUploads
  UnlinksOpen = FALSE
  MaxSecond = 1
  MaxStops = 1
SPECIFICATION Spec
PROPERTIES LoneImportTakesEffect ReplacedIsBackedUp ExportsAreFresh
CHECK_DEADLOCK FALSE
SYMMETRY Alike
