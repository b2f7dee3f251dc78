SPECIFICATION CutoverSpec
CONSTANTS
  LegacyIds = {2}
  LastRowId = 2
CHECK_DEADLOCK FALSE
INVARIANT OrderFits
