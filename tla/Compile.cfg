SPECIFICATION Spec
CONSTANTS
  Families <- MCFamilies
  LoweringOptions <- MCOptions
  Rows = {1, 3}
  CacheRows = {0, 2}
INVARIANTS
  LinksExact
  AcceptedGraphLowers
  MeaningKept
  ShapesSound
CHECK_DEADLOCK FALSE
