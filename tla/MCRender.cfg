SPECIFICATION RenderSpec
CHECK_DEADLOCK FALSE
SYMMETRY Symmetry
CONSTANTS
  home = home
  next = next
  search = search
  away = away
  blank = blank
  none = none
  Pages <- PlainPages
  Origin <- PlainOrigin
  Exact <- MCExact
  Blank = blank
  NoPage = none
  Bare <- PlainBare
  Redacted = redacted
  MaxSteps = 4
  Journeys <- EditedJourneys
  CommandLines <- LinkLines
  Renderers = {q1, q2}
  Fragile = {"focused_screenshot", "trace"}
  Fallible = {"trace_stop"}
INVARIANTS
  RenderTypeOK
PROPERTIES
  GuideTellsTheTruth
  FindingsTellTheTruth
  NeverOverwritten
