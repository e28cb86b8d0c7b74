SPECIFICATION Spec
CHECK_DEADLOCK FALSE
CONSTANTS
  home = home
  next = next
  search = search
  away = away
  blank = blank
  none = none
  Pages <- MCPages
  Origin <- MCOrigin
  Exact <- MCExact
  Blank = blank
  NoPage = none
  Bare <- MCBare
  Redacted = redacted
  MaxSteps = 4
  Journeys <- CheckedJourneys
  CommandLines <- CheckedLines
  Fallible = {"click", "trace_stop", "close"}
INVARIANTS
  BlockedIsNotPublishable
