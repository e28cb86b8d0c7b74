SPECIFICATION Spec
CHECK_DEADLOCK FALSE
CONSTANTS
  home = home
  next = next
  search = search
  away = away
  blank = blank
  none = none
  Pages <- PlainPages
  Origin <- PlainOrigin
  Exact <- MCExact
  Blank = blank
  NoPage = none
  Bare <- PlainBare
  Redacted = redacted
  MaxSteps = 4
  Journeys <- PromiseJourneys
  CommandLines <- PromiseLines
  Fallible = {"authentication_load", "click", "close"}
PROPERTIES
  KeepsPromise
  Terminates
  LaunchedIsClosed
