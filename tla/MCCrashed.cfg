SPECIFICATION Spec
CHECK_DEADLOCK FALSE
CONSTANTS
  p1 = p1
  p2 = p2
  p3 = p3
  Procs = {p1, p2, p3}
  Versions <- MCVersions
  Line <- MCLine
  Shipped = shipped
  Operator = operator
  NoOne = noone
  NoFile = nofile
  ByPath = {}
  Day = 1
  Week = 2
  Jitter = {0}
  MaxTime = 2
  Policy = "auto"
  Installations <- ManagedOnly
  Casts <- MCCasts
  Bundles <- MCBundles
PROPERTIES
  IncompleteFailsClosed
