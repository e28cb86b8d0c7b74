SPECIFICATION Spec
CHECK_DEADLOCK FALSE
SYMMETRY Symmetry
CONSTANTS
  Procs = {p1, p2}
  MaxGuides = 2
  Manifests <- MCManifests
  Documents <- MCDocuments
  AllRuns <- MCRuns
  Starts <- SiblingStarts
  MaxInputFiles = 4
  MaxInputBytes = 5
  MaxOutputFiles = 12
  MaxOutputBytes = 13
  MaxChanges = 1
  Absent = Absent
  Foreign = Foreign
  Tampered = Tampered
PROPERTIES
  SiblingsShown
