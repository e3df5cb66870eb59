SPECIFICATION Spec
CONSTANTS
  Elections = {e1, e2}
  EvidenceIds = {ev1}
  Artifacts = {a1}
  Documents = {d1}
  Actors = {s1}
  ExtractionIds = {x1, x2}
  None = None
  Processes = {p1, p2}
  NoProcess = NoProcess
  MaxLegacyRows = 3
  MaxRecords = 3
  MaxSnapshots = 2
SYMMETRY Symmetry
CHECK_DEADLOCK FALSE
INVARIANTS
  TypeOK
  ClosedUntilCutover
  OnlyMovedEvidenceBreaksChains
  ViewsAreClosed
PROPERTIES
  CutoverIsFinal
  CutoverLosesNothing
  SnapshotsOnlyGrow
