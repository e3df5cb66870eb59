SPECIFICATION Spec
CONSTANTS
  Elections = {e1, e2}
  EvidenceIds = {ev1}
  Artifacts = {a1}
  Documents = {d1}
  Actors = {s1}
  ExtractionIds = {x1, x2}
  None = None
  Processes = {p1, p2}
  NoProcess = NoProcess
  Renderings <- Exports
  MaxWrites = 4
  MaxVersions = 2
  MaxReleases = 2
  MaxCrashes = 1
SYMMETRY Symmetry
CHECK_DEADLOCK FALSE
INVARIANTS
  TypeOK
  EvidenceIsSound
  ReleasesAreClosed
  VerifiedDirectoryIsOneRelease
  GenerationCountsWrites
PROPERTIES
  ImplementsAtomicLedger
  ReleasesOnlyGrow
