SPECIFICATION Spec
CONSTANTS
  Replicas = {s1, s2}
  MinimumReplicas = 2
  NoObject = NoObject
  Processes = {p1, p2}
  Renderings <- OneExport
  MaxAttempts = 4
  Operators = {o1, o2}
  SigningKeys = {k1}
  Releases = {1, 2}
  Elections = {e1}
  SignerOf <- OneSigner
  ElectionOf <- OneElection
  MaxTime = 5
SYMMETRY Symmetry
CHECK_DEADLOCK FALSE
INVARIANTS
  PublishedIsComplete
  OnlyRebuildsSpoilPublications
  RefutedOnlyByRevocationUnderWay
  EquivocationsAreRepublications
PROPERTIES
  VerifiedPublicationsLast
