SPECIFICATION Spec
CONSTANTS
  o1 = o1
  o2 = o2
  k1 = k1
  k2 = k2
  r1 = r1
  r2 = r2
  e1 = e1
  Operators = {o1, o2}
  SigningKeys = {k1, k2}
  Releases = {r1, r2}
  Elections = {e1}
  SignerOf <- TwoSigners
  ElectionOf <- OneElection
  MaxTime = 6
SYMMETRY OperatorSymmetry
CHECK_DEADLOCK FALSE
INVARIANTS
  RevocationIsProspective
