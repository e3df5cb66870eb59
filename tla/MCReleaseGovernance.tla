------------------------ MODULE MCReleaseGovernance ------------------------
(* Small instances of ReleaseGovernance for TLC. *)
EXTENDS ReleaseGovernance, TLC

CONSTANTS o1, o2, k1, k2, r1, r2, e1

\* r1 and r2 belong to one election and are signed with different keys.
TwoSigners == [r \in Releases |-> IF r = r1 THEN k1 ELSE k2]
OneElection == [r \in Releases |-> e1]
OperatorSymmetry == Permutations(Operators)
============================================================================
