------------------------ MODULE MCReleasePublication ------------------------
(* Small instances of ReleasePublication for TLC. *)
EXTENDS ReleasePublication, TLC

OneExport == <<"records.json">>
OneSigner == [r \in Releases |-> CHOOSE k \in SigningKeys : TRUE]
OneElection == [r \in Releases |-> CHOOSE e \in Elections : TRUE]
Symmetry ==
  Permutations(Operators) \cup Permutations(Processes) \cup Permutations(Replicas)
=============================================================================
