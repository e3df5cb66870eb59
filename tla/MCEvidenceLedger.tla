-------------------------- MODULE MCEvidenceLedger --------------------------
(* Small instances of EvidenceLedger for TLC. *)
EXTENDS EvidenceLedger, TLC

Exports == <<"records.json", "records.csv", "records.parquet">>
Symmetry ==
  Permutations(Elections) \cup Permutations(ExtractionIds) \cup Permutations(Processes)
=============================================================================
