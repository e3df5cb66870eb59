------------------------ MODULE MCApplicationCutover ------------------------
(* Small instances of ApplicationCutover for TLC. *)
EXTENDS ApplicationCutover, TLC

Symmetry == Permutations(Elections) \cup Permutations(Processes) \cup Permutations(ExtractionIds)
=============================================================================
