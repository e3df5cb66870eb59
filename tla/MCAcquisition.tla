--------------------------- MODULE MCAcquisition ---------------------------
(* Small instances of Acquisition for TLC. *)
EXTENDS AcquisitionProperties, TLC

CONSTANTS w1, w2, p1, p2, m1, s1, a1

OneSource == [r \in Requesters |-> s1]
NoApiKeys == {}
ManualKey == {<<m1, 0>>}
PlanKey == {<<p1, 0>>}
Now == {0}
WorkerSymmetry == Permutations(Workers)
PlanSymmetry == Permutations(Plans)
============================================================================
