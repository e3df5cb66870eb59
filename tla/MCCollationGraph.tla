-------------------------- MODULE MCCollationGraph --------------------------
(* Small instances of CollationGraph for TLC. *)
EXTENDS CollationGraph, TLC

ThreeNodes == {"n1", "n2", "n3"}
InOrder == <<"n1", "n2", "n3">>
TwoLeaves == {"l1", "l2"}
NoName == {""}
AllLeaves == TwoLeaves \cup NoName

\* Leaf l1 reports nothing, no candidate, "a", or "a" and "b"; l2 reports
\* nothing or "a".
NoTotals == [c \in {} |-> 1]
Reports == {NoTotals, "a" :> 1, "a" :> 1 @@ "b" :> 1}

\* At most two children; one node at most declares totals.
SmallGraphs ==
  [children : [ThreeNodes -> {s \in SUBSET (ThreeNodes \cup TwoLeaves) :
                                Cardinality(s) \in {1, 2}}],
   expected : {None, {"a"}},
   leafTotals : {t \in UNION {[given -> Reports] : given \in SUBSET TwoLeaves} :
                   "l2" \in DOMAIN t => DOMAIN t["l2"] = {"a"}},
   declared : {[n \in ThreeNodes |-> IF n = m THEN d ELSE None] :
                 m \in ThreeNodes,
                 d \in {None, "a" :> 1, "a" :> 2, "a" :> -1, "a" :> 1 @@ "b" :> 1}}]

\* The same with an empty id in the place of l2, whose totals may be given.
NamelessGraphs ==
  [children : [ThreeNodes -> {s \in SUBSET (ThreeNodes \cup {"l1"} \cup NoName) :
                                Cardinality(s) \in {1, 2}}],
   expected : {{"a"}},
   leafTotals : {[l \in given |-> "a" :> 1] : given \in SUBSET ({"l1"} \cup NoName)},
   declared : {[n \in ThreeNodes |-> None]}]

Graphs == SmallGraphs \cup NamelessGraphs
=============================================================================
