-------------------------- MODULE CollationReplay --------------------------
(***************************************************************************)
(* replay_collation: one aggregation edge, from what its units report to   *)
(* what was declared above them.  A request is a record of the expected    *)
(* units, the expected candidates, the totals given by unit, and the       *)
(* declared totals; totals are functions from the candidates they name.    *)
(***************************************************************************)
EXTENDS Integers, FiniteSets, Functions

CONSTANT None  \* no expected candidates, or no declared totals, were given

Given(q) == DOMAIN q.inputs
Included(q) == q.units \cap Given(q)

\* Candidates that some included unit does not report, or should not.
MissingCandidates(q) ==
  IF q.expected = None THEN {}
  ELSE UNION {q.expected \ DOMAIN q.inputs[u] : u \in Included(q)}
UnexpectedCandidates(q) ==
  IF q.expected = None THEN {}
  ELSE UNION {DOMAIN q.inputs[u] \ q.expected : u \in Included(q)}

Computed(q) ==
  [c \in UNION {DOMAIN q.inputs[u] : u \in Included(q)} |->
     SumFunction([u \in {v \in Included(q) : c \in DOMAIN q.inputs[v]} |-> q.inputs[u][c]])]

\* Only totals that every included unit contributes to are compared.
Comparable(q) ==
  DOMAIN q.declared \cap DOMAIN Computed(q)
    \cap IF q.expected = None THEN DOMAIN Computed(q) ELSE q.expected \ MissingCandidates(q)

DeclarationContradicts(q) ==
  /\ q.declared # None
  /\ \/ q.expected # None /\ DOMAIN q.declared \ q.expected # {}
     \/ \E c \in Comparable(q) : Computed(q)[c] # q.declared[c]

Contradicts(q) ==
  \/ Given(q) \ q.units # {}
  \/ UnexpectedCandidates(q) # {}
  \/ DeclarationContradicts(q)

DeclarationSuffices(q) ==
  q.declared # None /\ q.expected # None => q.expected \subseteq DOMAIN q.declared

\* Mutant of Suffices: a candidate that a unit does not report counts as zero.
UnitsSuffice(q) == q.expected # None /\ q.units \subseteq Given(q) /\ DeclarationSuffices(q)

Suffices(q) ==
  /\ q.units \subseteq Given(q)
  /\ q.expected # None
  /\ MissingCandidates(q) = {}
  /\ DeclarationSuffices(q)

ReplayCollation(q) ==
  [status |-> IF Contradicts(q) THEN "failed"
              ELSE IF Suffices(q) THEN "verified" ELSE "incomplete",
   computed |-> Computed(q)]
=============================================================================
