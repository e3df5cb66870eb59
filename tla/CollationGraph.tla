--------------------------- MODULE CollationGraph ---------------------------
(***************************************************************************)
(* replay_collation_graph: a graph of aggregation edges is validated and   *)
(* replayed node by node, in passes over the nodes that are left, sorted   *)
(* by name.  A node is replayed when all nodes among its children are, and *)
(* takes over the totals of those that are verified.                       *)
(***************************************************************************)
EXTENDS CollationReplay, Sequences, SequencesExt

CONSTANTS
  Nodes,
  NodeOrder,   \* the nodes, sorted
  Leaves,
  Misnamed,    \* leaves whose ids no CollationInput accepts: empty, or too long
  Requests     \* graphs that are asked for

\* Totals by candidate.
IsTotals(t) == t \in [DOMAIN t -> Int]

ASSUME CollationConstants ==
  /\ NodeOrder \in Seq(Nodes)
  /\ Nodes \subseteq {NodeOrder[i] : i \in DOMAIN NodeOrder}
  /\ Nodes \cap Leaves = {}
  /\ IsFiniteSet(Leaves)
  /\ Misnamed \subseteq Leaves
  /\ \A r \in Requests :
       /\ r.children \in [Nodes -> (SUBSET (Nodes \cup Leaves)) \ {{}}]
       /\ DOMAIN r.leafTotals \subseteq Leaves
       /\ \A l \in DOMAIN r.leafTotals : IsTotals(r.leafTotals[l])
       /\ \A n \in Nodes : r.declared[n] # None => IsTotals(r.declared[n])

VARIABLES
  request,     \* children, leafTotals, expected candidates, declared totals
  reports,     \* of the nodes that are replayed
  next,        \* the place in NodeOrder that this pass has come to
  progressed,
  outcome      \* running, reported, or the error that ended it

vars == <<request, reports, next, progressed, outcome>>

----------------------------------------------------------------------------
\* The nodes can be ranked, children below parents.
AnyGraph(children) == \A n \in Nodes : n \notin children[n]  \* mutant of Acyclic
Acyclic(children) ==
  {rank \in [Nodes -> 1..Cardinality(Nodes)] :
     \A n \in Nodes : \A c \in children[n] \cap Nodes : rank[c] < rank[n]} # {}

\* graph_is_well_formed.  Declared totals and the ids of leaves are not looked
\* at here.
WellFormed(r) == Acyclic(r.children)

Init ==
  /\ request \in Requests
  /\ WellFormed(request)
  /\ reports = [n \in {} |-> None]
  /\ next = 1
  /\ progressed = FALSE
  /\ outcome = "running"

Replayed == DOMAIN reports
Remaining == Nodes \ Replayed
Children(n) == request.children[n]
Ready(n) == Children(n) \cap Nodes \subseteq Replayed

PromotedAlways(c) == c \in Replayed  \* mutant of Promoted
Promoted(c) == c \in Replayed /\ reports[c].status = "verified"

\* The totals a node is replayed with: of leaves, and of promoted children.
Inputs(n) ==
  [c \in {d \in Children(n) : d \in DOMAIN request.leafTotals \/ Promoted(d)} |->
     IF c \in DOMAIN request.leafTotals THEN request.leafTotals[c] ELSE reports[c].computed]

Edge(n) == [units |-> Children(n), expected |-> request.expected,
            inputs |-> Inputs(n), declared |-> request.declared[n]]

\* identifiers_are_unique refuses negative declared totals, in mid-graph.
DeclaresNegative(n) ==
  request.declared[n] # None
    /\ \E c \in DOMAIN request.declared[n] : request.declared[n][c] < 0

\* The unit_id of a CollationInput, which a leaf's id becomes in mid-graph, is
\* bounded; that of a node is bounded like it from the start.
MisnamesLeaf(n) == Children(n) \cap DOMAIN request.leafTotals \cap Misnamed # {}

Invalid(n) == DeclaresNegative(n) \/ MisnamesLeaf(n)

Visiting(n) == outcome = "running" /\ next \in DOMAIN NodeOrder /\ n = NodeOrder[next]

Replay(n) ==
  /\ Visiting(n) /\ n \in Remaining /\ Ready(n) /\ ~Invalid(n)
  /\ reports' = [m \in Replayed \cup {n} |->
                   IF m = n THEN ReplayCollation(Edge(n)) ELSE reports[m]]
  /\ next' = next + 1
  /\ progressed' = TRUE
  /\ UNCHANGED <<request, outcome>>

Raise(n) ==
  /\ Visiting(n) /\ n \in Remaining /\ Ready(n) /\ Invalid(n)
  /\ outcome' = "raised"
  /\ UNCHANGED <<request, reports, next, progressed>>

Skip(n) ==
  /\ Visiting(n) /\ (n \in Replayed \/ ~Ready(n))
  /\ next' = next + 1
  /\ UNCHANGED <<request, reports, progressed, outcome>>

PassEnded == outcome = "running" /\ next = Len(NodeOrder) + 1

NextPass ==
  /\ PassEnded /\ Remaining # {} /\ progressed
  /\ next' = 1
  /\ progressed' = FALSE
  /\ UNCHANGED <<request, reports, outcome>>

\* "collation graph could not be resolved" when nodes are left.
Finish ==
  /\ PassEnded /\ (Remaining = {} \/ ~progressed)
  /\ outcome' = IF Remaining = {} THEN "reported" ELSE "unresolved"
  /\ UNCHANGED <<request, reports, next, progressed>>

Next ==
  \/ \E n \in Nodes : Replay(n) \/ Raise(n) \/ Skip(n)
  \/ NextPass
  \/ Finish

Spec == Init /\ [][Next]_vars /\ WF_vars(Next)

\* The status of the whole graph.
UnreferencedLeaves == DOMAIN request.leafTotals \ UNION {Children(n) : n \in Nodes}
Verdict ==
  IF UnreferencedLeaves # {} \/ \E n \in Nodes : reports[n].status = "failed" THEN "failed"
  ELSE IF \E n \in Nodes : reports[n].status = "incomplete" THEN "incomplete"
  ELSE "verified"
----------------------------------------------------------------------------
(* What a request says, without replaying it. *)

\* The ways down from a node.
Paths(n) ==
  {p \in SeqOf(Nodes, Cardinality(Nodes)) :
     /\ p # <<>> /\ p[1] = n
     /\ \A i \in 1..Len(p) - 1 : p[i + 1] \in Children(p[i])}

\* The votes of a node's own leaves; of the leaves below a node, once for every
\* way down to them.
OwnVotes(n, c) ==
  SumFunction([l \in {k \in Children(n) \cap DOMAIN request.leafTotals :
                        c \in DOMAIN request.leafTotals[k]} |-> request.leafTotals[l][c]])
LeafVotes(n, c) == SumFunction([p \in Paths(n) |-> OwnVotes(Last(p), c)])

Below(n) == {Last(p) : p \in Paths(n)}

LeavesSuffice(n) ==
  /\ request.expected # None
  /\ \A c \in Children(n) \ Nodes :
       c \in DOMAIN request.leafTotals /\ DOMAIN request.leafTotals[c] = request.expected

DeclaresLeafVotes(n) ==
  request.declared[n] # None =>
    request.declared[n] = [c \in request.expected |-> LeafVotes(n, c)]
----------------------------------------------------------------------------
(* Properties. *)

\* "A child collation node is promoted into its parent's arithmetic only when
\* that child replay is complete" (docs/MULTILEVEL_REPLAY.md:7): the totals of
\* a verified node are those of its leaves, all of them were there, and
\* everything below it is verified, although a parent only sees its children.
VerifiedTotalsAreSound ==
  \A n \in Replayed : reports[n].status = "verified" =>
    /\ \A m \in Below(n) : Promoted(m) /\ LeavesSuffice(m) /\ DeclaresLeafVotes(m)
    /\ reports[n].computed = [c \in request.expected |-> LeafVotes(n, c)]

\* A graph is verified exactly when every leaf that it names, and no other, has
\* the expected candidates, and every declaration adds up to the leaves.
VerdictIsExact ==
  outcome = "reported" =>
    (Verdict = "verified" <=>
       /\ UnreferencedLeaves = {}
       /\ \A n \in Nodes : LeavesSuffice(n) /\ DeclaresLeafVotes(n))

\* The passes end: a graph that was accepted is reported, whatever the order of
\* its names; only a negative declaration, or totals for a leaf with an id that
\* is empty or too long, both of them found on the way, stop it.
GraphsAreReplayed ==
  <>(outcome = IF \E n \in Nodes : Invalid(n) THEN "raised" ELSE "reported")
=============================================================================
