-------------------------- MODULE CollationProofs --------------------------
(***************************************************************************)
(* Theorems about the replay of collation graphs, for graphs of any size,  *)
(* any votes and any order of the names.                                   *)
(***************************************************************************)
EXTENDS CollationGraph, FiniteSums, SequenceTheorems, TLAPS

\* Where the replay is.
PlacesOK ==
  /\ request \in Requests
  /\ WellFormed(request)
  /\ Replayed \subseteq Nodes
  /\ next \in 1..Len(NodeOrder) + 1
  /\ progressed \in BOOLEAN

\* The verified nodes: below each are verified nodes and sufficient leaves, and
\* its declaration, if any, is the computed total of every expected candidate.
VerifiedOK(n) ==
  /\ request.expected # None
  /\ DOMAIN reports[n].computed = request.expected
  /\ \A c \in Children(n) \cap Nodes : Promoted(c)
  /\ \A c \in Children(n) \ Nodes :
       c \in DOMAIN request.leafTotals /\ DOMAIN request.leafTotals[c] = request.expected
  /\ request.declared[n] # None =>
       /\ DOMAIN request.declared[n] = request.expected
       /\ \A c \in request.expected : request.declared[n][c] = reports[n].computed[c]

\* A pass has left nothing behind that it could have replayed, until it makes
\* progress: then there is another one.
PassIsThorough ==
  progressed \/ \A i \in 1..next - 1 : NodeOrder[i] \in Replayed \/ ~Ready(NodeOrder[i])

\* "collation graph could not be resolved" is never reached, and what is
\* reported is the whole graph.
Resolved ==
  /\ outcome # "unresolved"
  /\ outcome = "reported" => Replayed = Nodes

VerifiedIsSupported ==
  \A n \in Replayed : reports[n].status = "verified" => VerifiedOK(n)

----------------------------------------------------------------------------
(* One edge. *)

\* What replay_collation's verdict says about its request, when each unit that
\* is given names the same candidates or not: nothing is missing anywhere.
LEMMA VerifiedEdge ==
  ASSUME NEW q, ReplayCollation(q).status = "verified", q.units # {}
  PROVE  /\ q.expected # None
         /\ q.units \subseteq Given(q)
         /\ \A u \in q.units : DOMAIN q.inputs[u] = q.expected
         /\ DOMAIN Computed(q) = q.expected
         /\ q.declared # None =>
              /\ DOMAIN q.declared = q.expected
              /\ \A c \in q.expected : q.declared[c] = Computed(q)[c]
<1>1. Suffices(q) /\ ~Contradicts(q)
  BY DEF ReplayCollation
<1>2. q.expected # None /\ q.units \subseteq Given(q)
  BY <1>1 DEF Suffices
<1>3. Included(q) = q.units
  BY <1>2 DEF Included
<1>4. ASSUME NEW u \in q.units PROVE DOMAIN q.inputs[u] = q.expected
  <2>1. q.expected \ DOMAIN q.inputs[u] \subseteq MissingCandidates(q)
    BY <1>2, <1>3 DEF MissingCandidates
  <2>2. DOMAIN q.inputs[u] \ q.expected \subseteq UnexpectedCandidates(q)
    BY <1>2, <1>3 DEF UnexpectedCandidates
  <2>3. MissingCandidates(q) = {} /\ UnexpectedCandidates(q) = {}
    BY <1>1 DEF Suffices, Contradicts
  <2> QED
    BY <2>1, <2>2, <2>3
<1>5. DOMAIN Computed(q) = q.expected
  BY <1>3, <1>4 DEF Computed
<1>6. ASSUME q.declared # None
      PROVE  /\ DOMAIN q.declared = q.expected
             /\ \A c \in q.expected : q.declared[c] = Computed(q)[c]
  <2>1. DOMAIN q.declared = q.expected
    BY <1>1, <1>2, <1>6 DEF Suffices, DeclarationSuffices, Contradicts, DeclarationContradicts
  <2>2. Comparable(q) = q.expected
    BY <1>1, <1>2, <1>5, <2>1 DEF Comparable, Suffices
  <2> QED
    BY <1>1, <1>6, <2>1, <2>2 DEF Contradicts, DeclarationContradicts
<1> QED
  BY <1>2, <1>4, <1>5, <1>6

----------------------------------------------------------------------------
(* Children below parents: of any nodes, one is ready before the others. *)

LEMMA SomeNodeIsLowest ==
  ASSUME NEW children, Acyclic(children),
         NEW T, T \subseteq Nodes, T # {}
  PROVE  \E n \in T : \A c \in children[n] \cap Nodes : c \notin T
<1>1. PICK rank \in [Nodes -> 1..Cardinality(Nodes)] :
        \A n \in Nodes : \A c \in children[n] \cap Nodes : rank[c] < rank[n]
  BY DEF Acyclic
<1> DEFINE Ranks == {rank[n] : n \in T}
<1>2. Ranks \subseteq Nat /\ Ranks # {}
  OBVIOUS
<1>3. PICK x \in Ranks : \A y \in Ranks : x <= y
  <2> HIDE DEF Ranks
  <2> QED
    BY <1>2, LeastNumber
<1>4. \A y \in Ranks : ~ (y < x)
  BY <1>2, <1>3
<1>5. PICK n \in T : rank[n] = x
  BY <1>3
<1> QED
  BY <1>1, <1>4, <1>5

----------------------------------------------------------------------------
(* The replay. *)

LEMMA FirstPlace == 1 \in 1..Len(NodeOrder) + 1
<1>1. Len(NodeOrder) \in Nat
  BY CollationConstants
<1> QED
  BY <1>1

ReplayInv == PlacesOK /\ VerifiedIsSupported /\ PassIsThorough /\ Resolved

LEMMA InitReplayInv == Init => ReplayInv
<1> SUFFICES ASSUME Init PROVE ReplayInv
  OBVIOUS
<1>1. Replayed = {}
  BY DEF Init, Replayed
<1>2. PlacesOK
  BY <1>1, FirstPlace DEF Init, PlacesOK
<1>3. PassIsThorough
  BY DEF Init, PassIsThorough
<1> QED
  BY <1>1, <1>2, <1>3 DEF Init, ReplayInv, VerifiedIsSupported, Resolved

LEMMA ReplayKeepsInv ==
  ASSUME ReplayInv, NEW n \in Nodes, Replay(n)
  PROVE  ReplayInv'
<1>1. request' = request /\ outcome' = outcome /\ next' = next + 1 /\ progressed' = TRUE
  BY DEF Replay
<1>2. /\ Replayed' = Replayed \cup {n}
      /\ n \notin Replayed
      /\ reports'[n] = ReplayCollation(Edge(n))
      /\ \A m \in Replayed : reports'[m] = reports[m]
  BY DEF Replay, Replayed, Remaining
<1>3. PlacesOK'
  BY <1>1, <1>2, CollationConstants DEF ReplayInv, PlacesOK, Replay, Visiting, WellFormed
<1>4. \A m : Promoted(m) => Promoted(m)'
  BY <1>2 DEF Promoted
<1>5. ASSUME NEW m \in Replayed', reports'[m].status = "verified"
      PROVE  VerifiedOK(m)'
  <2>1. CASE m # n
    <3>1. m \in Replayed /\ VerifiedOK(m) /\ reports'[m] = reports[m]
      BY <1>2, <1>5, <2>1 DEF ReplayInv, VerifiedIsSupported
    <3> QED
      BY <1>1, <1>4, <3>1 DEF VerifiedOK, Children
  <2>2. CASE m = n
    <3> DEFINE q == Edge(n)
    <3>1. /\ q.units = Children(n)
          /\ q.expected = request.expected
          /\ q.inputs = Inputs(n)
          /\ q.declared = request.declared[n]
      BY DEF Edge
    <3>2. ReplayCollation(q).status = "verified"
      BY <1>2, <1>5, <2>2
    <3>3. q.units # {}
      BY <3>1, CollationConstants DEF ReplayInv, PlacesOK, Children
    <3>4. reports'[n].computed = Computed(q)
      BY <1>2 DEF ReplayCollation
    <3> HIDE DEF q
    <3>5. /\ q.expected # None
          /\ q.units \subseteq Given(q)
          /\ \A u \in q.units : DOMAIN q.inputs[u] = q.expected
          /\ DOMAIN Computed(q) = q.expected
          /\ q.declared # None =>
               /\ DOMAIN q.declared = q.expected
               /\ \A c \in q.expected : q.declared[c] = Computed(q)[c]
      BY <3>2, <3>3, VerifiedEdge
    <3>6. Children(n) \subseteq {d \in Children(n) : d \in DOMAIN request.leafTotals \/ Promoted(d)}
      BY <3>1, <3>5 DEF Given, Inputs
    <3>7. \A c \in Children(n) \cap Nodes : Promoted(c)
      BY <3>6, CollationConstants DEF ReplayInv, PlacesOK
    <3>8. ASSUME NEW c \in Children(n) \ Nodes
          PROVE  c \in DOMAIN request.leafTotals /\ DOMAIN request.leafTotals[c] = request.expected
      <4>1. c \in DOMAIN request.leafTotals
        BY <3>6 DEF Promoted, ReplayInv, PlacesOK
      <4>2. Inputs(n)[c] = request.leafTotals[c]
        BY <4>1 DEF Inputs
      <4> QED
        BY <3>1, <3>5, <4>1, <4>2
    <3> QED
      BY <1>1, <1>4, <2>2, <3>1, <3>4, <3>5, <3>7, <3>8 DEF VerifiedOK, Children
  <2> QED
    BY <2>1, <2>2
<1>6. VerifiedIsSupported'
  BY <1>5 DEF VerifiedIsSupported
<1>7. PassIsThorough'
  BY <1>1 DEF PassIsThorough
<1>8. Resolved'
  BY <1>1 DEF Resolved, Replay, Visiting
<1> QED
  BY <1>3, <1>6, <1>7, <1>8 DEF ReplayInv

LEMMA RaiseKeepsInv ==
  ASSUME ReplayInv, NEW n \in Nodes, Raise(n)
  PROVE  ReplayInv'
<1>1. UNCHANGED <<request, reports, next, progressed>> /\ outcome' = "raised"
  BY DEF Raise
<1>2. UNCHANGED <<PlacesOK, VerifiedIsSupported, PassIsThorough>>
  BY <1>1 DEF PlacesOK, VerifiedIsSupported, VerifiedOK, PassIsThorough, WellFormed,
     Replayed, Ready, Children, Promoted
<1> QED
  BY <1>1, <1>2 DEF ReplayInv, Resolved

LEMMA SkipKeepsInv ==
  ASSUME ReplayInv, NEW n \in Nodes, Skip(n)
  PROVE  ReplayInv'
<1>1. UNCHANGED <<request, reports, progressed, outcome>> /\ next' = next + 1
  BY DEF Skip
<1>2. VerifiedIsSupported' /\ Resolved'
  BY <1>1 DEF ReplayInv, VerifiedIsSupported, VerifiedOK, Resolved, Replayed, Children, Promoted
<1>3. PlacesOK'
  BY <1>1, CollationConstants DEF ReplayInv, PlacesOK, WellFormed, Replayed, Skip, Visiting
<1>4. PassIsThorough'
  <2>1. NodeOrder[next] \in Replayed \/ ~Ready(NodeOrder[next])
    BY DEF Skip, Visiting
  <2>2. \A i \in 1..next' - 1 : i \in 1..next - 1 \/ i = next
    BY <1>1 DEF ReplayInv, PlacesOK
  <2> QED
    BY <1>1, <2>1, <2>2 DEF ReplayInv, PassIsThorough, Replayed, Ready, Children
<1> QED
  BY <1>2, <1>3, <1>4 DEF ReplayInv

LEMMA NextPassKeepsInv ==
  ASSUME ReplayInv, NextPass
  PROVE  ReplayInv'
<1>1. UNCHANGED <<request, reports, outcome>> /\ next' = 1 /\ progressed' = FALSE
  BY DEF NextPass
<1>2. VerifiedIsSupported' /\ Resolved'
  BY <1>1 DEF ReplayInv, VerifiedIsSupported, VerifiedOK, Resolved, Replayed, Children, Promoted
<1>3. PlacesOK'
  BY <1>1, FirstPlace DEF ReplayInv, PlacesOK, WellFormed, Replayed
<1>4. PassIsThorough'
  BY <1>1 DEF PassIsThorough
<1> QED
  BY <1>2, <1>3, <1>4 DEF ReplayInv

\* The step that could fail: a pass without progress ends only when nothing is
\* left, because the lowest of the nodes that are left would have been ready.
LEMMA FinishKeepsInv ==
  ASSUME ReplayInv, Finish
  PROVE  ReplayInv'
<1>1. UNCHANGED <<request, reports, next, progressed>>
  BY DEF Finish
<1>2. UNCHANGED <<PlacesOK, VerifiedIsSupported, PassIsThorough>>
  BY <1>1 DEF PlacesOK, VerifiedIsSupported, VerifiedOK, PassIsThorough, WellFormed,
     Replayed, Ready, Children, Promoted
<1>3. Remaining = {}
  <2>1. SUFFICES ASSUME Remaining # {} PROVE FALSE
    OBVIOUS
  <2>2. \A i \in DOMAIN NodeOrder : NodeOrder[i] \in Replayed \/ ~Ready(NodeOrder[i])
    BY <2>1, CollationConstants DEF Finish, PassEnded, ReplayInv, PassIsThorough
  <2>3. PICK n \in Remaining : \A c \in Children(n) \cap Nodes : c \notin Remaining
    BY <2>1, SomeNodeIsLowest DEF ReplayInv, PlacesOK, WellFormed, Remaining, Children
  <2>4. Ready(n) /\ n \notin Replayed /\ n \in Nodes
    BY <2>3 DEF Ready, Remaining
  <2> QED
    BY <2>2, <2>4, CollationConstants
<1>4. Resolved'
  BY <1>1, <1>3 DEF Finish, Resolved, Replayed, Remaining, ReplayInv, PlacesOK
<1> QED
  BY <1>2, <1>4 DEF ReplayInv

LEMMA StutterKeepsInv ==
  ASSUME ReplayInv, UNCHANGED vars
  PROVE  ReplayInv'
  BY DEF ReplayInv, vars, PlacesOK, VerifiedIsSupported, VerifiedOK, PassIsThorough, WellFormed,
     Replayed, Ready, Children, Promoted, Resolved

LEMMA NextKeepsInv == ReplayInv /\ [Next]_vars => ReplayInv'
  BY ReplayKeepsInv, RaiseKeepsInv, SkipKeepsInv, NextPassKeepsInv, FinishKeepsInv,
     StutterKeepsInv DEF Next

LEMMA SpecKeepsInv == Spec => []ReplayInv
  BY InitReplayInv, NextKeepsInv, PTL DEF Spec

\* replay_collation_graph gives the status "verified" to a node only on the
\* strength of what is below it: every node among its children is verified,
\* every leaf is given with exactly the expected candidates, and the totals
\* declared for it, if any, are the computed ones for every candidate.
THEOREM VerifiedSupported == Spec => []VerifiedIsSupported
  BY SpecKeepsInv, PTL DEF ReplayInv

\* replay_collation_graph never ends with "collation graph could not be
\* resolved" for a graph that graph_is_well_formed accepts, and what it
\* reports covers every node: no order of the names can strand one.
THEOREM GraphsResolve == Spec => []Resolved
  BY SpecKeepsInv, PTL DEF ReplayInv

----------------------------------------------------------------------------
(* The ways down from a node. *)

RequestOK == request \in Requests /\ WellFormed(request)

LEMMA NodesAreFinite == IsFiniteSet(Nodes) /\ Cardinality(Nodes) \in Nat
<1> DEFINE Named == {NodeOrder[i] : i \in DOMAIN NodeOrder}
           name == [i \in 1..Len(NodeOrder) |-> NodeOrder[i]]
<1>1. Len(NodeOrder) \in Nat /\ DOMAIN NodeOrder = 1..Len(NodeOrder)
  BY CollationConstants
<1>2. name \in Surjection(1..Len(NodeOrder), Named)
  BY <1>1 DEF Surjection
<1>3. IsFiniteSet(1..Len(NodeOrder))
  BY <1>1, FS_Interval
<1>4. IsFiniteSet(Named)
  <2> HIDE DEF name, Named
  <2> QED
    BY <1>2, <1>3, FS_Surjection
<1>5. Nodes \in SUBSET Named
  BY CollationConstants
<1> HIDE DEF Named
<1>6. IsFiniteSet(Nodes)
  BY <1>4, <1>5, FS_Subset
<1> QED
  BY <1>6, FS_CardinalityType

\* A path and its length.
IsPath(n, p, k) ==
  /\ k \in 1..Cardinality(Nodes)
  /\ p \in [1..k -> Nodes]
  /\ p[1] = n
  /\ \A i \in 1..k - 1 : p[i + 1] \in Children(p[i])

LEMMA LengthOf ==
  ASSUME NEW S, NEW k \in Nat, NEW p \in [1..k -> S]
  PROVE  p \in Seq(S) /\ Len(p) = k
<1>1. p \in Seq(S)
  BY IsASeq
<1>2. DOMAIN p = 1..k /\ DOMAIN p = 1..Len(p) /\ Len(p) \in Nat
  BY <1>1
<1> QED
  BY <1>1, <1>2

LEMMA PathsAre ==
  ASSUME NEW n, NEW p
  PROVE  /\ p \in Paths(n) => IsPath(n, p, Len(p)) /\ Last(p) = p[Len(p)]
         /\ \A k : IsPath(n, p, k) => p \in Paths(n) /\ Len(p) = k
<1>1. Cardinality(Nodes) \in Nat
  BY NodesAreFinite
<1>2. ASSUME p \in Paths(n) PROVE IsPath(n, p, Len(p)) /\ Last(p) = p[Len(p)]
  <2>1. PICK k \in 0..Cardinality(Nodes) : p \in [1..k -> Nodes]
    BY <1>2 DEF Paths, SeqOf
  <2>2. p \in Seq(Nodes) /\ Len(p) = k
    BY <1>1, <2>1, LengthOf
  <2>3. p # <<>> /\ p[1] = n /\ \A i \in 1..Len(p) - 1 : p[i + 1] \in Children(p[i])
    BY <1>2 DEF Paths
  <2>4. k # 0
    BY <2>2, <2>3
  <2> QED
    BY <1>1, <2>1, <2>2, <2>3, <2>4 DEF IsPath, Last
<1>3. ASSUME NEW k, IsPath(n, p, k) PROVE p \in Paths(n) /\ Len(p) = k
  <2>1. k \in Nat /\ k >= 1 /\ k \in 0..Cardinality(Nodes) /\ p \in [1..k -> Nodes]
    BY <1>1, <1>3 DEF IsPath
  <2>2. p \in Seq(Nodes) /\ Len(p) = k
    BY <2>1, LengthOf
  <2>3. p # <<>>
    BY <2>1, <2>2
  <2>4. p \in SeqOf(Nodes, Cardinality(Nodes))
    BY <2>1 DEF SeqOf
  <2> QED
    BY <1>3, <2>2, <2>3, <2>4 DEF Paths, IsPath
<1> QED
  BY <1>2, <1>3

\* A node ranks above all that follow it on a path: paths are as short as ranks
\* are low.
LEMMA PathsAreShort ==
  ASSUME NEW rank \in [Nodes -> 1..Cardinality(Nodes)],
         \A n \in Nodes : \A c \in Children(n) \cap Nodes : rank[c] < rank[n],
         NEW n \in Nodes, NEW p, NEW k, IsPath(n, p, k)
  PROVE  k <= rank[n]
<1> DEFINE Late == {i \in 1..k : ~ (rank[p[i]] + i <= rank[n] + 1)}
<1>0. Cardinality(Nodes) \in Nat
  BY NodesAreFinite
<1>1. /\ k \in Nat /\ k >= 1
      /\ \A i \in 1..k : p[i] \in Nodes /\ rank[p[i]] \in Nat /\ rank[p[i]] >= 1
      /\ p[1] = n
      /\ \A i \in 1..k - 1 : p[i + 1] \in Children(p[i])
  BY <1>0 DEF IsPath
<1>2. Late = {}
  <2>1. SUFFICES ASSUME Late # {} PROVE FALSE
    OBVIOUS
  <2>2. Late \subseteq Nat
    BY <1>1
  <2>3. PICK i \in Late : \A j \in Late : i <= j
    <3> HIDE DEF Late
    <3> QED
      BY <2>1, <2>2, LeastNumber
  <2>4. i # 1
    BY <1>1, <2>3
  <2>5. i - 1 \in 1..k - 1 /\ i - 1 \in 1..k /\ i \in 1..k /\ (i - 1) + 1 = i
    BY <1>1, <2>3, <2>4
  <2>6. (i - 1) \notin Late
    <3> HIDE DEF Late
    <3> QED
      BY <2>2, <2>3, <2>5
  <2>7. rank[p[i - 1]] + (i - 1) <= rank[n] + 1
    BY <2>5, <2>6
  <2>8. rank[p[i]] < rank[p[i - 1]]
    <3>1. p[i] \in Children(p[i - 1])
      BY <1>1, <2>5
    <3> QED
      BY <1>1, <2>5, <3>1
  <2>9. ~ (rank[p[i]] + i <= rank[n] + 1)
    BY <2>3
  <2>10. rank[p[i]] \in Nat /\ rank[p[i - 1]] \in Nat /\ rank[n] \in Nat /\ i \in Nat
    BY <1>0, <1>1, <2>5
  <2> QED
    BY <2>7, <2>8, <2>9, <2>10
<1>3. rank[p[k]] + k <= rank[n] + 1
  BY <1>1, <1>2
<1> QED
  BY <1>0, <1>1, <1>3

Down(n, q) == [i \in 1..Len(q) + 1 |-> IF i = 1 THEN n ELSE q[i - 1]]

LEMMA StandingStill ==
  ASSUME NEW n \in Nodes
  PROVE  <<n>> \in Paths(n) /\ Last(<<n>>) = n
<1>1. 1 \in 1..Cardinality(Nodes)
  <2>1. Nodes # {} /\ Cardinality(Nodes) # 0
    BY NodesAreFinite, FS_EmptySet
  <2> QED
    BY <2>1, NodesAreFinite
<1>2. IsPath(n, <<n>>, 1)
  BY <1>1 DEF IsPath
<1> QED
  BY <1>2, PathsAre

LEMMA PathsGoDown ==
  ASSUME RequestOK, NEW n \in Nodes, NEW m \in Children(n) \cap Nodes, NEW q \in Paths(m)
  PROVE  /\ Down(n, q) \in Paths(n)
         /\ Down(n, q) # <<n>>
         /\ Down(n, q)[2] = m
         /\ Last(Down(n, q)) = Last(q)
<1>1. PICK rank \in [Nodes -> 1..Cardinality(Nodes)] :
        \A x \in Nodes : \A c \in Children(x) \cap Nodes : rank[c] < rank[x]
  BY DEF RequestOK, WellFormed, Acyclic, Children
<1> DEFINE k == Len(q)
           p == Down(n, q)
<1>2. IsPath(m, q, k) /\ Last(q) = q[k]
  BY PathsAre
<1>0. Cardinality(Nodes) \in Nat
  BY NodesAreFinite
<1>3. k \in Nat /\ k >= 1 /\ q \in [1..k -> Nodes] /\ q[1] = m
      /\ \A i \in 1..k - 1 : q[i + 1] \in Children(q[i])
  BY <1>0, <1>2 DEF IsPath
<1>4. k + 1 \in 1..Cardinality(Nodes)
  <2>1. k <= rank[m]
    <3> HIDE DEF k
    <3> QED
      BY <1>1, <1>2, PathsAreShort
  <2>2. rank[m] < rank[n] /\ rank[n] <= Cardinality(Nodes) /\ rank[m] \in Nat /\ rank[n] \in Nat
    BY <1>0, <1>1
  <2> QED
    BY <1>0, <1>3, <2>1, <2>2
<1>5. p = [i \in 1..k + 1 |-> IF i = 1 THEN n ELSE q[i - 1]]
  BY DEF Down
<1> HIDE DEF k, p
<1>6. p \in [1..k + 1 -> Nodes] /\ p[1] = n /\ p[2] = m
  <2>1. ASSUME NEW i \in 1..k + 1 PROVE (IF i = 1 THEN n ELSE q[i - 1]) \in Nodes
    BY <1>3
  <2> QED
    BY <1>3, <1>5, <2>1
<1>7. ASSUME NEW i \in 1..k + 1 - 1 PROVE p[i + 1] \in Children(p[i])
  <2>1. CASE i = 1
    BY <1>5, <1>6, <2>1
  <2>2. CASE i # 1
    <3>1. /\ i \in 1..k + 1 /\ i + 1 \in 1..k + 1 /\ i - 1 \in 1..k - 1
          /\ (i - 1) + 1 = i /\ (i + 1) - 1 = i /\ i + 1 # 1
      BY <1>3, <2>2
    <3>2. p[i + 1] = q[i] /\ p[i] = q[i - 1]
      BY <1>5, <2>2, <3>1
    <3>3. q[(i - 1) + 1] \in Children(q[i - 1])
      BY <1>3, <3>1
    <3> QED
      BY <3>1, <3>2, <3>3
  <2> QED
    BY <2>1, <2>2
<1>8. IsPath(n, p, k + 1)
  BY <1>3, <1>4, <1>6, <1>7 DEF IsPath
<1>9. p \in Paths(n) /\ Len(p) = k + 1 /\ Last(p) = p[k + 1]
  BY <1>8, PathsAre
<1>10. p[k + 1] = q[k]
  BY <1>3, <1>5
<1>11. ASSUME p = <<n>> PROVE FALSE
  <2>1. Len(p) = 1
    BY <1>11
  <2>2. Len(p) = k + 1
    BY <1>9
  <2>3. k \in Nat /\ k >= 1
    BY <1>3
  <2> QED
    BY <2>1, <2>2, <2>3
<1> QED
  BY <1>2, <1>6, <1>9, <1>10, <1>11 DEF p

LEMMA PathsComeDown ==
  ASSUME NEW n \in Nodes, NEW p \in Paths(n), p # <<n>>
  PROVE  /\ p[2] \in Children(n) \cap Nodes
         /\ \E q \in Paths(p[2]) : p = Down(n, q)
<1> DEFINE k == Len(p)
           q == [i \in 1..k - 1 |-> p[i + 1]]
<1>0. Cardinality(Nodes) \in Nat
  BY NodesAreFinite
<1>1. IsPath(n, p, k)
  BY PathsAre
<1>2. k \in Nat /\ k >= 1 /\ k <= Cardinality(Nodes) /\ p \in [1..k -> Nodes] /\ p[1] = n
      /\ \A i \in 1..k - 1 : p[i + 1] \in Children(p[i])
  BY <1>0, <1>1 DEF IsPath
<1> HIDE DEF k
<1>3. k # 1
  <2>1. SUFFICES ASSUME k = 1 PROVE p = <<n>>
    OBVIOUS
  <2> QED
    BY <1>2, <2>1
<1>4. p[2] \in Children(n) \cap Nodes
  <2>1. 1 \in 1..k - 1 /\ 2 \in 1..k /\ 1 + 1 = 2
    BY <1>2, <1>3
  <2> QED
    BY <1>2, <2>1
<1>5. q \in [1..k - 1 -> Nodes] /\ k - 1 \in Nat /\ k - 1 >= 1
  BY <1>2, <1>3
<1>6. q[1] = p[2]
  BY <1>5
<1>7. ASSUME NEW i \in 1..k - 1 - 1 PROVE q[i + 1] \in Children(q[i])
  <2>1. i \in 1..k - 1 /\ i + 1 \in 1..k - 1
    BY <1>2
  <2>2. q[i] = p[i + 1] /\ q[i + 1] = p[i + 1 + 1]
    BY <2>1
  <2> QED
    BY <1>2, <2>1, <2>2
<1>8. IsPath(p[2], q, k - 1)
  BY <1>0, <1>2, <1>5, <1>6, <1>7 DEF IsPath
<1> HIDE DEF q
<1>9. q \in Paths(p[2]) /\ Len(q) = k - 1
  BY <1>8, PathsAre
<1>10. p = Down(n, q)
  <2>1. (k - 1) + 1 = k
    BY <1>2
  <2>2. ASSUME NEW i \in 1..k PROVE p[i] = IF i = 1 THEN n ELSE q[i - 1]
    BY <1>2 DEF q
  <2>3. p = [i \in 1..k |-> p[i]]
    BY <1>2
  <2> QED
    BY <1>9, <2>1, <2>2, <2>3 DEF Down
<1> QED
  BY <1>4, <1>9, <1>10

\* The ways down that start with the step from n to m.
Through(n, m) == {p \in Paths(n) \ {<<n>>} : p[2] = m}

LEMMA ThroughIsOneToOne ==
  ASSUME RequestOK, NEW n \in Nodes, NEW m \in Children(n) \cap Nodes,
         NEW b, b = [q \in Paths(m) |-> Down(n, q)]
  PROVE  /\ b \in [Paths(m) -> Through(n, m)]
         /\ \A q \in Paths(m) : \A r \in Paths(m) : b[q] = b[r] => q = r
         /\ \A p \in Through(n, m) : \E q \in Paths(m) : b[q] = p
<1>1. b \in [Paths(m) -> Through(n, m)]
  BY PathsGoDown DEF Through
<1>2. ASSUME NEW q \in Paths(m), NEW r \in Paths(m), b[q] = b[r] PROVE q = r
  <2> DEFINE j == Len(q)
             k == Len(r)
  <2>0. Cardinality(Nodes) \in Nat
    BY NodesAreFinite
  <2>1. IsPath(m, q, j) /\ IsPath(m, r, k)
    BY PathsAre
  <2>2. j \in Nat /\ k \in Nat /\ q \in [1..j -> Nodes] /\ r \in [1..k -> Nodes]
    BY <2>0, <2>1 DEF IsPath
  <2>3. [i \in 1..j + 1 |-> IF i = 1 THEN n ELSE q[i - 1]]
          = [i \in 1..k + 1 |-> IF i = 1 THEN n ELSE r[i - 1]]
    BY <1>2 DEF Down
  <2> HIDE DEF j, k
  <2> DEFINE u == [i \in 1..j + 1 |-> IF i = 1 THEN n ELSE q[i - 1]]
             v == [i \in 1..k + 1 |-> IF i = 1 THEN n ELSE r[i - 1]]
  <2>4. 1..j + 1 = 1..k + 1
    <3>1. DOMAIN u = 1..j + 1 /\ DOMAIN v = 1..k + 1
      OBVIOUS
    <3>2. u = v
      BY <2>3
    <3> HIDE DEF u, v
    <3> QED
      BY <3>1, <3>2
  <2>5. j = k
    <3>1. j + 1 \in 1..j + 1 /\ k + 1 \in 1..k + 1
      BY <2>2
    <3>2. j + 1 \in 1..k + 1 /\ k + 1 \in 1..j + 1
      BY <2>4, <3>1
    <3> QED
      BY <2>2, <3>2
  <2>6. ASSUME NEW i \in 1..j PROVE q[i] = r[i]
    <3>1. i + 1 \in 1..j + 1 /\ i + 1 # 1 /\ (i + 1) - 1 = i
      BY <2>2
    <3>2. u[i + 1] = q[i]
      BY <3>1
    <3>3. v[i + 1] = r[i]
      BY <2>5, <3>1
    <3> QED
      BY <2>3, <3>2, <3>3
  <2> QED
    BY <2>2, <2>5, <2>6
<1>3. ASSUME NEW p \in Through(n, m) PROVE \E q \in Paths(m) : b[q] = p
  BY PathsComeDown DEF Through
<1> QED
  BY <1>1, <1>2, <1>3

LEMMA ChildrenAre ==
  ASSUME RequestOK, NEW n \in Nodes
  PROVE  /\ Children(n) \subseteq Nodes \cup Leaves
         /\ Children(n) # {}
         /\ IsFiniteSet(Children(n))
         /\ IsFiniteSet(Children(n) \cap Nodes)
<1>1. Children(n) \in SUBSET (Nodes \cup Leaves) /\ Children(n) # {}
  BY CollationConstants DEF RequestOK, Children
<1>2. IsFiniteSet(Nodes \cup Leaves)
  BY NodesAreFinite, CollationConstants, FS_Union
<1>3. IsFiniteSet(Children(n))
  BY <1>1, <1>2, FS_Subset
<1> QED
  BY <1>1, <1>3, FS_Intersection

LEMMA PathsAreFinite ==
  ASSUME RequestOK
  PROVE  \A n \in Nodes : IsFiniteSet(Paths(n))
<1> DEFINE Endless == {n \in Nodes : ~ IsFiniteSet(Paths(n))}
<1>1. SUFFICES ASSUME Endless # {} PROVE FALSE
  OBVIOUS
<1>2. Acyclic(request.children) /\ Endless \subseteq Nodes
  BY DEF RequestOK, WellFormed
<1>3. PICK n \in Endless : \A c \in request.children[n] \cap Nodes : c \notin Endless
  <2> HIDE DEF Endless
  <2> QED
    BY <1>1, <1>2, SomeNodeIsLowest
<1> DEFINE C == Children(n) \cap Nodes
           All == {Through(n, m) : m \in C}
<1>4. \A m \in C : IsFiniteSet(Paths(m))
  BY <1>3 DEF Children
<1>5. ASSUME NEW m \in C PROVE IsFiniteSet(Through(n, m))
  <2> DEFINE b == [q \in Paths(m) |-> Down(n, q)]
  <2>1. /\ b \in [Paths(m) -> Through(n, m)]
        /\ \A p \in Through(n, m) : \E q \in Paths(m) : b[q] = p
    <3>1. n \in Nodes /\ m \in Children(n) \cap Nodes
      OBVIOUS
    <3>2. b = [q \in Paths(m) |-> Down(n, q)]
      OBVIOUS
    <3> HIDE DEF b
    <3> QED
      BY <3>1, <3>2, ThroughIsOneToOne
  <2> HIDE DEF b
  <2>2. b \in Surjection(Paths(m), Through(n, m))
    BY <2>1 DEF Surjection
  <2> QED
    BY <1>4, <2>2, FS_Surjection
<1>6. IsFiniteSet(All)
  <2> DEFINE a == [m \in C |-> Through(n, m)]
  <2>1. a \in Surjection(C, All)
    BY DEF Surjection
  <2>2. IsFiniteSet(C)
    BY ChildrenAre
  <2> HIDE DEF a, C, All
  <2> QED
    BY <2>1, <2>2, FS_Surjection
<1>7. IsFiniteSet(UNION All)
  <2>1. \A T \in All : IsFiniteSet(T)
    BY <1>5
  <2> HIDE DEF All
  <2> QED
    BY <1>6, <2>1, FS_UNION
<1>8. Paths(n) \subseteq (UNION All) \cup {<<n>>}
  BY PathsComeDown DEF Through
<1>9. IsFiniteSet((UNION All) \cup {<<n>>})
  <2> HIDE DEF All
  <2> QED
    BY <1>7, FS_AddElement
<1>10. IsFiniteSet(Paths(n))
  <2> HIDE DEF All
  <2> QED
    BY <1>8, <1>9, FS_Subset
<1> QED
  BY <1>10

LEMMA OwnVotesAreIntegers ==
  ASSUME RequestOK, NEW n \in Nodes, NEW c,
         NEW f, f = [l \in {k \in Children(n) \cap DOMAIN request.leafTotals :
                              c \in DOMAIN request.leafTotals[k]} |-> request.leafTotals[l][c]]
  PROVE  Counts(f) /\ SumFunction(f) = OwnVotes(n, c) /\ OwnVotes(n, c) \in Int
<1>1. DOMAIN f \in SUBSET Children(n)
  OBVIOUS
<1>2. IsFiniteSet(DOMAIN f)
  BY <1>1, ChildrenAre, FS_Subset
<1>3. \A l \in DOMAIN request.leafTotals :
        request.leafTotals[l] \in [DOMAIN request.leafTotals[l] -> Int]
  BY CollationConstants DEF RequestOK, IsTotals
<1>4. \A l \in DOMAIN f : f[l] \in Int
  BY <1>3
<1>5. Counts(f)
  BY <1>2, <1>4 DEF Counts
<1>6. SumFunction(f) = OwnVotes(n, c)
  BY DEF OwnVotes
<1> QED
  BY <1>5, <1>6, SumIsInteger

LEMMA LastOfPathIsNode ==
  ASSUME NEW n, NEW p \in Paths(n)
  PROVE  Last(p) \in Nodes
<1>1. IsPath(n, p, Len(p)) /\ Last(p) = p[Len(p)]
  BY PathsAre
<1> QED
  BY <1>1, NodesAreFinite DEF IsPath

\* The votes below a node are those of its own leaves and those below its
\* children, although LeafVotes counts them path by path.
LEMMA LeafVotesStepDown ==
  ASSUME RequestOK, NEW n \in Nodes, NEW c,
         NEW g, g = [m \in Children(n) \cap Nodes |-> LeafVotes(m, c)]
  PROVE  /\ Counts(g)
         /\ LeafVotes(n, c) = OwnVotes(n, c) + SumFunction(g)
<1> DEFINE f == [p \in Paths(n) |-> OwnVotes(Last(p), c)]
           s == {<<n>>}
           t == Paths(n) \ {<<n>>}
           C == Children(n) \cap Nodes
<1>1. Counts(f) /\ DOMAIN f = Paths(n)
  <2>1. IsFiniteSet(Paths(n))
    BY PathsAreFinite
  <2>2. \A m \in Nodes : OwnVotes(m, c) \in Int
    BY OwnVotesAreIntegers
  <2> QED
    BY <2>1, <2>2, LastOfPathIsNode DEF Counts
<1>2. LeafVotes(n, c) = SumFunction(f)
  BY DEF LeafVotes
<1>3. s \cup t = Paths(n) /\ s \cap t = {} /\ <<n>> \in Paths(n) /\ Last(<<n>>) = n
  BY StandingStill
<1>4. f[<<n>>] = OwnVotes(n, c)
  BY <1>3
<1>5. \A p \in Paths(n) : f[p] = OwnVotes(Last(p), c)
  OBVIOUS
<1> HIDE DEF f
<1>6. SumFunction(f) = SumFunction(Part(f, s)) + SumFunction(Part(f, t))
  <2> HIDE DEF s, t
  <2> QED
    BY <1>1, <1>3, SumOfTwoParts
<1>7. SumFunction(Part(f, s)) = OwnVotes(n, c)
  <2> DEFINE h == Part(f, s)
  <2>1. s \in SUBSET DOMAIN f /\ h[<<n>>] = f[<<n>>]
    BY <1>1, <1>3 DEF Part
  <2>2. Counts(h) /\ DOMAIN h = {<<n>>}
    <3> HIDE DEF s
    <3>1. Counts(h) /\ DOMAIN h = s
      BY <1>1, <2>1, PartCounts
    <3> QED
      BY <3>1 DEF s
  <2> HIDE DEF h
  <2>3. SumFunction(h) = h[<<n>>]
    BY <2>2, SumOfOne
  <2> QED
    BY <1>4, <2>1, <2>3 DEF h
<1> DEFINE h == Part(f, t)
           kind == [p \in t |-> p[2]]
<1>8. Counts(h) /\ DOMAIN h = t
  <2>1. t \in SUBSET DOMAIN f
    BY <1>1
  <2> HIDE DEF t
  <2> QED
    BY <1>1, <2>1, PartCounts
<1>9. kind \in [t -> C] /\ IsFiniteSet(C)
  BY PathsComeDown, ChildrenAre
<1>10. ASSUME NEW m \in C
       PROVE  SumFunction(Part(h, {p \in DOMAIN h : kind[p] = m})) = LeafVotes(m, c)
  <2> DEFINE T == {p \in DOMAIN h : kind[p] = m}
             k == Part(h, T)
             b == [q \in Paths(m) |-> Down(n, q)]
             a == [q \in Paths(m) |-> k[b[q]]]
  <2>1. T = Through(n, m)
    BY <1>8 DEF Through
  <2>2. T \in SUBSET DOMAIN h
    OBVIOUS
  <2>3. Counts(k) /\ DOMAIN k = T
    <3> HIDE DEF h, T
    <3> QED
      BY <1>8, <2>2, PartCounts
  <2>4. /\ b \in [Paths(m) -> DOMAIN k]
        /\ \A q \in Paths(m) : \A r \in Paths(m) : b[q] = b[r] => q = r
        /\ \A p \in DOMAIN k : \E q \in Paths(m) : b[q] = p
    <3>1. b = [q \in Paths(m) |-> Down(n, q)]
      OBVIOUS
    <3> HIDE DEF b, k, T, h
    <3>2. /\ b \in [Paths(m) -> Through(n, m)]
          /\ \A q \in Paths(m) : \A r \in Paths(m) : b[q] = b[r] => q = r
          /\ \A p \in Through(n, m) : \E q \in Paths(m) : b[q] = p
      BY <3>1, ThroughIsOneToOne
    <3> QED
      BY <2>1, <2>3, <3>2
  <2>5. a = [q \in Paths(m) |-> k[b[q]]]
    OBVIOUS
  <2>6. SumFunction(a) = SumFunction(k)
    <3>1. Counts(k)
      BY <2>3
    <3> HIDE DEF a, b, k, T, h
    <3> QED
      BY <2>4, <2>5, <3>1, SumByOtherNames
  <2>7. ASSUME NEW q \in Paths(m) PROVE k[b[q]] = OwnVotes(Last(q), c)
    <3>1. b[q] = Down(n, q) /\ Last(Down(n, q)) = Last(q) /\ Down(n, q) \in Paths(n)
      BY PathsGoDown
    <3>2. b[q] \in T
      BY <2>3, <2>4
    <3>3. b[q] \in t
      BY <1>8, <3>2
    <3>4. k[b[q]] = h[b[q]]
      BY <3>2 DEF Part
    <3>5. h[b[q]] = f[b[q]]
      BY <3>3 DEF Part
    <3> QED
      BY <1>5, <3>1, <3>4, <3>5
  <2>8. a = [q \in Paths(m) |-> OwnVotes(Last(q), c)]
    BY <2>7
  <2>9. SumFunction(a) = LeafVotes(m, c)
    <3> HIDE DEF a
    <3> QED
      BY <2>8 DEF LeafVotes
  <2> QED
    BY <2>6, <2>9
<1>11. g = [m \in C |-> SumFunction(Part(h, {p \in DOMAIN h : kind[p] = m}))]
  BY <1>10
<1>12. Counts(g) /\ SumFunction(g) = SumFunction(h)
  <2>1. kind \in [DOMAIN h -> C]
    BY <1>8, <1>9
  <2> HIDE DEF h, kind, C
  <2> QED
    BY <1>8, <1>9, <1>11, <2>1, SumByKind
<1> QED
  BY <1>2, <1>6, <1>7, <1>12

LEMMA BelowStepsDown ==
  ASSUME RequestOK, NEW n \in Nodes
  PROVE  Below(n) = {n} \cup UNION {Below(m) : m \in Children(n) \cap Nodes}
<1>1. ASSUME NEW x \in Below(n)
      PROVE  x = n \/ \E m \in Children(n) \cap Nodes : x \in Below(m)
  <2>1. PICK p \in Paths(n) : x = Last(p)
    BY DEF Below
  <2>2. CASE p = <<n>>
    BY <2>1, <2>2, StandingStill
  <2>3. CASE p # <<n>>
    <3>1. PICK q \in Paths(p[2]) : p = Down(n, q)
      BY <2>3, PathsComeDown
    <3>2. p[2] \in Children(n) \cap Nodes
      BY <2>3, PathsComeDown
    <3>3. Last(Down(n, q)) = Last(q)
      BY <3>2, PathsGoDown
    <3> QED
      BY <2>1, <3>1, <3>2, <3>3 DEF Below
  <2> QED
    BY <2>2, <2>3
<1>2. n \in Below(n)
  BY StandingStill DEF Below
<1>3. ASSUME NEW m \in Children(n) \cap Nodes, NEW x \in Below(m) PROVE x \in Below(n)
  <2>1. PICK q \in Paths(m) : x = Last(q)
    BY DEF Below
  <2> QED
    BY <2>1, PathsGoDown DEF Below
<1> QED
  BY <1>1, <1>2, <1>3

----------------------------------------------------------------------------
(* The totals that a node is replayed with. *)

\* A promoted child comes with the votes of the leaves below it.
ChildIsSound(m) ==
  Promoted(m) /\ reports[m].computed = [c \in request.expected |-> LeafVotes(m, c)]

LEMMA InputsAre ==
  ASSUME RequestOK, NEW n \in Nodes, LeavesSuffice(n),
         \A m \in Children(n) \cap Nodes : ChildIsSound(m)
  PROVE  /\ DOMAIN Inputs(n) = Children(n)
         /\ \A m \in Children(n) \cap Nodes :
              Inputs(n)[m] = [c \in request.expected |-> LeafVotes(m, c)]
         /\ \A l \in Children(n) \ Nodes :
              /\ l \in DOMAIN request.leafTotals
              /\ Inputs(n)[l] = request.leafTotals[l]
              /\ DOMAIN request.leafTotals[l] = request.expected
         /\ Children(n) \cap DOMAIN request.leafTotals = Children(n) \ Nodes
<1>1. DOMAIN request.leafTotals \cap Nodes = {}
  BY CollationConstants DEF RequestOK
<1>2. \A l \in Children(n) \ Nodes :
        l \in DOMAIN request.leafTotals /\ DOMAIN request.leafTotals[l] = request.expected
  BY DEF LeavesSuffice
<1>3. {d \in Children(n) : d \in DOMAIN request.leafTotals \/ Promoted(d)} = Children(n)
  BY <1>2 DEF ChildIsSound
<1>4. \A m \in Children(n) \cap Nodes : Inputs(n)[m] = reports[m].computed
  BY <1>1, <1>3 DEF Inputs
<1>5. \A l \in Children(n) \ Nodes : Inputs(n)[l] = request.leafTotals[l]
  BY <1>2 DEF Inputs
<1> QED
  BY <1>1, <1>2, <1>3, <1>4, <1>5 DEF Inputs, ChildIsSound

LEMMA LeafVotesAreIntegers ==
  ASSUME RequestOK, NEW n \in Nodes, NEW c
  PROVE  LeafVotes(n, c) \in Int
<1> DEFINE g == [m \in Children(n) \cap Nodes |-> LeafVotes(m, c)]
<1>1. Counts(g) /\ LeafVotes(n, c) = OwnVotes(n, c) + SumFunction(g)
  <2>1. g = [m \in Children(n) \cap Nodes |-> LeafVotes(m, c)]
    OBVIOUS
  <2> HIDE DEF g
  <2> QED
    BY <2>1, LeafVotesStepDown
<1> HIDE DEF g
<1>2. SumFunction(g) \in Int
  BY <1>1, SumIsInteger
<1>3. OwnVotes(n, c) \in Int
  <2> DEFINE f == [l \in {k \in Children(n) \cap DOMAIN request.leafTotals :
                            c \in DOMAIN request.leafTotals[k]} |-> request.leafTotals[l][c]]
  <2>1. f = [l \in {k \in Children(n) \cap DOMAIN request.leafTotals :
                            c \in DOMAIN request.leafTotals[k]} |-> request.leafTotals[l][c]]
    OBVIOUS
  <2> HIDE DEF f
  <2> QED
    BY <2>1, OwnVotesAreIntegers
<1> QED
  BY <1>1, <1>2, <1>3

LEMMA EdgeAddsUp ==
  ASSUME RequestOK, NEW n \in Nodes, LeavesSuffice(n),
         \A m \in Children(n) \cap Nodes : ChildIsSound(m)
  PROVE  /\ Given(Edge(n)) = Children(n)
         /\ \A u \in Children(n) : DOMAIN Edge(n).inputs[u] = request.expected
         /\ Computed(Edge(n)) = [c \in request.expected |-> LeafVotes(n, c)]
<1> DEFINE U == Children(n)
           in == Inputs(n)
           C == U \cap Nodes
<1>1. /\ Edge(n).units = U
      /\ Edge(n).inputs = in
      /\ Edge(n).expected = request.expected
  BY DEF Edge
<1>2. /\ DOMAIN in = U
      /\ \A m \in C : in[m] = [c \in request.expected |-> LeafVotes(m, c)]
      /\ \A l \in U \ Nodes :
           /\ l \in DOMAIN request.leafTotals
           /\ in[l] = request.leafTotals[l]
           /\ DOMAIN request.leafTotals[l] = request.expected
      /\ U \cap DOMAIN request.leafTotals = U \ Nodes
  BY InputsAre
<1>3. Given(Edge(n)) = U /\ Included(Edge(n)) = U
  BY <1>1, <1>2 DEF Given, Included
<1>4. \A u \in U : DOMAIN in[u] = request.expected
  BY <1>2
<1>5. U # {}
  BY ChildrenAre
<1>6. UNION {DOMAIN in[u] : u \in U} = request.expected
  BY <1>4, <1>5
<1>7. ASSUME NEW c \in request.expected
      PROVE  SumFunction([u \in {v \in U : c \in DOMAIN in[v]} |-> in[u][c]]) = LeafVotes(n, c)
  <2> DEFINE f == [u \in U |-> in[u][c]]
             s == U \ Nodes
             own == [l \in {k \in U \cap DOMAIN request.leafTotals :
                              c \in DOMAIN request.leafTotals[k]} |-> request.leafTotals[l][c]]
             g == [m \in C |-> LeafVotes(m, c)]
  <2>1. {v \in U : c \in DOMAIN in[v]} = U
    BY <1>4
  <2>2. own = [l \in s |-> f[l]]
    <3>1. {k \in U \cap DOMAIN request.leafTotals : c \in DOMAIN request.leafTotals[k]} = s
      BY <1>2
    <3>2. \A l \in s : request.leafTotals[l][c] = f[l]
      BY <1>2
    <3> QED
      BY <3>1, <3>2
  <2>3. g = [m \in C |-> f[m]]
    BY <1>2
  <2>4. Counts(own) /\ SumFunction(own) = OwnVotes(n, c) /\ DOMAIN own = s
    <3>1. own = [l \in {k \in Children(n) \cap DOMAIN request.leafTotals :
                          c \in DOMAIN request.leafTotals[k]} |-> request.leafTotals[l][c]]
      OBVIOUS
    <3>2. DOMAIN own = s
      BY <2>2
    <3> HIDE DEF own
    <3> QED
      BY <3>1, <3>2, OwnVotesAreIntegers
  <2>5. Counts(g) /\ LeafVotes(n, c) = OwnVotes(n, c) + SumFunction(g)
    <3>1. g = [m \in Children(n) \cap Nodes |-> LeafVotes(m, c)]
      OBVIOUS
    <3> HIDE DEF g
    <3> QED
      BY <3>1, LeafVotesStepDown
  <2>6. Counts(f) /\ DOMAIN f = U
    <3>1. IsFiniteSet(U)
      BY ChildrenAre
    <3>2. \A l \in s : own[l] = f[l] /\ own[l] \in Int
      BY <2>2, <2>4 DEF Counts
    <3>3. \A m \in C : g[m] = f[m] /\ g[m] \in Int
      BY <2>3, <2>5 DEF Counts
    <3>4. \A u \in U : f[u] \in Int
      BY <3>2, <3>3
    <3> QED
      BY <3>1, <3>4 DEF Counts
  <2>7. Part(f, s) = own /\ Part(f, C) = g
    BY <2>2, <2>3 DEF Part
  <2>8. s \cup C = U /\ s \cap C = {}
    OBVIOUS
  <2>9. [u \in {v \in U : c \in DOMAIN in[v]} |-> in[u][c]] = f
    BY <2>1
  <2> HIDE DEF f, s, C, own, g
  <2>10. SumFunction(f) = SumFunction(Part(f, s)) + SumFunction(Part(f, C))
    BY <2>6, <2>8, SumOfTwoParts
  <2> QED
    BY <2>4, <2>5, <2>7, <2>9, <2>10
<1>8. Computed(Edge(n)) =
        [c \in UNION {DOMAIN in[u] : u \in U} |->
           SumFunction([u \in {v \in U : c \in DOMAIN in[v]} |-> in[u][c]])]
  BY <1>1, <1>3 DEF Computed
<1>9. Computed(Edge(n)) =
        [c \in request.expected |->
           SumFunction([u \in {v \in U : c \in DOMAIN in[v]} |-> in[u][c]])]
  BY <1>6, <1>8
<1>10. Computed(Edge(n)) = [c \in request.expected |-> LeafVotes(n, c)]
  <2> HIDE DEF in, U
  <2> QED
    BY <1>7, <1>9
<1> QED
  BY <1>1, <1>3, <1>4, <1>10

\* An edge with everything that it needs, and nothing that contradicts it.
LEMMA EdgeIsVerified ==
  ASSUME RequestOK, NEW n \in Nodes, LeavesSuffice(n), DeclaresLeafVotes(n),
         \A m \in Children(n) \cap Nodes : ChildIsSound(m)
  PROVE  ReplayCollation(Edge(n)).status = "verified"
<1> DEFINE q == Edge(n)
<1>1. /\ q.units = Children(n)
      /\ q.expected = request.expected
      /\ q.declared = request.declared[n]
  BY DEF Edge
<1>2. /\ Given(q) = Children(n)
      /\ \A u \in Children(n) : DOMAIN q.inputs[u] = request.expected
      /\ Computed(q) = [c \in request.expected |-> LeafVotes(n, c)]
  BY EdgeAddsUp
<1>3. request.expected # None
  BY DEF LeavesSuffice
<1> HIDE DEF q
<1>4. Included(q) = Children(n)
  BY <1>1, <1>2 DEF Included
<1>5. MissingCandidates(q) = {} /\ UnexpectedCandidates(q) = {}
  BY <1>1, <1>2, <1>4 DEF MissingCandidates, UnexpectedCandidates
<1>6. q.declared # None => q.declared = Computed(q) /\ DOMAIN q.declared = q.expected
  BY <1>1, <1>2 DEF DeclaresLeafVotes
<1>7. ~ DeclarationContradicts(q) /\ DeclarationSuffices(q)
  BY <1>6 DEF DeclarationContradicts, DeclarationSuffices
<1>8. ~ Contradicts(q) /\ Suffices(q)
  BY <1>1, <1>2, <1>3, <1>5, <1>7 DEF Contradicts, Suffices
<1> QED
  BY <1>8 DEF ReplayCollation, q

----------------------------------------------------------------------------
(* The totals of the replayed nodes. *)

\* A verified node, with what is below it.
Sound(n) ==
  /\ \A m \in Below(n) : Promoted(m) /\ LeavesSuffice(m) /\ DeclaresLeafVotes(m)
  /\ reports[n].computed = [c \in request.expected |-> LeafVotes(n, c)]

LEMMA SoundIsSound ==
  VerifiedTotalsAreSound <=> \A n \in Replayed : reports[n].status = "verified" => Sound(n)
  BY DEF VerifiedTotalsAreSound, Sound

\* A graph that has what it needs for a verdict of "verified".
GraphSuffices == \A n \in Nodes : LeavesSuffice(n) /\ DeclaresLeafVotes(n)

\* Nothing that suffices is left unverified.
NothingWithheld == GraphSuffices => \A n \in Replayed : reports[n].status = "verified"

StatusesOK == \A n \in Replayed : reports[n].status \in {"failed", "incomplete", "verified"}

TotalsInv == VerifiedTotalsAreSound /\ NothingWithheld /\ StatusesOK

LEMMA RequestSaysTheSame ==
  ASSUME request' = request
  PROVE  /\ \A n : Below(n)' = Below(n)
         /\ \A n : LeavesSuffice(n)' <=> LeavesSuffice(n)
         /\ \A n : DeclaresLeafVotes(n)' <=> DeclaresLeafVotes(n)
         /\ \A n, c : LeafVotes(n, c)' = LeafVotes(n, c)
         /\ GraphSuffices' <=> GraphSuffices
  BY DEF Below, LeavesSuffice, DeclaresLeafVotes, LeafVotes, OwnVotes, Paths, Children,
     GraphSuffices

LEMMA SameTotals ==
  ASSUME TotalsInv, request' = request, reports' = reports
  PROVE  TotalsInv'
<1>1. Replayed' = Replayed /\ \A m : Promoted(m)' <=> Promoted(m)
  BY DEF Replayed, Promoted
<1> QED
  BY <1>1, RequestSaysTheSame
     DEF TotalsInv, VerifiedTotalsAreSound, NothingWithheld, StatusesOK

LEMMA ReplayKeepsTotals ==
  ASSUME ReplayInv, ReplayInv', TotalsInv, NEW n \in Nodes, Replay(n)
  PROVE  TotalsInv'
<1>1. /\ request' = request
      /\ Replayed' = Replayed \cup {n}
      /\ n \notin Replayed
      /\ reports'[n] = ReplayCollation(Edge(n))
      /\ \A m \in Replayed : reports'[m] = reports[m]
      /\ Ready(n)
  BY DEF Replay, Replayed, Remaining
<1>2. RequestOK
  BY DEF ReplayInv, PlacesOK, RequestOK
<1>3. \A m : Promoted(m) => Promoted(m)'
  BY <1>1 DEF Promoted
<1>4. \A m \in Replayed : reports[m].status = "verified" => Sound(m)
  BY SoundIsSound DEF TotalsInv
<1>5. \A m \in Children(n) \cap Nodes :
        m \in Replayed /\ (reports[m].status = "verified" => ChildIsSound(m))
  BY <1>1, <1>4 DEF Ready, Sound, ChildIsSound, Promoted
<1>6. ASSUME NEW m \in Replayed', reports'[m].status = "verified"
      PROVE  /\ \A x \in Below(m) : Promoted(x)' /\ LeavesSuffice(x) /\ DeclaresLeafVotes(x)
             /\ reports'[m].computed = [c \in request.expected |-> LeafVotes(m, c)]
  <2>1. CASE m # n
    BY <1>1, <1>3, <1>4, <1>6, <2>1 DEF Sound
  <2>2. CASE m = n
    <3>1. VerifiedOK(n)'
      BY <1>6, <2>2 DEF ReplayInv, VerifiedIsSupported
    <3>2. \A c \in Children(n) \cap Nodes : reports[c].status = "verified"
      BY <1>1, <1>5, <3>1 DEF VerifiedOK, Promoted, Children
    <3>3. \A c \in Children(n) \cap Nodes : ChildIsSound(c) /\ Sound(c)
      BY <1>4, <1>5, <3>2
    <3>4. LeavesSuffice(n)
      BY <1>1, <3>1 DEF VerifiedOK, LeavesSuffice, Children
    <3>5. reports'[n].computed = [c \in request.expected |-> LeafVotes(n, c)]
      <4>1. reports'[n].computed = Computed(Edge(n))
        BY <1>1 DEF ReplayCollation
      <4> QED
        BY <1>2, <3>3, <3>4, <4>1, EdgeAddsUp
    <3>6. DeclaresLeafVotes(n)
      <4>1. SUFFICES ASSUME request.declared[n] # None
                     PROVE  request.declared[n] = [c \in request.expected |-> LeafVotes(n, c)]
        BY DEF DeclaresLeafVotes
      <4>2. request.declared[n] = [c \in DOMAIN request.declared[n] |-> request.declared[n][c]]
        BY <1>2, <4>1, CollationConstants DEF RequestOK, IsTotals
      <4>3. /\ DOMAIN request.declared[n] = request.expected
            /\ \A c \in request.expected : request.declared[n][c] = reports'[n].computed[c]
        BY <1>1, <3>1, <4>1 DEF VerifiedOK
      <4>4. \A c \in request.expected : request.declared[n][c] = LeafVotes(n, c)
        BY <3>5, <4>3
      <4> QED
        BY <4>2, <4>3, <4>4
    <3>7. Promoted(n)'
      BY <1>1, <1>6, <2>2 DEF Promoted
    <3>8. \A x \in Below(n) : x = n \/ \E c \in Children(n) \cap Nodes : x \in Below(c)
      BY <1>2, BelowStepsDown
    <3>9. \A x \in Below(n) : Promoted(x)' /\ LeavesSuffice(x) /\ DeclaresLeafVotes(x)
      BY <1>3, <3>3, <3>4, <3>6, <3>7, <3>8 DEF Sound
    <3> QED
      BY <2>2, <3>5, <3>9
  <2> QED
    BY <2>1, <2>2
<1>7. VerifiedTotalsAreSound'
  BY <1>1, <1>6, RequestSaysTheSame DEF VerifiedTotalsAreSound
<1>8. NothingWithheld'
  <2>1. SUFFICES ASSUME GraphSuffices PROVE reports'[n].status = "verified"
    BY <1>1, RequestSaysTheSame DEF NothingWithheld, TotalsInv
  <2>2. \A m \in Children(n) \cap Nodes : ChildIsSound(m)
    BY <1>5, <2>1 DEF TotalsInv, NothingWithheld
  <2> QED
    BY <1>1, <1>2, <2>1, <2>2, EdgeIsVerified DEF GraphSuffices
<1>9. StatusesOK'
  <2>1. reports'[n].status \in {"failed", "incomplete", "verified"}
    BY <1>1 DEF ReplayCollation
  <2> QED
    BY <1>1, <2>1 DEF TotalsInv, StatusesOK
<1> QED
  BY <1>7, <1>8, <1>9 DEF TotalsInv

LEMMA InitTotals == Init => TotalsInv
<1> SUFFICES ASSUME Init PROVE TotalsInv
  OBVIOUS
<1>1. Replayed = {}
  BY DEF Init, Replayed
<1> QED
  BY <1>1 DEF TotalsInv, VerifiedTotalsAreSound, NothingWithheld, StatusesOK

LEMMA NextKeepsTotals == ReplayInv /\ TotalsInv /\ [Next]_vars => TotalsInv'
<1> SUFFICES ASSUME ReplayInv, TotalsInv, [Next]_vars PROVE TotalsInv'
  OBVIOUS
<1>1. ReplayInv'
  BY NextKeepsInv
<1>2. ASSUME NEW n \in Nodes, Replay(n) PROVE TotalsInv'
  BY <1>1, <1>2, ReplayKeepsTotals
<1>3. ASSUME UNCHANGED <<request, reports>> PROVE TotalsInv'
  BY <1>3, SameTotals
<1> QED
  BY <1>2, <1>3 DEF Next, vars, Raise, Skip, NextPass, Finish

LEMMA SpecKeepsTotals == Spec => []TotalsInv
  BY SpecKeepsInv, InitTotals, NextKeepsTotals, PTL DEF Spec

LEMMA VerdictFollows == ReplayInv /\ TotalsInv => VerdictIsExact
<1> SUFFICES ASSUME ReplayInv, TotalsInv, outcome = "reported"
             PROVE  Verdict = "verified" <=> UnreferencedLeaves = {} /\ GraphSuffices
  BY DEF VerdictIsExact, GraphSuffices
<1>1. Replayed = Nodes
  BY DEF ReplayInv, Resolved
<1>2. Verdict = "verified" <=>
        UnreferencedLeaves = {} /\ \A n \in Nodes : reports[n].status = "verified"
  BY <1>1 DEF Verdict, TotalsInv, StatusesOK
<1>3. ASSUME \A n \in Nodes : reports[n].status = "verified" PROVE GraphSuffices
  <2>1. \A n \in Nodes : n \in Below(n)
    BY StandingStill DEF Below
  <2> QED
    BY <1>1, <1>3, <2>1 DEF TotalsInv, VerifiedTotalsAreSound, GraphSuffices
<1>4. ASSUME GraphSuffices PROVE \A n \in Nodes : reports[n].status = "verified"
  BY <1>1, <1>4 DEF TotalsInv, NothingWithheld
<1> QED
  BY <1>2, <1>3, <1>4

\* "A child collation node is promoted into its parent's arithmetic only when
\* that child replay is complete" (docs/MULTILEVEL_REPLAY.md:7): what
\* replay_collation_graph computes for a verified node are the votes of the
\* leaves below it, over all levels and every way down, and everything below it
\* is verified, complete and declared as it adds up.
THEOREM TotalsAreSound == Spec => []VerifiedTotalsAreSound
  BY SpecKeepsTotals, PTL DEF TotalsInv

\* The verdict of replay_collation_graph on a whole graph: "verified" exactly
\* when every leaf that the graph names, and no other, has the expected
\* candidates, and every declaration adds up to the leaves.
THEOREM ExactVerdict == Spec => []VerdictIsExact
<1>1. ReplayInv /\ TotalsInv => VerdictIsExact
  BY VerdictFollows
<1> QED
  BY <1>1, SpecKeepsInv, SpecKeepsTotals, PTL

=============================================================================
