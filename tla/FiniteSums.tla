----------------------------- MODULE FiniteSums -----------------------------
(***************************************************************************)
(* Sums over finite sets: what SumFunction of the module Functions, a fold *)
(* that is defined by choosing one element after the other, is for any     *)
(* integers that a finite number of things count for.  Induction is over   *)
(* sets: a counterexample of least size, or the largest subset that has    *)
(* the property.                                                           *)
(***************************************************************************)
EXTENDS Integers, Functions, FiniteSetTheorems, WellFoundedInduction, TLAPS

\* Of any natural numbers, one is the least.
LEMMA LeastNumber ==
  ASSUME NEW T, T \subseteq Nat, T # {}
  PROVE  \E x \in T : \A y \in T : x <= y
<1>1. PICK x \in T : \A y \in T : ~ (<<y, x>> \in OpToRel(<, Nat))
  BY NatLessThanWellFounded, WFMin
<1>2. ASSUME NEW y \in T PROVE x <= y
  <2>1. <<y, x>> \in Nat \X Nat /\ ~ (<<y, x>> \in OpToRel(<, Nat))
    BY <1>1
  <2>2. ~ (y < x)
    BY <2>1 DEF OpToRel
  <2> QED
    BY <2>2
<1> QED
  BY <1>2

\* Induction over a finite set, for a property given as the set Q.
LEMMA FiniteSetInduction ==
  ASSUME NEW S, IsFiniteSet(S), NEW Q,
         {} \in Q,
         \A T \in SUBSET S : \A x \in S \ T : T \in Q => T \cup {x} \in Q
  PROVE  S \in Q
<1> DEFINE Left == {Cardinality(S \ T) : T \in Q \cap SUBSET S}
<1>1. \A T \in SUBSET S : IsFiniteSet(S \ T) /\ Cardinality(S \ T) \in Nat
  BY FS_Subset, FS_CardinalityType
<1>2. Left \subseteq Nat /\ Left # {}
  BY <1>1
<1> HIDE DEF Left
<1>3. PICK k \in Left : \A y \in Left : k <= y
  BY <1>2, LeastNumber
<1>4. PICK T \in Q \cap SUBSET S : k = Cardinality(S \ T)
  BY <1>3 DEF Left
<1>5. CASE T = S
  BY <1>4, <1>5
<1>6. CASE T # S
  <2>1. PICK x \in S \ T : TRUE
    BY <1>4, <1>6
  <2>2. T \cup {x} \in Q \cap SUBSET S
    BY <1>4, <2>1
  <2>3. S \ (T \cup {x}) = (S \ T) \ {x}
    OBVIOUS
  <2>4. Cardinality(S \ (T \cup {x})) = k - 1
    <3>1. IsFiniteSet(S \ T) /\ x \in S \ T
      BY <1>1, <1>4, <2>1
    <3>2. Cardinality((S \ T) \ {x}) = Cardinality(S \ T) - 1
      BY <3>1, FS_RemoveElement
    <3> QED
      BY <1>4, <2>3, <3>2
  <2>5. Cardinality(S \ (T \cup {x})) \in Left
    BY <2>2 DEF Left
  <2> QED
    BY <1>2, <1>3, <2>4, <2>5
<1> QED
  BY <1>5, <1>6

----------------------------------------------------------------------------
Pick(s) == CHOOSE x \in s : TRUE

\* What SumFunction is defined by: a sum that runs over the subsets.
Runs(h, f) ==
  h = [s \in SUBSET DOMAIN f |-> IF s = {} THEN 0 ELSE f[Pick(s)] + h[s \ {Pick(s)}]]

LEMMA SumIsChosen ==
  ASSUME NEW f
  PROVE  SumFunction(f) = (CHOOSE h : Runs(h, f))[DOMAIN f]
  BY DEF SumFunction, SumFunctionOnSet, FoldFunctionOnSet, MapThenFoldSet, Pick, Runs

\* Sums for sets that grow one element at a time, in any order.
Adds(h, f) ==
  /\ h \in [SUBSET DOMAIN f -> Int]
  /\ h[{}] = 0
  /\ \A s \in SUBSET DOMAIN f : \A x \in DOMAIN f \ s : h[s \cup {x}] = f[x] + h[s]

\* The integers that a finite number of things count for.
Counts(f) == IsFiniteSet(DOMAIN f) /\ f \in [DOMAIN f -> Int]

LEMMA SubsetsAreFinite ==
  ASSUME NEW S, IsFiniteSet(S)
  PROVE  \A s \in SUBSET S : IsFiniteSet(s) /\ Cardinality(s) \in Nat /\ (s = {} <=> Cardinality(s) = 0)
  BY FS_Subset, FS_CardinalityType, FS_EmptySet

LEMMA PickRemoves ==
  ASSUME NEW s, IsFiniteSet(s), s # {}
  PROVE  /\ Pick(s) \in s
         /\ Cardinality(s \ {Pick(s)}) = Cardinality(s) - 1
<1>1. Pick(s) \in s
  BY DEF Pick
<1> QED
  BY <1>1, FS_RemoveElement

LEMMA SomeSumRuns ==
  ASSUME NEW f, Counts(f)
  PROVE  \E h : Runs(h, f)
<1> DEFINE S == DOMAIN f
           UpTo(n) == {s \in SUBSET S : Cardinality(s) <= n}
           RunsTo(h, n) == \A s \in UpTo(n) :
                             h[s] = IF s = {} THEN 0 ELSE f[Pick(s)] + h[s \ {Pick(s)}]
           Bad == {n \in Nat : ~ \E h \in [UpTo(n) -> Int] : RunsTo(h, n)}
<1>f. IsFiniteSet(S) /\ f \in [S -> Int]
  BY DEF Counts
<1> HIDE DEF S
<1>s. \A s \in SUBSET S : IsFiniteSet(s) /\ Cardinality(s) \in Nat /\ (s = {} <=> Cardinality(s) = 0)
  BY <1>f, SubsetsAreFinite
<1>1. 0 \notin Bad
  <2> DEFINE h == [s \in UpTo(0) |-> 0]
  <2>1. \A s \in UpTo(0) : s = {}
    BY <1>s
  <2>2. h \in [UpTo(0) -> Int] /\ RunsTo(h, 0)
    BY <2>1
  <2> QED
    BY <2>2
<1>2. ASSUME NEW n \in Nat, n \notin Bad PROVE n + 1 \notin Bad
  <2>1. PICK h \in [UpTo(n) -> Int] : RunsTo(h, n)
    BY <1>2
  <2> DEFINE k == [s \in UpTo(n + 1) |->
                     IF s = {} THEN 0 ELSE f[Pick(s)] + h[s \ {Pick(s)}]]
  <2>2. ASSUME NEW s \in UpTo(n + 1), s # {}
        PROVE  /\ Pick(s) \in S
               /\ s \ {Pick(s)} \in UpTo(n)
               /\ f[Pick(s)] \in Int
               /\ h[s \ {Pick(s)}] \in Int
    <3>1. Pick(s) \in s /\ Cardinality(s \ {Pick(s)}) = Cardinality(s) - 1
      BY <1>s, <2>2, PickRemoves
    <3>2. Cardinality(s) \in Nat /\ Cardinality(s) <= n + 1 /\ s \subseteq S
      BY <1>s
    <3>3. s \ {Pick(s)} \in UpTo(n)
      BY <3>1, <3>2
    <3> QED
      BY <1>f, <3>1, <3>2, <3>3
  <2>3. k \in [UpTo(n + 1) -> Int]
    BY <2>2
  <2>4. UpTo(n) \subseteq UpTo(n + 1)
    BY <1>s
  <2>5. \A s \in UpTo(n) : k[s] = h[s]
    BY <2>1, <2>4
  <2>6. RunsTo(k, n + 1)
    <3>1. SUFFICES ASSUME NEW s \in UpTo(n + 1)
                   PROVE  k[s] = IF s = {} THEN 0 ELSE f[Pick(s)] + k[s \ {Pick(s)}]
      OBVIOUS
    <3>2. CASE s = {}
      BY <3>2
    <3>3. CASE s # {}
      <4>1. s \ {Pick(s)} \in UpTo(n)
        BY <2>2, <3>3
      <4>2. k[s \ {Pick(s)}] = h[s \ {Pick(s)}]
        BY <2>5, <4>1
      <4>3. k[s] = f[Pick(s)] + h[s \ {Pick(s)}]
        BY <3>3
      <4> QED
        BY <3>3, <4>2, <4>3
    <3> QED
      BY <3>2, <3>3
  <2> QED
    BY <2>3, <2>6
<1>3. Bad = {}
  <2>1. SUFFICES ASSUME Bad # {} PROVE FALSE
    OBVIOUS
  <2>2. Bad \subseteq Nat
    OBVIOUS
  <2> HIDE DEF Bad
  <2>3. PICK n \in Bad : \A m \in Bad : n <= m
    BY <2>1, <2>2, LeastNumber
  <2>4. n # 0 /\ n \in Nat
    BY <1>1, <2>2, <2>3
  <2>5. n - 1 \in Nat /\ (n - 1) \notin Bad
    BY <2>2, <2>3, <2>4
  <2>6. (n - 1) + 1 \notin Bad
    BY <1>2, <2>5
  <2>7. (n - 1) + 1 = n
    BY <2>4
  <2> QED
    BY <2>3, <2>6, <2>7
<1>4. Cardinality(S) \in Nat
  BY <1>f, FS_CardinalityType
<1>5. PICK h \in [UpTo(Cardinality(S)) -> Int] : RunsTo(h, Cardinality(S))
  BY <1>3, <1>4
<1>6. UpTo(Cardinality(S)) = SUBSET S
  BY <1>f, FS_Subset
<1>7. h = [s \in SUBSET S |-> IF s = {} THEN 0 ELSE f[Pick(s)] + h[s \ {Pick(s)}]]
  BY <1>5, <1>6
<1> QED
  BY <1>7 DEF S, Runs

LEMMA RunningAdds ==
  ASSUME NEW f, Counts(f), NEW h, Runs(h, f)
  PROVE  Adds(h, f)
<1> DEFINE S == DOMAIN f
<1>f. IsFiniteSet(S) /\ f \in [S -> Int]
  BY DEF Counts
<1>h. /\ h = [s \in SUBSET S |-> h[s]]
      /\ \A s \in SUBSET S : h[s] = IF s = {} THEN 0 ELSE f[Pick(s)] + h[s \ {Pick(s)}]
  BY DEF Runs
<1> HIDE DEF S
<1>s. \A s \in SUBSET S : IsFiniteSet(s) /\ Cardinality(s) \in Nat
  BY <1>f, SubsetsAreFinite
<1>p. ASSUME NEW s \in SUBSET S, s # {}
      PROVE  Pick(s) \in s /\ Cardinality(s \ {Pick(s)}) = Cardinality(s) - 1
  BY <1>s, <1>p, PickRemoves
<1>2. h[{}] = 0
  BY <1>h
<1>r. ASSUME NEW s \in SUBSET S, s # {}
      PROVE  h[s] = f[Pick(s)] + h[s \ {Pick(s)}]
  BY <1>h, <1>r
<1>1. \A s \in SUBSET S : h[s] \in Int
  <2> DEFINE Bad == {Cardinality(s) : s \in {r \in SUBSET S : h[r] \notin Int}}
  <2>1. SUFFICES ASSUME Bad # {} PROVE FALSE
    OBVIOUS
  <2>2. Bad \subseteq Nat
    BY <1>s
  <2>3. PICK n \in Bad : \A m \in Bad : n <= m
    <3> HIDE DEF Bad
    <3> QED BY <2>1, <2>2, LeastNumber
  <2>4. PICK s \in SUBSET S : h[s] \notin Int /\ n = Cardinality(s)
    BY <2>3
  <2>5. s # {}
    BY <1>2, <2>4
  <2>6. Pick(s) \in s /\ Cardinality(s \ {Pick(s)}) = n - 1 /\ n \in Nat
    BY <1>p, <2>2, <2>4, <2>5
  <2>7. Cardinality(s \ {Pick(s)}) \notin Bad
    <3> HIDE DEF Bad
    <3> QED BY <2>2, <2>3, <2>6
  <2>8. h[s \ {Pick(s)}] \in Int
    BY <2>7
  <2>9. h[s] = f[Pick(s)] + h[s \ {Pick(s)}]
    BY <1>r, <2>5
  <2>10. f[Pick(s)] \in Int
    BY <1>f, <2>6
  <2>11. f[Pick(s)] + h[s \ {Pick(s)}] \in Int
    BY <2>8, <2>10
  <2> QED
    BY <2>4, <2>9, <2>11
<1>3. ASSUME NEW s0 \in SUBSET S, NEW x0 \in S \ s0
      PROVE  h[s0 \cup {x0}] = f[x0] + h[s0]
  <2> DEFINE Wrong(r) == \E x \in S \ r : h[r \cup {x}] # f[x] + h[r]
             Bad == {Cardinality(s) : s \in {r \in SUBSET S : Wrong(r)}}
  <2>1. SUFFICES ASSUME Bad # {} PROVE FALSE
    OBVIOUS
  <2>2. Bad \subseteq Nat
    BY <1>s
  <2>3. PICK n \in Bad : \A m \in Bad : n <= m
    <3> HIDE DEF Bad
    <3> QED BY <2>1, <2>2, LeastNumber
  <2>4. PICK s \in SUBSET S : Wrong(s) /\ n = Cardinality(s)
    BY <2>3
  <2>5. PICK x \in S \ s : h[s \cup {x}] # f[x] + h[s]
    BY <2>4
  <2> DEFINE t == s \cup {x}
             y == Pick(t)
  <2>6. t \in SUBSET S /\ t # {}
    OBVIOUS
  <2>7. y \in t
    BY <1>p, <2>6
  <2>8. h[t] = f[y] + h[t \ {y}]
    BY <1>h, <2>6
  <2>9. CASE y = x
    <3>1. t \ {x} = s
      BY <2>5
    <3> QED
      BY <2>5, <2>8, <2>9, <3>1
  <2>10. CASE y # x
    <3>1. y \in s
      BY <2>7, <2>10
    <3> DEFINE r == s \ {y}
    <3>2. t \ {y} = r \cup {x} /\ s = r \cup {y} /\ x \in S \ r /\ y \in S \ r /\ r \in SUBSET S
      BY <2>10, <3>1
    <3>3. Cardinality(r) = n - 1 /\ n \in Nat
      <4>1. IsFiniteSet(s)
        BY <1>s
      <4> QED
        BY <2>2, <2>4, <3>1, <4>1, FS_RemoveElement
    <3>4. Cardinality(r) \notin Bad
      <4> HIDE DEF Bad, r
      <4> QED
        BY <2>3, <3>3
    <3>5. ~ Wrong(r)
      BY <3>2, <3>4
    <3>6. h[r \cup {x}] = f[x] + h[r] /\ h[r \cup {y}] = f[y] + h[r]
      BY <3>2, <3>5
    <3>7. f[x] \in Int /\ f[y] \in Int /\ h[r] \in Int
      BY <1>1, <1>f, <3>2
    <3>8. h[s] = f[y] + h[r] /\ h[t \ {y}] = f[x] + h[r]
      BY <3>2, <3>6
    <3>9. h[t] # f[x] + h[s]
      BY <2>5
    <3> HIDE DEF y, r, t
    <3> QED
      BY <2>8, <3>7, <3>8, <3>9
  <2> QED
    BY <2>9, <2>10
<1> QED
  BY <1>1, <1>2, <1>3, <1>h DEF S, Adds

LEMMA SumAdds ==
  ASSUME NEW f, Counts(f)
  PROVE  \E h : Adds(h, f) /\ SumFunction(f) = h[DOMAIN f]
<1>1. Runs(CHOOSE h : Runs(h, f), f)
  BY SomeSumRuns
<1> QED
  BY <1>1, RunningAdds, SumIsChosen

\* The part of f on s.
Part(f, s) == [x \in s |-> f[x]]

LEMMA AddsAgree ==
  ASSUME NEW f, Counts(f), NEW s \in SUBSET DOMAIN f,
         NEW h, Adds(h, f), NEW k, Adds(k, Part(f, s))
  PROVE  h[s] = k[s]
<1> DEFINE Q == {r \in SUBSET s : h[r] = k[r]}
<1>1. DOMAIN Part(f, s) = s /\ \A x \in s : Part(f, s)[x] = f[x]
  BY DEF Part
<1>2. IsFiniteSet(s)
  BY FS_Subset DEF Counts
<1>3. {} \in Q
  BY DEF Adds
<1>4. ASSUME NEW r \in SUBSET s, NEW x \in s \ r, r \in Q
      PROVE  r \cup {x} \in Q
  <2>1. h[r \cup {x}] = f[x] + h[r]
    BY DEF Adds
  <2>2. k[r \cup {x}] = f[x] + k[r]
    BY <1>1 DEF Adds
  <2> QED
    BY <1>4, <2>1, <2>2
<1>5. s \in Q
  <2> HIDE DEF Q
  <2> QED
    BY <1>2, <1>3, <1>4, FiniteSetInduction
<1> QED
  BY <1>5

\* The sums of the parts add up element by element.
LEMMA SumsOfParts ==
  ASSUME NEW f, Counts(f)
  PROVE  /\ SumFunction(f) \in Int
         /\ SumFunction(Part(f, DOMAIN f)) = SumFunction(f)
         /\ SumFunction(Part(f, {})) = 0
         /\ \A s \in SUBSET DOMAIN f :
              /\ SumFunction(Part(f, s)) \in Int
              /\ \A x \in DOMAIN f \ s :
                   SumFunction(Part(f, s \cup {x})) = f[x] + SumFunction(Part(f, s))
<1>1. PICK h : Adds(h, f) /\ SumFunction(f) = h[DOMAIN f]
  BY SumAdds
<1>2. ASSUME NEW s \in SUBSET DOMAIN f
      PROVE  SumFunction(Part(f, s)) = h[s]
  <2>1. DOMAIN Part(f, s) = s
    BY DEF Part
  <2>2. Counts(Part(f, s))
    BY <2>1, FS_Subset DEF Counts, Part
  <2>3. PICK k : Adds(k, Part(f, s)) /\ SumFunction(Part(f, s)) = k[s]
    BY <2>1, <2>2, SumAdds
  <2> QED
    BY <1>1, <2>3, AddsAgree
<1> QED
  BY <1>1, <1>2 DEF Adds

----------------------------------------------------------------------------
(* What a reader needs of sums. *)

LEMMA SumIsInteger ==
  ASSUME NEW f, Counts(f)
  PROVE  SumFunction(f) \in Int
  BY SumsOfParts

LEMMA PartCounts ==
  ASSUME NEW f, Counts(f), NEW s \in SUBSET DOMAIN f
  PROVE  Counts(Part(f, s)) /\ DOMAIN Part(f, s) = s
  BY FS_Subset DEF Counts, Part

\* A sum is the sum of two parts that share nothing.
LEMMA SumOfTwoParts ==
  ASSUME NEW f, Counts(f), NEW s, NEW t, s \cup t = DOMAIN f, s \cap t = {}
  PROVE  SumFunction(f) = SumFunction(Part(f, s)) + SumFunction(Part(f, t))
<1> DEFINE Both(r) == SumFunction(Part(f, s)) + SumFunction(Part(f, r))
           Q == {r \in SUBSET t : SumFunction(Part(f, s \cup r)) = Both(r)}
<1>1. IsFiniteSet(t)
  BY FS_Subset DEF Counts
<1>2. /\ SumFunction(Part(f, {})) = 0
      /\ SumFunction(Part(f, DOMAIN f)) = SumFunction(f)
      /\ \A r \in SUBSET DOMAIN f :
           /\ SumFunction(Part(f, r)) \in Int
           /\ \A x \in DOMAIN f \ r :
                SumFunction(Part(f, r \cup {x})) = f[x] + SumFunction(Part(f, r))
  BY SumsOfParts
<1>3. {} \in Q
  <2>1. s \cup {} = s /\ s \in SUBSET DOMAIN f
    OBVIOUS
  <2> QED
    BY <1>2, <2>1
<1>4. ASSUME NEW r \in SUBSET t, NEW x \in t \ r, r \in Q
      PROVE  r \cup {x} \in Q
  <2>1. /\ s \cup (r \cup {x}) = (s \cup r) \cup {x}
        /\ s \cup r \in SUBSET DOMAIN f
        /\ x \in DOMAIN f \ (s \cup r)
        /\ r \in SUBSET DOMAIN f
        /\ x \in DOMAIN f \ r
        /\ s \in SUBSET DOMAIN f
    OBVIOUS
  <2>2. SumFunction(Part(f, s \cup (r \cup {x}))) = f[x] + SumFunction(Part(f, s \cup r))
    BY <1>2, <2>1
  <2>3. SumFunction(Part(f, r \cup {x})) = f[x] + SumFunction(Part(f, r))
    BY <1>2, <2>1
  <2>4. SumFunction(Part(f, s \cup r)) = SumFunction(Part(f, s)) + SumFunction(Part(f, r))
    BY <1>4
  <2>5. f[x] \in Int /\ SumFunction(Part(f, s)) \in Int /\ SumFunction(Part(f, r)) \in Int
    BY <1>2, <2>1 DEF Counts
  <2> QED
    BY <2>2, <2>3, <2>4, <2>5
<1>5. t \in Q
  <2> HIDE DEF Q
  <2> QED
    BY <1>1, <1>3, <1>4, FiniteSetInduction
<1> QED
  BY <1>2, <1>5

LEMMA SumOfOne ==
  ASSUME NEW f, Counts(f), NEW x, DOMAIN f = {x}
  PROVE  SumFunction(f) = f[x]
<1>1. /\ SumFunction(Part(f, {})) = 0
      /\ SumFunction(Part(f, DOMAIN f)) = SumFunction(f)
      /\ \A y \in DOMAIN f \ {} :
           SumFunction(Part(f, {} \cup {y})) = f[y] + SumFunction(Part(f, {}))
  <2>1. {} \in SUBSET DOMAIN f
    OBVIOUS
  <2> QED
    BY <2>1, SumsOfParts
<1>2. {} \cup {x} = DOMAIN f /\ x \in DOMAIN f \ {}
  OBVIOUS
<1>3. SumFunction(f) = f[x] + 0
  BY <1>1, <1>2
<1>4. f[x] \in Int
  BY <1>2 DEF Counts
<1> QED
  BY <1>3, <1>4

\* One thing counts for one more.
LEMMA SumPlusOne ==
  ASSUME NEW f, Counts(f), NEW x \in DOMAIN f,
         NEW g, g = [y \in DOMAIN f |-> g[y]], g[x] = f[x] + 1,
         \A y \in DOMAIN f \ {x} : g[y] = f[y]
  PROVE  Counts(g) /\ SumFunction(g) = SumFunction(f) + 1
<1> DEFINE S == DOMAIN f \ {x}
<1>1. DOMAIN g = DOMAIN f
  OBVIOUS
<1>2. \A y \in DOMAIN f : f[y] \in Int /\ g[y] \in Int
  BY DEF Counts
<1>3. Counts(g)
  <2>1. g \in [DOMAIN g -> Int]
    BY <1>1, <1>2
  <2> QED
    BY <1>1, <2>1 DEF Counts
<1>4. S \in SUBSET DOMAIN f /\ x \in DOMAIN f \ S /\ S \cup {x} = DOMAIN f
  OBVIOUS
<1>5. /\ SumFunction(f) = f[x] + SumFunction(Part(f, S))
      /\ SumFunction(Part(f, S)) \in Int
  <2> HIDE DEF S
  <2> QED
    BY <1>4, SumsOfParts
<1>6. SumFunction(g) = g[x] + SumFunction(Part(g, S))
  <2> HIDE DEF S
  <2> QED
    BY <1>1, <1>3, <1>4, SumsOfParts
<1>7. Part(g, S) = Part(f, S)
  BY DEF Part
<1> QED
  BY <1>2, <1>3, <1>5, <1>6, <1>7

LEMMA SumOfZeros ==
  ASSUME NEW f, IsFiniteSet(DOMAIN f), \A x \in DOMAIN f : f[x] = 0,
         f = [x \in DOMAIN f |-> f[x]]
  PROVE  Counts(f) /\ SumFunction(f) = 0
<1> DEFINE Q == {s \in SUBSET DOMAIN f : SumFunction(Part(f, s)) = 0}
<1>1. Counts(f)
  BY DEF Counts
<1>2. {} \in Q
  BY <1>1, SumsOfParts
<1>3. ASSUME NEW s \in SUBSET DOMAIN f, NEW x \in DOMAIN f \ s, s \in Q
      PROVE  s \cup {x} \in Q
  <2>1. SumFunction(Part(f, s \cup {x})) = f[x] + SumFunction(Part(f, s))
    BY <1>1, SumsOfParts
  <2> QED
    BY <1>3, <2>1
<1>4. DOMAIN f \in Q
  <2> HIDE DEF Q
  <2> QED
    BY <1>2, <1>3, FiniteSetInduction
<1>5. SumFunction(Part(f, DOMAIN f)) = SumFunction(f)
  BY <1>1, SumsOfParts
<1> QED
  BY <1>1, <1>4, <1>5

\* Counting the same things by other names.
LEMMA SumByOtherNames ==
  ASSUME NEW f, Counts(f), NEW S, NEW b \in [S -> DOMAIN f],
         \A x \in S : \A y \in S : b[x] = b[y] => x = y,
         \A z \in DOMAIN f : \E x \in S : b[x] = z,
         NEW g, g = [x \in S |-> f[b[x]]]
  PROVE  Counts(g) /\ SumFunction(g) = SumFunction(f)
<1>1. IsFiniteSet(S)
  <2>1. b \in Injection(S, DOMAIN f)
    BY DEF Injection, IsInjective
  <2> QED
    BY <2>1, FS_Injection DEF Counts
<1>2. Counts(g) /\ DOMAIN g = S
  BY <1>1 DEF Counts
<1> DEFINE Image(r) == {b[x] : x \in r}
           Q == {r \in SUBSET S : SumFunction(Part(g, r)) = SumFunction(Part(f, Image(r)))}
<1>3. {} \in Q
  <2>1. Image({}) = {}
    OBVIOUS
  <2>2. SumFunction(Part(g, {})) = 0 /\ SumFunction(Part(f, {})) = 0
    BY <1>2, SumsOfParts
  <2> QED
    BY <2>1, <2>2
<1>4. ASSUME NEW r \in SUBSET S, NEW x \in S \ r, r \in Q
      PROVE  r \cup {x} \in Q
  <2>1. /\ Image(r \cup {x}) = Image(r) \cup {b[x]}
        /\ Image(r) \in SUBSET DOMAIN f
        /\ b[x] \in DOMAIN f \ Image(r)
        /\ g[x] = f[b[x]]
    OBVIOUS
  <2> HIDE DEF Image
  <2>2. SumFunction(Part(g, r \cup {x})) = g[x] + SumFunction(Part(g, r))
    BY <1>2, SumsOfParts
  <2>3. SumFunction(Part(f, Image(r) \cup {b[x]})) = f[b[x]] + SumFunction(Part(f, Image(r)))
    BY <2>1, SumsOfParts
  <2>4. SumFunction(Part(g, r)) = SumFunction(Part(f, Image(r)))
    BY <1>4
  <2> QED
    BY <2>1, <2>2, <2>3, <2>4
<1>5. S \in Q
  <2> HIDE DEF Q
  <2> QED
    BY <1>1, <1>3, <1>4, FiniteSetInduction
<1>6. Image(S) = DOMAIN f
  OBVIOUS
<1>7. SumFunction(Part(g, S)) = SumFunction(Part(f, DOMAIN f))
  <2> HIDE DEF Image
  <2> QED
    BY <1>5, <1>6
<1> QED
  BY <1>2, <1>7, SumsOfParts

\* Counting by kind.
LEMMA SumByKind ==
  ASSUME NEW f, Counts(f), NEW M, IsFiniteSet(M), NEW kind \in [DOMAIN f -> M],
         NEW g, g = [m \in M |-> SumFunction(Part(f, {x \in DOMAIN f : kind[x] = m}))]
  PROVE  Counts(g) /\ SumFunction(g) = SumFunction(f)
<1> DEFINE Of(r) == {x \in DOMAIN f : kind[x] \in r}
           Q == {r \in SUBSET M : SumFunction(Part(g, r)) = SumFunction(Part(f, Of(r)))}
<1>1. \A m \in M : {x \in DOMAIN f : kind[x] = m} \in SUBSET DOMAIN f
  OBVIOUS
<1>2. \A m \in M : SumFunction(Part(f, {x \in DOMAIN f : kind[x] = m})) \in Int
  BY <1>1, SumsOfParts
<1>3. Counts(g) /\ DOMAIN g = M
  BY <1>2 DEF Counts
<1>4. {} \in Q
  <2>1. Of({}) = {}
    OBVIOUS
  <2>2. SumFunction(Part(g, {})) = 0 /\ SumFunction(Part(f, {})) = 0
    BY <1>3, SumsOfParts
  <2> QED
    BY <2>1, <2>2
<1>5. ASSUME NEW r \in SUBSET M, NEW m \in M \ r, r \in Q
      PROVE  r \cup {m} \in Q
  <2> DEFINE S == Of(r \cup {m})
             T == {x \in DOMAIN f : kind[x] = m}
             h == Part(f, S)
  <2>1. S \in SUBSET DOMAIN f /\ Of(r) \in SUBSET S /\ T \in SUBSET S
    OBVIOUS
  <2>2. Of(r) \cup T = S /\ Of(r) \cap T = {}
    OBVIOUS
  <2>3. g[m] = SumFunction(Part(f, T))
    OBVIOUS
  <2>4. SumFunction(Part(g, r)) = SumFunction(Part(f, Of(r)))
    BY <1>5
  <2> HIDE DEF S, T, Of
  <2>5. Counts(h) /\ DOMAIN h = S
    BY <2>1, PartCounts
  <2>6. Part(h, Of(r)) = Part(f, Of(r)) /\ Part(h, T) = Part(f, T)
    BY <2>1 DEF Part
  <2>7. SumFunction(h) = SumFunction(Part(f, Of(r))) + SumFunction(Part(f, T))
    <3> HIDE DEF h
    <3>1. SumFunction(h) = SumFunction(Part(h, Of(r))) + SumFunction(Part(h, T))
      BY <2>2, <2>5, SumOfTwoParts
    <3> QED
      BY <2>6, <3>1
  <2>8. SumFunction(Part(g, r \cup {m})) = g[m] + SumFunction(Part(g, r))
    BY <1>3, SumsOfParts
  <2>9. SumFunction(Part(f, Of(r))) \in Int /\ SumFunction(Part(f, T)) \in Int
    <3>1. Of(r) \in SUBSET DOMAIN f /\ T \in SUBSET DOMAIN f
      BY <2>1
    <3> QED
      BY <3>1, SumsOfParts
  <2>10. SumFunction(Part(g, r \cup {m})) = SumFunction(Part(f, S))
    BY <2>3, <2>4, <2>7, <2>8, <2>9
  <2> QED
    BY <2>10 DEF S
<1>6. M \in Q
  <2> HIDE DEF Q
  <2> QED
    BY <1>4, <1>5, FiniteSetInduction
<1>7. Of(M) = DOMAIN f
  OBVIOUS
<1>8. SumFunction(Part(g, M)) = SumFunction(Part(f, DOMAIN f))
  <2> HIDE DEF Of
  <2> QED
    BY <1>6, <1>7
<1> QED
  BY <1>3, <1>8, SumsOfParts

=============================================================================
