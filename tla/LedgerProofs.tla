---------------------------- MODULE LedgerProofs ----------------------------
(***************************************************************************)
(* Lemmas about the operators of LedgerRecords: each of the five inserts   *)
(* extends the ledger and keeps its chains and references, a ledger that   *)
(* grows keeps the records that collect_release_records makes of it, and   *)
(* more records have more semantic content.                                *)
(***************************************************************************)
EXTENDS LedgerRecords, FiniteSetTheorems, TLAPS

IsSeq(s) == \E S : s \in Seq(S)

LEMMA EmptySequence == IsSeq(<<>>) /\ ToSet(<<>>) = {}
<1>1. <<>> \in Seq({})
  OBVIOUS
<1> QED
  BY <1>1 DEF IsSeq, ToSet

LEMMA OneElement ==
  ASSUME NEW q
  PROVE  IsSeq(<<q>>) /\ ToSet(<<q>>) = {q}
<1>1. <<q>> \in Seq({q}) /\ DOMAIN <<q>> = {1} /\ <<q>>[1] = q
  OBVIOUS
<1> QED
  BY <1>1 DEF IsSeq, ToSet

LEMMA SetAsSequence ==
  ASSUME NEW S, IsFiniteSet(S)
  PROVE  IsSeq(SetToSeq(S)) /\ ToSet(SetToSeq(S)) = S
<1> DEFINE n == Cardinality(S)
           f == SetToSeq(S)
<1>1. n \in Nat /\ ExistsBijection(1..n, S)
  BY FS_CardinalityType
<1>2. f \in Injection(1..n, S)
  <2>1. PICK g : g \in [1..n -> S] /\ IsInjective(g)
    BY <1>1 DEF ExistsBijection, Bijection, Injection
  <2> QED
    BY <2>1 DEF SetToSeq, Injection
<1>3. IsFiniteSet(1..n) /\ Cardinality(1..n) = n
  BY <1>1, FS_Interval
<1> HIDE DEF f
<1>4. f \in Surjection(1..n, S)
  BY <1>2, <1>3, FS_Injection
<1> HIDE DEF n
<1>5. f \in [1..n -> S] /\ \A x \in S : \E i \in 1..n : f[i] = x
  BY <1>4 DEF Surjection
<1>6. f \in Seq(S)
  BY <1>1, <1>5
<1>7. ToSet(f) = S
  BY <1>5 DEF ToSet
<1> QED
  BY <1>6, <1>7 DEF IsSeq, f

LEMMA Concatenation ==
  ASSUME NEW s, NEW t, IsSeq(s), IsSeq(t)
  PROVE  IsSeq(s \o t) /\ ToSet(s \o t) = ToSet(s) \cup ToSet(t)
<1>1. PICK S : s \in Seq(S)
  BY DEF IsSeq
<1>2. PICK T : t \in Seq(T)
  BY DEF IsSeq
<1>3. s \in Seq(S \cup T) /\ t \in Seq(S \cup T)
  BY <1>1, <1>2
<1>4. /\ s \o t \in Seq(S \cup T)
      /\ Len(s \o t) = Len(s) + Len(t) /\ Len(s) \in Nat /\ Len(t) \in Nat
      /\ \A i \in 1..(Len(s) + Len(t)) : (s \o t)[i] = IF i <= Len(s) THEN s[i] ELSE t[i - Len(s)]
  BY <1>3
<1>5. /\ DOMAIN s = 1..Len(s) /\ DOMAIN t = 1..Len(t)
      /\ DOMAIN (s \o t) = 1..(Len(s) + Len(t))
  BY <1>3, <1>4
<1>6. ASSUME NEW x \in ToSet(s \o t) PROVE x \in ToSet(s) \cup ToSet(t)
  <2>1. PICK i \in DOMAIN (s \o t) : (s \o t)[i] = x
    BY DEF ToSet
  <2>2. CASE i <= Len(s)
    BY <2>1, <2>2, <1>4, <1>5 DEF ToSet
  <2>3. CASE i > Len(s)
    <3>1. i - Len(s) \in DOMAIN t /\ t[i - Len(s)] = x
      BY <2>1, <2>3, <1>4, <1>5
    <3> QED
      BY <3>1 DEF ToSet
  <2> QED
    BY <2>1, <2>2, <2>3, <1>4, <1>5
<1>7. ASSUME NEW x \in ToSet(s) PROVE x \in ToSet(s \o t)
  <2>1. PICK i \in DOMAIN s : s[i] = x
    BY DEF ToSet
  <2>2. i \in DOMAIN (s \o t) /\ (s \o t)[i] = x
    BY <2>1, <1>4, <1>5
  <2> QED
    BY <2>2 DEF ToSet
<1>8. ASSUME NEW x \in ToSet(t) PROVE x \in ToSet(s \o t)
  <2>1. PICK i \in DOMAIN t : t[i] = x
    BY DEF ToSet
  <2>2. i + Len(s) \in DOMAIN (s \o t) /\ (s \o t)[i + Len(s)] = x
    BY <2>1, <1>4, <1>5
  <2> QED
    BY <2>2 DEF ToSet
<1> QED
  BY <1>4, <1>6, <1>7, <1>8 DEF IsSeq

LEMMA HeadAndTail ==
  ASSUME NEW s, IsSeq(s), s # <<>>
  PROVE  IsSeq(Tail(s)) /\ ToSet(s) = {Head(s)} \cup ToSet(Tail(s))
<1>1. PICK S : s \in Seq(S)
  BY DEF IsSeq
<1>2. Tail(s) \in Seq(S) /\ Len(Tail(s)) = Len(s) - 1 /\ Len(s) \in Nat /\ Len(s) > 0
  BY <1>1
<1>3. /\ DOMAIN s = 1..Len(s) /\ DOMAIN Tail(s) = 1..(Len(s) - 1)
      /\ Head(s) = s[1] /\ \A i \in 1..(Len(s) - 1) : Tail(s)[i] = s[i + 1]
  BY <1>1, <1>2
<1>4. ASSUME NEW x \in ToSet(s) PROVE x = Head(s) \/ x \in ToSet(Tail(s))
  <2>1. PICK i \in DOMAIN s : s[i] = x
    BY DEF ToSet
  <2>2. CASE i = 1
    BY <2>1, <2>2, <1>3
  <2>3. CASE i # 1
    <3>1. i - 1 \in DOMAIN Tail(s) /\ Tail(s)[i - 1] = x
      BY <2>1, <2>3, <1>2, <1>3
    <3> QED
      BY <3>1 DEF ToSet
  <2> QED
    BY <2>2, <2>3
<1>5. Head(s) \in ToSet(s)
  BY <1>2, <1>3 DEF ToSet
<1>6. ASSUME NEW x \in ToSet(Tail(s)) PROVE x \in ToSet(s)
  <2>1. PICK i \in DOMAIN Tail(s) : Tail(s)[i] = x
    BY DEF ToSet
  <2>2. i + 1 \in DOMAIN s /\ s[i + 1] = x
    BY <2>1, <1>2, <1>3
  <2> QED
    BY <2>2 DEF ToSet
<1> QED
  BY <1>2, <1>4, <1>5, <1>6 DEF IsSeq

LEMMA TwoElements ==
  ASSUME NEW x, NEW y
  PROVE  IsSeq(<<x, y>>) /\ ToSet(<<x, y>>) = {x, y}
<1>1. <<x, y>> \in Seq({x, y}) /\ DOMAIN <<x, y>> = {1, 2} /\ <<x, y>>[1] = x /\ <<x, y>>[2] = y
  OBVIOUS
<1> QED
  BY <1>1 DEF IsSeq, ToSet

LEMMA FirstOfConcatenation ==
  ASSUME NEW s, NEW t, IsSeq(s), IsSeq(t), Len(s) > 0
  PROVE  Len(s \o t) > 0 /\ Len(s \o t) \in Nat /\ (s \o t)[1] = s[1]
<1>1. PICK S, T : s \in Seq(S) /\ t \in Seq(T)
  BY DEF IsSeq
<1>2. s \in Seq(S \cup T) /\ t \in Seq(S \cup T) /\ Len(s) \in Nat /\ Len(t) \in Nat
  BY <1>1
<1> QED
  BY <1>2

LEMMA ImageIsFinite ==
  ASSUME NEW S, IsFiniteSet(S), NEW f, DOMAIN f = S
  PROVE  IsFiniteSet({f[x] : x \in S})
<1> DEFINE T == {f[x] : x \in S}
           g == [x \in S |-> f[x]]
<1>1. g \in Surjection(S, T)
  BY DEF Surjection
<1> QED
  BY <1>1, FS_Surjection

LEMMA AppendGrows ==
  ASSUME NEW s, IsSeq(s), NEW x
  PROVE  /\ IsSeq(Append(s, x))
         /\ Len(s) \in Nat
         /\ Len(Append(s, x)) = Len(s) + 1
         /\ DOMAIN s \subseteq DOMAIN Append(s, x)
         /\ \A i \in DOMAIN s : Append(s, x)[i] = s[i]
<1>1. PICK S : s \in Seq(S)
  BY DEF IsSeq
<1>2. Append(s, x) \in Seq(S \cup {x})
  BY <1>1
<1> QED
  BY <1>1, <1>2 DEF IsSeq

----------------------------------------------------------------------------
(* Chains. *)

LEMMA ChainGrows ==
  ASSUME NEW c, IsSeq(c), ChainVerified(c), NEW stream, NEW e, NEW content
  PROVE  ChainVerified(Append(c, NextRow(c, stream, e, content)))
<1> DEFINE row == NextRow(c, stream, e, content)
           d == Append(c, row)
<1>1. /\ row.prev = LinkHash(c)
      /\ row.hash = HashRecord(row.prev, Body(row))
      /\ row.content = content /\ row.election = e
  BY DEF NextRow, Body
<1> HIDE DEF row
<1>2. PICK S : c \in Seq(S)
  BY DEF IsSeq
<1>3. c \in Seq(S \cup {row}) /\ row \in S \cup {row}
  BY <1>2
<1>4. /\ Len(c) \in Nat /\ DOMAIN d = 1..(Len(c) + 1) /\ DOMAIN c = 1..Len(c)
      /\ \A i \in 1..Len(c) : d[i] = c[i]
      /\ d[Len(c) + 1] = row
  BY <1>3
<1>5. LinkHash(c) = IF Len(c) = 0 THEN NoHash ELSE c[Len(c)].hash
  <2>1. c = <<>> <=> Len(c) = 0
    BY <1>2
  <2> QED
    BY <2>1 DEF LinkHash, Last
<1> HIDE DEF d
<1> SUFFICES ASSUME NEW i \in DOMAIN d
             PROVE  /\ d[i].prev = IF i = 1 THEN NoHash ELSE d[i - 1].hash
                    /\ d[i].hash = HashRecord(d[i].prev, Body(d[i]))
  BY DEF ChainVerified, d, row
<1>6. CASE i \in DOMAIN c
  <2>1. d[i] = c[i] /\ (i # 1 => d[i - 1] = c[i - 1])
    BY <1>4, <1>6
  <2> QED
    BY <2>1, <1>6 DEF ChainVerified
<1>7. CASE i = Len(c) + 1
  <2>1. d[i] = row /\ (i # 1 => d[i - 1] = c[Len(c)])
    BY <1>4, <1>7
  <2>2. row.prev = IF i = 1 THEN NoHash ELSE d[i - 1].hash
    BY <2>1, <1>1, <1>4, <1>5, <1>7
  <2> QED
    BY <2>1, <2>2, <1>1
<1> QED
  BY <1>4, <1>6, <1>7

----------------------------------------------------------------------------
(* A ledger only grows, and the records of an election with it. *)

LedgerOK(l) ==
  /\ \E r, v, a, x, q : l = [registry |-> r, versions |-> v, attestations |-> a,
                             extractions |-> x, reviews |-> q]
  /\ DOMAIN l.registry = Elections /\ \A e \in Elections : IsSeq(l.registry[e])
  /\ DOMAIN l.versions = EvidenceIds /\ \A ev \in EvidenceIds : IsSeq(l.versions[ev])
  /\ IsSeq(l.attestations)

Extends(s, t) == DOMAIN t \subseteq DOMAIN s /\ \A i \in DOMAIN t : s[i] = t[i]

Grows(l, k) ==
  /\ \A e \in Elections : Extends(k.registry[e], l.registry[e])
  /\ \A ev \in EvidenceIds : Extends(k.versions[ev], l.versions[ev])
  /\ Extends(k.attestations, l.attestations)
  /\ l.extractions \subseteq k.extractions
  /\ l.reviews \subseteq k.reviews

LEMMA RecordsGrow ==
  ASSUME NEW l, NEW k, Grows(l, k), NEW e \in Elections
  PROVE  Records(l, e) \subseteq Records(k, e)
<1>1. SnapshotRecords(l, e) \subseteq SnapshotRecords(k, e)
  BY DEF SnapshotRecords, Grows, Extends
<1>2. VersionRecords(l, e) \subseteq VersionRecords(k, e)
  BY DEF VersionRecords, Grows, Extends
<1>3. \A ev, v : AttestationRecords(l, ev, v) \subseteq AttestationRecords(k, ev, v)
  BY DEF AttestationRecords, Grows, Extends
<1>4. \A ev, v : ExtractionRecords(l, ev, v) \subseteq ExtractionRecords(k, ev, v)
  BY DEF ExtractionRecords, Grows
<1>5. \A x : ReviewRecords(l, x) \subseteq ReviewRecords(k, x)
  BY DEF ReviewRecords, Grows
<1> QED
  BY <1>1, <1>2, <1>3, <1>4, <1>5 DEF Records

LEMMA TableGrows ==
  ASSUME NEW l, NEW k, LedgerOK(l),
         NEW r, DOMAIN r = Elections,
         \A e \in Elections : IsSeq(r[e]) /\ Extends(r[e], l.registry[e]),
         NEW v, DOMAIN v = EvidenceIds,
         \A ev \in EvidenceIds : IsSeq(v[ev]) /\ Extends(v[ev], l.versions[ev]),
         NEW a, IsSeq(a), Extends(a, l.attestations),
         NEW x, l.extractions \subseteq x, NEW q, l.reviews \subseteq q,
         k = [registry |-> r, versions |-> v, attestations |-> a,
              extractions |-> x, reviews |-> q]
  PROVE  LedgerOK(k) /\ Grows(l, k)
<1>1. k.registry = r /\ k.versions = v /\ k.attestations = a /\ k.extractions = x /\ k.reviews = q
  OBVIOUS
<1>2. \E r1, v1, a1, x1, q1 : k = [registry |-> r1, versions |-> v1, attestations |-> a1,
                                 extractions |-> x1, reviews |-> q1]
  OBVIOUS
<1>3. LedgerOK(k)
  BY <1>1, <1>2 DEF LedgerOK
<1>4. Grows(l, k)
  BY <1>1 DEF Grows
<1> QED
  BY <1>3, <1>4

LEMMA ExtendsItself == \A s : Extends(s, s)
  BY DEF Extends

LEMMA SnapshotGrows ==
  ASSUME NEW l, LedgerOK(l), NEW e, NEW d
  PROVE  LedgerOK(WithSnapshot(l, e, d)) /\ Grows(l, WithSnapshot(l, e, d))
<1>1. PICK r, v, a, x, q : l = [registry |-> r, versions |-> v, attestations |-> a,
                             extractions |-> x, reviews |-> q]
  BY DEF LedgerOK
<1> DEFINE row == NextRow(r[e], e, e, d)
           g == [r EXCEPT ![e] = Append(@, row)]
<1>2. l.registry = r /\ l.versions = v /\ l.attestations = a /\ l.extractions = x /\ l.reviews = q
  BY <1>1
<1>3. WithSnapshot(l, e, d) = [registry |-> g, versions |-> v, attestations |-> a,
                               extractions |-> x, reviews |-> q]
  BY <1>1 DEF WithSnapshot
<1>4. DOMAIN r = Elections /\ \A f \in Elections : IsSeq(r[f])
  BY <1>2 DEF LedgerOK
<1> HIDE DEF row
<1>5. DOMAIN g = Elections /\ \A f \in Elections : IsSeq(g[f]) /\ Extends(g[f], l.registry[f])
  <2>1. ASSUME NEW f \in Elections, f = e PROVE IsSeq(g[f]) /\ Extends(g[f], r[f])
    <3>1. g[f] = Append(r[f], row)
      BY <1>4, <2>1
    <3> HIDE DEF g
    <3> QED
      BY <1>4, <3>1, AppendGrows DEF Extends
  <2>2. ASSUME NEW f \in Elections, f # e PROVE IsSeq(g[f]) /\ Extends(g[f], r[f])
    BY <1>4, <2>2, ExtendsItself
  <2> QED
    BY <1>2, <1>4, <2>1, <2>2
<1>6. /\ DOMAIN v = EvidenceIds
      /\ \A ev \in EvidenceIds : IsSeq(v[ev]) /\ Extends(v[ev], l.versions[ev])
      /\ IsSeq(a) /\ Extends(a, l.attestations)
  BY <1>2, ExtendsItself DEF LedgerOK
<1> HIDE DEF g
<1> QED
  BY <1>2, <1>3, <1>5, <1>6, TableGrows

LEMMA VersionGrows ==
  ASSUME NEW l, LedgerOK(l), NEW ev, NEW e, NEW c
  PROVE  LedgerOK(WithVersion(l, ev, e, c)) /\ Grows(l, WithVersion(l, ev, e, c))
<1>1. PICK r, v, a, x, q : l = [registry |-> r, versions |-> v, attestations |-> a,
                             extractions |-> x, reviews |-> q]
  BY DEF LedgerOK
<1> DEFINE row == NextRow(v[ev], ev, e, c)
           g == [v EXCEPT ![ev] = Append(@, row)]
<1>2. l.registry = r /\ l.versions = v /\ l.attestations = a /\ l.extractions = x /\ l.reviews = q
  BY <1>1
<1>3. WithVersion(l, ev, e, c) = [registry |-> r, versions |-> g, attestations |-> a,
                                  extractions |-> x, reviews |-> q]
  BY <1>1 DEF WithVersion
<1>4. DOMAIN v = EvidenceIds /\ \A f \in EvidenceIds : IsSeq(v[f])
  BY <1>2 DEF LedgerOK
<1> HIDE DEF row
<1>5. DOMAIN g = EvidenceIds /\ \A f \in EvidenceIds : IsSeq(g[f]) /\ Extends(g[f], l.versions[f])
  <2>1. ASSUME NEW f \in EvidenceIds, f = ev PROVE IsSeq(g[f]) /\ Extends(g[f], v[f])
    <3>1. g[f] = Append(v[f], row)
      BY <1>4, <2>1
    <3> HIDE DEF g
    <3> QED
      BY <1>4, <3>1, AppendGrows DEF Extends
  <2>2. ASSUME NEW f \in EvidenceIds, f # ev PROVE IsSeq(g[f]) /\ Extends(g[f], v[f])
    BY <1>4, <2>2, ExtendsItself
  <2> QED
    BY <1>2, <1>4, <2>1, <2>2
<1>6. /\ DOMAIN r = Elections
      /\ \A f \in Elections : IsSeq(r[f]) /\ Extends(r[f], l.registry[f])
      /\ IsSeq(a) /\ Extends(a, l.attestations)
  BY <1>2, ExtendsItself DEF LedgerOK
<1> HIDE DEF g
<1> QED
  BY <1>2, <1>3, <1>5, <1>6, TableGrows

LEMMA OthersGrow ==
  ASSUME NEW l, LedgerOK(l), NEW z
  PROVE  /\ LedgerOK(WithAttestation(l, z)) /\ Grows(l, WithAttestation(l, z))
         /\ LedgerOK(WithExtraction(l, z)) /\ Grows(l, WithExtraction(l, z))
         /\ LedgerOK(WithReview(l, z)) /\ Grows(l, WithReview(l, z))
<1>1. PICK r, v, a, x, q : l = [registry |-> r, versions |-> v, attestations |-> a,
                             extractions |-> x, reviews |-> q]
  BY DEF LedgerOK
<1>2. l.registry = r /\ l.versions = v /\ l.attestations = a /\ l.extractions = x /\ l.reviews = q
  BY <1>1
<1>3. /\ DOMAIN r = Elections
      /\ \A f \in Elections : IsSeq(r[f]) /\ Extends(r[f], l.registry[f])
      /\ DOMAIN v = EvidenceIds
      /\ \A f \in EvidenceIds : IsSeq(v[f]) /\ Extends(v[f], l.versions[f])
      /\ IsSeq(a) /\ Extends(a, l.attestations)
  BY <1>2, ExtendsItself DEF LedgerOK
<1>4. PICK b : /\ WithAttestation(l, z) = [registry |-> r, versions |-> v, attestations |-> b,
                                          extractions |-> x, reviews |-> q]
               /\ IsSeq(b) /\ Extends(b, a)
  <2>1. CASE z \in ToSet(l.attestations)
    BY <2>1, <1>1, <1>2, <1>3 DEF WithAttestation
  <2>2. CASE z \notin ToSet(l.attestations)
    <3>1. WithAttestation(l, z) = [registry |-> r, versions |-> v, attestations |-> Append(a, z),
                                   extractions |-> x, reviews |-> q]
      BY <2>2, <1>1 DEF WithAttestation
    <3>2. IsSeq(Append(a, z)) /\ Extends(Append(a, z), a)
      BY <1>3, AppendGrows DEF Extends
    <3> QED
      BY <3>1, <3>2
  <2> QED
    BY <2>1, <2>2
<1>5. WithExtraction(l, z) = [registry |-> r, versions |-> v, attestations |-> a,
                              extractions |-> x \cup {z}, reviews |-> q]
  BY <1>1 DEF WithExtraction
<1>6. WithReview(l, z) = [registry |-> r, versions |-> v, attestations |-> a,
                          extractions |-> x, reviews |-> q \cup {z}]
  BY <1>1 DEF WithReview
<1>7. LedgerOK(WithAttestation(l, z)) /\ Grows(l, WithAttestation(l, z))
  BY <1>2, <1>3, <1>4, TableGrows
<1>8. LedgerOK(WithExtraction(l, z)) /\ Grows(l, WithExtraction(l, z))
  BY <1>2, <1>3, <1>5, TableGrows
<1>9. LedgerOK(WithReview(l, z)) /\ Grows(l, WithReview(l, z))
  BY <1>2, <1>3, <1>6, TableGrows
<1> QED
  BY <1>7, <1>8, <1>9

----------------------------------------------------------------------------
(* What the inserts leave alone, and what they add. *)

LEMMA SnapshotTables ==
  ASSUME NEW l, LedgerOK(l), NEW e \in Elections, NEW d
  PROVE  /\ WithSnapshot(l, e, d).registry[e] =
              Append(l.registry[e], NextRow(l.registry[e], e, e, d))
         /\ \A f \in Elections \ {e} : WithSnapshot(l, e, d).registry[f] = l.registry[f]
         /\ WithSnapshot(l, e, d).versions = l.versions
         /\ WithSnapshot(l, e, d).extractions = l.extractions
<1>1. PICK r, v, a, x, q : l = [registry |-> r, versions |-> v, attestations |-> a,
                             extractions |-> x, reviews |-> q]
  BY DEF LedgerOK
<1> DEFINE row == NextRow(r[e], e, e, d)
<1>2. WithSnapshot(l, e, d) = [registry |-> [r EXCEPT ![e] = Append(@, row)], versions |-> v,
                               attestations |-> a, extractions |-> x, reviews |-> q]
  BY <1>1 DEF WithSnapshot
<1> HIDE DEF row
<1>3. l.registry = r /\ l.versions = v /\ l.extractions = x
  BY <1>1
<1>4. DOMAIN r = Elections /\ DOMAIN v = EvidenceIds
  BY <1>3 DEF LedgerOK
<1> QED
  BY <1>2, <1>3, <1>4 DEF row

LEMMA VersionTables ==
  ASSUME NEW l, LedgerOK(l), NEW ev \in EvidenceIds, NEW e, NEW c
  PROVE  /\ WithVersion(l, ev, e, c).versions[ev] =
              Append(l.versions[ev], NextRow(l.versions[ev], ev, e, c))
         /\ \A f \in EvidenceIds \ {ev} : WithVersion(l, ev, e, c).versions[f] = l.versions[f]
         /\ WithVersion(l, ev, e, c).registry = l.registry
         /\ WithVersion(l, ev, e, c).extractions = l.extractions
<1>1. PICK r, v, a, x, q : l = [registry |-> r, versions |-> v, attestations |-> a,
                             extractions |-> x, reviews |-> q]
  BY DEF LedgerOK
<1> DEFINE row == NextRow(v[ev], ev, e, c)
<1>2. WithVersion(l, ev, e, c) = [registry |-> r, versions |-> [v EXCEPT ![ev] = Append(@, row)],
                                  attestations |-> a, extractions |-> x, reviews |-> q]
  BY <1>1 DEF WithVersion
<1> HIDE DEF row
<1>3. l.registry = r /\ l.versions = v /\ l.extractions = x
  BY <1>1
<1>4. DOMAIN r = Elections /\ DOMAIN v = EvidenceIds
  BY <1>3 DEF LedgerOK
<1> QED
  BY <1>2, <1>3, <1>4 DEF row

LEMMA OtherTables ==
  ASSUME NEW l, LedgerOK(l), NEW z
  PROVE  /\ \A k \in {WithAttestation(l, z), WithReview(l, z)} :
              /\ k.registry = l.registry /\ k.versions = l.versions
              /\ k.extractions = l.extractions
         /\ WithExtraction(l, z).extractions = l.extractions \cup {z}
         /\ WithExtraction(l, z).registry = l.registry
         /\ WithExtraction(l, z).versions = l.versions
<1>1. PICK r, v, a, x, q : l = [registry |-> r, versions |-> v, attestations |-> a,
                             extractions |-> x, reviews |-> q]
  BY DEF LedgerOK
<1>2. l.registry = r /\ l.versions = v /\ l.extractions = x
  BY <1>1
<1>3. PICK b : WithAttestation(l, z) = [registry |-> r, versions |-> v, attestations |-> b,
                                        extractions |-> x, reviews |-> q]
  BY <1>1 DEF WithAttestation
<1>4. WithExtraction(l, z) = [registry |-> r, versions |-> v, attestations |-> a,
                              extractions |-> x \cup {z}, reviews |-> q]
  BY <1>1 DEF WithExtraction
<1>5. WithReview(l, z) = [registry |-> r, versions |-> v, attestations |-> a,
                          extractions |-> x, reviews |-> q \cup {z}]
  BY <1>1 DEF WithReview
<1> QED
  BY <1>2, <1>3, <1>4, <1>5

\* Chains verify, artifacts are there, and a superseded extraction is one of
\* the same version; what a query returns is finite.
LedgerFits(l, o) ==
  /\ \A e \in Elections : ChainVerified(l.registry[e])
  /\ \A ev \in EvidenceIds : ChainVerified(l.versions[ev])
  /\ \A ev \in EvidenceIds : \A i \in DOMAIN l.versions[ev] : l.versions[ev][i].content \in o
  /\ \A x \in l.extractions :
       /\ x.id \in ExtractionIds
       /\ \/ x.supersedes = None
          \/ \E y \in l.extractions :
               y.id = x.supersedes /\ y.evidence = x.evidence /\ y.version = x.version
  /\ IsFiniteSet(l.extractions)
  /\ \A e \in Elections : IsFiniteSet(VersionRecords(l, e))

LEMMA SameTablesFit ==
  ASSUME NEW l, NEW k, NEW o, LedgerFits(l, o),
         k.registry = l.registry, k.versions = l.versions, k.extractions = l.extractions
  PROVE  LedgerFits(k, o)
<1>1. \A e : VersionRecords(k, e) = VersionRecords(l, e)
  BY DEF VersionRecords
<1> QED
  BY <1>1 DEF LedgerFits

LEMMA SnapshotFits ==
  ASSUME NEW l, NEW o, LedgerOK(l), LedgerFits(l, o), NEW e \in Elections, NEW d
  PROVE  LedgerFits(WithSnapshot(l, e, d), o)
<1> DEFINE k == WithSnapshot(l, e, d)
           row == NextRow(l.registry[e], e, e, d)
<1>1. /\ k.registry[e] = Append(l.registry[e], row)
      /\ \A f \in Elections \ {e} : k.registry[f] = l.registry[f]
      /\ k.versions = l.versions /\ k.extractions = l.extractions
  BY SnapshotTables
<1> HIDE DEF k, row
<1>2. DOMAIN l.registry = Elections /\ \A f \in Elections : IsSeq(l.registry[f])
  BY DEF LedgerOK
<1>3. \A f \in Elections : ChainVerified(k.registry[f])
  <2>1. ChainVerified(Append(l.registry[e], row))
    BY <1>2, ChainGrows DEF LedgerFits, row
  <2> QED
    BY <2>1, <1>1 DEF LedgerFits
<1>4. \A f : VersionRecords(k, f) = VersionRecords(l, f)
  BY <1>1 DEF VersionRecords
<1>5. LedgerFits(k, o)
  BY <1>1, <1>3, <1>4 DEF LedgerFits
<1> QED
  BY <1>5 DEF k

LEMMA VersionFits ==
  ASSUME NEW l, NEW o, LedgerOK(l), LedgerFits(l, o),
         NEW ev \in EvidenceIds, NEW e \in Elections, NEW a \in o
  PROVE  LedgerFits(WithVersion(l, ev, e, a), o)
<1> DEFINE k == WithVersion(l, ev, e, a)
           row == NextRow(l.versions[ev], ev, e, a)
<1>1. /\ k.versions[ev] = Append(l.versions[ev], row)
      /\ \A f \in EvidenceIds \ {ev} : k.versions[f] = l.versions[f]
      /\ k.registry = l.registry /\ k.extractions = l.extractions
  BY VersionTables
<1>2. DOMAIN l.versions = EvidenceIds /\ \A f \in EvidenceIds : IsSeq(l.versions[f])
  BY DEF LedgerOK
<1>3. row.content = a
  BY DEF NextRow
<1>4. ChainVerified(Append(l.versions[ev], row))
  BY <1>2, ChainGrows DEF LedgerFits
<1> HIDE DEF k, row
<1>5. \A f \in EvidenceIds : ChainVerified(k.versions[f])
  BY <1>1, <1>4 DEF LedgerFits
<1> DEFINE n == Len(l.versions[ev])
<1>6. /\ DOMAIN k.versions[ev] = DOMAIN l.versions[ev] \cup {n + 1}
      /\ \A i \in DOMAIN l.versions[ev] : k.versions[ev][i] = l.versions[ev][i]
      /\ k.versions[ev][n + 1] = row
  <2>1. PICK S : l.versions[ev] \in Seq(S)
    BY <1>2 DEF IsSeq
  <2> QED
    BY <2>1, <1>1
<1> HIDE DEF n
<1>7. \A f \in EvidenceIds : \A i \in DOMAIN k.versions[f] : k.versions[f][i].content \in o
  BY <1>1, <1>3, <1>6 DEF LedgerFits
<1>8. ASSUME NEW f \in Elections PROVE IsFiniteSet(VersionRecords(k, f))
  <2> DEFINE new == [type |-> "evidence_version", key |-> <<ev, n + 1>>, payload |-> row]
             grown == VersionRecords(l, f) \cup {new}
  <2>1. ASSUME NEW r \in VersionRecords(k, f) PROVE r \in grown
    <3>1. PICK x \in EvidenceIds :
            r \in {[type |-> "evidence_version", key |-> <<x, i>>, payload |-> k.versions[x][i]] :
                     i \in {j \in DOMAIN k.versions[x] : k.versions[x][j].election = f}}
      BY DEF VersionRecords
    <3>2. PICK i \in DOMAIN k.versions[x] :
            /\ k.versions[x][i].election = f
            /\ r = [type |-> "evidence_version", key |-> <<x, i>>, payload |-> k.versions[x][i]]
      BY <3>1
    <3>3. CASE x = ev /\ i = n + 1
      BY <3>2, <3>3, <1>6
    <3>4. CASE ~(x = ev /\ i = n + 1)
      <4>1. i \in DOMAIN l.versions[x] /\ k.versions[x][i] = l.versions[x][i]
        BY <3>2, <3>4, <1>1, <1>6
      <4>2. r \in VersionRecords(l, f)
        BY <3>2, <4>1 DEF VersionRecords
      <4> QED
        BY <4>2
    <3> QED
      BY <3>3, <3>4
  <2> HIDE DEF new
  <2>2. IsFiniteSet(grown)
    BY FS_AddElement DEF LedgerFits
  <2> QED
    BY <2>1, <2>2, FS_Subset
<1>9. LedgerFits(k, o)
  BY <1>1, <1>5, <1>7, <1>8 DEF LedgerFits
<1> QED
  BY <1>9 DEF k

LEMMA OthersFit ==
  ASSUME NEW l, NEW o, LedgerOK(l), LedgerFits(l, o), NEW z
  PROVE  /\ LedgerFits(WithAttestation(l, z), o)
         /\ LedgerFits(WithReview(l, z), o)
         /\ ExtractionAccepted(l, z) /\ z.id \in ExtractionIds =>
              LedgerFits(WithExtraction(l, z), o)
<1>1. LedgerFits(WithAttestation(l, z), o) /\ LedgerFits(WithReview(l, z), o)
  BY OtherTables, SameTablesFit
<1>2. ASSUME ExtractionAccepted(l, z), z.id \in ExtractionIds
      PROVE  LedgerFits(WithExtraction(l, z), o)
  <2> DEFINE k == WithExtraction(l, z)
  <2>1. /\ k.extractions = l.extractions \cup {z}
        /\ k.registry = l.registry /\ k.versions = l.versions
    BY OtherTables
  <2> HIDE DEF k
  <2>2. \A f : VersionRecords(k, f) = VersionRecords(l, f)
    BY <2>1 DEF VersionRecords
  <2>3. IsFiniteSet(k.extractions)
    BY <2>1, FS_AddElement DEF LedgerFits
  <2>4. \A x \in k.extractions :
          /\ x.id \in ExtractionIds
          /\ \/ x.supersedes = None
             \/ \E y \in k.extractions :
                  y.id = x.supersedes /\ y.evidence = x.evidence /\ y.version = x.version
    BY <1>2, <2>1 DEF LedgerFits, ExtractionAccepted
  <2>5. LedgerFits(k, o)
    BY <2>1, <2>2, <2>3, <2>4 DEF LedgerFits
  <2> QED
    BY <2>5 DEF k
<1> QED
  BY <1>1, <1>2

\* Normalisation resolves every reference of the records of a fitting ledger.
LEMMA FittingIsClosed ==
  ASSUME NEW l, NEW o, LedgerFits(l, o), NEW e
  PROVE  ReferencesClosed(Records(l, e))
<1> DEFINE rs == Records(l, e)
           OfVersion(k) == AttestationRecords(l, k.payload.stream, k.payload.version)
                           \cup ExtractionRecords(l, k.payload.stream, k.payload.version)
                           \cup UNION {ReviewRecords(l, x.payload.id) :
                                  x \in ExtractionRecords(l, k.payload.stream, k.payload.version)}
<1>1. \A r \in rs : \/ r \in SnapshotRecords(l, e)
                    \/ r \in VersionRecords(l, e)
                    \/ \E k \in VersionRecords(l, e) : r \in OfVersion(k)
  BY DEF Records
<1>2. /\ VersionRecords(l, e) \subseteq rs
      /\ \A k \in VersionRecords(l, e) : OfVersion(k) \subseteq rs
  BY DEF Records
<1>3. /\ \A r \in SnapshotRecords(l, e) : r.type = "registry_snapshot"
      /\ \A r \in VersionRecords(l, e) : r.type = "evidence_version"
      /\ \A ev, v : \A r \in AttestationRecords(l, ev, v) :
           r.type = "attestation" /\ r.payload.evidence = ev /\ r.payload.version = v
      /\ \A ev, v : \A r \in ExtractionRecords(l, ev, v) :
           /\ r.type = "extraction" /\ r.payload \in l.extractions
           /\ r.payload.evidence = ev /\ r.payload.version = v
      /\ \A id : \A r \in ReviewRecords(l, id) :
           r.type = "extraction_review" /\ r.payload.extraction = id
  BY DEF SnapshotRecords, VersionRecords, AttestationRecords, ExtractionRecords, ReviewRecords
<1> HIDE DEF rs
<1>4. \A k \in VersionRecords(l, e) :
        <<k.payload.stream, k.payload.version>> \in
          {<<p.stream, p.version>> : p \in OfType(rs, "evidence_version")}
  BY <1>2, <1>3 DEF OfType
<1>5. ASSUME NEW a \in OfType(rs, "attestation")
      PROVE  \E k \in VersionRecords(l, e) : a.evidence = k.payload.stream /\ a.version = k.payload.version
  <2>1. PICK r \in rs : r.type = "attestation" /\ r.payload = a
    BY DEF OfType
  <2> QED
    BY <2>1, <1>1, <1>3
<1>6. ASSUME NEW x \in OfType(rs, "extraction")
      PROVE  \E k \in VersionRecords(l, e) :
               x \in l.extractions /\ x.evidence = k.payload.stream /\ x.version = k.payload.version
  <2>1. PICK r \in rs : r.type = "extraction" /\ r.payload = x
    BY DEF OfType
  <2> QED
    BY <2>1, <1>1, <1>3
<1>7. ASSUME NEW k \in VersionRecords(l, e), NEW y \in l.extractions,
             y.evidence = k.payload.stream, y.version = k.payload.version
      PROVE  y \in OfType(rs, "extraction")
  <2> DEFINE r == [type |-> "extraction", key |-> <<y.id>>, payload |-> y]
  <2>1. r \in ExtractionRecords(l, k.payload.stream, k.payload.version)
    BY <1>7 DEF ExtractionRecords
  <2>2. r \in rs /\ r.type = "extraction" /\ r.payload = y
    BY <2>1, <1>2
  <2> QED
    BY <2>2 DEF OfType
<1>8. ASSUME NEW q \in OfType(rs, "extraction_review")
      PROVE  \E x \in OfType(rs, "extraction") : x.id = q.extraction
  <2>1. PICK r \in rs : r.type = "extraction_review" /\ r.payload = q
    BY DEF OfType
  <2>2. PICK k \in VersionRecords(l, e) : r \in OfVersion(k)
    BY <2>1, <1>1, <1>3
  <2>3. PICK z \in ExtractionRecords(l, k.payload.stream, k.payload.version) :
          r \in ReviewRecords(l, z.payload.id)
    BY <2>1, <2>2, <1>3
  <2>4. z.payload.id = q.extraction /\ z \in rs /\ z.type = "extraction"
    BY <2>1, <2>3, <1>2, <1>3
  <2> QED
    BY <2>4 DEF OfType
<1>9. ASSUME NEW x \in OfType(rs, "extraction")
      PROVE  x.supersedes = None \/ \E y \in OfType(rs, "extraction") : y.id = x.supersedes
  <2>1. PICK k \in VersionRecords(l, e) :
          x \in l.extractions /\ x.evidence = k.payload.stream /\ x.version = k.payload.version
    BY <1>6
  <2>2. CASE \E y \in l.extractions :
               y.id = x.supersedes /\ y.evidence = x.evidence /\ y.version = x.version
    BY <2>1, <2>2, <1>7
  <2> QED
    BY <2>1, <2>2 DEF LedgerFits
<1>10. ReferencesClosed(rs)
  BY <1>4, <1>5, <1>6, <1>8, <1>9 DEF ReferencesClosed
<1> QED
  BY <1>10 DEF rs

----------------------------------------------------------------------------
(* What records look like, and where rows are. *)

LEMMA RecordForms ==
  ASSUME NEW l, NEW e, NEW r \in Records(l, e)
  PROVE  \/ /\ r.type = "registry_snapshot"
            /\ \E i \in DOMAIN l.registry[e] :
                 r = [type |-> "registry_snapshot", key |-> <<e, i>>,
                      payload |-> l.registry[e][i]]
         \/ /\ r.type = "evidence_version"
            /\ \E ev \in EvidenceIds : \E i \in DOMAIN l.versions[ev] :
                 /\ l.versions[ev][i].election = e
                 /\ r = [type |-> "evidence_version", key |-> <<ev, i>>,
                         payload |-> l.versions[ev][i]]
         \/ /\ r.type = "attestation"
            /\ \E ev, v, i : r = [type |-> "attestation", key |-> <<ev, v, i>>,
                                  payload |-> l.attestations[i]]
         \/ /\ r.type = "extraction"
            /\ \E x \in l.extractions :
                 r = [type |-> "extraction", key |-> <<x.id>>, payload |-> x]
         \/ /\ r.type = "extraction_review"
            /\ \E q \in l.reviews :
                 r = [type |-> "extraction_review", key |-> <<q.id>>, payload |-> q]
<1>1. CASE r \in SnapshotRecords(l, e)
  BY <1>1 DEF SnapshotRecords
<1>2. CASE r \in VersionRecords(l, e)
  BY <1>2 DEF VersionRecords
<1>3. ASSUME NEW ev, NEW v, r \in AttestationRecords(l, ev, v)
      PROVE  /\ r.type = "attestation"
             /\ \E i : r = [type |-> "attestation", key |-> <<ev, v, i>>,
                            payload |-> l.attestations[i]]
  BY <1>3 DEF AttestationRecords
<1>4. ASSUME NEW ev, NEW v, r \in ExtractionRecords(l, ev, v)
      PROVE  /\ r.type = "extraction"
             /\ \E x \in l.extractions :
                  r = [type |-> "extraction", key |-> <<x.id>>, payload |-> x]
  BY <1>4 DEF ExtractionRecords
<1>5. ASSUME NEW id, r \in ReviewRecords(l, id)
      PROVE  /\ r.type = "extraction_review"
             /\ \E q \in l.reviews :
                  r = [type |-> "extraction_review", key |-> <<q.id>>, payload |-> q]
  BY <1>5 DEF ReviewRecords
<1>6. \/ r \in SnapshotRecords(l, e)
      \/ r \in VersionRecords(l, e)
      \/ \E ev, v : r \in AttestationRecords(l, ev, v)
      \/ \E ev, v : r \in ExtractionRecords(l, ev, v)
      \/ \E id : r \in ReviewRecords(l, id)
  BY DEF Records
<1> QED
  BY <1>1, <1>2, <1>3, <1>4, <1>5, <1>6

\* Rows know their place.
Placed(l) ==
  \A ev \in EvidenceIds : \A i \in DOMAIN l.versions[ev] :
     l.versions[ev][i].stream = ev /\ l.versions[ev][i].version = i

LEMMA PlacesKept ==
  ASSUME NEW l, LedgerOK(l), Placed(l), NEW ev \in EvidenceIds, NEW e, NEW c
  PROVE  Placed(WithVersion(l, ev, e, c))
<1> DEFINE k == WithVersion(l, ev, e, c)
           old == l.versions[ev]
           row == NextRow(old, ev, e, c)
<1>1. /\ k.versions[ev] = Append(old, row)
      /\ \A f \in EvidenceIds \ {ev} : k.versions[f] = l.versions[f]
  BY VersionTables
<1>2. row.stream = ev /\ row.version = Len(old) + 1
  BY DEF NextRow
<1>3. \A i \in DOMAIN old : old[i].stream = ev /\ old[i].version = i
  BY DEF Placed
<1>4. PICK S : old \in Seq(S)
  BY DEF LedgerOK, IsSeq
<1> HIDE DEF row, old, k
<1>5. /\ Len(old) \in Nat /\ DOMAIN Append(old, row) = 1..(Len(old) + 1)
      /\ DOMAIN old = 1..Len(old)
      /\ \A i \in 1..Len(old) : Append(old, row)[i] = old[i]
      /\ Append(old, row)[Len(old) + 1] = row
  BY <1>4
<1>6. ASSUME NEW i \in DOMAIN k.versions[ev]
      PROVE  k.versions[ev][i].stream = ev /\ k.versions[ev][i].version = i
  <2>1. CASE i \in 1..Len(old)
    BY <2>1, <1>1, <1>3, <1>5
  <2>2. CASE i = Len(old) + 1
    BY <2>2, <1>1, <1>2, <1>5
  <2> QED
    BY <2>1, <2>2, <1>1, <1>5
<1>7. Placed(k)
  BY <1>1, <1>6 DEF Placed
<1> QED
  BY <1>7 DEF k

----------------------------------------------------------------------------
(* Semantic normalisation.  It follows the references from an extraction   *)
(* to the one it supersedes; what it makes of an extraction is determined, *)
(* because an extraction supersedes one that was there before it.          *)

SenseOf(f, D, basis, x) ==
  [evidence |-> basis[x],
   supersedes |-> IF x.supersedes = None THEN {}
                  ELSE {f[y] : y \in {z \in D : z.id = x.supersedes}}]

\* f is what normalisation makes of the extractions D and their evidence.
Sense(f, D, basis) == f = [x \in D |-> SenseOf(f, D, basis, x)]

Resolved(D) == \A x \in D : x.supersedes = None \/ \E y \in D : y.id = x.supersedes
UniqueIds(D) == \A x, y \in D : x.id = y.id => x = y
Determined(D) == \A basis : \E f : Sense(f, D, basis) /\ \A g : Sense(g, D, basis) => g = f
Founded(X) == \A D \in SUBSET X : Resolved(D) => Determined(D)

LEMMA NothingIsFounded == Founded({})
<1>. SUFFICES ASSUME NEW basis
              PROVE  \E f : Sense(f, {}, basis) /\ \A g : Sense(g, {}, basis) => g = f
  BY DEF Founded, Determined
<1>. DEFINE f == [x \in {} |-> x]
<1>1. Sense(f, {}, basis)
  BY DEF Sense
<1>2. \A g : Sense(g, {}, basis) => g = f
  BY DEF Sense
<1>. QED
  BY <1>1, <1>2

\* What is made of an extraction depends on those that it supersedes.
LEMMA SenseDepends ==
  ASSUME NEW f, NEW g, NEW C, NEW D, NEW basis, NEW x,
         x.supersedes # None =>
           {z \in D : z.id = x.supersedes} = {z \in C : z.id = x.supersedes},
         \A z \in C : f[z] = g[z]
  PROVE  SenseOf(f, D, basis, x) = SenseOf(g, C, basis, x)
BY DEF SenseOf

LEMMA FoundedGrows ==
  ASSUME NEW X, NEW x, Founded(X), Resolved(X), \A y \in X : y.id # x.id,
         x.supersedes = None \/ \E y \in X : y.id = x.supersedes
  PROVE  Founded(X \cup {x})
<1>. SUFFICES ASSUME NEW D \in SUBSET (X \cup {x}), Resolved(D), NEW basis
              PROVE  \E f : Sense(f, D, basis) /\ \A g : Sense(g, D, basis) => g = f
  BY DEF Founded, Determined
<1>1. CASE x \notin D
  BY <1>1 DEF Founded, Determined
<1>2. CASE x \in D
  <2>. DEFINE C == D \ {x}
  <2>1. \A y \in D : y.supersedes # None =>
          {z \in D : z.id = y.supersedes} = {z \in C : z.id = y.supersedes}
    BY DEF Resolved
  <2>2. Resolved(C) /\ C \in SUBSET X
    BY DEF Resolved
  <2>3. PICK f0 : Sense(f0, C, basis) /\ \A g : Sense(g, C, basis) => g = f0
    BY <2>2 DEF Founded, Determined
  <2>. DEFINE f == [y \in D |-> IF y = x THEN SenseOf(f0, C, basis, x) ELSE f0[y]]
  <2>4. /\ D = C \cup {x} /\ x \notin C
        /\ \A y \in C : f0[y] = SenseOf(f0, C, basis, y)
    BY <1>2, <2>3 DEF Sense
  <2>5. Sense(f, D, basis)
    <3>1. \A y \in C : f[y] = f0[y]
      BY <2>4
    <3>2. \A y \in D : SenseOf(f, D, basis, y) = SenseOf(f0, C, basis, y)
      <4>. HIDE DEF f, C
      <4>. QED
        BY <2>1, <3>1, SenseDepends
    <3>3. \A y \in D : f[y] = SenseOf(f, D, basis, y)
      BY <2>4, <3>2
    <3>. QED
      BY <3>3 DEF Sense
  <2>6. ASSUME NEW g, Sense(g, D, basis) PROVE g = f
    <3>. DEFINE g0 == [y \in C |-> g[y]]
    <3>1. \A y \in D : SenseOf(g, D, basis, y) = SenseOf(g0, C, basis, y)
      <4>1. \A y \in C : g[y] = g0[y]
        OBVIOUS
      <4>. HIDE DEF g0, C
      <4>. QED
        BY <2>1, <4>1, SenseDepends
    <3>2. \A y \in D : g[y] = SenseOf(g, D, basis, y)
      BY <2>6 DEF Sense
    <3>3. Sense(g0, C, basis)
      BY <2>4, <3>1, <3>2 DEF Sense
    <3>4. g0 = f0
      BY <2>3, <3>3
    <3>5. \A y \in D : g[y] = f[y]
      <4>1. \A y \in C : g[y] = f0[y]
        BY <3>4
      <4>2. g[x] = SenseOf(f0, C, basis, x)
        BY <1>2, <3>1, <3>2, <3>4
      <4>. QED
        BY <2>4, <4>1, <4>2
    <3>6. g = [y \in D |-> g[y]]
      BY <2>6 DEF Sense
    <3>. HIDE DEF f
    <3>7. f = [y \in D |-> f[y]]
      BY DEF f
    <3>. QED
      BY <3>5, <3>6, <3>7
  <2>. QED
    BY <2>5, <2>6
<1>. QED
  BY <1>1, <1>2

\* The extractions that a part refers to mean the same in the whole.
LEMMA SenseRestricts ==
  ASSUME NEW A, NEW B, A \subseteq B, UniqueIds(B), Resolved(A),
         NEW basisA, NEW basisB, \A x \in A : basisA[x] = basisB[x],
         NEW f, Sense(f, B, basisB)
  PROVE  Sense([x \in A |-> f[x]], A, basisA)
<1>. DEFINE g == [x \in A |-> f[x]]
<1>1. \A x \in A : x.supersedes # None =>
        {z \in B : z.id = x.supersedes} = {z \in A : z.id = x.supersedes}
  BY DEF UniqueIds, Resolved
<1>2. \A z \in A : f[z] = g[z]
  OBVIOUS
<1>3. \A x \in A : f[x] = SenseOf(f, B, basisB, x)
  BY DEF Sense
<1>. HIDE DEF g
<1>4. \A x \in A : SenseOf(f, B, basisB, x) = SenseOf(g, A, basisB, x)
  BY <1>1, <1>2, SenseDepends
<1>5. \A x \in A : SenseOf(g, A, basisB, x) = SenseOf(g, A, basisA, x)
  BY DEF SenseOf
<1>. QED
  BY <1>2, <1>3, <1>4, <1>5 DEF Sense, g

VersionsOf(records) == OfType(records, "evidence_version")
ExtractionsOf(records) == OfType(records, "extraction")

EvidenceIn(records, ev, v) ==
  LET p == CHOOSE q \in VersionsOf(records) : q.stream = ev /\ q.version = v
  IN  [election |-> p.election, artifact |-> p.content]
BasisIn(records) ==
  [x \in ExtractionsOf(records) |-> EvidenceIn(records, x.evidence, x.version)]

\* semantic_records, given what it makes of extractions.
Meaning(records, f) ==
  {<<"registry_snapshot", p.content>> : p \in OfType(records, "registry_snapshot")}
  \cup {<<"evidence_version", EvidenceIn(records, p.stream, p.version)>> : p \in VersionsOf(records)}
  \cup {<<"extraction", f[x]>> : x \in ExtractionsOf(records)}
  \cup {<<"attestation", EvidenceIn(records, a.evidence, a.version), a.actor>> :
          a \in OfType(records, "attestation")}
  \cup {<<"extraction_review",
          {f[x] : x \in {y \in ExtractionsOf(records) : y.id = r.extraction}}>> :
          r \in OfType(records, "extraction_review")}

LEMMA SemanticForm ==
  ASSUME NEW records, Determined(ExtractionsOf(records)),
         NEW f, Sense(f, ExtractionsOf(records), BasisIn(records))
  PROVE  SemanticRecords(records) = Meaning(records, f)
<1>. DEFINE Means(g) ==
       g = [x \in ExtractionsOf(records) |->
              [evidence |-> EvidenceIn(records, x.evidence, x.version),
               supersedes |-> IF x.supersedes = None THEN {}
                              ELSE {g[y] : y \in {z \in ExtractionsOf(records) : z.id = x.supersedes}}]]
<1>1. SemanticRecords(records) = Meaning(records, CHOOSE g : Means(g))
  BY DEF SemanticRecords, Meaning, VersionsOf, ExtractionsOf, EvidenceIn
<1>2. \A g : Means(g) <=> Sense(g, ExtractionsOf(records), BasisIn(records))
  BY DEF Sense, SenseOf, BasisIn
<1>. DEFINE h == CHOOSE g : Means(g)
<1>. HIDE DEF Means
<1>3. Means(h) /\ SemanticRecords(records) = Meaning(records, h)
  BY <1>1, <1>2
<1>. HIDE DEF h
<1>4. h = f
  BY <1>2, <1>3 DEF Determined
<1>. QED
  BY <1>3, <1>4

\* References and keys of a release, as normalisation needs them.
Normal(records) ==
  /\ ReferencesClosed(records)
  /\ UniqueIds(ExtractionsOf(records))
  /\ \A p, q \in VersionsOf(records) : p.stream = q.stream /\ p.version = q.version => p = q

\* More records mean more: what a record means does not depend on the others.
LEMMA SemanticsGrow ==
  ASSUME NEW A, NEW B, A \subseteq B, Normal(A), Normal(B),
         Founded(ExtractionsOf(B))
  PROVE  SemanticRecords(A) \subseteq SemanticRecords(B)
<1>. DEFINE X == ExtractionsOf(A)
            Y == ExtractionsOf(B)
<1>1. \A type : OfType(A, type) \subseteq OfType(B, type)
  BY DEF OfType
<1>2. X \subseteq Y /\ Resolved(X) /\ Resolved(Y)
  BY <1>1 DEF Normal, ReferencesClosed, Resolved, ExtractionsOf
<1>3. Determined(X) /\ Determined(Y)
  BY <1>2 DEF Founded
<1>4. ASSUME NEW ev, NEW v, \E p \in VersionsOf(A) : p.stream = ev /\ p.version = v
      PROVE  EvidenceIn(A, ev, v) = EvidenceIn(B, ev, v)
  <2>1. PICK p \in VersionsOf(A) : p.stream = ev /\ p.version = v
    BY <1>4
  <2>2. p \in VersionsOf(B)
    BY <1>1 DEF VersionsOf
  <2>3. \A q \in VersionsOf(A) : q.stream = ev /\ q.version = v => q = p
    BY <2>1 DEF Normal
  <2>4. \A q \in VersionsOf(B) : q.stream = ev /\ q.version = v => q = p
    BY <2>1, <2>2 DEF Normal
  <2>5. p = CHOOSE q \in VersionsOf(A) : q.stream = ev /\ q.version = v
    BY <2>1, <2>3
  <2>6. p = CHOOSE q \in VersionsOf(B) : q.stream = ev /\ q.version = v
    BY <2>1, <2>2, <2>4
  <2>. QED
    BY <2>5, <2>6 DEF EvidenceIn
<1>5. /\ \A a \in OfType(A, "attestation") :
           EvidenceIn(A, a.evidence, a.version) = EvidenceIn(B, a.evidence, a.version)
      /\ \A x \in X : EvidenceIn(A, x.evidence, x.version) = EvidenceIn(B, x.evidence, x.version)
      /\ \A p \in VersionsOf(A) : EvidenceIn(A, p.stream, p.version) = EvidenceIn(B, p.stream, p.version)
  <2>1. \A a \in OfType(A, "attestation") :
          \E p \in VersionsOf(A) : p.stream = a.evidence /\ p.version = a.version
    BY DEF Normal, ReferencesClosed, VersionsOf
  <2>2. \A x \in X : \E p \in VersionsOf(A) : p.stream = x.evidence /\ p.version = x.version
    BY DEF Normal, ReferencesClosed, VersionsOf, ExtractionsOf
  <2>. QED
    BY <1>4, <2>1, <2>2
<1>6. PICK f : Sense(f, Y, BasisIn(B))
  BY <1>3 DEF Determined
<1>. DEFINE g == [x \in X |-> f[x]]
<1>7. Sense(g, X, BasisIn(A))
  <2>1. \A x \in X : BasisIn(A)[x] = BasisIn(B)[x]
    BY <1>2, <1>5 DEF BasisIn
  <2>. QED
    BY <1>2, <1>6, <2>1, SenseRestricts DEF Normal
<1>8. SemanticRecords(A) = Meaning(A, g) /\ SemanticRecords(B) = Meaning(B, f)
  BY <1>3, <1>6, <1>7, SemanticForm
<1>9. \A r \in OfType(A, "extraction_review") :
        {g[x] : x \in {y \in X : y.id = r.extraction}} = {f[x] : x \in {y \in Y : y.id = r.extraction}}
  <2>1. ASSUME NEW r \in OfType(A, "extraction_review")
        PROVE  {y \in X : y.id = r.extraction} = {y \in Y : y.id = r.extraction}
    <3>1. PICK x \in X : x.id = r.extraction
      BY DEF Normal, ReferencesClosed, ExtractionsOf
    <3>. QED
      BY <1>2, <3>1 DEF Normal, UniqueIds
  <2>. QED
    BY <2>1
<1>10. \A x \in X : g[x] = f[x]
  OBVIOUS
<1>. HIDE DEF g
<1>11. Meaning(A, g) \subseteq Meaning(B, f)
  BY <1>1, <1>2, <1>5, <1>9, <1>10 DEF Meaning, VersionsOf
<1>. QED
  BY <1>8, <1>11

\* A closed part of the records of a ledger is normal.
LEMMA RecordsAreNormal ==
  ASSUME NEW l, Placed(l), UniqueIds(l.extractions), NEW e,
         NEW A \in SUBSET Records(l, e), ReferencesClosed(A)
  PROVE  Normal(A) /\ ExtractionsOf(A) \subseteq l.extractions
<1>1. ASSUME NEW x \in ExtractionsOf(A) PROVE x \in l.extractions
  <2>1. PICK r \in A : r.type = "extraction" /\ r.payload = x
    BY DEF ExtractionsOf, OfType
  <2>2. PICK y \in l.extractions : r = [type |-> "extraction", key |-> <<y.id>>, payload |-> y]
    BY <2>1, RecordForms
  <2> QED
    BY <2>1, <2>2
<1>2. ASSUME NEW p \in VersionsOf(A)
      PROVE  /\ p.stream \in EvidenceIds /\ p.version \in DOMAIN l.versions[p.stream]
             /\ p = l.versions[p.stream][p.version]
  <2>1. PICK r \in A : r.type = "evidence_version" /\ r.payload = p
    BY DEF VersionsOf, OfType
  <2>2. PICK ev \in EvidenceIds : \E i \in DOMAIN l.versions[ev] :
          r = [type |-> "evidence_version", key |-> <<ev, i>>, payload |-> l.versions[ev][i]]
    BY <2>1, RecordForms
  <2>3. PICK i \in DOMAIN l.versions[ev] : p = l.versions[ev][i]
    BY <2>1, <2>2
  <2> QED
    BY <2>3 DEF Placed
<1>3. \A p, q \in VersionsOf(A) : p.stream = q.stream /\ p.version = q.version => p = q
  BY <1>2
<1>4. UniqueIds(ExtractionsOf(A))
  BY <1>1 DEF UniqueIds
<1> QED
  BY <1>1, <1>3, <1>4 DEF Normal

=============================================================================
