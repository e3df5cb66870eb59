--------------------------- MODULE EvidenceProofs ---------------------------
(***************************************************************************)
(* Theorems about EvidenceLedger, for any elections, evidence ids,         *)
(* processes and renderings and any number of writes, releases and         *)
(* crashes.  A write and a build read before they act; EvidenceInv says    *)
(* that what they have read still holds, because only the holder of the    *)
(* barrier changes the ledger: a checked row may still be inserted, what a *)
(* build has collected and what its queries will still return are all the  *)
(* records of the election, and the files that it has written are those of *)
(* the release it has signed.                                              *)
(* On top of it: the refinement of AtomicLedger, what the barrier's        *)
(* generation counts, and why later releases lose nothing.                 *)
(***************************************************************************)
EXTENDS EvidenceLedger, LedgerProofs, FiniteSums, TLAPS

----------------------------------------------------------------------------
(* What the queries of a build still have to return. *)

OfVersion(l, ev, v) ==
  AttestationRecords(l, ev, v) \cup ExtractionRecords(l, ev, v)
  \cup UNION {ReviewRecords(l, x.payload.id) : x \in ExtractionRecords(l, ev, v)}

\* The answer to a query and to all that follow from it.
Yield(l, e, q) ==
  CASE q.table = "registry" -> SnapshotRecords(l, e)
    [] q.table = "versions" ->
         VersionRecords(l, e)
         \cup UNION {OfVersion(l, k.payload.stream, k.payload.version) : k \in VersionRecords(l, e)}
    [] q.table = "attestations" -> OfVersion(l, q.evidence, q.version)
    [] q.table = "extractions" ->
         ExtractionRecords(l, q.evidence, q.version)
         \cup UNION {ReviewRecords(l, x.payload.id) :
                      x \in ExtractionRecords(l, q.evidence, q.version)}
    [] q.table = "reviews" -> ReviewRecords(l, q.extraction)

Tables == {"registry", "versions", "attestations", "extractions", "reviews"}

Pending(l, t) == UNION {Yield(l, t.election, q) : q \in ToSet(t.queries)}

LEMMA AllYielded ==
  ASSUME NEW l, NEW e
  PROVE  Records(l, e) = Yield(l, e, [table |-> "registry"]) \cup Yield(l, e, [table |-> "versions"])
  BY DEF Records, Yield, OfVersion

LEMMA QueryYields ==
  ASSUME NEW t, NEW q, q.table \in Tables,
         q.table \in {"versions", "extractions"} => IsFiniteSet(Answer(t, q))
  PROVE  LET f == Following(q, Answer(t, q))
         IN  /\ IsSeq(f) /\ \A g \in ToSet(f) : g.table \in Tables
             /\ Yield(ledger, t.election, q) =
                  Answer(t, q) \cup UNION {Yield(ledger, t.election, g) : g \in ToSet(f)}
<1> DEFINE e == t.election
           a == Answer(t, q)
           f == Following(q, a)
           Goal == /\ IsSeq(f) /\ \A g \in ToSet(f) : g.table \in Tables
                   /\ Yield(ledger, e, q) = a \cup UNION {Yield(ledger, e, g) : g \in ToSet(f)}
<1> SUFFICES Goal
  OBVIOUS
<1>1. CASE q.table = "registry" \/ q.table = "reviews"
  <2>1. f = <<>>
    BY <1>1 DEF Following
  <2>2. Yield(ledger, e, q) = a
    BY <1>1 DEF Yield, Answer
  <2> HIDE DEF f, a
  <2> QED
    BY <2>1, <2>2, EmptySequence
<1>2. CASE q.table = "versions"
  <2> DEFINE Query(r) == [table |-> "attestations", evidence |-> r.payload.stream,
                          version |-> r.payload.version]
             queries == {Query(r) : r \in a}
  <2>1. IsFiniteSet(queries)
    <3> DEFINE h == [r \in a |-> Query(r)]
    <3>1. IsFiniteSet({h[r] : r \in a})
      BY <1>2, ImageIsFinite
    <3>2. {h[r] : r \in a} = queries
      OBVIOUS
    <3> QED
      BY <3>1, <3>2
  <2>2. f = SetToSeq(queries)
    BY <1>2 DEF Following
  <2>3. IsSeq(f) /\ ToSet(f) = queries
    BY <2>1, <2>2, SetAsSequence
  <2>4. a = VersionRecords(ledger, e)
    BY <1>2 DEF Answer
  <2>5. \A r \in a : /\ Query(r).table = "attestations"
                     /\ Yield(ledger, e, Query(r)) = OfVersion(ledger, r.payload.stream, r.payload.version)
    BY DEF Yield
  <2>6. Yield(ledger, e, q) =
          a \cup UNION {OfVersion(ledger, k.payload.stream, k.payload.version) : k \in a}
    BY <1>2, <2>4 DEF Yield
  <2> HIDE DEF a, f, Query
  <2> QED
    BY <2>3, <2>5, <2>6 DEF Tables
<1>3. CASE q.table = "attestations"
  <2> DEFINE g == [table |-> "extractions", evidence |-> q.evidence, version |-> q.version]
  <2>1. f = <<g>>
    BY <1>3 DEF Following
  <2>2. IsSeq(<<g>>) /\ ToSet(<<g>>) = {g}
    BY OneElement
  <2>3. a = AttestationRecords(ledger, q.evidence, q.version)
    BY <1>3 DEF Answer
  <2>4. /\ g.table = "extractions"
        /\ Yield(ledger, e, g) = ExtractionRecords(ledger, q.evidence, q.version)
             \cup UNION {ReviewRecords(ledger, x.payload.id) :
                           x \in ExtractionRecords(ledger, q.evidence, q.version)}
    BY DEF Yield
  <2>5. Yield(ledger, e, q) = a \cup Yield(ledger, e, g)
    BY <1>3, <2>3, <2>4 DEF Yield, OfVersion
  <2> HIDE DEF a, f, g
  <2> QED
    BY <2>1, <2>2, <2>4, <2>5 DEF Tables
<1>4. CASE q.table = "extractions"
  <2> DEFINE Query(r) == [table |-> "reviews", extraction |-> r.payload.id]
             queries == {Query(r) : r \in a}
  <2>1. IsFiniteSet(queries)
    <3> DEFINE h == [r \in a |-> Query(r)]
    <3>1. IsFiniteSet({h[r] : r \in a})
      BY <1>4, ImageIsFinite
    <3>2. {h[r] : r \in a} = queries
      OBVIOUS
    <3> QED
      BY <3>1, <3>2
  <2>2. f = SetToSeq(queries)
    BY <1>4 DEF Following
  <2>3. IsSeq(f) /\ ToSet(f) = queries
    BY <2>1, <2>2, SetAsSequence
  <2>4. a = ExtractionRecords(ledger, q.evidence, q.version)
    BY <1>4 DEF Answer
  <2>5. \A r \in a : /\ Query(r).table = "reviews"
                     /\ Yield(ledger, e, Query(r)) = ReviewRecords(ledger, r.payload.id)
    BY DEF Yield
  <2>6. Yield(ledger, e, q) = a \cup UNION {ReviewRecords(ledger, r.payload.id) : r \in a}
    BY <1>4, <2>4 DEF Yield
  <2> HIDE DEF a, f, Query
  <2> QED
    BY <2>3, <2>5, <2>6 DEF Tables
<1> QED
  BY <1>1, <1>2, <1>3, <1>4 DEF Tables

----------------------------------------------------------------------------
(* The calls that processes are in. *)

Stages == {"held", "checked", "committed"}

IsAttestation(r) ==
  /\ r = [evidence |-> r.evidence, version |-> r.version, hash |-> r.hash, actor |-> r.actor]
  /\ r.evidence \in EvidenceIds /\ r.actor \in Actors
IsExtraction(x) ==
  /\ x = [id |-> x.id, evidence |-> x.evidence, version |-> x.version, hash |-> x.hash,
          supersedes |-> x.supersedes]
  /\ x.id \in ExtractionIds /\ x.evidence \in EvidenceIds
  /\ x.supersedes \in ExtractionIds \cup {None}
IsReview(r) ==
  \E id \in ExtractionIds, x \in ExtractionIds : r = [id |-> id, extraction |-> x]

SnapshotCall(t) ==
  \E at \in Stages, e \in Elections, d \in Documents :
     t = [op |-> "snapshot", at |-> at, election |-> e, document |-> d]
IngestCall(t, o) ==
  \E at \in Stages \cup {"stored"}, ev \in EvidenceIds \cup {None}, e \in Elections, a \in o :
     t = [op |-> "ingest", at |-> at, evidence |-> ev, election |-> e, artifact |-> a]
AttestCall(t) ==
  \E at \in Stages : \E r : IsAttestation(r) /\ t = [op |-> "attest", at |-> at, row |-> r]
ExtractCall(t) ==
  \E at \in Stages : \E x : IsExtraction(x) /\ t = [op |-> "extract", at |-> at, row |-> x]
ReviewCall(t) ==
  \E at \in Stages : \E r : IsReview(r) /\ t = [op |-> "review", at |-> at, row |-> r]
BuildCall(t) ==
  /\ t = [op |-> "build", election |-> t.election, records |-> t.records, next |-> t.next,
          queries |-> t.queries]
  /\ t.election \in Elections /\ t.next \in Nat /\ IsSeq(t.queries)

WriteCall(t, o) ==
  SnapshotCall(t) \/ IngestCall(t, o) \/ AttestCall(t) \/ ExtractCall(t) \/ ReviewCall(t)
Shaped(t, o) == t = Idle \/ WriteCall(t, o) \/ BuildCall(t)

InCall(t) == (t.op \in Writes /\ t.at # "stored") \/ t.op = "build"

\* What a write has read under the barrier still holds: the id that it chose is
\* new, and once it has checked the rows that it refers to, they are there.
Checked(t, l) ==
  /\ t.op = "extract" /\ t.at \in {"held", "checked"} => \A x \in l.extractions : x.id # t.row.id
  /\ t.op = "review" /\ t.at \in {"held", "checked"} => \A r \in l.reviews : r.id # t.row.id
  /\ t.op = "ingest" /\ t.at = "checked" => t.evidence \in EvidenceIds
  /\ t.op = "attest" /\ t.at = "checked" => AttestationAccepted(l, t.row)
  /\ t.op = "extract" /\ t.at = "checked" => ExtractionAccepted(l, t.row)
  /\ t.op = "review" /\ t.at = "checked" => ReviewAccepted(l, t.row)

\* What a build has collected and what its queries will still return are all
\* the records of the election, and the registry is not found empty twice.
Collected(t, l) ==
  t.op = "build" =>
    /\ t.records \cup Pending(l, t) = Records(l, t.election)
    /\ \A q \in ToSet(t.queries) : q.table \in Tables
    /\ l.registry[t.election] = <<>> => \E q \in ToSet(t.queries) : q.table = "registry"

\* The files that a build has written.
Contents(t, name) ==
  IF name \in ToSet(BaseFiles) THEN Signed(t)
  ELSE [release |-> Signed(t), semantic |-> SemanticRecords(t.records)]

Written(t, rs, d) ==
  t.op = "build" /\ t.next > 0 =>
    /\ t.queries = <<>> /\ Signed(t) \in rs
    /\ \A i \in DOMAIN Files : i < t.next => d[Files[i]] = Contents(t, Files[i])

Fits(t, l, o, rs, d) == Shaped(t, o) /\ Checked(t, l) /\ Collected(t, l) /\ Written(t, rs, d)

DirectoryFits(d, rs) ==
  /\ DOMAIN d = ToSet(Files)
  /\ \A f \in ToSet(BaseFiles) : d[f] \in rs \cup {NoFile}
  /\ \/ d["semantic.summary.json"] = NoFile
     \/ \E r, m : d["semantic.summary.json"] = [release |-> r, semantic |-> m]

EvidenceInv ==
  /\ TypeOK
  /\ LedgerOK(ledger) /\ LedgerFits(ledger, objects)
  /\ \A p \in Processes : Fits(tasks[p], ledger, objects, releases, directory)
  /\ DirectoryFits(directory, releases)
  /\ ReleasesAreClosed

LEMMA FilesOfARelease ==
  /\ DOMAIN Files = 1..Len(Files) /\ Len(Files) \in Nat
  /\ 1 \in DOMAIN Files /\ Files[1] = "records.json"
  /\ {"records.json", "manifest.json", "manifest.signature.json"} \subseteq ToSet(BaseFiles)
  /\ ToSet(Files) = ToSet(BaseFiles) \cup
       {"semantic.summary.json", "semantic.summary.signature.json"}
  /\ "semantic.summary.json" \notin ToSet(BaseFiles)
  /\ "semantic.summary.signature.json" \notin ToSet(BaseFiles)
<1> DEFINE m == <<"manifest.json", "manifest.signature.json">>
           s == <<"semantic.summary.json", "semantic.summary.signature.json">>
<1>1. /\ Renderings \in Seq(STRING) /\ Len(Renderings) \in Nat /\ Len(Renderings) > 0
      /\ DOMAIN Renderings = 1..Len(Renderings) /\ IsSeq(Renderings)
  BY RecordsFirst DEF IsSeq
<1>2. /\ IsSeq(m) /\ ToSet(m) = {"manifest.json", "manifest.signature.json"}
      /\ IsSeq(s)
      /\ ToSet(s) = {"semantic.summary.json", "semantic.summary.signature.json"}
  BY TwoElements
<1>3. BaseFiles = Renderings \o m /\ Files = BaseFiles \o s
  BY DEF BaseFiles, Files
<1> HIDE DEF m, s
<1>4. BaseFiles[1] = "records.json" /\ Len(BaseFiles) > 0 /\ Len(BaseFiles) \in Nat
  BY <1>1, <1>2, <1>3, RecordsFirst, FirstOfConcatenation
<1>5. ToSet(BaseFiles) = ToSet(Renderings) \cup ToSet(m) /\ IsSeq(BaseFiles)
  BY <1>1, <1>2, <1>3, Concatenation
<1>6. Files[1] = "records.json" /\ Len(Files) > 0 /\ Len(Files) \in Nat
  BY <1>2, <1>3, <1>4, <1>5, FirstOfConcatenation
<1>7. ToSet(Files) = ToSet(BaseFiles) \cup ToSet(s) /\ IsSeq(Files)
  BY <1>2, <1>3, <1>5, Concatenation
<1>8. /\ "records.json" \in ToSet(Renderings)
      /\ "semantic.summary.json" \notin ToSet(Renderings)
      /\ "semantic.summary.signature.json" \notin ToSet(Renderings)
  BY <1>1, RecordsFirst DEF ToSet
<1>9. /\ "semantic.summary.json" \notin ToSet(m)
      /\ "semantic.summary.signature.json" \notin ToSet(m)
  BY <1>2
<1>10. DOMAIN Files = 1..Len(Files)
  BY <1>7 DEF IsSeq
<1> QED
  BY <1>2, <1>5, <1>6, <1>7, <1>8, <1>9, <1>10

LEMMA InitEvidence == Init => EvidenceInv
<1> SUFFICES ASSUME Init PROVE EvidenceInv
  OBVIOUS
<1> USE DEF Init
<1>1. TypeOK
  BY EvidenceConstants DEF TypeOK, Holding, Idle, Writes
<1>2. LedgerOK(ledger)
  BY EmptySequence DEF LedgerOK, EmptyLedger
<1>3. LedgerFits(ledger, objects)
  <2>1. /\ \A e \in Elections : ledger.registry[e] = <<>>
        /\ \A ev \in EvidenceIds : ledger.versions[ev] = <<>>
        /\ ledger.extractions = {}
    BY DEF EmptyLedger
  <2>2. ChainVerified(<<>>)
    BY DEF ChainVerified
  <2>3. \A e : VersionRecords(ledger, e) = {}
    BY <2>1 DEF VersionRecords
  <2>4. IsFiniteSet({})
    BY FS_EmptySet
  <2>5. \A e : IsFiniteSet(VersionRecords(ledger, e))
    BY <2>3, <2>4
  <2>6. IsFiniteSet(ledger.extractions)
    BY <2>1, <2>4
  <2> QED
    BY <2>1, <2>2, <2>5, <2>6 DEF LedgerFits
<1>4. \A p \in Processes : Fits(tasks[p], ledger, objects, releases, directory)
  BY DEF Fits, Shaped, Checked, Collected, Written, Idle
<1>5. DirectoryFits(directory, releases)
  BY FilesOfARelease DEF DirectoryFits
<1> QED
  BY <1>1, <1>2, <1>3, <1>4, <1>5 DEF EvidenceInv, ReleasesAreClosed

----------------------------------------------------------------------------
(* Steps that change one call and not the ledger. *)

\* The barrier fits a process that goes on as t.
LockFits(p, t) ==
  /\ barrier' \in [holder : Processes \cup {NoProcess}, generation : Nat]
  /\ InCall(t) <=> barrier'.holder = p
  /\ \A q \in Processes \ {p} : barrier'.holder = q <=> barrier.holder = q

LEMMA Changed ==
  ASSUME TypeOK, NEW p \in Processes, NEW t, Become(p, t)
  PROVE  /\ DOMAIN tasks' = Processes
         /\ tasks'[p] = t /\ \A q \in Processes \ {p} : tasks'[q] = tasks[q]
  BY DEF TypeOK, Become

LEMMA HolderFits ==
  ASSUME TypeOK, NEW p \in Processes, NEW t, Become(p, t), LockFits(p, t)
  PROVE  \A q \in Processes : Holding(q)' <=> barrier'.holder = q
<1>1. tasks'[p] = t /\ \A q \in Processes \ {p} : tasks'[q] = tasks[q]
  BY Changed
<1> SUFFICES ASSUME NEW q \in Processes PROVE Holding(q)' <=> barrier'.holder = q
  OBVIOUS
<1>2. CASE q = p
  BY <1>1, <1>2 DEF Holding, LockFits, InCall
<1>3. CASE q # p
  BY <1>1, <1>3 DEF Holding, LockFits, TypeOK
<1> QED
  BY <1>2, <1>3

LEMMA MoreObjects ==
  ASSUME NEW t, NEW l, NEW o, NEW u, o \subseteq u
  PROVE  (Shaped(t, o) => Shaped(t, u)) /\ (LedgerFits(l, o) => LedgerFits(l, u))
<1>1. IngestCall(t, o) => IngestCall(t, u)
  BY DEF IngestCall
<1>2. LedgerFits(l, o) => LedgerFits(l, u)
  BY DEF LedgerFits
<1> QED
  BY <1>1, <1>2 DEF Shaped, WriteCall

LEMMA Becomes ==
  ASSUME EvidenceInv, NEW p \in Processes, NEW t, Become(p, t), LockFits(p, t),
         UNCHANGED <<ledger, releases, directory>>,
         objects \subseteq objects', objects' \subseteq Artifacts, crashes' \in 0..MaxCrashes,
         Fits(t, ledger, objects', releases, directory)
  PROVE  EvidenceInv'
<1>1. /\ DOMAIN tasks' = Processes
      /\ tasks'[p] = t /\ \A q \in Processes \ {p} : tasks'[q] = tasks[q]
  BY Changed DEF EvidenceInv
<1>2. TypeOK'
  BY <1>1, HolderFits DEF EvidenceInv, TypeOK, LockFits
<1>3. LedgerOK(ledger') /\ LedgerFits(ledger', objects')
  BY MoreObjects DEF EvidenceInv
<1>4. ASSUME NEW q \in Processes
      PROVE  Fits(tasks'[q], ledger', objects', releases', directory')
  <2>1. CASE q = p
    BY <2>1, <1>1
  <2>2. CASE q # p
    <3>1. tasks'[q] = tasks[q] /\ Fits(tasks[q], ledger, objects, releases, directory)
      BY <2>2, <1>1 DEF EvidenceInv
    <3>2. Shaped(tasks[q], objects')
      BY <3>1, MoreObjects DEF Fits
    <3> QED
      BY <3>1, <3>2 DEF Fits
  <2> QED
    BY <2>1, <2>2
<1>5. DirectoryFits(directory', releases') /\ ReleasesAreClosed'
  BY DEF EvidenceInv, ReleasesAreClosed
<1> QED
  BY <1>2, <1>3, <1>4, <1>5 DEF EvidenceInv

LEMMA BarrierTaken ==
  ASSUME TypeOK, NEW p \in Processes, NEW t, Hold(p), InCall(t)
  PROVE  LockFits(p, t)
<1>1. PICK h \in Processes \cup {NoProcess}, g \in Nat : barrier = [holder |-> h, generation |-> g]
  BY DEF TypeOK
<1>2. barrier' = [holder |-> p, generation |-> g] /\ h = NoProcess
  BY <1>1 DEF Hold
<1> QED
  BY <1>1, <1>2, EvidenceConstants DEF LockFits

LEMMA BarrierKept ==
  ASSUME TypeOK, NEW p \in Processes, NEW t, UNCHANGED barrier, InCall(t) <=> InCall(tasks[p])
  PROVE  LockFits(p, t)
  BY DEF LockFits, TypeOK, Holding, InCall

LEMMA BarrierFreed ==
  ASSUME TypeOK, NEW p \in Processes, NEW t, InCall(tasks[p]), ~InCall(t),
         Release(p) \/ CommitGeneration(p)
  PROVE  LockFits(p, t)
<1>1. PICK h \in Processes \cup {NoProcess}, g \in Nat : barrier = [holder |-> h, generation |-> g]
  BY DEF TypeOK
<1>2. barrier.holder = p
  BY DEF TypeOK, Holding, InCall
<1>3. h = p
  BY <1>1, <1>2
<1>4. barrier' = [holder |-> NoProcess, generation |-> g]
      \/ barrier' = [holder |-> NoProcess, generation |-> g + 1]
  BY <1>1 DEF Release, CommitGeneration
<1> QED
  BY <1>1, <1>3, <1>4, EvidenceConstants DEF LockFits

LEMMA OneInCall ==
  ASSUME TypeOK, NEW p \in Processes, NEW q \in Processes, InCall(tasks[p]), InCall(tasks[q])
  PROVE  p = q
  BY DEF TypeOK, Holding, InCall

LEMMA IdleFits ==
  ASSUME NEW l, NEW o, NEW rs, NEW d
  PROVE  Fits(Idle, l, o, rs, d) /\ ~InCall(Idle)
  BY DEF Fits, Shaped, Checked, Collected, Written, InCall, Writes, Idle

\* A call that ends, by itself or by force.
LEMMA Ends ==
  ASSUME EvidenceInv, NEW p \in Processes, Become(p, Idle),
         LockFits(p, Idle), UNCHANGED <<dataVars, releases, directory>>, crashes' \in 0..MaxCrashes
  PROVE  EvidenceInv'
<1>1. objects' = objects /\ ledger' = ledger /\ releases' = releases /\ directory' = directory
  BY DEF dataVars
<1>2. objects \subseteq Artifacts
  BY DEF EvidenceInv, TypeOK
<1> QED
  BY <1>1, <1>2, IdleFits, Becomes

----------------------------------------------------------------------------
(* Writes. *)

LEMMA Restaged ==
  ASSUME NEW t, NEW o, WriteCall(t, o), NEW at \in Stages
  PROVE  LET u == [t EXCEPT !.at = at]
         IN  /\ WriteCall(u, o) /\ u.op = t.op /\ u.at = at /\ t.op \in Writes
             /\ t.op \in {"attest", "extract", "review"} => u.row = t.row
             /\ t.op = "ingest" => u.evidence = t.evidence
<1> DEFINE u == [t EXCEPT !.at = at]
           Goal == /\ WriteCall(u, o) /\ u.op = t.op /\ u.at = at /\ t.op \in Writes
                   /\ t.op \in {"attest", "extract", "review"} => u.row = t.row
                   /\ t.op = "ingest" => u.evidence = t.evidence
<1> SUFFICES Goal
  OBVIOUS
<1>1. CASE SnapshotCall(t)
  <2>1. PICK s \in Stages, e \in Elections, d \in Documents :
          t = [op |-> "snapshot", at |-> s, election |-> e, document |-> d]
    BY <1>1 DEF SnapshotCall
  <2>2. u = [op |-> "snapshot", at |-> at, election |-> e, document |-> d]
    BY <2>1
  <2>3. SnapshotCall(u)
    BY <2>2 DEF SnapshotCall
  <2> QED
    BY <2>1, <2>2, <2>3 DEF WriteCall, Writes
<1>2. CASE IngestCall(t, o)
  <2>1. PICK s \in Stages \cup {"stored"}, ev \in EvidenceIds \cup {None}, e \in Elections, a \in o :
          t = [op |-> "ingest", at |-> s, evidence |-> ev, election |-> e, artifact |-> a]
    BY <1>2 DEF IngestCall
  <2>2. u = [op |-> "ingest", at |-> at, evidence |-> ev, election |-> e, artifact |-> a]
    BY <2>1
  <2>3. IngestCall(u, o)
    BY <2>2 DEF IngestCall
  <2> QED
    BY <2>1, <2>2, <2>3 DEF WriteCall, Writes
<1>3. CASE AttestCall(t)
  <2>0. PICK s \in Stages : \E r : IsAttestation(r) /\ t = [op |-> "attest", at |-> s, row |-> r]
    BY <1>3 DEF AttestCall
  <2>1. PICK r : IsAttestation(r) /\ t = [op |-> "attest", at |-> s, row |-> r]
    BY <2>0
  <2>2. u = [op |-> "attest", at |-> at, row |-> r]
    BY <2>1
  <2>3. AttestCall(u)
    BY <2>1, <2>2 DEF AttestCall
  <2> QED
    BY <2>1, <2>2, <2>3 DEF WriteCall, Writes
<1>4. CASE ExtractCall(t)
  <2>0. PICK s \in Stages : \E r : IsExtraction(r) /\ t = [op |-> "extract", at |-> s, row |-> r]
    BY <1>4 DEF ExtractCall
  <2>1. PICK r : IsExtraction(r) /\ t = [op |-> "extract", at |-> s, row |-> r]
    BY <2>0
  <2>2. u = [op |-> "extract", at |-> at, row |-> r]
    BY <2>1
  <2>3. ExtractCall(u)
    BY <2>1, <2>2 DEF ExtractCall
  <2> QED
    BY <2>1, <2>2, <2>3 DEF WriteCall, Writes
<1>5. CASE ReviewCall(t)
  <2>0. PICK s \in Stages : \E r : IsReview(r) /\ t = [op |-> "review", at |-> s, row |-> r]
    BY <1>5 DEF ReviewCall
  <2>1. PICK r : IsReview(r) /\ t = [op |-> "review", at |-> s, row |-> r]
    BY <2>0
  <2>2. u = [op |-> "review", at |-> at, row |-> r]
    BY <2>1
  <2>3. ReviewCall(u)
    BY <2>1, <2>2 DEF ReviewCall
  <2> QED
    BY <2>1, <2>2, <2>3 DEF WriteCall, Writes
<1> QED
  BY <1>1, <1>2, <1>3, <1>4, <1>5 DEF WriteCall

\* The three shapes of calls do not overlap, and the fields say which it is.
LEMMA ShapesAreDistinct ==
  ASSUME NEW t, NEW o, Shaped(t, o)
  PROVE  /\ t.op \in Writes => WriteCall(t, o)
         /\ t.op = "build" => BuildCall(t)
         /\ t.op = "snapshot" => SnapshotCall(t)
         /\ t.op = "ingest" => IngestCall(t, o)
         /\ t.op = "attest" => AttestCall(t)
         /\ t.op = "extract" => ExtractCall(t)
         /\ t.op = "review" => ReviewCall(t)
<1>1. t = Idle => t.op = "idle"
  BY DEF Idle
<1>2. SnapshotCall(t) => t.op = "snapshot"
  BY DEF SnapshotCall
<1>3. IngestCall(t, o) => t.op = "ingest"
  BY DEF IngestCall
<1>4. AttestCall(t) => t.op = "attest"
  BY DEF AttestCall
<1>5. ExtractCall(t) => t.op = "extract"
  BY DEF ExtractCall
<1>6. ReviewCall(t) => t.op = "review"
  BY DEF ReviewCall
<1>7. BuildCall(t) => t.op = "build"
  BY DEF BuildCall
<1> QED
  BY <1>1, <1>2, <1>3, <1>4, <1>5, <1>6, <1>7 DEF Shaped, WriteCall, Writes

LEMMA WriteFits ==
  ASSUME NEW t, NEW l, NEW o, NEW rs, NEW d, WriteCall(t, o), Checked(t, l)
  PROVE  Fits(t, l, o, rs, d)
<1>1. t.op # "build"
  BY DEF WriteCall, SnapshotCall, IngestCall, AttestCall, ExtractCall, ReviewCall
<1> QED
  BY <1>1 DEF Fits, Shaped, Collected, Written

LEMMA PutArtifactKeeps ==
  ASSUME EvidenceInv, NEW p \in Processes, PutArtifact(p)
  PROVE  EvidenceInv'
<1>1. PICK a \in Artifacts, e \in Elections, ev \in EvidenceIds \cup {None} :
        /\ objects' = objects \cup {a}
        /\ Become(p, [op |-> "ingest", at |-> "stored", evidence |-> ev,
                      election |-> e, artifact |-> a])
  BY DEF PutArtifact
<1> DEFINE t == [op |-> "ingest", at |-> "stored", evidence |-> ev, election |-> e, artifact |-> a]
<1>2. WriteCall(t, objects')
  BY <1>1 DEF WriteCall, IngestCall
<1>3. Checked(t, ledger) /\ ~InCall(t) /\ ~InCall(tasks[p])
  BY DEF Checked, InCall, PutArtifact, Idle, Writes
<1>4. Become(p, t)
  BY <1>1
<1> HIDE DEF t
<1>5. LockFits(p, t)
  BY <1>3, BarrierKept DEF PutArtifact, EvidenceInv
<1>6. objects \subseteq objects' /\ objects' \subseteq Artifacts /\ crashes' \in 0..MaxCrashes
  BY <1>1 DEF EvidenceInv, TypeOK, PutArtifact
<1>7. UNCHANGED <<ledger, releases, directory>>
  BY DEF PutArtifact
<1> QED
  BY <1>2, <1>3, <1>4, <1>5, <1>6, <1>7, WriteFits, Becomes


LEMMA BeginWriteKeeps ==
  ASSUME EvidenceInv, NEW p \in Processes, BeginWrite(p)
  PROVE  EvidenceInv'
<1>1. /\ Hold(p) /\ UNCHANGED <<ledger, releases, directory>> /\ objects' = objects
      /\ objects \subseteq Artifacts /\ crashes' \in 0..MaxCrashes
      /\ TypeOK /\ LedgerFits(ledger, objects)
      /\ Fits(tasks[p], ledger, objects, releases, directory)
  BY DEF BeginWrite, dataVars, EvidenceInv, TypeOK
<1>2. ASSUME NEW t, Become(p, t), WriteCall(t, objects), Checked(t, ledger), InCall(t)
      PROVE  EvidenceInv'
  BY <1>1, <1>2, WriteFits, BarrierTaken, Becomes
<1>3. ASSUME tasks[p].op = "ingest", Become(p, [tasks[p] EXCEPT !.at = "held"])
      PROVE  EvidenceInv'
  <2> DEFINE t == [tasks[p] EXCEPT !.at = "held"]
  <2>1. WriteCall(tasks[p], objects)
    BY <1>1, <1>3, ShapesAreDistinct DEF Fits, Writes
  <2>2. WriteCall(t, objects) /\ t.op = "ingest" /\ t.at = "held"
    BY <2>1, <1>3, Restaged DEF Stages
  <2> HIDE DEF t
  <2>3. Checked(t, ledger) /\ InCall(t)
    BY <2>2 DEF Checked, InCall, Writes
  <2> QED
    BY <1>2, <1>3, <2>2, <2>3 DEF t
<1>4. ASSUME NEW t \in Requests, Become(p, t)
      PROVE  EvidenceInv'
  <2>1. CASE t \in [op : {"snapshot"}, at : {"held"}, election : Elections, document : Documents]
    <3>1. PICK e \in Elections, d \in Documents :
            t = [op |-> "snapshot", at |-> "held", election |-> e, document |-> d]
      BY <2>1
    <3>2. WriteCall(t, objects) /\ Checked(t, ledger) /\ InCall(t)
      BY <3>1 DEF WriteCall, SnapshotCall, Checked, InCall, Writes, Stages
    <3> QED
      BY <3>2, <1>2, <1>4
  <2>2. ASSUME NEW ev \in EvidenceIds, NEW v, NEW actor \in Actors, NEW h,
               t = [op |-> "attest", at |-> "held",
                    row |-> [evidence |-> ev, version |-> v, hash |-> h, actor |-> actor]]
        PROVE  EvidenceInv'
    <3> DEFINE r == [evidence |-> ev, version |-> v, hash |-> h, actor |-> actor]
    <3>1. IsAttestation(r)
      BY DEF IsAttestation
    <3> HIDE DEF r
    <3>2. t = [op |-> "attest", at |-> "held", row |-> r]
      BY <2>2 DEF r
    <3>3. WriteCall(t, objects)
      BY <3>1, <3>2 DEF WriteCall, AttestCall, Stages
    <3>4. Checked(t, ledger) /\ InCall(t)
      BY <3>2 DEF Checked, InCall, Writes
    <3> QED
      BY <3>3, <3>4, <1>2, <1>4
  <2>3. ASSUME NEW id \in ExtractionIds \ {x.id : x \in ledger.extractions},
               NEW ev \in EvidenceIds, NEW v, NEW h,
               NEW s \in {None} \cup {x.id : x \in ledger.extractions},
               t = [op |-> "extract", at |-> "held",
                    row |-> [id |-> id, evidence |-> ev, version |-> v, hash |-> h, supersedes |-> s]]
        PROVE  EvidenceInv'
    <3> DEFINE r == [id |-> id, evidence |-> ev, version |-> v, hash |-> h, supersedes |-> s]
    <3>1. s \in ExtractionIds \cup {None}
      BY <1>1 DEF LedgerFits
    <3>2. IsExtraction(r) /\ r.id = id
      BY <3>1 DEF IsExtraction
    <3> HIDE DEF r
    <3>3. t = [op |-> "extract", at |-> "held", row |-> r]
      BY <2>3 DEF r
    <3>4. WriteCall(t, objects)
      BY <3>2, <3>3 DEF WriteCall, ExtractCall, Stages
    <3>5. Checked(t, ledger) /\ InCall(t)
      BY <3>2, <3>3 DEF Checked, InCall, Writes
    <3> QED
      BY <3>4, <3>5, <1>2, <1>4
  <2>4. ASSUME NEW id \in ExtractionIds \ {r.id : r \in ledger.reviews}, NEW x \in ExtractionIds,
               t = [op |-> "review", at |-> "held", row |-> [id |-> id, extraction |-> x]]
        PROVE  EvidenceInv'
    <3> DEFINE r == [id |-> id, extraction |-> x]
    <3>1. IsReview(r) /\ r.id = id
      BY DEF IsReview
    <3> HIDE DEF r
    <3>2. t = [op |-> "review", at |-> "held", row |-> r]
      BY <2>4 DEF r
    <3>3. WriteCall(t, objects)
      BY <3>1, <3>2 DEF WriteCall, ReviewCall, Stages
    <3>4. Checked(t, ledger) /\ InCall(t)
      BY <3>1, <3>2 DEF Checked, InCall, Writes
    <3> QED
      BY <3>3, <3>4, <1>2, <1>4
  <2> QED
    BY <2>1, <2>2, <2>3, <2>4, <1>4 DEF Requests
<1> QED
  BY <1>3, <1>4 DEF BeginWrite

LEMMA ReadAndCheckKeeps ==
  ASSUME EvidenceInv, NEW p \in Processes, ReadAndCheck(p)
  PROVE  EvidenceInv'
<1>1. /\ UNCHANGED <<ledger, releases, directory>> /\ objects' = objects
      /\ objects \subseteq Artifacts /\ crashes' \in 0..MaxCrashes
      /\ TypeOK /\ Fits(tasks[p], ledger, objects, releases, directory)
      /\ tasks[p].op \in Writes /\ tasks[p].at = "held" /\ InCall(tasks[p])
  BY DEF ReadAndCheck, dataVars, EvidenceInv, TypeOK, InCall
<1>2. WriteCall(tasks[p], objects)
  BY <1>1, ShapesAreDistinct DEF Fits
<1>3. ASSUME NEW t \in Accepted(tasks[p]), Become(p, [t EXCEPT !.at = "checked"]),
             UNCHANGED barrier
      PROVE  EvidenceInv'
  <2> DEFINE u == [t EXCEPT !.at = "checked"]
  <2>1. /\ WriteCall(t, objects) /\ t.op = tasks[p].op
        /\ t.op = "ingest" => t.evidence \in EvidenceIds
        /\ t.op # "ingest" => t = tasks[p]
    <3>1. CASE tasks[p].op = "ingest"
      <4>1. IngestCall(tasks[p], objects)
        BY <1>1, <3>1, ShapesAreDistinct DEF Fits
      <4>2. PICK s \in Stages \cup {"stored"}, ev \in EvidenceIds \cup {None},
                 e \in Elections, a \in objects :
              tasks[p] = [op |-> "ingest", at |-> s, evidence |-> ev, election |-> e, artifact |-> a]
        BY <4>1 DEF IngestCall
      <4>3. PICK x \in EvidenceIds : t = [tasks[p] EXCEPT !.evidence = x]
        BY <1>3, <3>1 DEF Accepted
      <4>4. t = [op |-> "ingest", at |-> s, evidence |-> x, election |-> e, artifact |-> a]
        BY <4>2, <4>3
      <4> QED
        BY <4>2, <4>4 DEF WriteCall, IngestCall
    <3>2. CASE tasks[p].op # "ingest"
      <4>1. t = tasks[p]
        BY <1>1, <1>3, <3>2 DEF Accepted, Writes
      <4> QED
        BY <4>1, <3>2, <1>2
    <3> QED
      BY <3>1, <3>2
  <2>2. /\ WriteCall(u, objects) /\ u.op = t.op /\ u.at = "checked" /\ t.op \in Writes
        /\ t.op \in {"attest", "extract", "review"} => u.row = t.row
        /\ t.op = "ingest" => u.evidence = t.evidence
    BY <2>1, Restaged DEF Stages
  <2> HIDE DEF u
  <2>3. /\ t.op = "attest" => AttestationAccepted(ledger, t.row)
        /\ t.op = "extract" => ExtractionAccepted(ledger, t.row)
        /\ t.op = "review" => ReviewAccepted(ledger, t.row)
    BY <1>3, <2>1 DEF Accepted
  <2>4. Checked(t, ledger)
    BY <1>1, <2>1, <2>2 DEF Fits, Checked
  <2>5. tasks[p].op # "ingest" => t.at = "held"
    BY <1>1, <2>1
  <2>6. Checked(u, ledger)
    BY <2>1, <2>2, <2>3, <2>4, <2>5 DEF Checked
  <2>7. InCall(u)
    BY <2>2 DEF InCall
  <2>8. Become(p, u)
    BY <1>3 DEF u
  <2> QED
    BY <1>1, <1>3, <2>2, <2>6, <2>7, <2>8, WriteFits, BarrierKept, Becomes
<1>4. CASE Become(p, Idle) /\ Release(p)
  BY <1>1, <1>4, IdleFits, BarrierFreed, Ends DEF dataVars
<1> QED
  BY <1>3, <1>4 DEF ReadAndCheck

LEMMA InsertedFits ==
  ASSUME EvidenceInv, NEW p \in Processes, CommitData(p)
  PROVE  LedgerOK(ledger') /\ LedgerFits(ledger', objects)
<1> DEFINE t == tasks[p]
<1>1. /\ LedgerOK(ledger) /\ LedgerFits(ledger, objects)
      /\ Shaped(t, objects) /\ Checked(t, ledger)
      /\ t.op \in Writes /\ t.at = "checked" /\ ledger' = Inserted(t)
  BY DEF EvidenceInv, CommitData, Fits
<1>2. CASE t.op = "snapshot"
  <2>1. t.election \in Elections
    BY <1>1, <1>2, ShapesAreDistinct DEF SnapshotCall
  <2>2. ledger' = WithSnapshot(ledger, t.election, t.document)
    BY <1>1, <1>2 DEF Inserted
  <2> HIDE DEF t
  <2> QED
    BY <1>1, <2>1, <2>2, SnapshotGrows, SnapshotFits
<1>3. CASE t.op = "ingest"
  <2>1. t.election \in Elections /\ t.artifact \in objects
    BY <1>1, <1>3, ShapesAreDistinct DEF IngestCall
  <2>2. t.evidence \in EvidenceIds
    BY <1>1, <1>3 DEF Checked
  <2>3. ledger' = WithVersion(ledger, t.evidence, t.election, t.artifact)
    BY <1>1, <1>3 DEF Inserted
  <2> HIDE DEF t
  <2> QED
    BY <1>1, <2>1, <2>2, <2>3, VersionGrows, VersionFits
<1>4. CASE t.op = "attest"
  <2>1. ledger' = WithAttestation(ledger, t.row)
    BY <1>1, <1>4 DEF Inserted
  <2> HIDE DEF t
  <2> QED
    BY <1>1, <2>1, OthersGrow, OthersFit
<1>5. CASE t.op = "extract"
  <2>1. ledger' = WithExtraction(ledger, t.row)
    BY <1>1, <1>5 DEF Inserted
  <2>2. ExtractionAccepted(ledger, t.row)
    BY <1>1, <1>5 DEF Checked
  <2>3. t.row.id \in ExtractionIds
    BY <1>1, <1>5, ShapesAreDistinct DEF ExtractCall, IsExtraction
  <2> HIDE DEF t
  <2> QED
    BY <1>1, <2>1, <2>2, <2>3, OthersGrow, OthersFit
<1>6. CASE t.op = "review"
  <2>1. ledger' = WithReview(ledger, t.row)
    BY <1>1, <1>6 DEF Inserted
  <2> HIDE DEF t
  <2> QED
    BY <1>1, <2>1, OthersGrow, OthersFit
<1> QED
  BY <1>1, <1>2, <1>3, <1>4, <1>5, <1>6 DEF Writes

\* Whoever is not in a call has read nothing that a write could change.
LEMMA OutsideFits ==
  ASSUME NEW t, NEW l, NEW k, NEW o, NEW rs, NEW d, Fits(t, l, o, rs, d), ~InCall(t)
  PROVE  Fits(t, k, o, rs, d)
<1>1. t.op # "build" /\ (t.op \in Writes => t.at = "stored")
  BY DEF InCall
<1>2. Checked(t, k)
  BY <1>1 DEF Checked, Writes
<1> QED
  BY <1>1, <1>2 DEF Fits, Collected, Written

LEMMA CommitDataKeeps ==
  ASSUME EvidenceInv, NEW p \in Processes, CommitData(p)
  PROVE  EvidenceInv'
<1> DEFINE t == [tasks[p] EXCEPT !.at = "committed"]
<1>1. /\ Become(p, t) /\ UNCHANGED <<objects, barrier, releases, directory, crashes>>
      /\ TypeOK /\ tasks[p].op \in Writes /\ InCall(tasks[p])
      /\ Fits(tasks[p], ledger, objects, releases, directory)
  BY DEF CommitData, EvidenceInv, InCall
<1>2. WriteCall(t, objects) /\ t.op \in Writes /\ t.at = "committed"
  BY <1>1, ShapesAreDistinct, Restaged DEF Fits, Stages
<1> HIDE DEF t
<1>3. Checked(t, ledger') /\ InCall(t)
  BY <1>2 DEF Checked, InCall
<1>4. tasks'[p] = t /\ \A q \in Processes \ {p} : tasks'[q] = tasks[q]
  BY <1>1, Changed
<1>5. LockFits(p, t)
  BY <1>1, <1>3, BarrierKept
<1>6. TypeOK'
  BY <1>1, <1>5, Changed, HolderFits DEF TypeOK, LockFits
<1>7. ASSUME NEW q \in Processes
      PROVE  Fits(tasks'[q], ledger', objects', releases', directory')
  <2>1. CASE q = p
    BY <2>1, <1>1, <1>2, <1>3, <1>4, WriteFits
  <2>2. CASE q # p
    <3>1. ~InCall(tasks[q])
      BY <2>2, <1>1, OneInCall
    <3>2. Fits(tasks[q], ledger, objects, releases, directory) /\ tasks'[q] = tasks[q]
      BY <2>2, <1>4 DEF EvidenceInv
    <3> QED
      BY <3>1, <3>2, <1>1, OutsideFits
  <2> QED
    BY <2>1, <2>2
<1>8. DirectoryFits(directory', releases') /\ ReleasesAreClosed'
  BY <1>1 DEF EvidenceInv, ReleasesAreClosed
<1> QED
  BY <1>1, <1>6, <1>7, <1>8, InsertedFits DEF EvidenceInv

LEMMA CommitBarrierKeeps ==
  ASSUME EvidenceInv, NEW p \in Processes, CommitBarrier(p)
  PROVE  EvidenceInv'
<1>1. /\ Become(p, Idle) /\ CommitGeneration(p) /\ UNCHANGED <<dataVars, releases, directory>>
      /\ crashes' \in 0..MaxCrashes /\ TypeOK /\ InCall(tasks[p])
  BY DEF CommitBarrier, EvidenceInv, TypeOK, InCall
<1> QED
  BY <1>1, IdleFits, BarrierFreed, Ends


----------------------------------------------------------------------------
(* Builds. *)

LEMMA BeginBuildKeeps ==
  ASSUME EvidenceInv, NEW p \in Processes, BeginBuild(p)
  PROVE  EvidenceInv'
<1>1. /\ Hold(p) /\ UNCHANGED <<ledger, releases, directory>> /\ objects' = objects
      /\ objects \subseteq Artifacts /\ crashes' \in 0..MaxCrashes /\ TypeOK
  BY DEF BeginBuild, dataVars, EvidenceInv, TypeOK
<1> DEFINE registry == [table |-> "registry"]
           versions == [table |-> "versions"]
           qs == <<registry, versions>>
<1>2. PICK e \in Elections :
        Become(p, [op |-> "build", election |-> e, records |-> {}, next |-> 0, queries |-> qs])
  BY DEF BeginBuild
<1>3. /\ registry.table = "registry" /\ registry.table \in Tables
      /\ versions.table = "versions" /\ versions.table \in Tables
  BY DEF Tables
<1>4. Records(ledger, e) = Yield(ledger, e, registry) \cup Yield(ledger, e, versions)
  BY AllYielded
<1> HIDE DEF registry, versions
<1>5. IsSeq(qs) /\ ToSet(qs) = {registry, versions}
  BY TwoElements
<1> HIDE DEF qs
<1> DEFINE t == [op |-> "build", election |-> e, records |-> {}, next |-> 0, queries |-> qs]
<1>6. /\ t.op = "build" /\ t.election = e /\ t.records = {} /\ t.next = 0 /\ t.queries = qs
      /\ Become(p, t)
  BY <1>2
<1>7. BuildCall(t)
  BY <1>5 DEF BuildCall
<1> HIDE DEF t
<1>8. Pending(ledger, t) = Yield(ledger, e, registry) \cup Yield(ledger, e, versions)
  BY <1>5, <1>6 DEF Pending
<1>9. Collected(t, ledger)
  BY <1>3, <1>4, <1>5, <1>6, <1>8 DEF Collected
<1>10. Fits(t, ledger, objects, releases, directory)
  BY <1>6, <1>7, <1>9 DEF Fits, Shaped, Checked, Written
<1>11. InCall(t)
  BY <1>6 DEF InCall
<1> QED
  BY <1>1, <1>6, <1>10, <1>11, BarrierTaken, Becomes

LEMMA AnswersAreFinite ==
  ASSUME LedgerOK(ledger), LedgerFits(ledger, objects), NEW t, t.election \in Elections,
         NEW q, q.table \in {"versions", "extractions"}
  PROVE  IsFiniteSet(Answer(t, q))
<1>1. CASE q.table = "versions"
  BY <1>1 DEF Answer, LedgerFits
<1>2. CASE q.table = "extractions"
  <2> DEFINE S == {y \in ledger.extractions : y.evidence = q.evidence /\ y.version = q.version}
             h == [x \in S |-> [type |-> "extraction", key |-> <<x.id>>, payload |-> x]]
  <2>1. IsFiniteSet(S)
    BY FS_Subset DEF LedgerFits
  <2>2. IsFiniteSet({h[x] : x \in S})
    <3> HIDE DEF S
    <3>1. DOMAIN h = S
      OBVIOUS
    <3> HIDE DEF h
    <3> QED
      BY <2>1, <3>1, ImageIsFinite
  <2>3. {h[x] : x \in S} = ExtractionRecords(ledger, q.evidence, q.version)
    BY DEF ExtractionRecords
  <2>4. Answer(t, q) = ExtractionRecords(ledger, q.evidence, q.version)
    BY <1>2 DEF Answer
  <2> QED
    BY <2>2, <2>3, <2>4
<1> QED
  BY <1>1, <1>2

\* u is the build t with other records, queries and next file.
GoesOn(t, u, rs, qs, n) ==
  /\ BuildCall(u) /\ u.op = "build" /\ u.election = t.election
  /\ u.records = rs /\ u.queries = qs /\ u.next = n

LEMMA BuildCollects ==
  ASSUME NEW t, BuildCall(t), NEW rs, NEW qs, IsSeq(qs)
  PROVE  GoesOn(t, [t EXCEPT !.records = rs, !.queries = qs], rs, qs, t.next)
<1>1. PICK e, r, m, q :
        t = [op |-> "build", election |-> e, records |-> r, next |-> m, queries |-> q]
  BY DEF BuildCall
<1> DEFINE s == [t EXCEPT !.records = rs]
           u == [s EXCEPT !.queries = qs]
<1>2. s = [op |-> "build", election |-> e, records |-> rs, next |-> m, queries |-> q]
  BY <1>1
<1> HIDE DEF s
<1>3. u = [op |-> "build", election |-> e, records |-> rs, next |-> m, queries |-> qs]
  BY <1>2
<1>4. [t EXCEPT !.records = rs, !.queries = qs] = u
  BY DEF s
<1> HIDE DEF u
<1>5. e \in Elections /\ m \in Nat /\ IsSeq(q)
  BY <1>1 DEF BuildCall
<1>6. GoesOn(t, u, rs, qs, t.next)
  BY <1>1, <1>3, <1>5 DEF BuildCall, GoesOn
<1> QED
  BY <1>4, <1>6

LEMMA BuildAdvances ==
  ASSUME NEW t, BuildCall(t), NEW n \in Nat
  PROVE  GoesOn(t, [t EXCEPT !.next = n], t.records, t.queries, n)
<1>1. PICK e, r, m, q :
        t = [op |-> "build", election |-> e, records |-> r, next |-> m, queries |-> q]
  BY DEF BuildCall
<1> DEFINE u == [t EXCEPT !.next = n]
<1>2. u = [op |-> "build", election |-> e, records |-> r, next |-> n, queries |-> q]
  BY <1>1
<1>3. e \in Elections /\ IsSeq(q)
  BY <1>1 DEF BuildCall
<1> HIDE DEF u
<1>4. GoesOn(t, u, t.records, t.queries, n)
  BY <1>1, <1>2, <1>3 DEF BuildCall, GoesOn
<1> QED
  BY <1>4 DEF u

LEMMA PendingYields ==
  \A l, t, r : r \in Pending(l, t) <=> \E q \in ToSet(t.queries) : r \in Yield(l, t.election, q)
  BY DEF Pending

LEMMA CollectKeeps ==
  ASSUME EvidenceInv, NEW p \in Processes, Collect(p)
  PROVE  EvidenceInv'
<1> DEFINE t == tasks[p]
           q == Head(t.queries)
           answer == Answer(t, q)
           rest == Following(q, answer) \o Tail(t.queries)
           u == [t EXCEPT !.records = @ \cup answer, !.queries = rest]
<1>1. /\ UNCHANGED <<ledger, releases, directory>> /\ objects' = objects
      /\ objects \subseteq Artifacts /\ crashes' \in 0..MaxCrashes
      /\ TypeOK /\ Fits(t, ledger, objects, releases, directory)
      /\ LedgerOK(ledger) /\ LedgerFits(ledger, objects)
      /\ t.op = "build" /\ t.queries # <<>> /\ InCall(t)
  BY DEF Collect, dataVars, EvidenceInv, TypeOK, InCall
<1>2. CASE Become(p, Idle) /\ Release(p)
  BY <1>1, <1>2, IdleFits, BarrierFreed, Ends DEF dataVars
<1>3. ASSUME q.table = "registry" => answer # {}, Become(p, u), UNCHANGED barrier
      PROVE  EvidenceInv'
  <2> DEFINE e == t.election
             qs == t.queries
  <2>1. BuildCall(t)
    BY <1>1, ShapesAreDistinct DEF Fits
  <2>2. e \in Elections /\ IsSeq(qs)
    BY <2>1 DEF BuildCall
  <2>3. t.next = 0
    BY <1>1, <2>1 DEF Fits, Written, BuildCall
  <2>4. /\ t.records \cup Pending(ledger, t) = Records(ledger, e)
        /\ \A g \in ToSet(qs) : g.table \in Tables
        /\ ledger.registry[e] = <<>> => \E g \in ToSet(qs) : g.table = "registry"
    BY <1>1 DEF Fits, Collected
  <2>5. IsSeq(Tail(qs)) /\ ToSet(qs) = {q} \cup ToSet(Tail(qs))
    BY <1>1, <2>2, HeadAndTail
  <2>6. q.table \in Tables
    BY <2>4, <2>5
  <2> DEFINE f == Following(q, answer)
             Y(g) == Yield(ledger, e, g)
  <2>7. q.table \in {"versions", "extractions"} => IsFiniteSet(answer)
    BY <1>1, <2>2, AnswersAreFinite
  <2>8. IsSeq(f) /\ \A g \in ToSet(f) : g.table \in Tables
    BY <2>6, <2>7, QueryYields
  <2>9. Y(q) = answer \cup UNION {Y(g) : g \in ToSet(f)}
    BY <2>6, <2>7, QueryYields
  <2>10. IsSeq(rest) /\ ToSet(rest) = ToSet(f) \cup ToSet(Tail(qs))
    BY <2>2, <2>5, <2>8, Concatenation
  <2>11. q.table = "registry" => ledger.registry[e] # <<>>
    <3>1. q.table = "registry" => answer = SnapshotRecords(ledger, e)
      BY DEF Answer
    <3>2. ledger.registry[e] = <<>> => SnapshotRecords(ledger, e) = {}
      BY DEF SnapshotRecords
    <3> QED
      BY <1>3, <3>1, <3>2
  <2> HIDE DEF u, rest, answer, q, f
  <2>12. /\ u.op = "build" /\ u.election = e /\ u.records = t.records \cup answer
         /\ u.queries = rest /\ u.next = 0 /\ BuildCall(u)
    <3>1. GoesOn(t, u, t.records \cup answer, rest, t.next)
      BY <2>1, <2>10, BuildCollects DEF u
    <3> QED
      BY <2>3, <3>1 DEF GoesOn
  <2>13. u.records \cup Pending(ledger, u) = Records(ledger, e)
    <3>1. ASSUME NEW r
          PROVE  r \in u.records \cup Pending(ledger, u) <=> r \in t.records \cup Pending(ledger, t)
      <4>1. r \in Pending(ledger, u) <=> \E g \in ToSet(rest) : r \in Yield(ledger, e, g)
        BY <2>12, PendingYields
      <4>2. r \in Pending(ledger, t) <=> \E g \in ToSet(qs) : r \in Yield(ledger, e, g)
        BY PendingYields
      <4>3. r \in Y(q) <=> r \in answer \/ \E g \in ToSet(f) : r \in Yield(ledger, e, g)
        BY <2>9
      <4> QED
        BY <2>5, <2>10, <2>12, <4>1, <4>2, <4>3
    <3> QED
      BY <2>4, <3>1
  <2>14. Collected(u, ledger)
    BY <2>4, <2>5, <2>8, <2>10, <2>11, <2>12, <2>13 DEF Collected
  <2>15. Fits(u, ledger, objects, releases, directory)
    BY <2>12, <2>14 DEF Fits, Shaped, Checked, Written
  <2>16. InCall(u)
    BY <2>12 DEF InCall
  <2> QED
    BY <1>1, <1>3, <2>15, <2>16, BarrierKept, Becomes
<1> QED
  BY <1>2, <1>3 DEF Collect

LEMMA SignKeeps ==
  ASSUME EvidenceInv, NEW p \in Processes, Sign(p)
  PROVE  EvidenceInv' /\ tasks[p].records = Records(ledger, tasks[p].election)
         /\ ledger.registry[tasks[p].election] # <<>>
<1> DEFINE t == tasks[p]
           u == [t EXCEPT !.next = 1]
<1>1. /\ UNCHANGED <<ledger, objects, barrier, directory, crashes>>
      /\ TypeOK /\ Fits(t, ledger, objects, releases, directory)
      /\ LedgerOK(ledger) /\ LedgerFits(ledger, objects)
      /\ t.op = "build" /\ t.queries = <<>> /\ t.next = 0 /\ InCall(t)
      /\ KeysAreUnique(t.records) /\ releases' = releases \cup {Signed(t)}
      /\ Become(p, u)
  BY DEF Sign, dataVars, EvidenceInv, InCall
<1>2. BuildCall(t)
  BY <1>1, ShapesAreDistinct DEF Fits
<1>3. t.records = Records(ledger, t.election) /\ ledger.registry[t.election] # <<>>
  BY <1>1, EmptySequence DEF Fits, Collected, Pending
<1>4. /\ BuildCall(u) /\ u.op = "build" /\ u.election = t.election
      /\ u.records = t.records /\ u.queries = t.queries /\ u.next = 1
  <2>1. 1 \in Nat
    BY <1>2
  <2>2. GoesOn(t, u, t.records, t.queries, 1)
    BY <1>2, <2>1, BuildAdvances
  <2> QED
    BY <2>2 DEF GoesOn
<1>5. tasks'[p] = u /\ \A q \in Processes \ {p} : tasks'[q] = tasks[q]
  BY <1>1, Changed
<1> HIDE DEF t, u
<1>6. InCall(u)
  BY <1>4 DEF InCall
<1>7. LockFits(p, u) /\ Become(p, u)
  BY <1>1, <1>6, BarrierKept DEF t
<1>8. TypeOK'
  BY <1>1, <1>7, Changed, HolderFits DEF TypeOK, LockFits
<1>9. Signed(u) = Signed(t)
  BY <1>4 DEF Signed
<1>10. Written(u, releases', directory)
  <2>1. \A i \in DOMAIN Files : i < 1 => directory[Files[i]] = Contents(u, Files[i])
    BY FilesOfARelease
  <2> QED
    BY <2>1, <1>1, <1>4, <1>9 DEF Written
<1>11. Collected(u, ledger)
  BY <1>1, <1>4 DEF Fits, Collected, Pending
<1>12. ASSUME NEW q \in Processes
       PROVE  Fits(tasks'[q], ledger', objects', releases', directory')
  <2>1. CASE q = p
    BY <2>1, <1>1, <1>4, <1>5, <1>10, <1>11 DEF Fits, Shaped, Checked
  <2>2. CASE q # p
    BY <2>2, <1>1, <1>5 DEF EvidenceInv, Fits, Written
  <2> QED
    BY <2>1, <2>2
<1>13. DirectoryFits(directory', releases')
  BY <1>1 DEF EvidenceInv, DirectoryFits
<1>14. ReleasesAreClosed'
  <2>1. ReferencesClosed(t.records)
    BY <1>1, <1>3, FittingIsClosed
  <2>2. Signed(t).records = t.records
    BY DEF Signed
  <2> QED
    BY <2>1, <2>2, <1>1 DEF EvidenceInv, ReleasesAreClosed
<1> QED
  BY <1>1, <1>3, <1>8, <1>12, <1>13, <1>14 DEF EvidenceInv, t

LEMMA WriteFileKeeps ==
  ASSUME EvidenceInv, NEW p \in Processes, WriteFile(p)
  PROVE  EvidenceInv'
<1> DEFINE t == tasks[p]
           u == [t EXCEPT !.next = @ + 1]
           name == Files[t.next]
<1>1. /\ UNCHANGED <<ledger, objects, barrier, releases, crashes>>
      /\ TypeOK /\ Fits(t, ledger, objects, releases, directory)
      /\ LedgerOK(ledger) /\ LedgerFits(ledger, objects) /\ DirectoryFits(directory, releases)
      /\ t.op = "build" /\ t.next \in DOMAIN Files /\ InCall(t)
      /\ directory' = [directory EXCEPT ![name] = FileOf(t, name)]
      /\ Become(p, u)
  BY DEF WriteFile, dataVars, EvidenceInv, InCall
<1>2. BuildCall(t)
  BY <1>1, ShapesAreDistinct DEF Fits
<1>3. t.next \in Nat /\ t.next > 0 /\ t.next + 1 \in Nat
  BY <1>1, <1>2, FilesOfARelease DEF BuildCall
<1>4. /\ BuildCall(u) /\ u.op = "build" /\ u.election = t.election
      /\ u.records = t.records /\ u.queries = t.queries /\ u.next = t.next + 1
  <2>1. t.next + 1 \in Nat
    BY <1>3
  <2>2. GoesOn(t, u, t.records, t.queries, t.next + 1)
    BY <1>2, <2>1, BuildAdvances
  <2> QED
    BY <2>2 DEF GoesOn
<1>5. tasks'[p] = u /\ \A q \in Processes \ {p} : tasks'[q] = tasks[q]
  BY <1>1, Changed
<1>6. Signed(u) = Signed(t) /\ \A f : Contents(u, f) = Contents(t, f)
  BY <1>4 DEF Signed, Contents
<1> HIDE DEF u
<1>7. /\ t.queries = <<>> /\ Signed(t) \in releases
      /\ \A i \in DOMAIN Files : i < t.next => directory[Files[i]] = Contents(t, Files[i])
  BY <1>1, <1>3 DEF Fits, Written
<1>8. FileOf(t, name) = Contents(t, name)
  <2>1. CASE name \in ToSet(BaseFiles)
    BY <2>1 DEF FileOf, Contents
  <2>2. CASE name \notin ToSet(BaseFiles)
    <3>1. t.next # 1
      BY <2>2, FilesOfARelease
    <3>2. directory["records.json"] = Contents(t, "records.json")
      BY <3>1, <1>3, <1>7, FilesOfARelease
    <3>3. directory["records.json"].records = t.records
      BY <3>2, FilesOfARelease DEF Contents, Signed
    <3> QED
      BY <2>2, <3>3 DEF FileOf, Contents
  <2> QED
    BY <2>1, <2>2
<1>9. /\ DOMAIN directory = ToSet(Files) /\ name \in ToSet(Files)
      /\ \A i \in DOMAIN Files : Files[i] \in ToSet(Files)
  BY <1>1 DEF DirectoryFits, ToSet
<1>10. /\ DOMAIN directory' = ToSet(Files)
       /\ directory'[name] = Contents(t, name)
       /\ \A f \in ToSet(Files) \ {name} : directory'[f] = directory[f]
  BY <1>1, <1>8, <1>9
<1>11. \A i \in DOMAIN Files : i < u.next => directory'[Files[i]] = Contents(u, Files[i])
  <2> SUFFICES ASSUME NEW i \in DOMAIN Files, i < u.next
               PROVE  directory'[Files[i]] = Contents(t, Files[i])
    BY <1>6
  <2>1. CASE Files[i] = name
    BY <2>1, <1>10
  <2>2. CASE Files[i] # name
    <3>1. i < t.next
      BY <2>2, <1>3, <1>4, FilesOfARelease
    <3> QED
      BY <2>2, <3>1, <1>7, <1>9, <1>10
  <2> QED
    BY <2>1, <2>2
<1> HIDE DEF t
<1>12. Written(u, releases', directory')
  BY <1>1, <1>4, <1>6, <1>7, <1>11 DEF Written
<1>13. Collected(u, ledger)
  BY <1>1, <1>4 DEF Fits, Collected, Pending
<1>14. InCall(u)
  BY <1>4 DEF InCall
<1>15. LockFits(p, u) /\ Become(p, u)
  BY <1>1, <1>14, BarrierKept DEF t
<1>16. TypeOK'
  BY <1>1, <1>15, Changed, HolderFits DEF TypeOK, LockFits
<1>17. ASSUME NEW q \in Processes
       PROVE  Fits(tasks'[q], ledger', objects', releases', directory')
  <2>1. CASE q = p
    BY <2>1, <1>1, <1>4, <1>5, <1>12, <1>13 DEF Fits, Shaped, Checked
  <2>2. CASE q # p
    <3>1. tasks'[q] = tasks[q] /\ Fits(tasks[q], ledger, objects, releases, directory)
      BY <2>2, <1>5 DEF EvidenceInv
    <3>2. tasks[q].op # "build"
      BY <2>2, <1>1, OneInCall DEF InCall, t
    <3> QED
      BY <3>1, <3>2, <1>1 DEF Fits, Written
  <2> QED
    BY <2>1, <2>2
<1>18. DirectoryFits(directory', releases')
  <2>1. ASSUME NEW f \in ToSet(BaseFiles) PROVE directory'[f] \in releases \cup {NoFile}
    <3>1. CASE f = name
      BY <3>1, <1>7, <1>10 DEF Contents
    <3>2. CASE f # name
      BY <3>2, <1>1, <1>10, FilesOfARelease DEF DirectoryFits
    <3> QED
      BY <3>1, <3>2
  <2> DEFINE s == "semantic.summary.json"
  <2>2. directory'[s] = NoFile \/ \E r, m : directory'[s] = [release |-> r, semantic |-> m]
    <3>1. CASE s = name
      <4>1. directory'[s] = [release |-> Signed(t), semantic |-> SemanticRecords(t.records)]
        BY <3>1, <1>10, FilesOfARelease DEF Contents
      <4> QED
        BY <4>1
    <3>2. CASE s # name
      <4>1. directory'[s] = directory[s]
        BY <3>2, <1>10, FilesOfARelease
      <4> QED
        BY <4>1, <1>1 DEF DirectoryFits
    <3> QED
      BY <3>1, <3>2
  <2> QED
    BY <2>1, <2>2, <1>1, <1>10 DEF DirectoryFits
<1> QED
  BY <1>1, <1>16, <1>17, <1>18 DEF EvidenceInv, ReleasesAreClosed

LEMMA EndBuildKeeps ==
  ASSUME EvidenceInv, NEW p \in Processes, EndBuild(p)
  PROVE  EvidenceInv'
<1>1. /\ Become(p, Idle) /\ Release(p) /\ UNCHANGED <<dataVars, releases, directory>>
      /\ crashes' \in 0..MaxCrashes /\ TypeOK /\ InCall(tasks[p])
  BY DEF EndBuild, EvidenceInv, TypeOK, InCall
<1> QED
  BY <1>1, IdleFits, BarrierFreed, Ends

LEMMA CrashKeeps ==
  ASSUME EvidenceInv, NEW p \in Processes, Crash(p)
  PROVE  EvidenceInv'
<1>1. /\ Become(p, Idle) /\ UNCHANGED <<dataVars, releases, directory>>
      /\ TypeOK /\ IF barrier.holder = p THEN Release(p) ELSE UNCHANGED barrier
  BY DEF Crash, EvidenceInv
<1>2. crashes' \in 0..MaxCrashes
  BY EvidenceConstants DEF Crash, EvidenceInv, TypeOK
<1>3. InCall(tasks[p]) <=> barrier.holder = p
  BY <1>1 DEF TypeOK, Holding, InCall
<1>4. LockFits(p, Idle)
  BY <1>1, <1>3, IdleFits, BarrierFreed, BarrierKept
<1> QED
  BY <1>1, <1>2, <1>4, Ends


----------------------------------------------------------------------------
(* The invariant and what follows from it. *)

LEMMA StutterKeeps ==
  ASSUME EvidenceInv, UNCHANGED vars
  PROVE  EvidenceInv'
<1> USE DEF vars
<1>1. TypeOK'
  BY DEF EvidenceInv, TypeOK, Holding
<1>2. ReleasesAreClosed'
  BY DEF EvidenceInv, ReleasesAreClosed
<1> QED
  BY <1>1, <1>2 DEF EvidenceInv

LEMMA NextEvidence == EvidenceInv /\ [Next]_vars => EvidenceInv'
<1> SUFFICES ASSUME EvidenceInv, [Next]_vars PROVE EvidenceInv'
  OBVIOUS
<1>1. CASE UNCHANGED vars
  BY <1>1, StutterKeeps
<1>2. ASSUME NEW p \in Processes, PutArtifact(p) \/ BeginWrite(p) \/ ReadAndCheck(p)
                                  \/ CommitData(p) \/ CommitBarrier(p)
      PROVE  EvidenceInv'
  BY <1>2, PutArtifactKeeps, BeginWriteKeeps, ReadAndCheckKeeps, CommitDataKeeps, CommitBarrierKeeps
<1>3. ASSUME NEW p \in Processes, BeginBuild(p) \/ Collect(p) \/ Sign(p) \/ WriteFile(p)
                                  \/ EndBuild(p) \/ Crash(p)
      PROVE  EvidenceInv'
  BY <1>3, BeginBuildKeeps, CollectKeeps, SignKeeps, WriteFileKeeps, EndBuildKeeps, CrashKeeps
<1> QED
  BY <1>1, <1>2, <1>3 DEF Next

\* EvidenceInv is an invariant of the evidence store and the release command.
LEMMA EvidenceInvariant == Spec => []EvidenceInv
<1>1. EvidenceInv /\ [Next]_vars => EvidenceInv'
  BY NextEvidence
<1> QED
  BY <1>1, InitEvidence, PTL DEF Spec

\* The write barrier has one holder, and the holder is the one process inside a
\* write or a build, whichever processes are killed between which steps.
THEOREM EvidenceTypes == Spec => []TypeOK
<1>1. EvidenceInv => TypeOK
  BY DEF EvidenceInv
<1> QED
  BY <1>1, EvidenceInvariant, PTL

\* No upload, finished or not, forks or breaks a hash chain, and no row of
\* evidence names bytes that are not in the object directory.
THEOREM EvidenceStaysSound == Spec => []EvidenceIsSound
<1>1. EvidenceInv => EvidenceIsSound
  BY DEF EvidenceInv, LedgerFits, EvidenceIsSound
<1> QED
  BY <1>1, EvidenceInvariant, PTL

\* Every signed release resolves every reference that its records make, so
\* normalisation never raises after the base files were replaced.
THEOREM ReleasesStayClosed == Spec => []ReleasesAreClosed
<1>1. EvidenceInv => ReleasesAreClosed
  BY DEF EvidenceInv
<1> QED
  BY <1>1, EvidenceInvariant, PTL

LEMMA VerifiedIsOne == EvidenceInv => VerifiedDirectoryIsOneRelease
<1> SUFFICES ASSUME EvidenceInv PROVE VerifiedDirectoryIsOneRelease
  OBVIOUS
<1>1. DirectoryFits(directory, releases)
  BY DEF EvidenceInv
<1>2. ASSUME SemanticReleaseVerified(directory)
      PROVE  \E r \in releases :
               /\ \A f \in ToSet(BaseFiles) : directory[f] = r
               /\ directory["semantic.summary.json"] =
                     [release |-> r, semantic |-> SemanticRecords(r.records)]
  <2> DEFINE m == directory["manifest.json"]
             s == directory["semantic.summary.json"]
  <2>1. /\ m # NoFile /\ \A f \in ToSet(BaseFiles) : directory[f] = m
        /\ s # NoFile /\ s.release = m
        /\ s.semantic = SemanticRecords(directory["records.json"].records)
    BY <1>2 DEF SemanticReleaseVerified, ReleaseVerified
  <2>2. m \in releases /\ directory["records.json"] = m
    BY <1>1, <2>1, FilesOfARelease DEF DirectoryFits
  <2>3. s = [release |-> m, semantic |-> SemanticRecords(m.records)]
    <3>1. PICK r, x : s = [release |-> r, semantic |-> x]
      BY <1>1, <2>1 DEF DirectoryFits
    <3>2. r = m /\ x = SemanticRecords(m.records)
      BY <3>1, <2>1, <2>2
    <3> QED
      BY <3>1, <3>2
  <2> HIDE DEF m, s
  <2> QED
    BY <2>1, <2>2, <2>3 DEF s
<1>3. ASSUME NEW p \in Processes, tasks[p].op = "build", tasks[p].next > Len(Files)
      PROVE  SemanticReleaseVerified(directory)
  <2> DEFINE t == tasks[p]
  <2>1. BuildCall(t) /\ Written(t, releases, directory)
    BY <1>3, ShapesAreDistinct DEF EvidenceInv, Fits
  <2>2. t.next \in Nat /\ t.next > Len(Files) /\ t.op = "build"
    BY <1>3, <2>1 DEF BuildCall
  <2> HIDE DEF t
  <2>3. \A i \in DOMAIN Files : directory[Files[i]] = Contents(t, Files[i])
    BY <2>1, <2>2, FilesOfARelease DEF Written
  <2>4. \A f \in ToSet(Files) : directory[f] = Contents(t, f)
    BY <2>3 DEF ToSet
  <2>5. \A f \in ToSet(BaseFiles) : directory[f] = Signed(t)
    BY <2>4, FilesOfARelease DEF Contents
  <2>6. \A f \in {"semantic.summary.json", "semantic.summary.signature.json"} :
          directory[f] = [release |-> Signed(t), semantic |-> SemanticRecords(t.records)]
    BY <2>4, FilesOfARelease DEF Contents
  <2>7. Signed(t) # NoFile /\ Signed(t).records = t.records
    BY DEF Signed, NoFile
  <2>8. \A r, x : [release |-> r, semantic |-> x] # NoFile
    BY DEF NoFile
  <2>9. directory["manifest.json"] = Signed(t) /\ directory["records.json"] = Signed(t)
    BY <2>5, FilesOfARelease
  <2>10. /\ directory["semantic.summary.json"] # NoFile
         /\ directory["semantic.summary.signature.json"] = directory["semantic.summary.json"]
         /\ directory["semantic.summary.json"].release = Signed(t)
         /\ directory["semantic.summary.json"].semantic = SemanticRecords(t.records)
    BY <2>6, <2>8
  <2> QED
    BY <2>5, <2>7, <2>9, <2>10 DEF SemanticReleaseVerified, ReleaseVerified
<1> QED
  BY <1>2, <1>3 DEF VerifiedDirectoryIsOneRelease

\* A directory that verifies is one signed release and its summary, at every
\* moment of every interrupted build; a build that is done leaves one.
THEOREM VerifiedStaysOneRelease == Spec => []VerifiedDirectoryIsOneRelease
<1> QED
  BY VerifiedIsOne, EvidenceInvariant, PTL

----------------------------------------------------------------------------
(* The refinement of AtomicLedger. *)

LEMMA SameRow == \A c, s, e, d : Ledger!NextRow(c, s, e, d) = NextRow(c, s, e, d)
  BY DEF Ledger!NextRow, NextRow, Ledger!LinkHash, LinkHash,
     Ledger!HashRecord, HashRecord, Ledger!NoHash, NoHash, Ledger!Last, Last

LEMMA SameInserts ==
  /\ \A l, e, d : Ledger!WithSnapshot(l, e, d) = WithSnapshot(l, e, d)
  /\ \A l, ev, e, a : Ledger!WithVersion(l, ev, e, a) = WithVersion(l, ev, e, a)
  /\ \A l, a : Ledger!WithAttestation(l, a) = WithAttestation(l, a)
  /\ \A l, x : Ledger!WithExtraction(l, x) = WithExtraction(l, x)
  /\ \A l, r : Ledger!WithReview(l, r) = WithReview(l, r)
<1>1. \A l, e, d : Ledger!WithSnapshot(l, e, d) = WithSnapshot(l, e, d)
  BY SameRow DEF Ledger!WithSnapshot, WithSnapshot
<1>2. \A l, ev, e, a : Ledger!WithVersion(l, ev, e, a) = WithVersion(l, ev, e, a)
  BY SameRow DEF Ledger!WithVersion, WithVersion
<1>3. \A l, a : Ledger!WithAttestation(l, a) = WithAttestation(l, a)
  BY DEF Ledger!WithAttestation, WithAttestation, Ledger!ToSet, ToSet
<1>4. \A l, x : Ledger!WithExtraction(l, x) = WithExtraction(l, x)
  BY DEF Ledger!WithExtraction, WithExtraction
<1>5. \A l, r : Ledger!WithReview(l, r) = WithReview(l, r)
  BY DEF Ledger!WithReview, WithReview
<1> QED
  BY <1>1, <1>2, <1>3, <1>4, <1>5

LEMMA SameChecks ==
  /\ \A l, ev, v : Ledger!HasVersion(l, ev, v) <=> HasVersion(l, ev, v)
  /\ \A l, x : Ledger!ExtractionAccepted(l, x) <=> ExtractionAccepted(l, x)
  /\ \A l, r : Ledger!ReviewAccepted(l, r) <=> ReviewAccepted(l, r)
  BY DEF Ledger!HasVersion, HasVersion, Ledger!ExtractionAccepted, ExtractionAccepted,
     Ledger!ReviewAccepted, ReviewAccepted

LEMMA SameRecords == \A l, e : Ledger!Records(l, e) = Records(l, e)
<1>1. \A l, e : /\ Ledger!SnapshotRecords(l, e) = SnapshotRecords(l, e)
               /\ Ledger!VersionRecords(l, e) = VersionRecords(l, e)
  BY DEF Ledger!SnapshotRecords, SnapshotRecords, Ledger!VersionRecords, VersionRecords
<1>2. \A l, ev, v : /\ Ledger!AttestationRecords(l, ev, v) = AttestationRecords(l, ev, v)
                   /\ Ledger!ExtractionRecords(l, ev, v) = ExtractionRecords(l, ev, v)
  BY DEF Ledger!AttestationRecords, AttestationRecords, Ledger!ExtractionRecords, ExtractionRecords
<1>3. \A l, x : Ledger!ReviewRecords(l, x) = ReviewRecords(l, x)
  BY DEF Ledger!ReviewRecords, ReviewRecords
<1> QED
  BY <1>1, <1>2, <1>3 DEF Ledger!Records, Records

LEMMA CommitIsOneWrite ==
  ASSUME EvidenceInv, NEW p \in Processes, CommitData(p)
  PROVE  Ledger!Next
<1> DEFINE t == tasks[p]
<1>1. /\ Shaped(t, objects) /\ Checked(t, ledger) /\ t.op \in Writes /\ t.at = "checked"
      /\ ledger' = Inserted(t) /\ UNCHANGED releases
      /\ objects \subseteq Artifacts
  BY DEF EvidenceInv, CommitData, Fits, TypeOK
<1>2. CASE t.op = "snapshot"
  <2>1. t.election \in Elections /\ t.document \in Documents
    BY <1>1, <1>2, ShapesAreDistinct DEF SnapshotCall
  <2>2. Ledger!AppendSnapshot(t.election, t.document)
    BY <1>1, <1>2, SameInserts DEF Inserted, Ledger!AppendSnapshot
  <2> QED
    BY <2>1, <2>2 DEF Ledger!Next
<1>3. CASE t.op = "ingest"
  <2>1. t.election \in Elections /\ t.artifact \in Artifacts
    BY <1>1, <1>3, ShapesAreDistinct DEF IngestCall
  <2>2. t.evidence \in EvidenceIds
    BY <1>1, <1>3 DEF Checked
  <2>3. Ledger!AppendVersion(t.evidence, t.election, t.artifact)
    BY <1>1, <1>3, SameInserts DEF Inserted, Ledger!AppendVersion
  <2> QED
    BY <2>1, <2>2, <2>3 DEF Ledger!Next
<1>4. CASE t.op = "attest"
  <2> DEFINE r == t.row
  <2>1. IsAttestation(r)
    BY <1>1, <1>4, ShapesAreDistinct DEF AttestCall
  <2>2. HasVersion(ledger, r.evidence, r.version)
        /\ ledger.versions[r.evidence][r.version].hash = r.hash
    BY <1>1, <1>4 DEF Checked, AttestationAccepted
  <2>3. ledger' = WithAttestation(ledger, r)
    BY <1>1, <1>4 DEF Inserted
  <2> HIDE DEF t, r
  <2>4. r = [evidence |-> r.evidence, version |-> r.version, actor |-> r.actor,
             hash |-> ledger.versions[r.evidence][r.version].hash]
    BY <2>1, <2>2 DEF IsAttestation
  <2>5. Ledger!Attest(r.evidence, r.version, r.actor)
    BY <1>1, <2>2, <2>3, <2>4, SameInserts, SameChecks DEF Ledger!Attest
  <2>6. r.evidence \in EvidenceIds /\ r.actor \in Actors
    BY <2>1 DEF IsAttestation
  <2>7. r.version \in DOMAIN ledger.versions[r.evidence]
    BY <2>2 DEF HasVersion
  <2> QED
    BY <2>5, <2>6, <2>7 DEF Ledger!Next
<1>5. CASE t.op = "extract"
  <2> DEFINE x == t.row
  <2>1. IsExtraction(x)
    BY <1>1, <1>5, ShapesAreDistinct DEF ExtractCall
  <2>2. ExtractionAccepted(ledger, x) /\ \A y \in ledger.extractions : y.id # x.id
    BY <1>1, <1>5 DEF Checked
  <2>3. ledger' = WithExtraction(ledger, x)
    BY <1>1, <1>5 DEF Inserted
  <2> HIDE DEF t, x
  <2>4. HasVersion(ledger, x.evidence, x.version)
        /\ ledger.versions[x.evidence][x.version].hash = x.hash
    BY <2>2 DEF ExtractionAccepted
  <2>5. x = [id |-> x.id, evidence |-> x.evidence, version |-> x.version,
             supersedes |-> x.supersedes,
             hash |-> ledger.versions[x.evidence][x.version].hash]
    BY <2>1, <2>4 DEF IsExtraction
  <2>6. Ledger!AddExtraction(x.id, x.evidence, x.version, x.supersedes)
    BY <1>1, <2>2, <2>3, <2>4, <2>5, SameInserts, SameChecks DEF Ledger!AddExtraction
  <2>7. x.id \in ExtractionIds /\ x.evidence \in EvidenceIds /\ x.supersedes \in ExtractionIds \cup {None}
    BY <2>1 DEF IsExtraction
  <2>8. x.version \in DOMAIN ledger.versions[x.evidence]
    BY <2>4 DEF HasVersion
  <2> QED
    BY <2>6, <2>7, <2>8 DEF Ledger!Next
<1>6. CASE t.op = "review"
  <2> DEFINE r == t.row
  <2>1. PICK id \in ExtractionIds, x \in ExtractionIds : r = [id |-> id, extraction |-> x]
    BY <1>1, <1>6, ShapesAreDistinct DEF ReviewCall, IsReview
  <2>2. ReviewAccepted(ledger, r) /\ \A y \in ledger.reviews : y.id # r.id
    BY <1>1, <1>6 DEF Checked
  <2>3. ledger' = WithReview(ledger, r)
    BY <1>1, <1>6 DEF Inserted
  <2> HIDE DEF t, r
  <2>4. r.id = id
    BY <2>1
  <2>5. Ledger!AddReview(id, x)
    BY <1>1, <2>1, <2>2, <2>3, <2>4, SameInserts, SameChecks DEF Ledger!AddReview
  <2> QED
    BY <2>5 DEF Ledger!Next
<1> QED
  BY <1>1, <1>2, <1>3, <1>4, <1>5, <1>6 DEF Writes

LEMMA SignIsOneCut ==
  ASSUME EvidenceInv, NEW p \in Processes, Sign(p)
  PROVE  Ledger!Next
<1> DEFINE t == tasks[p]
<1>1. /\ t.records = Records(ledger, t.election) /\ ledger.registry[t.election] # <<>>
      /\ releases' = releases \cup {Signed(t)} /\ UNCHANGED ledger
  BY SignKeeps DEF Sign, dataVars
<1>2. t.election \in Elections
  BY ShapesAreDistinct DEF EvidenceInv, Fits, Sign, BuildCall
<1>3. Signed(t) = [election |-> t.election, records |-> Ledger!Records(ledger, t.election)]
  BY <1>1, SameRecords DEF Signed
<1>4. Ledger!Sign(t.election)
  BY <1>1, <1>3 DEF Ledger!Sign
<1> QED
  BY <1>2, <1>4 DEF Ledger!Next

LEMMA OtherStepsStutter ==
  ASSUME NEW p \in Processes,
         PutArtifact(p) \/ BeginWrite(p) \/ ReadAndCheck(p) \/ CommitBarrier(p) \/ BeginBuild(p)
         \/ Collect(p) \/ WriteFile(p) \/ EndBuild(p) \/ Crash(p)
  PROVE  UNCHANGED Ledger!vars
  BY DEF PutArtifact, BeginWrite, ReadAndCheck, CommitBarrier, BeginBuild, Collect, WriteFile,
     EndBuild, Crash, dataVars, Ledger!vars

\* Two databases, a barrier that is committed last and builds that read query
\* by query implement the ledger that is written and cut in single steps.
THEOREM EvidenceImplementsAtomicLedger == Spec => ImplementsAtomicLedger
<1>1. Init => Ledger!Init
  BY DEF Init, Ledger!Init, EmptyLedger, Ledger!EmptyLedger
<1>2. EvidenceInv /\ [Next]_vars => [Ledger!Next]_Ledger!vars
  <2> SUFFICES ASSUME EvidenceInv, [Next]_vars PROVE Ledger!Next \/ UNCHANGED Ledger!vars
    OBVIOUS
  <2>1. CASE UNCHANGED vars
    BY <2>1 DEF vars, Ledger!vars
  <2>2. CASE Next
    BY <2>2, CommitIsOneWrite, SignIsOneCut, OtherStepsStutter DEF Next
  <2> QED
    BY <2>1, <2>2
<1> QED
  BY <1>1, <1>2, EvidenceInvariant, PTL DEF Spec, ImplementsAtomicLedger, Ledger!Spec

----------------------------------------------------------------------------
(* Counting. *)

LEMMA LengthsCount ==
  ASSUME NEW c, IsFiniteSet(DOMAIN c), \A x \in DOMAIN c : IsSeq(c[x])
  PROVE  Counts([x \in DOMAIN c |-> Len(c[x])]) /\ TotalLength(c) \in Int
<1> DEFINE f == [x \in DOMAIN c |-> Len(c[x])]
<1>1. \A x \in DOMAIN c : Len(c[x]) \in Int
  BY AppendGrows
<1>2. DOMAIN f = DOMAIN c /\ f \in [DOMAIN f -> Int]
  BY <1>1
<1>3. TotalLength(c) = SumFunction(f)
  BY DEF TotalLength
<1> HIDE DEF f
<1>4. Counts(f)
  BY <1>2 DEF Counts
<1> QED
  BY <1>3, <1>4, SumIsInteger DEF f

\* One chain has one row more.
LEMMA LongerChain ==
  ASSUME NEW c, IsFiniteSet(DOMAIN c), \A x \in DOMAIN c : IsSeq(c[x]),
         NEW d, DOMAIN d = DOMAIN c, NEW y \in DOMAIN c, NEW row, d[y] = Append(c[y], row),
         \A x \in DOMAIN c \ {y} : d[x] = c[x]
  PROVE  TotalLength(d) = TotalLength(c) + 1
<1> DEFINE f == [x \in DOMAIN c |-> Len(c[x])]
           g == [x \in DOMAIN c |-> Len(d[x])]
<1>1. TotalLength(c) = SumFunction(f) /\ TotalLength(d) = SumFunction(g)
  BY DEF TotalLength
<1>2. Counts(f)
  BY LengthsCount
<1>3. DOMAIN f = DOMAIN c /\ g = [x \in DOMAIN f |-> g[x]]
  OBVIOUS
<1>4. g[y] = f[y] + 1
  BY AppendGrows
<1>5. \A x \in DOMAIN f \ {y} : g[x] = f[x]
  OBVIOUS
<1> HIDE DEF f, g
<1>6. SumFunction(g) = SumFunction(f) + 1
  BY <1>2, <1>3, <1>4, <1>5, SumPlusOne
<1> QED
  BY <1>1, <1>6

\* The tables of a ledger can be counted.
Countable(l) == IsFiniteSet(l.extractions) /\ IsFiniteSet(l.reviews)

LEMMA TablesCount ==
  ASSUME NEW l, LedgerOK(l), Countable(l)
  PROVE  /\ TotalLength(l.registry) \in Int /\ TotalLength(l.versions) \in Int
         /\ Len(l.attestations) \in Int
         /\ Cardinality(l.extractions) \in Int /\ Cardinality(l.reviews) \in Int
         /\ Rows(l) \in Int
<1>1. IsFiniteSet(DOMAIN l.registry) /\ IsFiniteSet(DOMAIN l.versions)
  BY IdsAreFinite DEF LedgerOK
<1>2. TotalLength(l.registry) \in Int
  BY <1>1, LengthsCount DEF LedgerOK
<1>3. TotalLength(l.versions) \in Int
  BY <1>1, LengthsCount DEF LedgerOK
<1>4. Len(l.attestations) \in Int
  BY AppendGrows DEF LedgerOK
<1>5. Cardinality(l.extractions) \in Int /\ Cardinality(l.reviews) \in Int
  BY FS_CardinalityType DEF Countable
<1> QED
  BY <1>2, <1>3, <1>4, <1>5 DEF Rows

LEMMA AddingCounts ==
  ASSUME NEW S, IsFiniteSet(S), NEW x
  PROVE  IsFiniteSet(S \cup {x}) /\ Cardinality(S \cup {x}) <= Cardinality(S) + 1
<1>1. Cardinality(S) \in Nat
  BY FS_CardinalityType
<1>2. CASE x \in S
  <2>1. S \cup {x} = S
    BY <1>2
  <2>2. Cardinality(S) <= Cardinality(S) + 1
    BY <1>1
  <2> QED
    BY <2>1, <2>2
<1>3. CASE x \notin S
  BY <1>1, <1>3, FS_AddElement
<1> QED
  BY <1>2, <1>3

LEMMA ThreeTables ==
  ASSUME NEW a \in Int, NEW b \in Int, NEW c \in Int, NEW d \in Int, NEW e \in Int,
         NEW f \in Int, NEW g \in Int, NEW h \in Int, f + g + h <= c + d + e + 1
  PROVE  a + b + f + g + h <= a + b + c + d + e + 1
  OBVIOUS

LEMMA FiveTables ==
  ASSUME NEW a \in Int, NEW b \in Int, NEW c \in Int, NEW d \in Int, NEW e \in Int
  PROVE  /\ (a + 1) + b + c + d + e <= a + b + c + d + e + 1
         /\ a + (b + 1) + c + d + e <= a + b + c + d + e + 1
  OBVIOUS

LEMMA ChainsInRecords ==
  ASSUME NEW r, NEW v, NEW a, NEW x, NEW q, NEW e, NEW s
  PROVE  LET l == [registry |-> r, versions |-> v, attestations |-> a,
                   extractions |-> x, reviews |-> q]
         IN  /\ [l EXCEPT !.registry[e] = s] =
                   [registry |-> [r EXCEPT ![e] = s], versions |-> v, attestations |-> a,
                    extractions |-> x, reviews |-> q]
             /\ [l EXCEPT !.versions[e] = s] =
                   [registry |-> r, versions |-> [v EXCEPT ![e] = s], attestations |-> a,
                    extractions |-> x, reviews |-> q]
  OBVIOUS

\* No insert adds more than one row.
LEMMA SnapshotCounts ==
  ASSUME NEW l, LedgerOK(l), Countable(l), NEW e \in Elections, NEW d
  PROVE  Countable(WithSnapshot(l, e, d)) /\ Rows(WithSnapshot(l, e, d)) <= Rows(l) + 1
<1>1. PICK r, v, a, x, q : l = [registry |-> r, versions |-> v, attestations |-> a,
                             extractions |-> x, reviews |-> q]
  BY DEF LedgerOK
<1> DEFINE row == NextRow(r[e], e, e, d)
<1>2. WithSnapshot(l, e, d) =
          [registry |-> [r EXCEPT ![e] = Append(r[e], row)], versions |-> v,
           attestations |-> a, extractions |-> x, reviews |-> q]
  <2>1. l.registry[e] = r[e]
    BY <1>1
  <2>2. WithSnapshot(l, e, d) = [l EXCEPT !.registry[e] = Append(r[e], row)]
    BY <2>1 DEF WithSnapshot
  <2> HIDE DEF row
  <2> QED
    BY <1>1, <2>2, ChainsInRecords
<1> HIDE DEF row
<1> DEFINE k == WithSnapshot(l, e, d)
<1>3. l.registry = r /\ l.versions = v /\ l.attestations = a /\ l.extractions = x /\ l.reviews = q
  BY <1>1
<1> HIDE DEF k
<1>4. /\ k.registry = [r EXCEPT ![e] = Append(r[e], row)]
      /\ k.versions = v /\ k.attestations = a /\ k.extractions = x /\ k.reviews = q
  BY <1>2 DEF k
<1>5. DOMAIN r = Elections /\ \A f \in Elections : IsSeq(r[f])
  BY <1>3 DEF LedgerOK
<1>6. /\ DOMAIN k.registry = DOMAIN r /\ k.registry[e] = Append(r[e], row)
      /\ \A f \in DOMAIN r \ {e} : k.registry[f] = r[f]
  BY <1>4, <1>5
<1>7. TotalLength(k.registry) = TotalLength(r) + 1
  BY <1>5, <1>6, IdsAreFinite, LongerChain
<1>8. Rows(k) = (TotalLength(r) + 1) + TotalLength(v) + Len(a) + Cardinality(x) + Cardinality(q)
  BY <1>4, <1>7 DEF Rows
<1>9. Rows(l) = TotalLength(r) + TotalLength(v) + Len(a) + Cardinality(x) + Cardinality(q)
  BY <1>3 DEF Rows
<1>t. /\ TotalLength(r) \in Int /\ TotalLength(v) \in Int /\ Len(a) \in Int
      /\ Cardinality(x) \in Int /\ Cardinality(q) \in Int
  BY <1>3, TablesCount
<1>10. Rows(k) <= Rows(l) + 1
  BY <1>t, <1>8, <1>9, FiveTables
<1>11. Countable(k)
  BY <1>3, <1>4 DEF Countable
<1> QED
  BY <1>10, <1>11 DEF k

LEMMA VersionCounts ==
  ASSUME NEW l, LedgerOK(l), Countable(l), NEW ev \in EvidenceIds, NEW e, NEW c
  PROVE  Countable(WithVersion(l, ev, e, c)) /\ Rows(WithVersion(l, ev, e, c)) <= Rows(l) + 1
<1>1. PICK r, v, a, x, q : l = [registry |-> r, versions |-> v, attestations |-> a,
                             extractions |-> x, reviews |-> q]
  BY DEF LedgerOK
<1> DEFINE row == NextRow(v[ev], ev, e, c)
<1>2. WithVersion(l, ev, e, c) =
          [registry |-> r, versions |-> [v EXCEPT ![ev] = Append(v[ev], row)],
           attestations |-> a, extractions |-> x, reviews |-> q]
  <2>1. l.versions[ev] = v[ev]
    BY <1>1
  <2>2. WithVersion(l, ev, e, c) = [l EXCEPT !.versions[ev] = Append(v[ev], row)]
    BY <2>1 DEF WithVersion
  <2> HIDE DEF row
  <2> QED
    BY <1>1, <2>2, ChainsInRecords
<1> HIDE DEF row
<1> DEFINE k == WithVersion(l, ev, e, c)
<1>3. l.registry = r /\ l.versions = v /\ l.attestations = a /\ l.extractions = x /\ l.reviews = q
  BY <1>1
<1> HIDE DEF k
<1>4. /\ k.versions = [v EXCEPT ![ev] = Append(v[ev], row)]
      /\ k.registry = r /\ k.attestations = a /\ k.extractions = x /\ k.reviews = q
  BY <1>2 DEF k
<1>5. DOMAIN v = EvidenceIds /\ \A f \in EvidenceIds : IsSeq(v[f])
  BY <1>3 DEF LedgerOK
<1>6. /\ DOMAIN k.versions = DOMAIN v /\ k.versions[ev] = Append(v[ev], row)
      /\ \A f \in DOMAIN v \ {ev} : k.versions[f] = v[f]
  BY <1>4, <1>5
<1>7. TotalLength(k.versions) = TotalLength(v) + 1
  BY <1>5, <1>6, IdsAreFinite, LongerChain
<1>8. Rows(k) = TotalLength(r) + (TotalLength(v) + 1) + Len(a) + Cardinality(x) + Cardinality(q)
  BY <1>4, <1>7 DEF Rows
<1>9. Rows(l) = TotalLength(r) + TotalLength(v) + Len(a) + Cardinality(x) + Cardinality(q)
  BY <1>3 DEF Rows
<1>t. /\ TotalLength(r) \in Int /\ TotalLength(v) \in Int /\ Len(a) \in Int
      /\ Cardinality(x) \in Int /\ Cardinality(q) \in Int
  BY <1>3, TablesCount
<1>10. Rows(k) <= Rows(l) + 1
  BY <1>t, <1>8, <1>9, FiveTables
<1>11. Countable(k)
  BY <1>3, <1>4 DEF Countable
<1> QED
  BY <1>10, <1>11 DEF k

LEMMA OthersCount ==
  ASSUME NEW l, LedgerOK(l), Countable(l), NEW z
  PROVE  \A k \in {WithAttestation(l, z), WithExtraction(l, z), WithReview(l, z)} :
            Countable(k) /\ Rows(k) <= Rows(l) + 1
<1>1. PICK r, v, a, x, q : l = [registry |-> r, versions |-> v, attestations |-> a,
                             extractions |-> x, reviews |-> q]
  BY DEF LedgerOK
<1>2. l.registry = r /\ l.versions = v /\ l.attestations = a /\ l.extractions = x /\ l.reviews = q
  BY <1>1
<1>3. /\ TotalLength(r) \in Int /\ TotalLength(v) \in Int /\ Len(a) \in Int
      /\ Cardinality(x) \in Int /\ Cardinality(q) \in Int
      /\ IsFiniteSet(x) /\ IsFiniteSet(q)
  BY <1>2, TablesCount DEF Countable
<1>4. Rows(l) = TotalLength(r) + TotalLength(v) + Len(a) + Cardinality(x) + Cardinality(q)
  BY <1>2 DEF Rows
<1>5. ASSUME NEW k, NEW b, NEW y, NEW p,
             k = [registry |-> r, versions |-> v, attestations |-> b,
                  extractions |-> y, reviews |-> p],
             IsFiniteSet(y), IsFiniteSet(p),
             Len(b) + Cardinality(y) + Cardinality(p) <= Len(a) + Cardinality(x) + Cardinality(q) + 1,
             Len(b) \in Int
      PROVE  Countable(k) /\ Rows(k) <= Rows(l) + 1
  <2>1. /\ k.registry = r /\ k.versions = v /\ k.attestations = b
        /\ k.extractions = y /\ k.reviews = p
    BY <1>5
  <2>2. Cardinality(y) \in Int /\ Cardinality(p) \in Int
    BY <1>5, FS_CardinalityType
  <2>3. Rows(k) = TotalLength(r) + TotalLength(v) + Len(b) + Cardinality(y) + Cardinality(p)
    BY <2>1 DEF Rows
  <2>4. TotalLength(r) + TotalLength(v) + Len(b) + Cardinality(y) + Cardinality(p)
        <= TotalLength(r) + TotalLength(v) + Len(a) + Cardinality(x) + Cardinality(q) + 1
    BY <1>3, <1>5, <2>2, ThreeTables
  <2>5. Rows(k) <= Rows(l) + 1
    BY <1>4, <2>3, <2>4
  <2> QED
    BY <1>5, <2>1, <2>5 DEF Countable
<1>6. Countable(WithAttestation(l, z)) /\ Rows(WithAttestation(l, z)) <= Rows(l) + 1
  <2>1. CASE z \in ToSet(l.attestations)
    <3>1. Rows(l) \in Int
      BY TablesCount
    <3> QED
      BY <2>1, <3>1 DEF WithAttestation
  <2>2. CASE z \notin ToSet(l.attestations)
    <3> DEFINE b == Append(a, z)
    <3>1. Len(b) = Len(a) + 1 /\ Len(b) \in Int
      BY <1>2, AppendGrows DEF LedgerOK
    <3>2. WithAttestation(l, z) = [registry |-> r, versions |-> v, attestations |-> b,
                                   extractions |-> x, reviews |-> q]
      BY <1>1, <1>2, <2>2 DEF WithAttestation
    <3> HIDE DEF b
    <3>3. Len(b) + Cardinality(x) + Cardinality(q) <= Len(a) + Cardinality(x) + Cardinality(q) + 1
      BY <1>3, <3>1
    <3> QED
      BY <1>3, <1>5, <3>1, <3>2, <3>3
  <2> QED
    BY <2>1, <2>2
<1>7. Countable(WithExtraction(l, z)) /\ Rows(WithExtraction(l, z)) <= Rows(l) + 1
  <2> DEFINE y == x \cup {z}
  <2>1. WithExtraction(l, z) = [registry |-> r, versions |-> v, attestations |-> a,
                                extractions |-> y, reviews |-> q]
    BY <1>1 DEF WithExtraction
  <2>2. IsFiniteSet(y) /\ Cardinality(y) <= Cardinality(x) + 1
    BY <1>3, AddingCounts
  <2>3. Cardinality(y) \in Int
    BY <2>2, FS_CardinalityType
  <2> HIDE DEF y
  <2>4. Len(a) + Cardinality(y) + Cardinality(q) <= Len(a) + Cardinality(x) + Cardinality(q) + 1
    BY <1>3, <2>2, <2>3
  <2> QED
    BY <1>3, <1>5, <2>1, <2>2, <2>4
<1>8. Countable(WithReview(l, z)) /\ Rows(WithReview(l, z)) <= Rows(l) + 1
  <2> DEFINE p == q \cup {z}
  <2>1. WithReview(l, z) = [registry |-> r, versions |-> v, attestations |-> a,
                            extractions |-> x, reviews |-> p]
    BY <1>1 DEF WithReview
  <2>2. IsFiniteSet(p) /\ Cardinality(p) <= Cardinality(q) + 1
    BY <1>3, AddingCounts
  <2>3. Cardinality(p) \in Int
    BY <2>2, FS_CardinalityType
  <2> HIDE DEF p
  <2>4. Len(a) + Cardinality(x) + Cardinality(p) <= Len(a) + Cardinality(x) + Cardinality(q) + 1
    BY <1>3, <2>2, <2>3
  <2> QED
    BY <1>3, <1>5, <2>1, <2>2, <2>4
<1> QED
  BY <1>6, <1>7, <1>8

\* The calls whose rows the generation does not count yet: there is one at most,
\* that of the holder of the barrier.
IsCommitted(t) == t.op \in Writes /\ t.at = "committed"
Uncounted == {p \in Processes : tasks[p].op \in Writes /\ tasks[p].at = "committed"}

LEMMA AtMostOne ==
  ASSUME NEW S, \A x, y \in S : x = y
  PROVE  Cardinality(S) = IF S = {} THEN 0 ELSE 1
<1>1. CASE S = {}
  BY <1>1, FS_EmptySet
<1>2. ASSUME NEW x \in S PROVE Cardinality(S) = 1
  <2>1. S = {x}
    BY <1>2
  <2>2. Cardinality({x}) = 1
    BY FS_Singleton
  <2> QED
    BY <2>1, <2>2
<1> QED
  BY <1>1, <1>2

LEMMA UncountedChanges ==
  ASSUME TypeOK, TypeOK', NEW p \in Processes,
         NEW t, Become(p, t)
  PROVE  /\ IsCommitted(tasks[p]) <=> p \in Uncounted
         /\ IsCommitted(t) <=> p \in Uncounted'
         /\ IsCommitted(t) => Cardinality(Uncounted)' = 1
         /\ IsCommitted(tasks[p]) /\ ~IsCommitted(t) =>
               Cardinality(Uncounted) = 1 /\ Cardinality(Uncounted)' = 0
         /\ ~IsCommitted(tasks[p]) /\ ~IsCommitted(t) =>
               Cardinality(Uncounted)' = Cardinality(Uncounted)
         /\ Cardinality(Uncounted) \in {0, 1}
<1>1. tasks'[p] = t /\ \A q \in Processes \ {p} : tasks'[q] = tasks[q]
  BY Changed
<1>2. IsCommitted(tasks[p]) <=> p \in Uncounted
  BY DEF IsCommitted, Uncounted
<1>3. IsCommitted(t) <=> p \in Uncounted'
  BY <1>1 DEF IsCommitted, Uncounted
<1>4. \A q \in Processes \ {p} : q \in Uncounted' <=> q \in Uncounted
  BY <1>1 DEF Uncounted
<1>5. Uncounted \subseteq Processes /\ Uncounted' \subseteq Processes
  BY DEF Uncounted
<1>6. Cardinality(Uncounted) = IF Uncounted = {} THEN 0 ELSE 1
  <2>1. \A q \in Uncounted : barrier.holder = q
    BY DEF TypeOK, Holding, Uncounted
  <2> QED
    BY <2>1, AtMostOne
<1>7. Cardinality(Uncounted') = IF Uncounted' = {} THEN 0 ELSE 1
  <2>1. \A q \in Uncounted' : barrier'.holder = q
    BY DEF TypeOK, Holding, Uncounted
  <2> QED
    BY <2>1, AtMostOne
<1>8. p \in Uncounted => Uncounted \subseteq {p}
  BY DEF TypeOK, Holding, Uncounted
<1> QED
  BY <1>2, <1>3, <1>4, <1>5, <1>6, <1>7, <1>8

LEMMA QuietSteps ==
  ASSUME EvidenceInv, NEW p \in Processes,
         PutArtifact(p) \/ BeginWrite(p) \/ ReadAndCheck(p) \/ BeginBuild(p)
         \/ Collect(p) \/ Sign(p) \/ WriteFile(p) \/ EndBuild(p)
  PROVE  /\ ~IsCommitted(tasks[p]) /\ \E t : Become(p, t) /\ ~IsCommitted(t)
         /\ UNCHANGED <<ledger, crashes>> /\ barrier'.generation = barrier.generation
<1> DEFINE Goal == \E t : Become(p, t) /\ ~IsCommitted(t)
           Kept == barrier'.generation = barrier.generation
<1> USE DEF IsCommitted, Writes
<1>1. /\ Shaped(tasks[p], objects) /\ TypeOK
      /\ \E h, g : barrier = [holder |-> h, generation |-> g]
  BY DEF EvidenceInv, Fits, TypeOK
<1>2. (UNCHANGED barrier \/ Hold(p) \/ Release(p)) => Kept
  BY <1>1 DEF Hold, Release
<1>3. Become(p, Idle) => Goal
  BY DEF Idle
<1>4. ASSUME NEW t, BuildCall(t), NEW n, Become(p, [t EXCEPT !.next = n])
      PROVE  Goal
  <2> DEFINE u == [t EXCEPT !.next = n]
  <2>1. u.op = "build"
    BY <1>4 DEF BuildCall
  <2> HIDE DEF u
  <2>2. Become(p, u)
    BY <1>4 DEF u
  <2> QED
    BY <2>1, <2>2
<1>5. ASSUME PutArtifact(p) PROVE ~IsCommitted(tasks[p]) /\ Goal /\ Kept
  <2>1. PICK a, e, ev :
          Become(p, [op |-> "ingest", at |-> "stored", evidence |-> ev,
                     election |-> e, artifact |-> a])
    BY <1>5 DEF PutArtifact
  <2> DEFINE t == [op |-> "ingest", at |-> "stored", evidence |-> ev,
                   election |-> e, artifact |-> a]
  <2>2. Become(p, t) /\ t.at = "stored"
    BY <2>1
  <2> HIDE DEF t
  <2>3. Goal
    BY <2>2
  <2> QED
    BY <1>2, <1>5, <2>3 DEF PutArtifact, Idle
<1>6. ASSUME BeginWrite(p) PROVE ~IsCommitted(tasks[p]) /\ Goal /\ Kept
  <2>1. CASE tasks[p].op = "ingest" /\ tasks[p].at = "stored"
             /\ Become(p, [tasks[p] EXCEPT !.at = "held"])
    <3> DEFINE t == [tasks[p] EXCEPT !.at = "held"]
    <3>1. WriteCall(tasks[p], objects)
      BY <1>1, <2>1, ShapesAreDistinct
    <3>2. t.at = "held"
      BY <3>1, Restaged DEF Stages
    <3> HIDE DEF t
    <3>3. Become(p, t)
      BY <2>1 DEF t
    <3> QED
      BY <1>2, <1>6, <2>1, <3>2, <3>3 DEF BeginWrite
  <2>2. ASSUME tasks[p] = Idle, NEW t \in Requests, Become(p, t)
        PROVE  ~IsCommitted(tasks[p]) /\ Goal /\ Kept
    <3>1. t.at = "held"
      BY <2>2 DEF Requests
    <3> QED
      BY <1>2, <1>6, <2>2, <3>1 DEF BeginWrite, Idle
  <2> QED
    BY <1>6, <2>1, <2>2 DEF BeginWrite
<1>7. ASSUME ReadAndCheck(p) PROVE ~IsCommitted(tasks[p]) /\ Goal /\ Kept
  <2>1. tasks[p].at = "held" /\ tasks[p].op \in Writes /\ Kept
    BY <1>2, <1>7 DEF ReadAndCheck
  <2>2. ASSUME NEW t \in Accepted(tasks[p]), Become(p, [t EXCEPT !.at = "checked"])
        PROVE  Goal
    <3> DEFINE u == [t EXCEPT !.at = "checked"]
    <3>1. u.at = "checked"
      <4>1. WriteCall(tasks[p], objects)
        BY <1>1, <2>1, ShapesAreDistinct
      <4>2. "at" \in DOMAIN tasks[p]
        <5>1. SnapshotCall(tasks[p]) => "at" \in DOMAIN tasks[p]
          BY DEF SnapshotCall
        <5>2. IngestCall(tasks[p], objects) => "at" \in DOMAIN tasks[p]
          BY DEF IngestCall
        <5>3. AttestCall(tasks[p]) => "at" \in DOMAIN tasks[p]
          BY DEF AttestCall
        <5>4. ExtractCall(tasks[p]) => "at" \in DOMAIN tasks[p]
          BY DEF ExtractCall
        <5>5. ReviewCall(tasks[p]) => "at" \in DOMAIN tasks[p]
          BY DEF ReviewCall
        <5> QED
          BY <4>1, <5>1, <5>2, <5>3, <5>4, <5>5 DEF WriteCall
      <4>3. DOMAIN t = DOMAIN tasks[p]
        BY <2>1, <2>2 DEF Accepted
      <4> QED
        BY <4>2, <4>3
    <3> HIDE DEF u
    <3>2. Become(p, u)
      BY <2>2 DEF u
    <3> QED
      BY <3>1, <3>2
  <2> QED
    BY <1>3, <1>7, <2>1, <2>2 DEF ReadAndCheck
<1>8. ASSUME BeginBuild(p) PROVE ~IsCommitted(tasks[p]) /\ Goal /\ Kept
  <2>1. PICK e, qs : Become(p, [op |-> "build", election |-> e, records |-> {}, next |-> 0,
                                queries |-> qs])
    BY <1>8 DEF BeginBuild
  <2> DEFINE t == [op |-> "build", election |-> e, records |-> {}, next |-> 0, queries |-> qs]
  <2>2. Become(p, t) /\ t.op = "build"
    BY <2>1
  <2> HIDE DEF t
  <2>3. Goal
    BY <2>2
  <2> QED
    BY <1>2, <1>8, <2>3 DEF BeginBuild, Idle
<1>9. ASSUME tasks[p].op = "build" PROVE ~IsCommitted(tasks[p]) /\ BuildCall(tasks[p])
  BY <1>1, <1>9, ShapesAreDistinct
<1>10. ASSUME Collect(p) PROVE ~IsCommitted(tasks[p]) /\ Goal /\ Kept
  <2>1. tasks[p].op = "build" /\ Kept
    BY <1>2, <1>10 DEF Collect
  <2> DEFINE query == Head(tasks[p].queries)
             answer == Answer(tasks[p], query)
             rest == Following(query, answer) \o Tail(tasks[p].queries)
             both == tasks[p].records \cup answer
             u == [tasks[p] EXCEPT !.records = both, !.queries = rest]
  <2>2. Become(p, Idle) \/ Become(p, u)
    BY <1>10 DEF Collect
  <2> HIDE DEF both, rest
  <2>3. u.op = "build"
    BY <1>9, <2>1 DEF BuildCall
  <2> HIDE DEF u
  <2>4. Goal
    BY <1>3, <2>2, <2>3
  <2> QED
    BY <1>9, <2>1, <2>4
<1>11. ASSUME Sign(p) \/ WriteFile(p) PROVE ~IsCommitted(tasks[p]) /\ Goal /\ Kept
  BY <1>2, <1>4, <1>9, <1>11 DEF Sign, WriteFile
<1>12. ASSUME EndBuild(p) PROVE ~IsCommitted(tasks[p]) /\ Goal /\ Kept
  BY <1>2, <1>3, <1>9, <1>12 DEF EndBuild
<1>13. UNCHANGED <<ledger, crashes>>
  BY DEF PutArtifact, BeginWrite, ReadAndCheck, BeginBuild, Collect, Sign, WriteFile, EndBuild,
     dataVars
<1> QED
  BY <1>5, <1>6, <1>7, <1>8, <1>10, <1>11, <1>12, <1>13

LEMMA InsertedCounts ==
  ASSUME EvidenceInv, Countable(ledger), NEW p \in Processes, CommitData(p)
  PROVE  Countable(ledger') /\ Rows(ledger') <= Rows(ledger) + 1
<1> DEFINE t == tasks[p]
<1>1. /\ LedgerOK(ledger) /\ Shaped(t, objects) /\ Checked(t, ledger)
      /\ t.op \in Writes /\ t.at = "checked" /\ ledger' = Inserted(t)
  BY DEF EvidenceInv, CommitData, Fits
<1>2. CASE t.op = "snapshot"
  <2>1. t.election \in Elections
    BY <1>1, <1>2, ShapesAreDistinct DEF SnapshotCall
  <2>2. ledger' = WithSnapshot(ledger, t.election, t.document)
    BY <1>1, <1>2 DEF Inserted
  <2> HIDE DEF t
  <2> QED
    BY <1>1, <2>1, <2>2, SnapshotCounts
<1>3. CASE t.op = "ingest"
  <2>1. t.evidence \in EvidenceIds
    BY <1>1, <1>3 DEF Checked
  <2>2. ledger' = WithVersion(ledger, t.evidence, t.election, t.artifact)
    BY <1>1, <1>3 DEF Inserted
  <2> HIDE DEF t
  <2> QED
    BY <1>1, <2>1, <2>2, VersionCounts
<1>4. CASE t.op \in {"attest", "extract", "review"}
  <2>1. ledger' \in {WithAttestation(ledger, t.row), WithExtraction(ledger, t.row),
                     WithReview(ledger, t.row)}
    BY <1>1, <1>4 DEF Inserted
  <2> HIDE DEF t
  <2> QED
    BY <1>1, <2>1, OthersCount
<1> QED
  BY <1>1, <1>2, <1>3, <1>4 DEF Writes

\* Reviews are finitely many; of extractions EvidenceInv says so.
CountInv == IsFiniteSet(ledger.reviews) /\ GenerationCountsWrites

LEMMA InitCounts == Init => CountInv
<1> SUFFICES ASSUME Init PROVE CountInv
  OBVIOUS
<1>1. /\ ledger.registry = [e \in Elections |-> <<>>]
      /\ ledger.versions = [ev \in EvidenceIds |-> <<>>]
      /\ ledger.attestations = <<>> /\ ledger.extractions = {} /\ ledger.reviews = {}
  BY DEF Init, EmptyLedger
<1>2. ASSUME NEW S, IsFiniteSet(S) PROVE TotalLength([x \in S |-> <<>>]) = 0
  <2> DEFINE c == [x \in S |-> <<>>]
             f == [x \in DOMAIN c |-> Len(c[x])]
  <2>1. TotalLength(c) = SumFunction(f)
    BY DEF TotalLength
  <2>2. /\ IsFiniteSet(DOMAIN f) /\ \A x \in DOMAIN f : f[x] = 0
        /\ f = [x \in DOMAIN f |-> f[x]]
    BY <1>2
  <2> HIDE DEF f
  <2>3. SumFunction(f) = 0
    BY <2>2, SumOfZeros
  <2> QED
    BY <2>1, <2>3
<1>3. TotalLength(ledger.registry) = 0 /\ TotalLength(ledger.versions) = 0
  BY <1>1, <1>2, IdsAreFinite
<1>4. Rows(ledger) = 0
  BY <1>1, <1>3, FS_EmptySet DEF Rows
<1>5. Uncounted = {}
  BY DEF Uncounted, Init, Idle, Writes
<1>6. Cardinality(Uncounted) = 0
  BY <1>5, FS_EmptySet
<1>7. GenerationCountsWrites
  BY <1>4, <1>6 DEF GenerationCountsWrites, Uncounted, Init
<1> QED
  BY <1>1, <1>7, FS_EmptySet DEF CountInv

LEMMA OneCrashMore ==
  \A r, g, c, n, m \in Int : r <= g + c + n /\ n <= m + 1 => r <= g + (c + 1) + m
  OBVIOUS

LEMMA NextCounts == EvidenceInv /\ CountInv /\ [Next]_vars => CountInv'
<1> SUFFICES ASSUME EvidenceInv, CountInv, [Next]_vars PROVE CountInv'
  OBVIOUS
<1> DEFINE n == Cardinality(Uncounted)
<1>1. /\ TypeOK /\ TypeOK' /\ LedgerOK(ledger) /\ LedgerOK(ledger')
      /\ Countable(ledger)
      /\ Rows(ledger) <= barrier.generation + crashes + n
  BY NextEvidence DEF EvidenceInv, CountInv, Countable, LedgerFits, GenerationCountsWrites, Uncounted
<1>2. /\ Rows(ledger) \in Int /\ barrier.generation \in Int /\ crashes \in Int
      /\ barrier'.generation \in Int /\ crashes' \in Int
  BY <1>1, TablesCount, EvidenceConstants DEF TypeOK
<1>3. ASSUME Countable(ledger'), Rows(ledger') \in Int,
             Rows(ledger') <= barrier'.generation + crashes' + n'
      PROVE  CountInv'
  BY <1>3 DEF CountInv, GenerationCountsWrites, Countable, Uncounted
<1>4. CASE UNCHANGED vars
  <2>1. Uncounted' = Uncounted /\ ledger' = ledger /\ barrier' = barrier /\ crashes' = crashes
    BY <1>4 DEF Uncounted, vars
  <2> QED
    BY <1>1, <1>2, <1>3, <2>1
<1>5. ASSUME NEW p \in Processes,
             PutArtifact(p) \/ BeginWrite(p) \/ ReadAndCheck(p) \/ BeginBuild(p)
             \/ Collect(p) \/ Sign(p) \/ WriteFile(p) \/ EndBuild(p)
      PROVE  CountInv'
  <2>1. PICK t : Become(p, t) /\ ~IsCommitted(t)
    BY <1>5, QuietSteps
  <2>2. ~IsCommitted(tasks[p]) /\ ledger' = ledger /\ crashes' = crashes
        /\ barrier'.generation = barrier.generation
    BY <1>5, QuietSteps
  <2>3. n' = n
    BY <1>1, <2>1, <2>2, UncountedChanges
  <2> HIDE DEF n
  <2> QED
    BY <1>1, <1>2, <1>3, <2>2, <2>3
<1>6. ASSUME NEW p \in Processes, CommitData(p) PROVE CountInv'
  <2> DEFINE t == [tasks[p] EXCEPT !.at = "committed"]
  <2>1. Become(p, t) /\ tasks[p].op \in Writes /\ tasks[p].at = "checked"
        /\ barrier' = barrier /\ crashes' = crashes
    BY <1>6 DEF CommitData
  <2>2. IsCommitted(t) /\ ~IsCommitted(tasks[p])
    <3>1. WriteCall(tasks[p], objects)
      BY <2>1, ShapesAreDistinct DEF EvidenceInv, Fits
    <3> QED
      BY <2>1, <3>1, Restaged DEF Stages, IsCommitted
  <2> HIDE DEF t
  <2>3. p \notin Uncounted /\ n' = 1 /\ n = 0
    <3>1. p \notin Uncounted /\ n' = 1
      BY <1>1, <2>1, <2>2, UncountedChanges
    <3>2. Uncounted = {}
      <4>1. \A q \in Uncounted : barrier.holder = q
        BY <1>1 DEF TypeOK, Holding, Uncounted
      <4>2. barrier.holder = p
        BY <1>1, <2>1 DEF TypeOK, Holding
      <4> QED
        BY <3>1, <4>1, <4>2
    <3> QED
      BY <3>1, <3>2, FS_EmptySet
  <2>4. Countable(ledger') /\ Rows(ledger') <= Rows(ledger) + 1
    BY <1>1, <1>6, InsertedCounts
  <2>5. Rows(ledger') \in Int
    BY <1>1, <2>4, TablesCount
  <2> HIDE DEF n
  <2>6. Rows(ledger') <= barrier'.generation + crashes' + n'
    BY <1>1, <1>2, <2>1, <2>3, <2>4, <2>5
  <2> QED
    BY <1>3, <2>4, <2>5, <2>6
<1>7. ASSUME NEW p \in Processes, CommitBarrier(p) PROVE CountInv'
  <2>1. Become(p, Idle) /\ IsCommitted(tasks[p]) /\ ~IsCommitted(Idle)
        /\ ledger' = ledger /\ crashes' = crashes
        /\ barrier'.generation = barrier.generation + 1
    <3>1. crashes' = crashes
      BY <1>7 DEF CommitBarrier
    <3> QED
      BY <1>7, <3>1 DEF CommitBarrier, CommitGeneration, dataVars, IsCommitted, Idle, Writes
  <2>2. n = 1 /\ n' = 0
    BY <1>1, <2>1, UncountedChanges
  <2> HIDE DEF n
  <2>3. Rows(ledger') <= barrier'.generation + crashes' + n'
    BY <1>1, <1>2, <2>1, <2>2
  <2> QED
    BY <1>1, <1>2, <1>3, <2>1, <2>3
<1>8. ASSUME NEW p \in Processes, Crash(p) PROVE CountInv'
  <2>1. Become(p, Idle) /\ ~IsCommitted(Idle)
        /\ ledger' = ledger /\ crashes' = crashes + 1
    BY <1>8 DEF Crash, dataVars, IsCommitted, Idle, Writes
  <2>2. barrier'.generation = barrier.generation
    BY <1>1, <1>8 DEF Crash, Release, TypeOK
  <2>3. n' \in Int /\ n \in Int /\ n <= n' + 1
    <3>1. IsCommitted(tasks[p]) => n = 1 /\ n' = 0
      BY <1>1, <2>1, UncountedChanges
    <3>2. ~IsCommitted(tasks[p]) => n' = n
      BY <1>1, <2>1, UncountedChanges
    <3>3. n \in {0, 1}
      BY <1>1, <2>1, UncountedChanges
    <3> HIDE DEF n
    <3> QED
      BY <3>1, <3>2, <3>3
  <2> HIDE DEF n
  <2>4. Rows(ledger') = Rows(ledger) /\ Rows(ledger) \in Int
    BY <1>2, <2>1
  <2>5. Rows(ledger') <= barrier'.generation + crashes' + n'
    BY <1>1, <1>2, <2>1, <2>2, <2>3, <2>4, OneCrashMore
  <2> QED
    BY <1>1, <1>2, <1>3, <2>1, <2>5
<1> QED
  BY <1>4, <1>5, <1>6, <1>7, <1>8 DEF Next

\* Rows that the barrier's generation does not count are at most as many as
\* processes were killed, and the one that is about to be counted.
THEOREM WritesAreCounted == Spec => []GenerationCountsWrites
<1>1. EvidenceInv /\ CountInv /\ [Next]_vars => CountInv'
  BY NextCounts
<1>2. CountInv => GenerationCountsWrites
  BY DEF CountInv
<1> QED
  BY <1>1, <1>2, InitCounts, EvidenceInvariant, PTL DEF Spec

----------------------------------------------------------------------------
(* Releases only grow.  Normalisation gives a release one meaning because  *)
(* an extraction supersedes one that was there before it.                  *)

MeaningInv ==
  /\ Placed(ledger) /\ UniqueIds(ledger.extractions) /\ Founded(ledger.extractions)
  /\ \A r \in releases : r.election \in Elections /\ r.records \subseteq Records(ledger, r.election)

LEMMA InitMeaning == Init => MeaningInv
<1> SUFFICES ASSUME Init PROVE MeaningInv
  OBVIOUS
<1>1. /\ ledger.versions = [ev \in EvidenceIds |-> <<>>] /\ ledger.extractions = {}
      /\ releases = {}
  BY DEF Init, EmptyLedger
<1>2. Placed(ledger)
  BY <1>1, EmptySequence DEF Placed
<1>3. UniqueIds(ledger.extractions)
  BY <1>1 DEF UniqueIds
<1>4. Founded(ledger.extractions)
  BY <1>1, NothingIsFounded
<1> QED
  BY <1>1, <1>2, <1>3, <1>4 DEF MeaningInv

\* A new extraction supersedes one that was there before it.
LEMMA NewIdsStayUnique ==
  ASSUME NEW X, NEW x, UniqueIds(X), \A y \in X : y.id # x.id
  PROVE  UniqueIds(X \cup {x})
BY DEF UniqueIds

LEMMA SameMeans ==
  ASSUME NEW l, NEW k, Placed(l), k.versions = l.versions
  PROVE  Placed(k)
BY DEF Placed

LEMMA InsertedMeans ==
  ASSUME EvidenceInv, MeaningInv, NEW p \in Processes, CommitData(p)
  PROVE  /\ Grows(ledger, ledger')
         /\ Placed(ledger') /\ UniqueIds(ledger'.extractions) /\ Founded(ledger'.extractions)
<1> DEFINE t == tasks[p]
<1>1. /\ LedgerOK(ledger) /\ LedgerFits(ledger, objects)
      /\ Shaped(t, objects) /\ Checked(t, ledger)
      /\ t.op \in Writes /\ t.at = "checked" /\ ledger' = Inserted(t)
      /\ Placed(ledger) /\ UniqueIds(ledger.extractions) /\ Founded(ledger.extractions)
  BY DEF EvidenceInv, CommitData, Fits, MeaningInv
<1>2. CASE t.op = "snapshot"
  <2>1. t.election \in Elections
    BY <1>1, <1>2, ShapesAreDistinct DEF SnapshotCall
  <2>2. ledger' = WithSnapshot(ledger, t.election, t.document)
    BY <1>1, <1>2 DEF Inserted
  <2> HIDE DEF t
  <2>3. ledger'.versions = ledger.versions /\ ledger'.extractions = ledger.extractions
    BY <1>1, <2>1, <2>2, SnapshotTables
  <2>4. Grows(ledger, ledger') /\ Placed(ledger')
    BY <1>1, <2>2, <2>3, SnapshotGrows, SameMeans
  <2> QED
    BY <1>1, <2>3, <2>4
<1>3. CASE t.op = "ingest"
  <2>1. t.evidence \in EvidenceIds
    BY <1>1, <1>3 DEF Checked
  <2>2. ledger' = WithVersion(ledger, t.evidence, t.election, t.artifact)
    BY <1>1, <1>3 DEF Inserted
  <2> HIDE DEF t
  <2>3. ledger'.extractions = ledger.extractions
    BY <1>1, <2>1, <2>2, VersionTables
  <2>4. Grows(ledger, ledger') /\ Placed(ledger')
    BY <1>1, <2>1, <2>2, VersionGrows, PlacesKept
  <2> QED
    BY <1>1, <2>3, <2>4
<1>4. CASE t.op = "attest" \/ t.op = "review"
  <2>1. ledger' \in {WithAttestation(ledger, t.row), WithReview(ledger, t.row)}
    BY <1>1, <1>4 DEF Inserted
  <2> HIDE DEF t
  <2>2. ledger'.versions = ledger.versions /\ ledger'.extractions = ledger.extractions
    BY <1>1, <2>1, OtherTables
  <2>3. Grows(ledger, ledger') /\ Placed(ledger')
    BY <1>1, <2>1, <2>2, OthersGrow, SameMeans
  <2> QED
    BY <1>1, <2>2, <2>3
<1>5. CASE t.op = "extract"
  <2> DEFINE x == t.row
  <2>1. ledger' = WithExtraction(ledger, x)
    BY <1>1, <1>5 DEF Inserted
  <2>2. ExtractionAccepted(ledger, x) /\ \A y \in ledger.extractions : y.id # x.id
    BY <1>1, <1>5 DEF Checked
  <2> HIDE DEF t, x
  <2>3. ledger'.versions = ledger.versions /\ ledger'.extractions = ledger.extractions \cup {x}
    BY <1>1, <2>1, OtherTables
  <2>4. Grows(ledger, ledger') /\ Placed(ledger')
    BY <1>1, <2>1, <2>3, OthersGrow, SameMeans
  <2>5. Resolved(ledger.extractions)
    BY <1>1 DEF LedgerFits, Resolved
  <2>6. x.supersedes = None \/ \E y \in ledger.extractions : y.id = x.supersedes
    BY <2>2 DEF ExtractionAccepted
  <2>7. Founded(ledger.extractions \cup {x})
    BY <1>1, <2>2, <2>5, <2>6, FoundedGrows
  <2>8. UniqueIds(ledger.extractions \cup {x})
    BY <1>1, <2>2, NewIdsStayUnique
  <2> QED
    BY <2>3, <2>4, <2>7, <2>8
<1> QED
  BY <1>1, <1>2, <1>3, <1>4, <1>5 DEF Writes

\* What a release is signed from is what the ledger holds.
LEMMA SignedIsTheLedger ==
  ASSUME EvidenceInv, NEW p \in Processes, Sign(p)
  PROVE  /\ releases' = releases \cup {Signed(tasks[p])} /\ ledger' = ledger
         /\ Signed(tasks[p]).election \in Elections
         /\ Signed(tasks[p]).records = Records(ledger, Signed(tasks[p]).election)
<1>1. tasks[p].records = Records(ledger, tasks[p].election)
  BY SignKeeps
<1>2. tasks[p].election \in Elections
  BY ShapesAreDistinct DEF EvidenceInv, Fits, Sign, BuildCall
<1> QED
  BY <1>1, <1>2 DEF Sign, dataVars, Signed

LEMMA NextMeaning == EvidenceInv /\ MeaningInv /\ [Next]_vars => MeaningInv'
<1> SUFFICES ASSUME EvidenceInv, MeaningInv, [Next]_vars PROVE MeaningInv'
  OBVIOUS
<1>1. CASE ledger' = ledger /\ releases' = releases
  BY <1>1 DEF MeaningInv
<1>2. CASE UNCHANGED vars
  BY <1>1, <1>2 DEF vars
<1>3. ASSUME NEW p \in Processes,
             PutArtifact(p) \/ BeginWrite(p) \/ ReadAndCheck(p) \/ CommitBarrier(p) \/ BeginBuild(p)
             \/ Collect(p) \/ WriteFile(p) \/ EndBuild(p) \/ Crash(p)
      PROVE  MeaningInv'
  BY <1>1, <1>3, OtherStepsStutter DEF Ledger!vars
<1>4. ASSUME NEW p \in Processes, CommitData(p) PROVE MeaningInv'
  <2>1. /\ Grows(ledger, ledger')
        /\ Placed(ledger') /\ UniqueIds(ledger'.extractions) /\ Founded(ledger'.extractions)
    BY <1>4, InsertedMeans
  <2>2. \A e \in Elections : Records(ledger, e) \subseteq Records(ledger', e)
    BY <2>1, RecordsGrow
  <2>3. releases' = releases
    BY <1>4 DEF CommitData
  <2> QED
    BY <2>1, <2>2, <2>3 DEF MeaningInv
<1>5. ASSUME NEW p \in Processes, Sign(p) PROVE MeaningInv'
  BY <1>5, SignedIsTheLedger DEF MeaningInv
<1> QED
  BY <1>2, <1>3, <1>4, <1>5 DEF Next

\* The release that a step adds is what the ledger holds of its election.
LEMMA NewReleasesAreCuts ==
  ASSUME EvidenceInv, [Next]_vars, NEW q \in releases' \ releases
  PROVE  q.election \in Elections /\ q.records = Records(ledger, q.election)
<1>1. \/ \E p \in Processes : Sign(p)
      \/ releases' = releases
  BY OtherStepsStutter DEF Next, CommitData, Ledger!vars, vars
<1>2. PICK p \in Processes : Sign(p)
  BY <1>1
<1>3. q = Signed(tasks[p])
  BY <1>2, SignedIsTheLedger
<1> QED
  BY <1>2, <1>3, SignedIsTheLedger

LEMMA LaterReleasesMeanMore ==
  ASSUME EvidenceInv, MeaningInv, [Next]_vars,
         NEW r \in releases, NEW q \in releases' \ releases, r.election = q.election
  PROVE  /\ r.records \subseteq q.records
         /\ SemanticRecords(r.records) \subseteq SemanticRecords(q.records)
<1> DEFINE A == r.records
           B == q.records
           e == q.election
<1>1. e \in Elections /\ B = Records(ledger, e)
  BY NewReleasesAreCuts
<1>2. A \subseteq B
  BY <1>1 DEF MeaningInv
<1>3. ReferencesClosed(A) /\ ReferencesClosed(B)
  BY NextEvidence DEF EvidenceInv, ReleasesAreClosed
<1>4. /\ Placed(ledger) /\ UniqueIds(ledger.extractions) /\ Founded(ledger.extractions)
  BY DEF MeaningInv
<1> HIDE DEF A, B, e
<1>5. Normal(A) /\ Normal(B) /\ ExtractionsOf(B) \subseteq ledger.extractions
  BY <1>1, <1>2, <1>3, <1>4, RecordsAreNormal
<1>6. Founded(ExtractionsOf(B))
  BY <1>4, <1>5 DEF Founded
<1>7. SemanticRecords(A) \subseteq SemanticRecords(B)
  BY <1>2, <1>5, <1>6, SemanticsGrow
<1> QED
  BY <1>2, <1>7 DEF A, B

\* A later release of an election loses no record of an earlier one, and nothing
\* of what normalisation made of them.
THEOREM LaterReleasesGrow == Spec => ReleasesOnlyGrow
<1>1. EvidenceInv /\ MeaningInv /\ [Next]_vars => MeaningInv'
  BY NextMeaning
<1>2. EvidenceInv /\ MeaningInv /\ [Next]_vars =>
        [\A r \in releases, q \in releases' \ releases :
           r.election = q.election =>
             /\ r.records \subseteq q.records
             /\ SemanticRecords(r.records) \subseteq SemanticRecords(q.records)]_vars
  BY LaterReleasesMeanMore
<1> QED
  BY <1>1, <1>2, InitMeaning, EvidenceInvariant, PTL DEF Spec, ReleasesOnlyGrow

=============================================================================
