--------------------------- MODULE EvidenceLedger ---------------------------
(***************************************************************************)
(* The evidence store, the registry store and the release command on one   *)
(* host.  The ledger is kept in two SQLite files; a third one is the write *)
(* barrier: BEGIN IMMEDIATE on it is a lock that the operating system      *)
(* drops when its holder dies.  A write holds the barrier around a         *)
(* transaction of its own, and both commit, the barrier last.  A release   *)
(* holds it while it reads the files query by query and replaces the files *)
(* of the release directory one by one.                                    *)
(***************************************************************************)
EXTENDS LedgerRecords

CONSTANTS
  Processes,      \* API workers and command lines, one call at a time
  NoProcess,
  Renderings,     \* records.json and the other exports, in writing order
  MaxWrites,      \* bound on the generation of the barrier
  MaxVersions,    \* bound on the versions that requests name
  MaxReleases,    \* bound on signed releases
  MaxCrashes      \* bound on killed processes

ASSUME RecordsFirst ==
  /\ Renderings \in Seq(STRING)
  /\ Renderings # <<>> /\ Renderings[1] = "records.json"
  /\ \A i \in DOMAIN Renderings :
        Renderings[i] \notin {"semantic.summary.json", "semantic.summary.signature.json"}
ASSUME EvidenceConstants == NoProcess \notin Processes /\ MaxCrashes \in Nat
\* Election ids are bounded strings and evidence ids uuids.
ASSUME IdsAreFinite == IsFiniteSet(Elections) /\ IsFiniteSet(EvidenceIds)

VARIABLES
  ledger,         \* the two databases
  objects,        \* artifacts in the object directory
  barrier,        \* holder and committed generation
  tasks,          \* the call each process is in
  releases,       \* history: what was signed
  directory,      \* the release directory
  crashes

dataVars == <<ledger, objects>>
vars == <<ledger, objects, barrier, tasks, releases, directory, crashes>>

BaseFiles == Renderings \o <<"manifest.json", "manifest.signature.json">>
Files == BaseFiles \o <<"semantic.summary.json", "semantic.summary.signature.json">>

Idle == [op |-> "idle"]
NoFile == [absent |-> TRUE]
Writes == {"snapshot", "ingest", "attest", "extract", "review"}

Init ==
  /\ ledger = EmptyLedger
  /\ objects = {}
  /\ barrier = [holder |-> NoProcess, generation |-> 0]
  /\ tasks = [p \in Processes |-> Idle]
  /\ releases = {}
  /\ directory = [f \in ToSet(Files) |-> NoFile]
  /\ crashes = 0

----------------------------------------------------------------------------
(* The barrier. *)

Become(p, task) == tasks' = [tasks EXCEPT ![p] = task]

HoldNothing(p) == UNCHANGED barrier  \* mutant of Hold
Hold(p) ==
  /\ barrier.holder = NoProcess
  /\ barrier' = [barrier EXCEPT !.holder = p]

\* Rollback and commit of the barrier's transaction.
KeepHeld(p) == UNCHANGED barrier  \* mutant of Release
Release(p) == barrier' = [barrier EXCEPT !.holder = NoProcess]
CommitUncounted(p) == Release(p)  \* mutant of CommitGeneration
CommitGeneration(p) ==
  barrier' = [holder |-> NoProcess, generation |-> barrier.generation + 1]

----------------------------------------------------------------------------
(* Writes. *)

\* The bytes of an upload are moved into place before any row names them.
PutArtifact(p) ==
  /\ tasks[p] = Idle
  /\ \E a \in Artifacts, e \in Elections, ev \in EvidenceIds \cup {None} :
       /\ objects' = objects \cup {a}
       /\ Become(p, [op |-> "ingest", at |-> "stored", evidence |-> ev,
                     election |-> e, artifact |-> a])
  /\ UNCHANGED <<ledger, barrier, releases, directory, crashes>>

\* The requests of the other endpoints; the client names rows by id and hash.
Requests ==
  [op : {"snapshot"}, at : {"held"}, election : Elections, document : Documents]
  \cup
  {[op |-> "attest", at |-> "held", row |-> [evidence |-> ev, version |-> v,
      hash |-> row.hash, actor |-> actor]] :
     ev \in EvidenceIds, v \in 1..MaxVersions, actor \in Actors,
     row \in UNION {ToSet(ledger.versions[x]) : x \in EvidenceIds}}
  \cup
  {[op |-> "extract", at |-> "held", row |-> [id |-> id, evidence |-> ev,
      version |-> v, hash |-> row.hash, supersedes |-> s]] :
     id \in ExtractionIds \ {x.id : x \in ledger.extractions},
     ev \in EvidenceIds, v \in 1..MaxVersions,
     row \in UNION {ToSet(ledger.versions[x]) : x \in EvidenceIds},
     s \in {None} \cup {x.id : x \in ledger.extractions}}
  \cup
  {[op |-> "review", at |-> "held", row |-> [id |-> id, extraction |-> x]] :
     id \in ExtractionIds \ {r.id : r \in ledger.reviews}, x \in ExtractionIds}

BeginWrite(p) ==
  /\ barrier.generation < MaxWrites
  /\ Hold(p)
  /\ \/ tasks[p] = Idle /\ \E request \in Requests : Become(p, request)
     \/ /\ tasks[p].op = "ingest" /\ tasks[p].at = "stored"
        /\ Become(p, [tasks[p] EXCEPT !.at = "held"])
  /\ UNCHANGED <<dataVars, releases, directory, crashes>>

\* What the store reads before it inserts, and the call as it goes on.  Without
\* an evidence_id the store makes a new one; a given one must be known.
Accepted(t) ==
  CASE t.op = "snapshot" -> {t}
    [] t.op = "ingest" ->
         {[t EXCEPT !.evidence = ev] : ev \in
            {x \in EvidenceIds : IF t.evidence = None THEN ledger.versions[x] = <<>>
                                 ELSE x = t.evidence /\ ledger.versions[x] # <<>>}}
    [] t.op = "attest" -> {u \in {t} : AttestationAccepted(ledger, u.row)}
    [] t.op = "extract" -> {u \in {t} : ExtractionAccepted(ledger, u.row)}
    [] t.op = "review" -> {u \in {t} : ReviewAccepted(ledger, u.row)}

ReadAndCheck(p) ==
  /\ tasks[p].op \in Writes /\ tasks[p].at = "held"
  /\ \/ /\ \E t \in Accepted(tasks[p]) : Become(p, [t EXCEPT !.at = "checked"])
        /\ UNCHANGED barrier
     \/ /\ Accepted(tasks[p]) = {}
        /\ Become(p, Idle)
        /\ Release(p)
  /\ UNCHANGED <<dataVars, releases, directory, crashes>>

Inserted(t) ==
  CASE t.op = "snapshot" -> WithSnapshot(ledger, t.election, t.document)
    [] t.op = "ingest" -> WithVersion(ledger, t.evidence, t.election, t.artifact)
    [] t.op = "attest" -> WithAttestation(ledger, t.row)
    [] t.op = "extract" -> WithExtraction(ledger, t.row)
    [] t.op = "review" -> WithReview(ledger, t.row)

CommitData(p) ==
  /\ tasks[p].op \in Writes /\ tasks[p].at = "checked"
  /\ ledger' = Inserted(tasks[p])
  /\ Become(p, [tasks[p] EXCEPT !.at = "committed"])
  /\ UNCHANGED <<objects, barrier, releases, directory, crashes>>

CommitBarrier(p) ==
  /\ tasks[p].op \in Writes /\ tasks[p].at = "committed"
  /\ CommitGeneration(p)
  /\ Become(p, Idle)
  /\ UNCHANGED <<dataVars, releases, directory, crashes>>

----------------------------------------------------------------------------
(* build_atomic_release. *)

BeginBuild(p) ==
  /\ tasks[p] = Idle
  /\ Cardinality(releases) < MaxReleases
  /\ Hold(p)
  /\ \E e \in Elections :
       Become(p, [op |-> "build", election |-> e, records |-> {}, next |-> 0,
                  queries |-> <<[table |-> "registry"], [table |-> "versions"]>>])
  /\ UNCHANGED <<dataVars, releases, directory, crashes>>

Answer(t, query) ==
  CASE query.table = "registry" -> SnapshotRecords(ledger, t.election)
    [] query.table = "versions" -> VersionRecords(ledger, t.election)
    [] query.table = "attestations" ->
         AttestationRecords(ledger, query.evidence, query.version)
    [] query.table = "extractions" ->
         ExtractionRecords(ledger, query.evidence, query.version)
    [] query.table = "reviews" -> ReviewRecords(ledger, query.extraction)

\* The queries that follow from an answer, before the ones already queued.
Following(query, answer) ==
  CASE query.table = "versions" ->
         SetToSeq({[table |-> "attestations", evidence |-> r.payload.stream,
                    version |-> r.payload.version] : r \in answer})
    [] query.table = "attestations" ->
         <<[table |-> "extractions", evidence |-> query.evidence, version |-> query.version]>>
    [] query.table = "extractions" ->
         SetToSeq({[table |-> "reviews", extraction |-> r.payload.id] : r \in answer})
    [] OTHER -> <<>>

\* One SELECT in autocommit mode: it sees what is committed when it runs.
Collect(p) ==
  /\ tasks[p].op = "build" /\ tasks[p].queries # <<>>
  /\ LET t == tasks[p]
         query == Head(t.queries)
         answer == Answer(t, query)
     IN  \/ /\ query.table = "registry" /\ answer = {}
            /\ Become(p, Idle)
            /\ Release(p)
         \/ /\ query.table = "registry" => answer # {}
            /\ Become(p, [t EXCEPT !.records = @ \cup answer,
                                   !.queries = Following(query, answer) \o Tail(@)])
            /\ UNCHANGED barrier
  /\ UNCHANGED <<dataVars, releases, directory, crashes>>

Signed(t) == [election |-> t.election, records |-> t.records]

Sign(p) ==
  /\ tasks[p].op = "build" /\ tasks[p].queries = <<>> /\ tasks[p].next = 0
  /\ KeysAreUnique(tasks[p].records)
  /\ releases' = releases \cup {Signed(tasks[p])}
  /\ Become(p, [tasks[p] EXCEPT !.next = 1])
  /\ UNCHANGED <<dataVars, barrier, directory, crashes>>

\* What a file of the directory says.  The base files are a function of the
\* release; the semantic summary is computed from records.json read back.
FileOf(t, name) ==
  IF name \in ToSet(BaseFiles) THEN Signed(t)
  ELSE [release |-> Signed(t),
        semantic |-> SemanticRecords(directory["records.json"].records)]

\* Temporary file and rename: a reader sees the old bytes or the new ones.
WriteFile(p) ==
  /\ tasks[p].op = "build" /\ tasks[p].next \in DOMAIN Files
  /\ directory' = [directory EXCEPT ![Files[tasks[p].next]] =
                     FileOf(tasks[p], Files[tasks[p].next])]
  /\ Become(p, [tasks[p] EXCEPT !.next = @ + 1])
  /\ UNCHANGED <<dataVars, barrier, releases, crashes>>

EndBuild(p) ==
  /\ tasks[p].op = "build" /\ tasks[p].next > Len(Files)
  /\ Release(p)
  /\ Become(p, Idle)
  /\ UNCHANGED <<dataVars, releases, directory, crashes>>

----------------------------------------------------------------------------
(* Verification. *)

\* verify_release: the signature is of this manifest, the three exports have
\* its hashes and, being renderings of its records, its root.
ReleaseVerified(dir) ==
  /\ dir["manifest.json"] # NoFile
  /\ \A f \in ToSet(BaseFiles) : dir[f] = dir["manifest.json"]

\* verify_semantic_release.
SemanticsOnlyVerified(dir) ==  \* mutant of SemanticReleaseVerified
  /\ ReleaseVerified(dir)
  /\ dir["semantic.summary.json"] # NoFile
  /\ dir["semantic.summary.signature.json"] = dir["semantic.summary.json"]
  /\ dir["semantic.summary.json"].semantic = SemanticRecords(dir["records.json"].records)
SemanticReleaseVerified(dir) ==
  /\ ReleaseVerified(dir)
  /\ dir["semantic.summary.json"] # NoFile
  /\ dir["semantic.summary.signature.json"] = dir["semantic.summary.json"]
  /\ dir["semantic.summary.json"].release = dir["manifest.json"]
  /\ dir["semantic.summary.json"].semantic = SemanticRecords(dir["records.json"].records)

----------------------------------------------------------------------------
\* A process is killed: its uncommitted transactions and locks are gone.  Before
\* CommitBarrier it leaves what a failing commit of the barrier leaves: the data
\* are there, and the generation is rolled back.
Crash(p) ==
  /\ crashes < MaxCrashes
  /\ tasks[p] # Idle
  /\ crashes' = crashes + 1
  /\ Become(p, Idle)
  /\ IF barrier.holder = p THEN Release(p) ELSE UNCHANGED barrier
  /\ UNCHANGED <<dataVars, releases, directory>>

Next ==
  \E p \in Processes :
     \/ PutArtifact(p) \/ BeginWrite(p)
     \/ ReadAndCheck(p) \/ CommitData(p) \/ CommitBarrier(p)
     \/ BeginBuild(p) \/ Collect(p) \/ Sign(p) \/ WriteFile(p) \/ EndBuild(p)
     \/ Crash(p)

Spec == Init /\ [][Next]_vars
----------------------------------------------------------------------------
(* Properties. *)

Holding(p) == \/ tasks[p].op \in Writes /\ tasks[p].at # "stored"
              \/ tasks[p].op = "build"

\* Types; the barrier's holder is the one process inside a write or a build.
TypeOK ==
  /\ objects \subseteq Artifacts
  /\ barrier \in [holder : Processes \cup {NoProcess}, generation : Nat]
  /\ DOMAIN tasks = Processes
  /\ \A p \in Processes : Holding(p) <=> barrier.holder = p
  /\ crashes \in 0..MaxCrashes

\* The ledger in two databases, written and read in many steps, with processes
\* killed between any two of them, behaves like one that is written in single
\* steps; and every release is a cut of all of it (docs/SEMANTIC_RELEASES.md:12).
Ledger == INSTANCE AtomicLedger
ImplementsAtomicLedger == Ledger!Spec

\* Concurrent and interrupted uploads leave evidence sound: no append forks or
\* breaks the hash chain of an election's registry or of an evidence id, and
\* every row of evidence names bytes that are in the object directory.
EvidenceIsSound ==
  /\ \A e \in Elections : ChainVerified(ledger.registry[e])
  /\ \A ev \in EvidenceIds : ChainVerified(ledger.versions[ev])
  /\ \A ev \in EvidenceIds : \A i \in DOMAIN ledger.versions[ev] :
        ledger.versions[ev][i].content \in objects

\* Semantic normalisation never meets a reference that the same release does
\* not resolve, even when an evidence id moves from one election to another:
\* it runs after the base files were replaced, and raising there would leave
\* the directory with old summaries.
ReleasesAreClosed ==
  /\ \A r \in releases : ReferencesClosed(r.records)
  /\ \A r \in releases : KeysAreUnique(r.records)

\* Whatever was interrupted, a directory that passes verification holds one
\* signed release and the summary of that release; and a build that reaches its
\* end leaves such a directory.
VerifiedDirectoryIsOneRelease ==
  /\ SemanticReleaseVerified(directory) =>
       \E r \in releases :
          /\ \A f \in ToSet(BaseFiles) : directory[f] = r
          /\ directory["semantic.summary.json"] =
                [release |-> r, semantic |-> SemanticRecords(r.records)]
  /\ \A p \in Processes :
       tasks[p].op = "build" /\ tasks[p].next > Len(Files) =>
          SemanticReleaseVerified(directory)

\* A later release of an election contains every record of an earlier one, and
\* loses nothing of its semantic content.
ReleasesOnlyGrow ==
  [][\A r \in releases, q \in releases' \ releases :
        r.election = q.election =>
          /\ r.records \subseteq q.records
          /\ SemanticRecords(r.records) \subseteq SemanticRecords(q.records)]_vars

\* A write that the barrier's generation does not count is the trace of a crash
\* between the two commits, or is about to be counted.
GenerationCountsWrites ==
  Rows(ledger) <= barrier.generation + crashes
                  + Cardinality({p \in Processes : /\ tasks[p].op \in Writes
                                                   /\ tasks[p].at = "committed"})

============================================================================
