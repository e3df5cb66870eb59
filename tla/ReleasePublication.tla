------------------------- MODULE ReleasePublication -------------------------
(***************************************************************************)
(* Governed publications.  A process builds releases into a directory file *)
(* by file; another verifies the directory, reads the checkpoints and the  *)
(* key ledger of ReleaseGovernance one after the other, copies the files   *)
(* to immutable storage and writes the publication record last.  Nothing   *)
(* keeps the directory or the governance store still meanwhile, and a      *)
(* process may fail at any step and start again.  The directory holds      *)
(* SQLite releases (version 1, semantic summary) or PostgreSQL releases    *)
(* (version 2, their own summary); only SQLite builds exclude each other.  *)
(* A signature is taken together with the file it signs, the three         *)
(* governance objects, each named by its digest, are one object.           *)
(***************************************************************************)
EXTENDS ObjectStorage, Sequences, SequencesExt

CONSTANTS
  Processes,
  Renderings,      \* records.json and the other exports
  MaxAttempts,     \* bound on builds and publications that are begun
  \* ReleaseGovernance
  Operators, SigningKeys, Releases, Elections, SignerOf, ElectionOf, MaxTime

ASSUME PublicationConstants ==
  /\ Releases \subseteq Nat \ {0}
  /\ SignerOf \in [Releases -> SigningKeys]
  /\ ElectionOf \in [Releases -> Elections]
  /\ Renderings \in Seq(STRING)
  /\ ToSet(Renderings) \cap {"manifest.json", "semantic.summary.json", "postgres.release.json",
                            "snapshots", "publication"} = {}

VARIABLES
  variant,     \* "semantic" or "postgres"
  directory,   \* which release each file is from, 0 when there is none
  built,       \* releases so far
  tasks,       \* the call each process is in
  attempts,
  published,   \* history: publication records that can be read, acknowledged or not
  overtaken,   \* history: manifests whose files changed while they were published
  clock, keyRows, keyEvents, checkpoints, calls

governanceVars == <<clock, keyRows, keyEvents, checkpoints, calls>>
publishVars == <<objects, directory, built, tasks, attempts, published, overtaken>>
vars == <<variant, objects, directory, built, tasks, attempts, published, overtaken,
          governanceVars>>

Governance == INSTANCE ReleaseGovernance

ReleaseFiles == Renderings \o <<"manifest.json">>
Summary == IF variant = "semantic" THEN "semantic.summary.json" ELSE "postgres.release.json"
Files == Append(ReleaseFiles, Summary)

Idle == [op |-> "idle"]

Init ==
  /\ variant \in {"semantic", "postgres"}
  /\ ObjectsInit
  /\ directory = [f \in ToSet(Files) |-> 0]
  /\ built = 0
  /\ tasks = [p \in Processes |-> Idle]
  /\ attempts = 0
  /\ published = {}
  /\ overtaken = {}
  /\ Governance!Init

Become(p, task) == tasks' = [tasks EXCEPT ![p] = task]

Begin(p, task) ==
  /\ tasks[p] = Idle
  /\ attempts < MaxAttempts
  /\ attempts' = attempts + 1
  /\ Become(p, task)

\* An error or a kill: what was written stays.
Stop(p) ==
  /\ tasks[p] # Idle
  /\ Become(p, Idle)
  /\ UNCHANGED <<variant, objects, directory, built, attempts, published, overtaken,
                 governanceVars>>

----------------------------------------------------------------------------
(* Builds. *)

Building(p) == tasks[p].op = "build"
Publishing(p) == tasks[p].op = "publish"

\* build_atomic_release holds the write barrier, build_postgres_release nothing.
BeginBuild(p) ==
  /\ variant = "semantic" => \A q \in Processes : ~Building(q)
  /\ built + 1 \in Releases
  /\ Begin(p, [op |-> "build", release |-> built + 1, next |-> 1])
  /\ built' = built + 1
  /\ UNCHANGED <<variant, objects, directory, published, overtaken, governanceVars>>

\* The manifest that q publishes, or may still find.
Subjects(q) ==
  IF tasks[q].at = "manifest" THEN {directory["manifest.json"], directory'["manifest.json"]}
  ELSE {tasks[q].record.manifest}

WriteFile(p) ==
  /\ Building(p)
  /\ LET t == tasks[p]
     IN  /\ directory' = [directory EXCEPT ![Files[t.next]] = t.release]
         /\ Become(p, IF t.next < Len(Files) THEN [t EXCEPT !.next = @ + 1] ELSE Idle)
  /\ overtaken' = overtaken \cup UNION {Subjects(q) : q \in {x \in Processes : Publishing(x)}}
  /\ UNCHANGED <<variant, objects, built, attempts, published, governanceVars>>

----------------------------------------------------------------------------
(* Verification. *)

\* verify_release: every export was made from the records that the manifest
\* commits to.
ReleaseVerifies(files) ==
  /\ files["manifest.json"] # 0
  /\ \A f \in ToSet(ReleaseFiles) : files[f] = files["manifest.json"]

\* verify_semantic_release and verify_postgres_release: so was the summary.
FilesVerify(files) ==
  ReleaseVerifies(files) /\ files[Summary] = files["manifest.json"]

AnyCheckpoint(checkpoint, release) == TRUE  \* mutant of Binds
Binds(checkpoint, release) == checkpoint.release = release

ChainEnrolled(chain, events) ==  \* mutant of ChainVerifies: revocations are not looked at
  \A c \in ToSet(chain) : \E e \in ToSet(events) : e.type = "enroll" /\ e.key = c.key

\* verify_checkpoint_chain_snapshot: signed by a key that the snapshot of the
\* key ledger enrolls, and does not revoke before the time of issue.
ChainVerifies(chain, events) ==
  \A c \in ToSet(chain) :
    /\ \E e \in ToSet(events) : e.type = "enroll" /\ e.key = c.key
    /\ \A e \in ToSet(events) : e.type = "revoke" /\ e.key = c.key => e.at > c.at

\* The governance side of a publication can be verified on its own: the head,
\* read before the events, is theirs.
SnapshotsVerify(record) ==
  /\ record.head = Len(record.events)
  /\ record.chain # <<>>
  /\ ChainVerifies(record.chain, record.events)

----------------------------------------------------------------------------
(* publish_governed_release and publish_governed_postgres_release_v2. *)

ChainOf(release) == checkpoints[ElectionOf[release]]

EmptyRecord == [manifest |-> 0, summary |-> 0, checkpoint |-> NoObject, chain |-> <<>>,
                head |-> 0, events |-> <<>>, refs |-> <<>>]

BeginPublish(p) ==
  /\ FilesVerify(directory)
  /\ Begin(p, [op |-> "publish", at |-> "manifest", next |-> 1, record |-> EmptyRecord])
  /\ UNCHANGED <<variant, objects, directory, built, published, overtaken, governanceVars>>

\* A step that reads, and goes on with what it read.
ReadStep(p, at, next, record) ==
  /\ Publishing(p) /\ tasks[p].at = at
  /\ Become(p, [tasks[p] EXCEPT !.at = next, !.record = record])
  /\ UNCHANGED <<variant, objects, directory, built, attempts, published, overtaken,
                 governanceVars>>

\* The manifest is read again after the verification.
ReadManifest(p) ==
  ReadStep(p, "manifest", "summary",
           [tasks[p].record EXCEPT !.manifest = directory["manifest.json"]])

ReadSummary(p) ==
  ReadStep(p, "summary", "checkpoint", [tasks[p].record EXCEPT !.summary = directory[Summary]])

\* _matching_checkpoint: the only one that binds the manifest, and the chain
\* up to it.
WholeChain(chain, i) == chain  \* mutant of Prefix
Prefix(chain, i) == SubSeq(chain, 1, i)
ReadCheckpoint(p) ==
  /\ Publishing(p) /\ tasks[p].at = "checkpoint"
  /\ LET record == tasks[p].record
         chain == ChainOf(record.manifest)
         matches == {i \in DOMAIN chain : Binds(chain[i], record.manifest)}
     IN  /\ Cardinality(matches) = 1
         /\ \E i \in matches :
              ReadStep(p, "checkpoint", "chain",
                       [record EXCEPT !.checkpoint = chain[i], !.chain = Prefix(chain, i)])

\* verify_checkpoint_chain: the whole chain of the election, as it is now.
JudgeChain(p) ==
  /\ Publishing(p) /\ tasks[p].at = "chain"
  /\ ChainVerifies(ChainOf(tasks[p].record.manifest), keyEvents)
  /\ ReadStep(p, "chain", "head", tasks[p].record)

\* verify_release_key_transparency and release_key_events, two reads.
JudgeKeys(p) ==
  ReadStep(p, "head", "events", [tasks[p].record EXCEPT !.head = Len(keyEvents)])

\* The snapshots are verified as a reader will verify them.
ReadEvents(p) ==
  /\ ReadStep(p, "events", "put", [tasks[p].record EXCEPT !.events = keyEvents])
  /\ SnapshotsVerify(tasks'[p].record)

FlatAddress(record, f) == <<f, ElectionOf[record.manifest]>>  \* mutant of Address
\* Files go under the digest of the manifest, or of the summary, that was read.
Address(record, f) == <<f, IF f = Summary THEN record.summary ELSE record.manifest>>

Snapshots(record) == <<record.checkpoint, record.chain, record.head, record.events>>

RecordBeforeSnapshots == Files \o <<"publication", "snapshots">>  \* mutant of Order
Order == Files \o <<"snapshots", "publication">>

\* The next object; a file is read when its turn comes.
NextObject(t) ==
  LET name == Order[t.next]
  IN  CASE name = "snapshots" ->
             <<<<name, Snapshots(t.record)>>, Snapshots(t.record)>>
        [] name = "publication" -> <<<<name, t.record>>, t.record>>
        [] OTHER -> <<Address(t.record, name), directory[name]>>

PutObject(p) ==
  /\ Publishing(p) /\ tasks[p].at = "put"
  /\ LET t == tasks[p]
         name == Order[t.next]
         object == NextObject(t)
         done == [t EXCEPT !.next = @ + 1,
                           !.record.refs = IF name \in ToSet(Files) THEN Append(@, object[2])
                                           ELSE @]
     IN  \E reached \in SUBSET Replicas : \E answered \in SUBSET reached :
           /\ Put(object[1], object[2], reached)
           /\ Become(p, IF PutConfirmed(object[1], object[2], answered) /\ t.next < Len(Order)
                        THEN done ELSE Idle)
           /\ published' =
                IF name = "publication" /\ PutReadable(object[1], object[2], reached)
                THEN published \cup {t.record} ELSE published
  /\ UNCHANGED <<variant, directory, built, attempts, overtaken, governanceVars>>

----------------------------------------------------------------------------
(* The governance store goes on; a checkpoint is made of a verified release. *)

GovernanceStep ==
  /\ Governance!Next
  /\ \A o \in Operators :
       calls'[o] # calls[o] /\ calls'[o].op = "checkpoint" =>
         ReleaseVerifies(directory) /\ directory["manifest.json"] = calls'[o].on
  /\ UNCHANGED <<variant, publishVars>>

Next ==
  \/ GovernanceStep
  \/ \E p \in Processes :
       \/ BeginBuild(p) \/ WriteFile(p)
       \/ BeginPublish(p) \/ ReadManifest(p) \/ ReadSummary(p) \/ ReadCheckpoint(p)
       \/ JudgeChain(p) \/ JudgeKeys(p) \/ ReadEvents(p) \/ PutObject(p)
       \/ Stop(p)

Spec == Init /\ [][Next]_vars
----------------------------------------------------------------------------
(* Readers. *)

\* The files of a publication, put together again.
Reassembled(record) == [f \in ToSet(Files) |-> Read(Address(record, f))]

\* verify_governed_publication: every object is there with the digest that the
\* record names, they are one release, the snapshots verify and end in the
\* checkpoint, which binds the release.
ObjectsVerify(record) ==
  /\ Read(<<"publication", record>>) = record
  /\ Read(<<"snapshots", Snapshots(record)>>) = Snapshots(record)
  /\ \A i \in DOMAIN Files : Read(Address(record, Files[i])) = record.refs[i]

BindingsVerify(record) ==
  /\ Reassembled(record)["manifest.json"] = record.manifest
  /\ Reassembled(record)[Summary] = record.summary
  /\ Binds(record.checkpoint, record.manifest)
  /\ Last(record.chain) = record.checkpoint

Verified(record) ==
  /\ ObjectsVerify(record)
  /\ FilesVerify(Reassembled(record))
  /\ SnapshotsVerify(record)
  /\ BindingsVerify(record)

\* What a witness states of a publication, and when detect_witness_equivocations
\* holds two such statements of one witness against it.
Statement(record) ==
  [election |-> ElectionOf[record.manifest], sequence |-> Len(record.chain),
   view |-> <<record, record.checkpoint>>]
Equivocal(q, r) ==
  LET s == Statement(q)  t == Statement(r)
  IN  s.election = t.election /\ s.sequence = t.sequence /\ s.view # t.view

----------------------------------------------------------------------------
(* Properties. *)

\* A publication record that anyone can read is complete: all its objects were
\* written before it and are still what it names, whichever write failed on
\* whichever replica and was repeated.
PublishedIsComplete ==
  \A record \in published : ObjectsVerify(record)

\* The key ledger in a publication is a copy, read after the chain was judged by
\* the store's, and goes out of date.  The store refutes a published chain only
\* by a revocation that was under way when the checkpoint was issued: asked for
\* no later, committed later.  One that was committed before is found by
\* the judgement although append_checkpoint missed it; one that was asked for
\* later spares the chain.
RefutedOnlyByRevocationUnderWay ==
  \A record \in published : \A c \in ToSet(record.chain), e \in ToSet(keyEvents) :
    e.type = "revoke" /\ e.key = c.key /\ e.at <= c.at => c.at < e.committed

\* Only files that change while they are published spoil a publication: in all
\* other cases it verifies, and it never meets foreign bytes at its addresses.
OnlyRebuildsSpoilPublications ==
  /\ \A record \in published : Verified(record) \/ record.manifest \in overtaken
  /\ \A p \in Processes :
       Publishing(p) /\ tasks[p].at = "put" /\ tasks[p].record.manifest \notin overtaken =>
         \A r \in Replicas : LET object == NextObject(tasks[p]) IN ~Conflicts(r, object[1], object[2])

\* A publication that once verified verifies for good, whatever is published
\* later and however it fails.
VerifiedPublicationsLast ==
  [][\A record \in published : Verified(record) => Verified(record)']_vars

\* Two verified publications that make an honest witness of both look like an
\* equivocator are of one release and one chain: only the key ledger has grown
\* between them.
EquivocationsAreRepublications ==
  \A q, r \in published :
    Verified(q) /\ Verified(r) /\ Equivocal(q, r) =>
      q.manifest = r.manifest /\ q.chain = r.chain /\ q.events # r.events
=============================================================================
