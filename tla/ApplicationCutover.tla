------------------------- MODULE ApplicationCutover -------------------------
(***************************************************************************)
(* The move of elections from the SQLite stores to PostgreSQL.  The SQLite *)
(* side is the ledger that EvidenceLedger is shown to implement, with its  *)
(* write barrier; nothing stops its writers after a cutover.  On the other *)
(* side every call is a READ COMMITTED transaction that looks at the       *)
(* cutover row, takes stream locks, reads and inserts; what it inserts is  *)
(* seen when it commits.  The snapshots of PostgresReleaseLedger are the   *)
(* older way of copying an election.                                       *)
(***************************************************************************)
EXTENDS LedgerRecords

CONSTANTS
  Processes,
  NoProcess,
  MaxLegacyRows,  \* bound on rows of the SQLite side
  MaxRecords,     \* bound on application_records before a native write
  MaxSnapshots    \* bound on release_snapshots

ASSUME CutoverConstants == NoProcess \notin Processes /\ MaxSnapshots \in Nat

VARIABLES
  ledger,         \* the SQLite databases
  barrier,        \* who holds their write barrier
  application,    \* application_records, by election
  cutovers,       \* application_cutovers: mode and source_records_sha256
  streams,        \* who holds which stream lock
  tasks,          \* the call each process is in
  snapshots       \* release_snapshots, in the order of created_at

vars == <<ledger, barrier, application, cutovers, streams, tasks, snapshots>>

Idle == [op |-> "idle"]
NoCutover == [mode |-> "none"]
Streams == {"cutover", "registry"} \X Elections \cup {"evidence"} \X EvidenceIds

Init ==
  /\ ledger = EmptyLedger
  /\ barrier = NoProcess
  /\ application = [e \in Elections |-> {}]
  /\ cutovers = [e \in Elections |-> NoCutover]
  /\ streams = [s \in Streams |-> NoProcess]
  /\ tasks = [p \in Processes |-> Idle]
  /\ snapshots = <<>>

Become(p, task) == tasks' = [tasks EXCEPT ![p] = task]

\* The end of a transaction, committed or rolled back: its locks are free, and
\* so is the barrier that was held around it.
EndKeepingBarrier(p) ==  \* mutant of EndTransaction
  /\ Become(p, Idle)
  /\ streams' = [s \in Streams |-> IF streams[s] = p THEN NoProcess ELSE streams[s]]
  /\ UNCHANGED barrier
EndTransaction(p) ==
  /\ Become(p, Idle)
  /\ streams' = [s \in Streams |-> IF streams[s] = p THEN NoProcess ELSE streams[s]]
  /\ barrier' = IF barrier = p THEN NoProcess ELSE barrier

\* An error, or the death of the process or of its connection.
Rollback(p) ==
  /\ tasks[p] # Idle
  /\ EndTransaction(p)
  /\ UNCHANGED <<ledger, application, cutovers, snapshots>>

----------------------------------------------------------------------------
(* The SQLite side. *)

Legacy == INSTANCE AtomicLedger WITH releases <- {}

HoldNothing(p) == UNCHANGED barrier  \* mutant of Hold
Hold(p) == barrier = NoProcess /\ barrier' = p

\* uuids not given yet, on either side.
Fresh(type) ==
  {id \in ExtractionIds : \A e \in Elections :
     \A r \in Records(ledger, e) \cup application[e] : r.type = type => r.payload.id # id}

LegacyWrite ==
  /\ barrier = NoProcess
  /\ Rows(ledger) < MaxLegacyRows
  /\ \/ \E e \in Elections, d \in Documents : Legacy!AppendSnapshot(e, d)
     \/ \E ev \in EvidenceIds, e \in Elections, a \in Artifacts :
          Legacy!AppendVersion(ev, e, a)
     \/ \E ev \in EvidenceIds, actor \in Actors : \E v \in DOMAIN ledger.versions[ev] :
          \/ Legacy!Attest(ev, v, actor)
          \/ \E id \in Fresh("extraction"), supersedes \in ExtractionIds \cup {None} :
               Legacy!AddExtraction(id, ev, v, supersedes)
     \/ \E id \in Fresh("extraction_review"), x \in ExtractionIds : Legacy!AddReview(id, x)
  /\ UNCHANGED <<barrier, application, cutovers, streams, tasks, snapshots>>

----------------------------------------------------------------------------
(* Stream locks and inserts. *)

LockStream(p, s) ==
  /\ streams[s] = NoProcess
  /\ streams' = [streams EXCEPT ![s] = p]

\* The unique index is global: a key belongs to one election.  Within it, the
\* same record again is accepted and another one is refused.
Clashes(e, record) ==
  \E f \in Elections : \E r \in application[f] :
     /\ r.type = record.type /\ r.key = record.key
     /\ f # e \/ r # record

\* Rows of one type, over all elections.
Stored(type) == UNION {{r \in application[e] : r.type = type} : e \in Elections}
ElectionOf(record) == CHOOSE e \in Elections : record \in application[e]

\* ORDER BY version
InOrder(rows) ==
  [i \in 1..Cardinality(rows) |->
     CHOOSE r \in rows : Cardinality({q \in rows : q.version < r.version}) = i - 1]

\* The rows of a chain, as they are read back.
RowsOf(type, stream) == {r.payload : r \in {q \in Stored(type) : q.payload.stream = stream}}
Chain(type, stream) == InOrder(RowsOf(type, stream))

\* What PostgreSQL writes is never the row that SQLite wrote: the uuids and the
\* timestamps differ.
Native(content) == <<content, "postgres">>

----------------------------------------------------------------------------
(* Native writes. *)

Ungated(e) == TRUE  \* mutant of Enabled
Enabled(e) == cutovers[e] # NoCutover

\* The calls: their stream and what their row is made of.  The endpoints that
\* name an election look at its cutover row first; those never disappear, so
\* it does not matter that they look before they have the lock.
Calls ==
  {[op |-> "snapshot", stream |-> <<"registry", e>>, election |-> e, content |-> Native(d)] :
     e \in {f \in Elections : Enabled(f)}, d \in Documents}
  \cup
  {[op |-> "ingest", stream |-> <<"evidence", ev>>, election |-> e, content |-> Native(a)] :
     e \in {f \in Elections : Enabled(f)}, ev \in EvidenceIds, a \in Artifacts}
  \cup
  {[op |-> "extract", stream |-> <<"evidence", v.payload.stream>>, id |-> id,
    version |-> v.payload.version, supersedes |-> s] :
     v \in Stored("evidence_version"), id \in Fresh("extraction"),
     s \in {None} \cup {x.payload.id : x \in Stored("extraction")}}
  \cup
  {[op |-> "review", stream |-> <<"evidence", x.payload.evidence>>, id |-> id,
    extraction |-> x] :
     x \in {y \in Stored("extraction") : Enabled(ElectionOf(y))},
     id \in Fresh("extraction_review")}

\* The row a call inserts: the election it is filed under and the record; the
\* empty set when a check fails.
SnapshotRow(t) ==
  LET row == NextRow(Chain("registry_snapshot", t.election), t.election, t.election, t.content)
  IN  {<<t.election, [type |-> "registry_snapshot",
                      key |-> <<t.election, row.version>>, payload |-> row]>>}

\* An evidence id may be unknown, but it may not move.
IngestRow(t) ==
  LET ev == t.stream[2]
      chain == Chain("evidence_version", ev)
      previous == IF chain = <<>> THEN 0 ELSE Last(chain).version
      prev == LinkHash(chain)
      body == [stream |-> ev, version |-> previous + 1, election |-> t.election,
               content |-> t.content]
      row == [stream |-> ev, version |-> previous + 1, election |-> t.election,
              content |-> t.content, prev |-> prev, hash |-> HashRecord(prev, body)]
  IN  IF chain # <<>> /\ Last(chain).election # t.election THEN {}
      ELSE {<<t.election, [type |-> "evidence_version", key |-> <<ev, row.version>>,
                           payload |-> row]>>}

ExtractRow(t) ==
  LET ev == t.stream[2]
  IN  {<<ElectionOf(e), [type |-> "extraction", key |-> <<t.id>>,
         payload |-> [id |-> t.id, evidence |-> ev, version |-> t.version,
                      supersedes |-> t.supersedes, hash |-> e.payload.hash]]>> :
         e \in {r \in Stored("evidence_version") :
                  /\ r.key = <<ev, t.version>>
                  /\ Enabled(ElectionOf(r))
                  /\ t.supersedes = None
                     \/ \E x \in Stored("extraction") :
                           /\ x.payload.id = t.supersedes
                           /\ x.payload.evidence = ev /\ x.payload.version = t.version}}

ReviewRow(t) ==
  {<<ElectionOf(t.extraction), [type |-> "extraction_review", key |-> <<t.id>>,
     payload |-> [id |-> t.id, extraction |-> t.extraction.payload.id]]>>}

RowOf(t) ==
  CASE t.op = "snapshot" -> SnapshotRow(t)
    [] t.op = "ingest" -> IngestRow(t)
    [] t.op = "extract" -> ExtractRow(t)
    [] t.op = "review" -> ReviewRow(t)

\* With the lock of its stream, a call reads what its row depends on.
LockWrite(p) ==
  /\ tasks[p] = Idle
  /\ Cardinality(UNION {application[e] : e \in Elections}) < MaxRecords
  /\ \E call \in Calls : \E row \in RowOf(call) :
       /\ LockStream(p, call.stream)
       /\ Become(p, [op |-> "insert", election |-> row[1], record |-> row[2]])
  /\ UNCHANGED <<ledger, barrier, application, cutovers, snapshots>>

CommitWrite(p) ==
  /\ tasks[p].op = "insert"
  /\ LET e == tasks[p].election
         record == tasks[p].record
     IN  /\ ~Clashes(e, record)
         /\ application' = [application EXCEPT ![e] = @ \cup {record}]
  /\ EndTransaction(p)
  /\ UNCHANGED <<ledger, cutovers, snapshots>>

\* release_view: one REPEATABLE READ transaction.
View(e) == IF Enabled(e) THEN application[e] ELSE {}

\* add_attestation takes no lock: its key is a digest of the attestation.
AnyElection(version) == CHOOSE e \in Elections : TRUE  \* mutant of AttestationElection
AttestationElection(version) == ElectionOf(version)
Attest ==
  \E version \in Stored("evidence_version"), actor \in Actors :
    LET e == AttestationElection(version)
        ev == version.payload.stream
        v == version.payload.version
        record == [type |-> "attestation", key |-> <<ev, v, "sha256", actor>>,
                   payload |-> [evidence |-> ev, version |-> v, actor |-> actor,
                                hash |-> version.payload.hash]]
    IN  /\ Cardinality(UNION {application[f] : f \in Elections}) < MaxRecords
        /\ Enabled(e)
        /\ ~Clashes(e, record)
        /\ application' = [application EXCEPT ![e] = @ \cup {record}]
        /\ UNCHANGED <<ledger, barrier, cutovers, streams, tasks, snapshots>>

----------------------------------------------------------------------------
(* Cutovers. *)

\* Both begin by locking the election's cutover stream, the migration after it
\* took the barrier and collected the source.
BeginNative(p, e) ==
  /\ tasks[p] = Idle
  /\ LockStream(p, <<"cutover", e>>)
  /\ Become(p, [op |-> "activate", election |-> e])
  /\ UNCHANGED <<ledger, barrier, application, cutovers, snapshots>>

\* The count comes before the look at an existing row: a native election with
\* records cannot be activated again, an empty one can.
ActivateNative(p) ==
  /\ tasks[p].op = "activate"
  /\ LET e == tasks[p].election
     IN  /\ application[e] = {}
         /\ cutovers[e].mode # "migrated"
         /\ cutovers' = [cutovers EXCEPT ![e] = [mode |-> "native"]]
  /\ EndTransaction(p)
  /\ UNCHANGED <<ledger, application, snapshots>>

BeginMigration(p, e, activate) ==
  /\ tasks[p] = Idle
  /\ Hold(p)
  /\ ledger.registry[e] # <<>>
  /\ Become(p, [op |-> "migrate", election |-> e, activate |-> activate,
                source |-> Records(ledger, e)])
  /\ UNCHANGED <<ledger, application, cutovers, streams, snapshots>>

\* No migration over a native election, nor after the source has changed.
AnySource(cutover, source) == cutover.mode # "native"  \* mutant of MayMigrate
MayMigrate(cutover, source) ==
  \/ cutover.mode = "none"
  \/ cutover.mode = "migrated" /\ cutover.source = source

LockMigration(p) ==
  /\ tasks[p].op = "migrate"
  /\ streams[<<"cutover", tasks[p].election>>] # p
  /\ LockStream(p, <<"cutover", tasks[p].election>>)
  /\ MayMigrate(cutovers[tasks[p].election], tasks[p].source)
  /\ UNCHANGED <<ledger, barrier, application, cutovers, tasks, snapshots>>

\* Insert what is missing, compare the whole target with the source, activate.
CommitMigration(p) ==
  /\ tasks[p].op = "migrate"
  /\ streams[<<"cutover", tasks[p].election>>] = p
  /\ LET e == tasks[p].election
         source == tasks[p].source
     IN  /\ \A record \in source : ~Clashes(e, record)
         /\ application[e] \cup source = source
         /\ application' = [application EXCEPT ![e] = source]
         /\ cutovers' = IF tasks[p].activate /\ ~Enabled(e)
                        THEN [cutovers EXCEPT ![e] = [mode |-> "migrated", source |-> source]]
                        ELSE cutovers
  /\ EndTransaction(p)
  /\ UNCHANGED <<ledger, snapshots>>

----------------------------------------------------------------------------
(* snapshot-sync. *)

BeginSync(p, e) ==
  /\ tasks[p] = Idle
  /\ Len(snapshots) < MaxSnapshots
  /\ Hold(p)
  /\ ledger.registry[e] # <<>>
  /\ Become(p, [op |-> "sync", election |-> e, records |-> Records(ledger, e)])
  /\ UNCHANGED <<ledger, application, cutovers, streams, snapshots>>

\* The identifier is a digest of the records: the same ones are stored once.
WriteSnapshot(p) ==
  /\ tasks[p].op = "sync"
  /\ LET snapshot == [election |-> tasks[p].election, records |-> tasks[p].records]
     IN  snapshots' = IF snapshot \in ToSet(snapshots) THEN snapshots
                      ELSE Append(snapshots, snapshot)
  /\ EndTransaction(p)
  /\ UNCHANGED <<ledger, application, cutovers>>

\* latest_snapshot
LatestRecords(e) ==
  LET own == {i \in DOMAIN snapshots : snapshots[i].election = e}
  IN  IF own = {} THEN {} ELSE snapshots[Max(own)].records

----------------------------------------------------------------------------
Next ==
  \/ LegacyWrite
  \/ Attest
  \/ \E p \in Processes :
       \/ LockWrite(p) \/ CommitWrite(p)
       \/ \E e \in Elections :
            \/ BeginNative(p, e) \/ BeginSync(p, e)
            \/ \E activate \in BOOLEAN : BeginMigration(p, e, activate)
       \/ ActivateNative(p) \/ LockMigration(p) \/ CommitMigration(p)
       \/ WriteSnapshot(p)
       \/ Rollback(p)

Spec == Init /\ [][Next]_vars
----------------------------------------------------------------------------
(* Properties. *)

\* Types; a lock is held inside a call, the barrier by a copying one.
TypeOK ==
  /\ \A e \in Elections : cutovers[e].mode \in {"none", "native", "migrated"}
  /\ \A s \in Streams : streams[s] # NoProcess => tasks[streams[s]] # Idle
  /\ \A p \in Processes : barrier = p <=> tasks[p].op \in {"migrate", "sync"}
  /\ Len(snapshots) <= MaxSnapshots

\* Before its cutover row an election has no history of its own in PostgreSQL:
\* what is there was copied from SQLite (docs/POSTGRES_CUTOVER.md:36-45).
ClosedUntilCutover ==
  \A e \in Elections :
     cutovers[e] = NoCutover => application[e] \subseteq Records(ledger, e)

\* A cutover is final: no later migration or activation changes its row, and
\* none brings more SQLite rows into an election that PostgreSQL has taken over.
CutoverIsFinal ==
  [][\A e \in Elections : Enabled(e) =>
        /\ cutovers'[e] = cutovers[e]
        /\ \A p \in Processes :
             tasks[p].op = "migrate" /\ tasks[p].election = e /\ tasks'[p] = Idle =>
                application'[e] = application[e]]_vars

\* Where an election's records are looked for.
Authoritative(e) == IF Enabled(e) THEN View(e) ELSE Records(ledger, e)

\* No record of an election is lost on the way to PostgreSQL: at every step its
\* authoritative records are those of before and perhaps more.  Only a native
\* activation, which does not look at SQLite, may forget some.
CutoverLosesNothing ==
  [][\A e \in Elections : cutovers'[e] = cutovers[e] \/ cutovers'[e].mode = "migrated" =>
        Authoritative(e) \subseteq Authoritative(e)']_vars

\* Native appends continue the chains that were copied.  A registry chain
\* always verifies, an evidence chain unless SQLite moved the id between
\* elections, of which perhaps one is copied.
OnlyMovedEvidenceBreaksChains ==
  /\ \A e \in Elections : ChainVerified(Chain("registry_snapshot", e))
  /\ \A ev \in EvidenceIds :
       \/ ChainVerified(Chain("evidence_version", ev))
       \/ \E q, r \in ToSet(ledger.versions[ev]) : q.election # r.election

\* A PostgreSQL release of an election resolves all its references although
\* its records were filed by different calls and by the migration.
ViewsAreClosed ==
  \A e \in Elections : ReferencesClosed(View(e)) /\ KeysAreUnique(View(e))

\* The latest snapshot of an election never goes back: a later one holds all
\* records of an earlier one, though processes synchronise at the same time.
SnapshotsOnlyGrow ==
  [][\A e \in Elections : LatestRecords(e) \subseteq LatestRecords(e)']_vars
============================================================================
