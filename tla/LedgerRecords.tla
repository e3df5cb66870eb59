--------------------------- MODULE LedgerRecords ---------------------------
(***************************************************************************)
(* The rows of the evidence and registry stores and the records that a     *)
(* release makes of them.  A SHA-256 chain is modelled without collisions: *)
(* the hash of a row is the sequence of the row bodies from the start of   *)
(* its chain, which is exactly what the hash commits to.                   *)
(***************************************************************************)
EXTENDS Naturals, Sequences, FiniteSets, SequencesExt

CONSTANTS
  Elections,
  EvidenceIds,
  Artifacts,      \* stored bytes, named by their digest
  Documents,      \* registry payloads
  Actors,         \* signers of attestations
  ExtractionIds,  \* uuids of extractions and reviews
  None            \* no superseded extraction

----------------------------------------------------------------------------
(* Hash chains: one per election in the registry, one per evidence id. *)

NoHash == <<>>

Body(row) == [stream |-> row.stream, version |-> row.version,
              election |-> row.election, content |-> row.content]

\* hash_record: the body of a row includes the hash of the row before it.
HashRecord(prev, body) == Append(prev, body)

FirstHash(chain) ==  \* mutant of LinkHash
  IF chain = <<>> THEN NoHash ELSE Head(chain).hash
\* The previous hash of a new row: that of the highest version.
LinkHash(chain) == IF chain = <<>> THEN NoHash ELSE Last(chain).hash

\* The row that append and append_version insert after the last row.
NextRow(chain, stream, election, content) ==
  LET prev == LinkHash(chain)
      body == [stream |-> stream, version |-> Len(chain) + 1,
               election |-> election, content |-> content]
  IN  [stream |-> stream, version |-> Len(chain) + 1, election |-> election,
       content |-> content, prev |-> prev, hash |-> HashRecord(prev, body)]

\* verify_chain of both stores.
ChainVerified(chain) ==
  \A i \in DOMAIN chain :
     /\ chain[i].prev = IF i = 1 THEN NoHash ELSE chain[i - 1].hash
     /\ chain[i].hash = HashRecord(chain[i].prev, Body(chain[i]))

----------------------------------------------------------------------------
(* The ledger: the tables of registry.sqlite3 and ballotproof.sqlite3. *)

EmptyLedger ==
  [registry |-> [e \in Elections |-> <<>>],
   versions |-> [ev \in EvidenceIds |-> <<>>],
   attestations |-> <<>>,
   extractions |-> {},
   reviews |-> {}]

HasVersion(l, ev, v) == v \in DOMAIN l.versions[ev]

\* What the stores check of a row that names another row.
AttestationAccepted(l, a) ==
  HasVersion(l, a.evidence, a.version) /\ l.versions[a.evidence][a.version].hash = a.hash

ExtractionAccepted(l, x) ==
  /\ HasVersion(l, x.evidence, x.version)
  /\ l.versions[x.evidence][x.version].hash = x.hash
  /\ x.supersedes = None
     \/ \E y \in l.extractions :
           y.id = x.supersedes /\ y.evidence = x.evidence /\ y.version = x.version

ReviewAccepted(l, r) == \E x \in l.extractions : x.id = r.extraction

\* The five inserts.  Attestations are UNIQUE and otherwise numbered as they
\* come: INSERT OR IGNORE.
WithSnapshot(l, e, d) ==
  [l EXCEPT !.registry[e] = Append(@, NextRow(@, e, e, d))]
WithVersion(l, ev, e, a) ==
  [l EXCEPT !.versions[ev] = Append(@, NextRow(@, ev, e, a))]
WithAttestation(l, a) ==
  IF a \in ToSet(l.attestations) THEN l
  ELSE [l EXCEPT !.attestations = Append(@, a)]
WithExtraction(l, x) == [l EXCEPT !.extractions = @ \cup {x}]
WithReview(l, r) == [l EXCEPT !.reviews = @ \cup {r}]

\* How many inserts took effect.
TotalLength(chains) == SumFunction([c \in DOMAIN chains |-> Len(chains[c])])
Rows(l) == TotalLength(l.registry) + TotalLength(l.versions) + Len(l.attestations)
           + Cardinality(l.extractions) + Cardinality(l.reviews)

----------------------------------------------------------------------------
(* collect_release_records, one operator per SELECT. *)

SnapshotRecords(l, e) ==
  {[type |-> "registry_snapshot", key |-> <<e, i>>, payload |-> l.registry[e][i]] :
     i \in DOMAIN l.registry[e]}

LatestVersionRecords(l, e) ==  \* mutant of VersionRecords
  {[type |-> "evidence_version", key |-> <<ev, Len(l.versions[ev])>>,
    payload |-> Last(l.versions[ev])] :
     ev \in {x \in EvidenceIds : l.versions[x] # <<>> /\ Last(l.versions[x]).election = e}}
VersionRecords(l, e) ==
  UNION {{[type |-> "evidence_version", key |-> <<ev, i>>, payload |-> l.versions[ev][i]] :
            i \in {j \in DOMAIN l.versions[ev] : l.versions[ev][j].election = e}} :
           ev \in EvidenceIds}

AttestationsOfAnyVersion(l, ev, v) ==  \* mutant of AttestationRecords
  {[type |-> "attestation", key |-> <<ev, v, i>>, payload |-> l.attestations[i]] :
     i \in {j \in DOMAIN l.attestations : l.attestations[j].evidence = ev}}
AttestationRecords(l, ev, v) ==
  {[type |-> "attestation", key |-> <<ev, v, i>>, payload |-> l.attestations[i]] :
     i \in {j \in DOMAIN l.attestations :
              l.attestations[j].evidence = ev /\ l.attestations[j].version = v}}

ExtractionRecords(l, ev, v) ==
  {[type |-> "extraction", key |-> <<x.id>>, payload |-> x] :
     x \in {y \in l.extractions : y.evidence = ev /\ y.version = v}}

ReviewRecords(l, id) ==
  {[type |-> "extraction_review", key |-> <<r.id>>, payload |-> r] :
     r \in {q \in l.reviews : q.extraction = id}}

\* All of them at one instant.
Records(l, e) ==
  SnapshotRecords(l, e) \cup VersionRecords(l, e) \cup
  UNION {LET ev == k.payload.stream
             v == k.payload.version
         IN  AttestationRecords(l, ev, v) \cup ExtractionRecords(l, ev, v) \cup
             UNION {ReviewRecords(l, x.payload.id) : x \in ExtractionRecords(l, ev, v)} :
           k \in VersionRecords(l, e)}

\* _ordered_records: a record's type and key name it.
KeysAreUnique(records) ==
  \A q, r \in records : q.type = r.type /\ q.key = r.key => q = r

----------------------------------------------------------------------------
(* semantic_records: what is left of a release without local identifiers,  *)
(* timestamps and chain links.  References become the content they name.   *)

OfType(records, type) == {r.payload : r \in {q \in records : q.type = type}}

\* Otherwise normalisation raises and there is no semantic release.
ReferencesClosed(records) ==
  LET extractions == OfType(records, "extraction")
      versions == {<<p.stream, p.version>> : p \in OfType(records, "evidence_version")}
  IN  /\ \A a \in OfType(records, "attestation") : <<a.evidence, a.version>> \in versions
      /\ \A x \in extractions :
           /\ <<x.evidence, x.version>> \in versions
           /\ x.supersedes = None \/ \E y \in extractions : y.id = x.supersedes
      /\ \A r \in OfType(records, "extraction_review") :
           \E x \in extractions : x.id = r.extraction

SemanticRecords(records) ==
  LET versions == OfType(records, "evidence_version")
      extractions == OfType(records, "extraction")
      Evidence(ev, v) ==
        LET p == CHOOSE q \in versions : q.stream = ev /\ q.version = v
        IN  [election |-> p.election, artifact |-> p.content]
      extraction[x \in extractions] ==
        [evidence |-> Evidence(x.evidence, x.version),
         supersedes |-> IF x.supersedes = None THEN {}
                        ELSE {extraction[y] : y \in {z \in extractions : z.id = x.supersedes}}]
  IN  {<<"registry_snapshot", p.content>> : p \in OfType(records, "registry_snapshot")}
      \cup {<<"evidence_version", Evidence(p.stream, p.version)>> : p \in versions}
      \cup {<<"extraction", extraction[x]>> : x \in extractions}
      \cup {<<"attestation", Evidence(a.evidence, a.version), a.actor>> :
              a \in OfType(records, "attestation")}
      \cup {<<"extraction_review",
              {extraction[x] : x \in {y \in extractions : y.id = r.extraction}}>> :
              r \in OfType(records, "extraction_review")}
============================================================================
