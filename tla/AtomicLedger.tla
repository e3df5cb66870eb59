---------------------------- MODULE AtomicLedger ----------------------------
(***************************************************************************)
(* What the evidence store, the registry and the release command promise   *)
(* together: an append-only ledger in which every write is one step, and   *)
(* releases that are each a cut of the whole ledger at one instant,        *)
(* although the ledger lives in two databases.                             *)
(***************************************************************************)
EXTENDS LedgerRecords

VARIABLES
  ledger,    \* the rows
  releases   \* signed so far

vars == <<ledger, releases>>

Init ==
  /\ ledger = EmptyLedger
  /\ releases = {}

AppendSnapshot(e, d) ==
  /\ ledger' = WithSnapshot(ledger, e, d)
  /\ UNCHANGED releases

AppendVersion(ev, e, a) ==
  /\ ledger' = WithVersion(ledger, ev, e, a)
  /\ UNCHANGED releases

Attest(ev, v, actor) ==
  /\ HasVersion(ledger, ev, v)
  /\ ledger' = WithAttestation(ledger, [evidence |-> ev, version |-> v, actor |-> actor,
                                        hash |-> ledger.versions[ev][v].hash])
  /\ UNCHANGED releases

AddExtraction(id, ev, v, supersedes) ==
  /\ HasVersion(ledger, ev, v)
  /\ \A x \in ledger.extractions : x.id # id
  /\ LET x == [id |-> id, evidence |-> ev, version |-> v, supersedes |-> supersedes,
               hash |-> ledger.versions[ev][v].hash]
     IN  ExtractionAccepted(ledger, x) /\ ledger' = WithExtraction(ledger, x)
  /\ UNCHANGED releases

AddReview(id, x) ==
  /\ \A r \in ledger.reviews : r.id # id
  /\ ReviewAccepted(ledger, [id |-> id, extraction |-> x])
  /\ ledger' = WithReview(ledger, [id |-> id, extraction |-> x])
  /\ UNCHANGED releases

Sign(e) ==
  /\ ledger.registry[e] # <<>>
  /\ releases' = releases \cup {[election |-> e, records |-> Records(ledger, e)]}
  /\ UNCHANGED ledger

Next ==
  \/ \E e \in Elections : Sign(e) \/ \E d \in Documents : AppendSnapshot(e, d)
  \/ \E ev \in EvidenceIds :
       \/ \E e \in Elections, a \in Artifacts : AppendVersion(ev, e, a)
       \/ \E v \in DOMAIN ledger.versions[ev] :
            \/ \E actor \in Actors : Attest(ev, v, actor)
            \/ \E id \in ExtractionIds, s \in ExtractionIds \cup {None} :
                  AddExtraction(id, ev, v, s)
  \/ \E id, x \in ExtractionIds : AddReview(id, x)

Spec == Init /\ [][Next]_vars
============================================================================
