-------------------------- MODULE PublicationProofs --------------------------
(***************************************************************************)
(* Theorems about ReleasePublication, for any processes, releases, keys,   *)
(* exports and numbers of attempts.  What needs every replica to confirm a *)
(* write, the default of ReplicatedImmutablePublicationBackend, says so.   *)
(***************************************************************************)
EXTENDS ReleasePublication, FiniteSetTheorems, SequenceTheorems, TLAPS

----------------------------------------------------------------------------
(* The names of the objects.                                               *)

Names == STRING \cup {"manifest.json", "semantic.summary.json", "postgres.release.json",
                       "snapshots", "publication"}

LEMMA Pairs ==
  ASSUME NEW S, NEW a \in S, NEW b \in S
  PROVE  /\ <<a>> \in Seq(S) /\ Len(<<a>>) = 1 /\ <<a>>[1] = a
         /\ <<a, b>> \in Seq(S) /\ Len(<<a, b>>) = 2 /\ <<a, b>>[1] = a /\ <<a, b>>[2] = b
  OBVIOUS

LEMMA FileNames ==
  ASSUME variant \in {"semantic", "postgres"}
  PROVE  /\ Files \in Seq(Names) /\ Len(Files) \in Nat /\ Len(Files) >= 2
         /\ DOMAIN Files = 1..Len(Files)
         /\ \A i \in 1..Len(Files) : Files[i] \in ToSet(Files)
         /\ Files[Len(Files)] = Summary
         /\ \A i \in 1..Len(Files) : i < Len(Files) => Files[i] \in ToSet(ReleaseFiles)
         /\ ToSet(Files) = ToSet(ReleaseFiles) \cup {Summary}
         /\ "manifest.json" \in ToSet(ReleaseFiles)
         /\ Summary \notin ToSet(ReleaseFiles)
         /\ "snapshots" \notin ToSet(Files) /\ "publication" \notin ToSet(Files)
<1> DEFINE n == Len(Renderings)
<1>1. Renderings \in Seq(Names) /\ n \in Nat /\ DOMAIN Renderings = 1..n
  BY PublicationConstants DEF Names
<1>2. /\ ReleaseFiles \in Seq(Names) /\ Len(ReleaseFiles) = n + 1
      /\ \A i \in 1..n : ReleaseFiles[i] = Renderings[i]
      /\ ReleaseFiles[n + 1] = "manifest.json"
  <2>1. <<"manifest.json">> \in Seq(Names) /\ Len(<<"manifest.json">>) = 1
    BY Pairs DEF Names
  <2> QED
    BY <1>1, <2>1, Pairs, ConcatProperties DEF ReleaseFiles
<1>3. Summary \in {"semantic.summary.json", "postgres.release.json"}
  BY DEF Summary
<1>4. /\ Files \in Seq(Names) /\ Len(Files) = n + 2
      /\ \A i \in 1..n + 1 : Files[i] = ReleaseFiles[i]
      /\ Files[n + 2] = Summary
  <2>1. Summary \in Names
    BY <1>3 DEF Names
  <2> QED
    BY <1>1, <1>2, <2>1, AppendProperties DEF Files
<1>5. DOMAIN ReleaseFiles = 1..n + 1 /\ DOMAIN Files = 1..n + 2
  BY <1>1, <1>2, <1>4
<1> HIDE DEF n
<1>6. ToSet(ReleaseFiles) = ToSet(Renderings) \cup {"manifest.json"}
  <2>1. \A i \in 1..n + 1 : i \in 1..n \/ i = n + 1
    BY <1>1
  <2>2. 1..n \subseteq 1..n + 1 /\ n + 1 \in 1..n + 1
    BY <1>1
  <2> QED
    BY <1>1, <1>2, <1>5, <2>1, <2>2 DEF ToSet
<1>7. ToSet(Files) = ToSet(ReleaseFiles) \cup {Summary}
  <2>1. \A i \in 1..n + 2 : i \in 1..n + 1 \/ i = n + 2
    BY <1>1
  <2>2. 1..n + 1 \subseteq 1..n + 2 /\ n + 2 \in 1..n + 2
    BY <1>1
  <2> QED
    BY <1>4, <1>5, <2>1, <2>2 DEF ToSet
<1>8. ToSet(Renderings) \cap {"manifest.json", "semantic.summary.json", "postgres.release.json",
                              "snapshots", "publication"} = {}
  BY PublicationConstants
<1>9. /\ Summary \notin ToSet(ReleaseFiles)
      /\ "snapshots" \notin ToSet(Files) /\ "publication" \notin ToSet(Files)
  BY <1>3, <1>6, <1>7, <1>8
<1>10. \A i \in 1..Len(Files) : Files[i] \in ToSet(Files)
  BY <1>4, <1>5 DEF ToSet
<1>11. \A i \in 1..Len(Files) : i < Len(Files) => Files[i] \in ToSet(ReleaseFiles)
  <2>1. \A i \in 1..Len(Files) : i < Len(Files) => i \in 1..n + 1
    BY <1>1, <1>4
  <2> QED
    BY <1>4, <1>5, <2>1 DEF ToSet
<1> QED
  BY <1>1, <1>4, <1>5, <1>6, <1>7, <1>9, <1>10, <1>11

LEMMA OrderNames ==
  ASSUME variant \in {"semantic", "postgres"}
  PROVE  /\ Len(Order) = Len(Files) + 2
         /\ \A i \in 1..Len(Files) : Order[i] = Files[i] /\ Order[i] \in ToSet(Files)
                                       /\ Order[i] \notin {"snapshots", "publication"}
         /\ Order[Len(Files) + 1] = "snapshots"
         /\ Order[Len(Files) + 2] = "publication"
<1>1. /\ Len(Order) = Len(Files) + 2
      /\ \A i \in 1..Len(Files) : Order[i] = Files[i]
      /\ Order[Len(Files) + 1] = "snapshots"
      /\ Order[Len(Files) + 2] = "publication"
  <2> DEFINE tail == <<"snapshots", "publication">>
  <2>1. tail \in Seq(Names) /\ Len(tail) = 2 /\ tail[1] = "snapshots" /\ tail[2] = "publication"
    BY Pairs DEF Names
  <2>2. Order = Files \o tail
    BY DEF Order
  <2> HIDE DEF tail
  <2>3. Files \in Seq(Names) /\ Len(Files) \in Nat
    BY FileNames
  <2>4. /\ Len(Files \o tail) = Len(Files) + 2
        /\ \A i \in 1..Len(Files) + 2 :
             (Files \o tail)[i] = IF i <= Len(Files) THEN Files[i] ELSE tail[i - Len(Files)]
    <3>1. tail \in Seq(Names) /\ Len(tail) = 2
      BY <2>1
    <3> HIDE DEF tail
    <3>2. /\ Len(Files \o tail) = Len(Files) + Len(tail)
          /\ \A i \in 1..Len(Files) + Len(tail) :
               (Files \o tail)[i] = IF i <= Len(Files) THEN Files[i] ELSE tail[i - Len(Files)]
      BY <2>3, <3>1, ConcatProperties
    <3> QED
      BY <3>1, <3>2
  <2> DEFINE n == Len(Files)
  <2>5. n \in Nat /\ n + 1 \in 1..n + 2 /\ n + 2 \in 1..n + 2 /\ ~(n + 1 <= n) /\ ~(n + 2 <= n)
        /\ n + 1 - n = 1 /\ n + 2 - n = 2 /\ \A i \in 1..n : i \in 1..n + 2 /\ i <= n
    <3>1. n \in Nat
      BY <2>3
    <3> HIDE DEF n
    <3> QED
      BY <3>1
  <2>6. /\ (Files \o tail)[n + 1] = tail[1] /\ (Files \o tail)[n + 2] = tail[2]
        /\ \A i \in 1..n : (Files \o tail)[i] = Files[i]
    <3> HIDE DEF tail
    <3> QED
      BY <2>4, <2>5
  <2> QED
    BY <2>1, <2>2, <2>4, <2>6
<1> QED
  BY <1>1, FileNames

----------------------------------------------------------------------------
(* Types, and how far a call has got.                                      *)

Contents == Releases \cup {0}

Records ==
  [manifest : Contents, summary : Contents, checkpoint : Governance!Checkpoint \cup {NoObject},
   chain : Seq(Governance!Checkpoint), head : Nat, events : Seq(Governance!KeyEvent),
   refs : Seq(Contents)]

Builds == [op : {"build"}, release : Releases, next : Nat]

Publications ==
  [op : {"publish"},
   at : {"manifest", "summary", "checkpoint", "chain", "head", "events", "put"},
   next : Nat, record : Records]

\* One reference for each file that has been put.
TaskFits(t) ==
  /\ t.op = "build" => t.next \in 1..Len(Files)
  /\ t.op = "publish" =>
       /\ t.next \in 1..Len(Order)
       /\ t.at # "put" => t.next = 1
       /\ Len(t.record.refs) = IF t.next <= Len(Files) THEN t.next - 1 ELSE Len(Files)

Shape ==
  /\ Governance!TypeOK
  /\ variant \in {"semantic", "postgres"}
  /\ directory \in [ToSet(Files) -> Contents]
  /\ built \in Nat
  /\ tasks \in [Processes -> Builds \cup Publications \cup {Idle}]
  /\ \A p \in Processes : TaskFits(tasks[p])
  /\ \A record \in published : record \in Records /\ Len(record.refs) = Len(Files)

LEMMA GovernanceTypes ==
  ASSUME Governance!TypeOK, Governance!Next
  PROVE  Governance!TypeOK'
<1> USE DEF Governance!TypeOK
<1>1. PICK o \in Operators :
        \/ \E k \in SigningKeys : Governance!Begin(o, "enroll", k) \/ Governance!Begin(o, "revoke", k)
        \/ \E r \in Releases : Governance!BeginCheckpoint(o, r)
        \/ Governance!Enroll(o) \/ Governance!Revoke(o) \/ Governance!AppendCheckpoint(o)
  BY DEF Governance!Next
<1>2. ASSUME NEW op, NEW on, Governance!Begin(o, op, on),
             \/ op \in {"enroll", "revoke"} /\ on \in SigningKeys
             \/ op = "checkpoint" /\ on \in Releases
      PROVE  Governance!TypeOK'
  <2>1. [op |-> op, on |-> on, since |-> clock] \in Governance!Call
    BY <1>2 DEF Governance!Begin, Governance!Call
  <2> QED
    BY <1>2, <2>1 DEF Governance!Begin
<1>3. /\ calls[o].op \in {"enroll", "revoke"} => calls[o].on \in SigningKeys /\ calls[o].since \in Nat
      /\ calls[o].op = "checkpoint" => calls[o].on \in Releases /\ calls[o].since \in Nat
  BY DEF Governance!Call, Governance!NoCall
<1>4. ASSUME NEW type \in {"enroll", "revoke"}, Governance!Transaction(o, type)
      PROVE  /\ clock' \in Nat
             /\ calls' \in [Operators -> Governance!Call \cup {Governance!NoCall}]
             /\ Governance!AppendEvent(o, type) => keyEvents' \in Seq(Governance!KeyEvent)
             /\ calls[o].on \in SigningKeys
  <2>1. /\ clock \in Nat /\ calls[o].on \in SigningKeys /\ calls[o].since \in Nat
        /\ clock' = clock + 1
        /\ calls' = [calls EXCEPT ![o] = Governance!NoCall]
    BY <1>3, <1>4 DEF Governance!Transaction
  <2>2. calls' \in [Operators -> Governance!Call \cup {Governance!NoCall}]
    BY <2>1
  <2>3. [type |-> type, key |-> calls[o].on, at |-> calls[o].since, committed |-> clock]
          \in Governance!KeyEvent
    BY <2>1 DEF Governance!KeyEvent
  <2>4. keyEvents \in Seq(Governance!KeyEvent)
    OBVIOUS
  <2> QED
    BY <2>1, <2>2, <2>3, <2>4, AppendProperties DEF Governance!AppendEvent
<1>5. CASE Governance!Enroll(o)
  BY <1>4, <1>5 DEF Governance!Enroll
<1>6. CASE Governance!Revoke(o)
  BY <1>4, <1>6 DEF Governance!Revoke
<1>7. CASE Governance!AppendCheckpoint(o)
  <2>1. /\ clock \in Nat /\ clock' \in Nat /\ calls[o].on \in Releases /\ calls[o].since \in Nat
        /\ calls' \in [Operators -> Governance!Call \cup {Governance!NoCall}]
    BY <1>3, <1>7 DEF Governance!AppendCheckpoint, Governance!Transaction
  <2>2. /\ SignerOf[calls[o].on] \in SigningKeys /\ ElectionOf[calls[o].on] \in Elections
        /\ Governance!NewCheckpoint(calls[o].on, calls[o].since) \in Governance!Checkpoint
    BY <2>1, PublicationConstants DEF Governance!NewCheckpoint, Governance!Checkpoint
  <2>3. checkpoints' \in [Elections -> Seq(Governance!Checkpoint)]
    <3> DEFINE e == ElectionOf[calls[o].on]  new == Governance!NewCheckpoint(calls[o].on, calls[o].since)
    <3>1. checkpoints \in [Elections -> Seq(Governance!Checkpoint)]
      OBVIOUS
    <3>2. Append(checkpoints[e], new) \in Seq(Governance!Checkpoint)
      <4>1. e \in Elections /\ new \in Governance!Checkpoint
        BY <2>2
      <4> HIDE DEF e, new
      <4>2. checkpoints[e] \in Seq(Governance!Checkpoint)
        BY <3>1, <4>1
      <4> QED
        BY <4>1, <4>2, AppendProperties
    <3>3. \/ checkpoints' = [checkpoints EXCEPT ![e] = Append(checkpoints[e], new)]
          \/ checkpoints' = checkpoints
      BY <1>7, <3>1, <2>2 DEF Governance!AppendCheckpoint
    <3> HIDE DEF e, new
    <3> QED
      BY <3>1, <3>2, <3>3
  <2> QED
    BY <1>7, <2>1, <2>3 DEF Governance!AppendCheckpoint
<1> QED
  BY <1>1, <1>2, <1>5, <1>6, <1>7 DEF Governance!BeginCheckpoint

\* A step that reads.
LEMMA ReadFacts ==
  ASSUME Shape, NEW p \in Processes, NEW at, NEW next, NEW record, ReadStep(p, at, next, record)
  PROVE  /\ tasks[p] \in Publications /\ tasks[p].at = at
         /\ tasks' = [tasks EXCEPT ![p] = [op |-> "publish", at |-> next,
                                           next |-> tasks[p].next, record |-> record]]
         /\ UNCHANGED <<variant, objects, directory, built, attempts, published, overtaken,
                        governanceVars>>
<1>1. tasks[p] \in Publications /\ tasks[p].at = at
  BY DEF Shape, ReadStep, Publishing, Builds, Publications, Idle
<1>2. ASSUME NEW t \in Publications
      PROVE  [t EXCEPT !.at = next, !.record = record]
               = [op |-> "publish", at |-> next, next |-> t.next, record |-> record]
  <2> DEFINE q == [t EXCEPT !.at = next, !.record = record]
  <2>1. /\ q \in [op : {"publish"}, at : {next}, next : Nat, record : {record}]
        /\ q.op = "publish" /\ q.at = next /\ q.next = t.next /\ q.record = record
    BY <1>2 DEF Publications
  <2> HIDE DEF q
  <2>2. q = [op |-> q.op, at |-> q.at, next |-> q.next, record |-> q.record]
    BY <2>1, Zenon
  <2>3. q = [op |-> "publish", at |-> next, next |-> t.next, record |-> record]
    BY <2>1, <2>2
  <2> QED
    BY <2>3 DEF q
<1>3. tasks' = [tasks EXCEPT ![p] = [tasks[p] EXCEPT !.at = next, !.record = record]]
  BY DEF ReadStep, Become
<1> QED
  BY <1>1, <1>2, <1>3 DEF ReadStep

\* A record with another checkpoint and chain.
LEMMA ChainInRecord ==
  ASSUME NEW r \in Records, NEW x \in Governance!Checkpoint, NEW y \in Seq(Governance!Checkpoint)
  PROVE  [r EXCEPT !.checkpoint = x, !.chain = y] \in Records
  BY DEF Records

----------------------------------------------------------------------------
(* What a publication says of the governance store.                        *)

\* Part of the election's chain, which ends in the checkpoint of the release.
Chained(record) ==
  /\ record.manifest \in Releases
  /\ Binds(record.checkpoint, record.manifest)
  /\ record.chain # <<>> /\ Last(record.chain) = record.checkpoint
  /\ Len(record.chain) <= Len(ChainOf(record.manifest))
  /\ \A i \in 1..Len(record.chain) : record.chain[i] = ChainOf(record.manifest)[i]

\* A file that was once written is not absent again.
TaskChained(t) ==
  t.op = "publish" =>
    /\ \A f \in ToSet(Files) : directory[f] \in Releases
    /\ t.at # "manifest" => t.record.manifest \in Releases
    /\ t.at \in {"chain", "head", "events", "put"} => Chained(t.record)
    /\ t.at = "put" => SnapshotsVerify(t.record)

History ==
  /\ \A p \in Processes : TaskChained(tasks[p])
  /\ \A record \in published : Chained(record) /\ SnapshotsVerify(record)

\* The checkpoint that matches, with the chain up to it.
LEMMA MatchIsChained ==
  ASSUME Shape, NEW record \in Records, record.manifest \in Releases,
         NEW i \in DOMAIN ChainOf(record.manifest),
         Binds(ChainOf(record.manifest)[i], record.manifest),
         NEW q, q.manifest = record.manifest, q.checkpoint = ChainOf(record.manifest)[i],
         q.chain = Prefix(ChainOf(record.manifest), i)
  PROVE  /\ q.checkpoint \in Governance!Checkpoint
         /\ q.chain \in Seq(Governance!Checkpoint)
         /\ Chained(q)
<1> DEFINE c == ChainOf(record.manifest)
<1>1. c \in Seq(Governance!Checkpoint)
  BY PublicationConstants DEF Shape, Governance!TypeOK, ChainOf
<1>2. ChainOf(q.manifest) = c /\ q.checkpoint = c[i] /\ q.chain = SubSeq(c, 1, i)
      /\ Binds(c[i], q.manifest) /\ i \in DOMAIN c /\ q.manifest \in Releases
  BY DEF Prefix, ChainOf, Binds
<1> HIDE DEF c
<1>3. i \in 1..Len(c) /\ Len(c) \in Nat /\ c[i] \in Governance!Checkpoint
      /\ \A k \in 1..i : c[k] \in Governance!Checkpoint
  BY <1>1, <1>2
<1>4. /\ SubSeq(c, 1, i) \in Seq(Governance!Checkpoint) /\ Len(SubSeq(c, 1, i)) = i
      /\ \A k \in 1..i : SubSeq(c, 1, i)[k] = c[k]
  BY <1>3, SubSeqProperties
<1>5. q.chain # <<>> /\ Last(q.chain) = q.checkpoint
  <2>1. Len(q.chain) = i /\ i \in 1..i /\ q.chain[i] = c[i]
    BY <1>2, <1>3, <1>4
  <2>2. Len(q.chain) # 0 /\ Last(q.chain) = c[i]
    BY <1>3, <2>1 DEF Last
  <2> QED
    BY <1>2, <2>2
<1>6. Binds(q.checkpoint, q.manifest)
  BY <1>2 DEF Binds
<1>7. /\ Len(q.chain) <= Len(ChainOf(q.manifest))
      /\ \A k \in 1..Len(q.chain) : q.chain[k] = ChainOf(q.manifest)[k]
  <2>1. Len(q.chain) = i /\ \A k \in 1..i : q.chain[k] = c[k]
    BY <1>2, <1>4
  <2> QED
    BY <1>2, <1>3, <2>1
<1> QED
  BY <1>2, <1>3, <1>4, <1>5, <1>6, <1>7 DEF Chained

LEMMA ChainedByFields ==
  ASSUME NEW r, NEW q, Chained(r), q.manifest = r.manifest, q.checkpoint = r.checkpoint,
         q.chain = r.chain
  PROVE  Chained(q)
  BY DEF Chained, Binds, ChainOf, Last

Reading(p) ==
  ReadManifest(p) \/ ReadSummary(p) \/ ReadCheckpoint(p) \/ JudgeChain(p) \/ JudgeKeys(p)
    \/ ReadEvents(p)

\* A call that reads, before and after.
LEMMA Readings ==
  ASSUME Shape, History, NEW p \in Processes, Reading(p),
         NEW t, t = tasks[p], NEW u, u = tasks'[p]
  PROVE  /\ t \in Publications /\ u \in Publications /\ t.at # "put" /\ u.at # "manifest"
         /\ u.next = t.next /\ u.record.refs = t.record.refs
         /\ tasks' = [tasks EXCEPT ![p] = u]
         /\ UNCHANGED <<variant, objects, directory, built, attempts, published, overtaken,
                        governanceVars>>
         /\ \/ /\ t.at = "manifest" /\ u.at = "summary"
               /\ u.record.manifest = directory["manifest.json"]
            \/ /\ t.at = "summary" /\ u.at = "checkpoint"
               /\ u.record.manifest = t.record.manifest
               /\ u.record.summary = directory[Summary]
            \/ /\ t.at = "checkpoint" /\ u.at = "chain" /\ Chained(u.record)
               /\ u.record.manifest = t.record.manifest /\ u.record.summary = t.record.summary
            \/ /\ t.at \in {"chain", "head", "events"} /\ u.at \in {"head", "events", "put"}
               /\ Chained(u.record)
               /\ u.record.manifest = t.record.manifest /\ u.record.summary = t.record.summary
               /\ u.at = "put" => SnapshotsVerify(u.record)
<1> DEFINE r == t.record
           Frame(v, at, next, record) ==
             /\ v = [op |-> "publish", at |-> next, next |-> t.next, record |-> record]
             /\ t \in Publications /\ t.at = at
             /\ tasks' = [tasks EXCEPT ![p] = v]
             /\ UNCHANGED <<variant, objects, directory, built, attempts, published, overtaken,
                            governanceVars>>
<1>1. ASSUME NEW at, NEW next, NEW record, ReadStep(p, at, next, record)
      PROVE  Frame(u, at, next, record)
  <2>1. tasks' = [tasks EXCEPT ![p] = [op |-> "publish", at |-> next, next |-> t.next,
                                       record |-> record]]
    BY <1>1, ReadFacts
  <2>2. u = [op |-> "publish", at |-> next, next |-> t.next, record |-> record]
    BY <2>1 DEF Shape
  <2> QED
    BY <1>1, <2>1, <2>2, ReadFacts
<1>2. CASE ReadManifest(p)
  <2> DEFINE record == [r EXCEPT !.manifest = directory["manifest.json"]]
  <2>1. Frame(u, "manifest", "summary", record)
    BY <1>1, <1>2 DEF ReadManifest
  <2>2. directory["manifest.json"] \in Contents
    BY FileNames DEF Shape
  <2>3. r \in Records
    BY <2>1 DEF Publications
  <2>4. record \in Records /\ record.manifest = directory["manifest.json"] /\ record.refs = r.refs
    BY <2>2, <2>3 DEF Records
  <2> HIDE DEF record
  <2> QED
    BY <2>1, <2>4 DEF Publications
<1>3. CASE ReadSummary(p)
  <2> DEFINE record == [r EXCEPT !.summary = directory[Summary]]
  <2>1. Frame(u, "summary", "checkpoint", record)
    BY <1>1, <1>3 DEF ReadSummary
  <2>2. directory[Summary] \in Contents
    BY FileNames DEF Shape
  <2>3. r \in Records
    BY <2>1 DEF Publications
  <2>4. /\ record \in Records /\ record.summary = directory[Summary] /\ record.refs = r.refs
        /\ record.manifest = r.manifest
    BY <2>2, <2>3 DEF Records
  <2> HIDE DEF record
  <2> QED
    BY <2>1, <2>4 DEF Publications
<1>4. CASE ReadCheckpoint(p)
  <2> DEFINE chain == ChainOf(r.manifest)
  <2>1. PICK i \in DOMAIN chain :
          /\ Binds(chain[i], r.manifest)
          /\ ReadStep(p, "checkpoint", "chain",
                      [r EXCEPT !.checkpoint = chain[i], !.chain = Prefix(chain, i)])
    BY <1>4 DEF ReadCheckpoint
  <2> DEFINE record == [r EXCEPT !.checkpoint = chain[i], !.chain = Prefix(chain, i)]
  <2>2. Frame(u, "checkpoint", "chain", record)
    BY <1>1, <2>1
  <2>3. r \in Records
    BY <2>2 DEF Publications
  <2>4. r.manifest \in Releases
    BY <2>2 DEF History, TaskChained, Publications
  <2>5. \A x, y : LET q == [r EXCEPT !.checkpoint = x, !.chain = y]
                  IN  /\ q.checkpoint = x /\ q.chain = y /\ q.refs = r.refs
                      /\ q.manifest = r.manifest /\ q.summary = r.summary
    BY <2>3 DEF Records
  <2>6. /\ record.checkpoint = chain[i] /\ record.chain = Prefix(chain, i)
        /\ record.refs = r.refs /\ record.manifest = r.manifest /\ record.summary = r.summary
    BY <2>5
  <2>7. /\ chain[i] \in Governance!Checkpoint /\ Prefix(chain, i) \in Seq(Governance!Checkpoint)
        /\ Chained(record)
    <3>1. /\ record.checkpoint \in Governance!Checkpoint
          /\ record.chain \in Seq(Governance!Checkpoint)
          /\ Chained(record)
      <4> HIDE DEF record
      <4> QED
        BY <2>1, <2>3, <2>4, <2>6, MatchIsChained
    <3> QED
      BY <2>6, <3>1
  <2>8. record \in Records
    BY <2>3, <2>7, ChainInRecord
  <2> HIDE DEF record
  <2> QED
    BY <2>2, <2>6, <2>7, <2>8 DEF Publications
<1>5. CASE t \in Publications /\ t.at \in {"chain", "head", "events"}
  <2>1. r \in Records /\ Chained(r)
    BY <1>5 DEF History, TaskChained, Publications
  <2>2. ASSUME NEW record \in Records, NEW at \in {"chain", "head", "events"},
               NEW next \in {"head", "events", "put"}, Frame(u, at, next, record),
               record.refs = r.refs, record.chain = r.chain, record.checkpoint = r.checkpoint,
               record.manifest = r.manifest, record.summary = r.summary,
               next = "put" => SnapshotsVerify(record)
        PROVE  /\ u \in Publications /\ t.at # "put" /\ u.at # "manifest"
               /\ u.next = t.next /\ u.record.refs = t.record.refs
               /\ u.at \in {"head", "events", "put"}
               /\ Chained(u.record)
               /\ u.record.manifest = t.record.manifest /\ u.record.summary = t.record.summary
               /\ u.at = "put" => SnapshotsVerify(u.record)
    <3>1. Chained(record)
      BY <2>1, <2>2, ChainedByFields
    <3>2. u.record = record /\ u.at = next /\ u.next = t.next /\ u.op = "publish"
      BY <2>2
    <3>3. u \in Publications
      BY <1>5, <2>2 DEF Publications
    <3> QED
      BY <1>5, <2>2, <3>1, <3>2, <3>3
  <2>3. CASE JudgeChain(p)
    <3>1. Frame(u, "chain", "head", r)
      BY <1>1, <2>3 DEF JudgeChain
    <3> QED
      BY <1>5, <2>1, <2>2, <3>1
  <2>4. CASE JudgeKeys(p)
    <3> DEFINE record == [r EXCEPT !.head = Len(keyEvents)]
    <3>1. Frame(u, "head", "events", record)
      BY <1>1, <2>4 DEF JudgeKeys
    <3>2. Len(keyEvents) \in Nat
      BY DEF Shape, Governance!TypeOK
    <3>3. /\ record \in Records /\ record.refs = r.refs /\ record.chain = r.chain
          /\ record.checkpoint = r.checkpoint /\ record.manifest = r.manifest
          /\ record.summary = r.summary
      BY <2>1, <3>2 DEF Records
    <3>4. UNCHANGED <<variant, objects, directory, built, attempts, published, overtaken,
                      governanceVars>>
          /\ tasks' = [tasks EXCEPT ![p] = u]
      BY <3>1
    <3>5. /\ u \in Publications /\ t.at # "put" /\ u.at # "manifest"
          /\ u.next = t.next /\ u.record.refs = t.record.refs
          /\ u.at \in {"head", "events", "put"}
          /\ Chained(u.record)
          /\ u.record.manifest = t.record.manifest /\ u.record.summary = t.record.summary
          /\ u.at = "put" => SnapshotsVerify(u.record)
      <4> HIDE DEF record, Frame
      <4> QED
        BY <2>2, <3>1, <3>3
    <3> QED
      BY <1>5, <3>4, <3>5
  <2>5. CASE ReadEvents(p)
    <3> DEFINE record == [r EXCEPT !.events = keyEvents]
    <3>1. Frame(u, "events", "put", record) /\ SnapshotsVerify(u.record)
      BY <1>1, <2>5 DEF ReadEvents
    <3>2. keyEvents \in Seq(Governance!KeyEvent)
      BY DEF Shape, Governance!TypeOK
    <3>3. /\ record \in Records /\ record.refs = r.refs /\ record.chain = r.chain
          /\ record.checkpoint = r.checkpoint /\ record.manifest = r.manifest
          /\ record.summary = r.summary
      BY <2>1, <3>2 DEF Records
    <3>4. u.record = record
      BY <3>1
    <3>5. UNCHANGED <<variant, objects, directory, built, attempts, published, overtaken,
                      governanceVars>>
          /\ tasks' = [tasks EXCEPT ![p] = u]
      BY <3>1
    <3>6. /\ u \in Publications /\ t.at # "put" /\ u.at # "manifest"
          /\ u.next = t.next /\ u.record.refs = t.record.refs
          /\ u.at \in {"head", "events", "put"}
          /\ Chained(u.record)
          /\ u.record.manifest = t.record.manifest /\ u.record.summary = t.record.summary
          /\ u.at = "put" => SnapshotsVerify(u.record)
      <4> HIDE DEF record, Frame
      <4>1. SnapshotsVerify(record)
        BY <3>1, <3>4
      <4> QED
        BY <2>2, <3>1, <3>3, <4>1
    <3> QED
      BY <1>5, <3>5, <3>6
  <2> QED
    BY <1>2, <1>3, <1>4, <1>5, <2>3, <2>4, <2>5 DEF Reading
<1>6. JudgeChain(p) \/ JudgeKeys(p) \/ ReadEvents(p)
        => t \in Publications /\ t.at \in {"chain", "head", "events"}
  BY ReadFacts DEF JudgeChain, JudgeKeys, ReadEvents
<1> QED
  BY <1>2, <1>3, <1>4, <1>5, <1>6 DEF Reading

LEMMA SameRecord ==
  ASSUME NEW q \in Records, NEW r \in Records,
         q.manifest = r.manifest, q.summary = r.summary, q.checkpoint = r.checkpoint,
         q.chain = r.chain, q.head = r.head, q.events = r.events, q.refs = r.refs
  PROVE  q = r
<1>1. ASSUME NEW x \in Records
      PROVE  x = [manifest |-> x.manifest, summary |-> x.summary, checkpoint |-> x.checkpoint,
                  chain |-> x.chain, head |-> x.head, events |-> x.events, refs |-> x.refs]
  BY <1>1, Zenon DEF Records
<1> QED
  BY <1>1

LEMMA SetReferences ==
  ASSUME NEW r \in Records, NEW s \in Seq(Contents)
  PROVE  /\ [r EXCEPT !.refs = s] \in Records
         /\ s = r.refs => [r EXCEPT !.refs = s] = r
<1> DEFINE q == [r EXCEPT !.refs = s]
<1>1. /\ q \in Records
      /\ q.manifest = r.manifest /\ q.summary = r.summary /\ q.checkpoint = r.checkpoint
      /\ q.chain = r.chain /\ q.head = r.head /\ q.events = r.events /\ q.refs = s
  BY DEF Records
<1> HIDE DEF q
<1>2. s = r.refs => q = r
  BY <1>1, SameRecord
<1> QED
  BY <1>1, <1>2 DEF q

LEMMA TwoFields ==
  ASSUME NEW A, NEW N, NEW R, NEW t \in [op : {"publish"}, at : A, next : N, record : R],
         NEW y, NEW s, NEW q, q = [t EXCEPT !.next = y, !.record.refs = s]
  PROVE  q = [op |-> "publish", at |-> t.at, next |-> y, record |-> [t.record EXCEPT !.refs = s]]
<1> DEFINE r == [t.record EXCEPT !.refs = s]
<1>1. q = [[t EXCEPT !.next = y] EXCEPT !.record = r]
  OBVIOUS
<1> HIDE DEF r
<1>2. /\ q \in [op : {"publish"}, at : {t.at}, next : {y}, record : {r}]
      /\ q.op = "publish" /\ q.at = t.at /\ q.next = y /\ q.record = r
  BY <1>1
<1>3. q = [op |-> q.op, at |-> q.at, next |-> q.next, record |-> q.record]
  BY <1>2, Zenon
<1>4. q = [op |-> "publish", at |-> t.at, next |-> y, record |-> r]
  BY <1>2, <1>3
<1> QED
  BY <1>4 DEF r

LEMMA Advance ==
  ASSUME NEW t \in Publications, NEW s
  PROVE  [t EXCEPT !.next = @ + 1, !.record.refs = s]
           = [op |-> "publish", at |-> t.at, next |-> t.next + 1,
              record |-> [t.record EXCEPT !.refs = s]]
<1> DEFINE steps == {"manifest", "summary", "checkpoint", "chain", "head", "events", "put"}
<1>1. t \in [op : {"publish"}, at : steps, next : Nat, record : Records]
  BY DEF Publications
<1> HIDE DEF steps
<1>2. ASSUME NEW q, q = [t EXCEPT !.next = t.next + 1, !.record.refs = s]
      PROVE  q = [op |-> "publish", at |-> t.at, next |-> t.next + 1,
                  record |-> [t.record EXCEPT !.refs = s]]
  BY <1>1, <1>2, TwoFields
<1> QED
  BY <1>2

\* The record with one more reference.
Referenced(r, x) == [r EXCEPT !.refs = Append(@, x)]

LEMMA ReferencedFields ==
  ASSUME NEW r \in Records, NEW x \in Contents, NEW q, q = Referenced(r, x)
  PROVE  /\ q \in Records
         /\ q.manifest = r.manifest /\ q.summary = r.summary
         /\ q.checkpoint = r.checkpoint /\ q.chain = r.chain
         /\ q.head = r.head /\ q.events = r.events
         /\ Len(r.refs) \in Nat /\ Len(q.refs) = Len(r.refs) + 1
         /\ \A i \in 1..Len(r.refs) : q.refs[i] = r.refs[i]
         /\ q.refs[Len(r.refs) + 1] = x
<1>1. r.refs \in Seq(Contents)
  BY DEF Records
<1>2. Append(r.refs, x) \in Seq(Contents)
  BY <1>1, AppendProperties
<1>3. /\ q \in Records
      /\ q.manifest = r.manifest /\ q.summary = r.summary
      /\ q.checkpoint = r.checkpoint /\ q.chain = r.chain
      /\ q.head = r.head /\ q.events = r.events /\ q.refs = Append(r.refs, x)
  BY <1>2 DEF Records, Referenced
<1>4. /\ Len(r.refs) \in Nat /\ Len(q.refs) = Len(r.refs) + 1
      /\ \A i \in 1..Len(r.refs) : q.refs[i] = r.refs[i]
      /\ q.refs[Len(r.refs) + 1] = x
  BY <1>1, <1>3, AppendProperties
<1> QED
  BY <1>3, <1>4

\* The object whose turn it is, and what became of putting it.
Confirmed(object) ==
  \E reached \in SUBSET Replicas : \E answered \in SUBSET reached :
    Put(object[1], object[2], reached) /\ PutConfirmed(object[1], object[2], answered)

\* It can be read, whether it was confirmed or not.
Spread(object) ==
  \E reached \in SUBSET Replicas :
    Put(object[1], object[2], reached) /\ PutReadable(object[1], object[2], reached)

Refused(u) == u = Idle /\ published' = published

FilePut(t, u) ==
  LET name == Files[t.next]
  IN  /\ t.next \in 1..Len(Files) /\ published' = published
      /\ NextObject(t) = <<Address(t.record, name), directory[name]>>
      /\ Confirmed(NextObject(t))
      /\ u \in Publications /\ u.at = "put" /\ u.next = t.next + 1
      /\ u.record = Referenced(t.record, directory[name])

SnapshotsPut(t, u) ==
  /\ t.next = Len(Files) + 1 /\ published' = published
  /\ Confirmed(<<<<"snapshots", Snapshots(t.record)>>, Snapshots(t.record)>>)
  /\ u \in Publications /\ u.at = "put" /\ u.next = t.next + 1 /\ u.record = t.record

RecordPut(t, u) ==
  /\ t.next = Len(Files) + 2 /\ u = Idle /\ published' = published \cup {t.record}
  /\ Spread(<<<<"publication", t.record>>, t.record>>)

LEMMA Puts ==
  ASSUME Shape, NEW p \in Processes, PutObject(p),
         NEW t, t = tasks[p], NEW u, u = tasks'[p]
  PROVE  /\ t \in Publications /\ t.at = "put" /\ t.next \in 1..Len(Files) + 2
         /\ tasks' = [tasks EXCEPT ![p] = u]
         /\ UNCHANGED <<variant, directory, built, attempts, overtaken, governanceVars>>
         /\ \E reached \in SUBSET Replicas : Put(NextObject(t)[1], NextObject(t)[2], reached)
         /\ Refused(u) \/ FilePut(t, u) \/ SnapshotsPut(t, u) \/ RecordPut(t, u)
<1> DEFINE name == Order[t.next]
           object == NextObject(t)
           refs == IF name \in ToSet(Files) THEN Append(t.record.refs, object[2])
                   ELSE t.record.refs
           done == [t EXCEPT !.next = @ + 1,
                             !.record.refs = IF name \in ToSet(Files) THEN Append(@, object[2])
                                             ELSE @]
<1>1. t \in Publications /\ t.at = "put" /\ TaskFits(t)
  BY DEF Shape, PutObject, Publishing, Builds, Publications, Idle
<1>2. t.next \in 1..Len(Files) + 2 /\ Len(Order) = Len(Files) + 2 /\ Len(Files) \in Nat
  BY <1>1, FileNames, OrderNames DEF Shape, TaskFits, Publications
<1>3. done = [op |-> "publish", at |-> "put", next |-> t.next + 1,
              record |-> [t.record EXCEPT !.refs = refs]]
  <2>1. done = [t EXCEPT !.next = @ + 1, !.record.refs = refs]
    <3>1. CASE name \in ToSet(Files)
      BY <3>1
    <3>2. CASE name \notin ToSet(Files)
      BY <3>2
    <3> QED
      BY <3>1, <3>2
  <2> HIDE DEF done, refs
  <2> QED
    BY <1>1, <2>1, Advance
<1> HIDE DEF done
<1>4. PICK reached \in SUBSET Replicas : \E answered \in SUBSET reached :
        /\ Put(object[1], object[2], reached)
        /\ Become(p, IF PutConfirmed(object[1], object[2], answered) /\ t.next < Len(Order)
                     THEN done ELSE Idle)
        /\ published' =
             IF name = "publication" /\ PutReadable(object[1], object[2], reached)
             THEN published \cup {t.record} ELSE published
  BY DEF PutObject, done
<1>5. UNCHANGED <<variant, directory, built, attempts, overtaken, governanceVars>>
  BY DEF PutObject
<1>6. /\ \/ u = Idle
         \/ u = done /\ t.next < Len(Order) /\ Confirmed(object)
      /\ tasks' = [tasks EXCEPT ![p] = u]
      /\ \/ published' = published
         \/ name = "publication" /\ Spread(object) /\ published' = published \cup {t.record}
  <2> HIDE DEF object, name
  <2>1. PICK answered \in SUBSET reached :
          Become(p, IF PutConfirmed(object[1], object[2], answered) /\ t.next < Len(Order)
                    THEN done ELSE Idle)
    BY <1>4
  <2>2. \/ u = Idle /\ tasks' = [tasks EXCEPT ![p] = u]
        \/ /\ u = done /\ tasks' = [tasks EXCEPT ![p] = u] /\ t.next < Len(Order)
           /\ PutConfirmed(object[1], object[2], answered)
    BY <2>1 DEF Become, Shape
  <2>3. Put(object[1], object[2], reached) /\ answered \in SUBSET reached
    BY <1>4, <2>1
  <2>4. PutConfirmed(object[1], object[2], answered) => Confirmed(object)
    BY <2>3 DEF Confirmed
  <2>5. PutReadable(object[1], object[2], reached) => Spread(object)
    BY <2>3 DEF Spread
  <2>6. \/ published' = published
        \/ /\ name = "publication" /\ PutReadable(object[1], object[2], reached)
           /\ published' = published \cup {t.record}
    BY <1>4
  <2> QED
    BY <2>2, <2>4, <2>5, <2>6
<1>7. CASE t.next \in 1..Len(Files)
  <2>1. /\ name = Files[t.next] /\ name \in ToSet(Files) /\ name \notin {"snapshots", "publication"}
    BY <1>2, <1>7, OrderNames DEF Shape
  <2>2. object = <<Address(t.record, name), directory[name]>>
    BY <2>1 DEF NextObject
  <2>3. directory[name] \in Contents /\ t.record \in Records /\ t.record.refs \in Seq(Contents)
    BY <1>1, <2>1 DEF Shape, Publications, Records
  <2>4. refs = Append(t.record.refs, directory[name]) /\ refs \in Seq(Contents)
    <3>1. object[2] = directory[name]
      BY <2>2
    <3>2. refs = Append(t.record.refs, directory[name])
      BY <2>1, <3>1
    <3>3. Append(t.record.refs, directory[name]) \in Seq(Contents)
      <4> HIDE DEF name
      <4> QED
        BY <2>3, AppendProperties
    <3> HIDE DEF refs, name
    <3> QED
      BY <3>2, <3>3
  <2>5. [t.record EXCEPT !.refs = refs] \in Records
    <3> HIDE DEF refs
    <3> QED
      BY <2>3, <2>4, SetReferences
  <2>6. /\ done \in Publications /\ done.at = "put" /\ done.next = t.next + 1
        /\ done.record = [t.record EXCEPT !.refs = refs]
    <3> HIDE DEF refs
    <3> QED
      BY <1>2, <1>3, <2>5 DEF Publications
  <2>7. done.record = [t.record EXCEPT !.refs = Append(@, directory[name])]
    BY <2>4, <2>6
  <2>8. \/ u = Idle /\ published' = published
        \/ Confirmed(object) /\ u = done /\ published' = published
    <3> HIDE DEF object, name
    <3> QED
      BY <1>6, <2>1
  <2>9. object = <<Address(t.record, Files[t.next]), directory[Files[t.next]]>>
        /\ done.record = Referenced(t.record, directory[Files[t.next]])
    BY <2>1, <2>2, <2>7 DEF Referenced
  <2>10. /\ \E set \in SUBSET Replicas : Put(NextObject(t)[1], NextObject(t)[2], set)
         /\ NextObject(t) = object
    BY <1>4
  <2> HIDE DEF object, name
  <2> QED
    BY <1>1, <1>2, <1>5, <1>6, <1>7, <2>6, <2>8, <2>9, <2>10 DEF Refused, FilePut
<1>8. CASE t.next = Len(Files) + 1
  <2>1. name = "snapshots" /\ name \notin ToSet(Files) /\ name # "publication"
    BY <1>2, <1>8, OrderNames, FileNames DEF Shape
  <2>2. object = <<<<"snapshots", Snapshots(t.record)>>, Snapshots(t.record)>>
    BY <2>1 DEF NextObject
  <2>3. t.record \in Records /\ refs = t.record.refs
    BY <1>1, <2>1 DEF Publications
  <2>4. [t.record EXCEPT !.refs = refs] = t.record
    <3>1. t.record.refs \in Seq(Contents)
      BY <2>3 DEF Records
    <3> HIDE DEF refs
    <3> QED
      BY <2>3, <3>1, SetReferences
  <2>5. done \in Publications /\ done.at = "put" /\ done.next = t.next + 1 /\ done.record = t.record
    <3> HIDE DEF refs
    <3> QED
      BY <1>2, <1>3, <2>3, <2>4 DEF Publications
  <2> QED
    BY <1>1, <1>2, <1>4, <1>5, <1>6, <1>8, <2>1, <2>2, <2>5 DEF Refused, SnapshotsPut
<1>9. CASE t.next = Len(Files) + 2
  <2>1. name = "publication" /\ ~(t.next < Len(Order))
    BY <1>2, <1>9, OrderNames DEF Shape
  <2>2. object = <<<<"publication", t.record>>, t.record>>
    BY <2>1 DEF NextObject
  <2> QED
    BY <1>1, <1>2, <1>4, <1>5, <1>6, <1>9, <2>1, <2>2 DEF Refused, RecordPut
<1> QED
  BY <1>2, <1>7, <1>8, <1>9

\* The other steps of a call.
LEMMA Writes ==
  ASSUME Shape, NEW p \in Processes, WriteFile(p), NEW t, t = tasks[p], NEW u, u = tasks'[p]
  PROVE  /\ t \in Builds /\ t.next \in 1..Len(Files) /\ Files[t.next] \in ToSet(Files)
         /\ directory' = [directory EXCEPT ![Files[t.next]] = t.release]
         /\ tasks' = [tasks EXCEPT ![p] = u]
         /\ \/ t.next < Len(Files) /\ u \in Builds /\ u.next = t.next + 1 /\ u.release = t.release
            \/ t.next = Len(Files) /\ u = Idle
<1>1. t \in Builds /\ t.next \in 1..Len(Files) /\ Len(Files) \in Nat
  BY FileNames DEF Shape, TaskFits, WriteFile, Building, Builds, Publications, Idle
<1>2. Files[t.next] \in ToSet(Files)
  BY <1>1, FileNames DEF Shape
<1>3. /\ [t EXCEPT !.next = @ + 1] \in Builds
      /\ [t EXCEPT !.next = @ + 1].next = t.next + 1
      /\ [t EXCEPT !.next = @ + 1].release = t.release
  BY <1>1 DEF Builds
<1>4. /\ directory' = [directory EXCEPT ![Files[t.next]] = t.release]
      /\ tasks' = [tasks EXCEPT ![p] = IF t.next < Len(Files) THEN [t EXCEPT !.next = @ + 1]
                                       ELSE Idle]
  BY DEF WriteFile, Become
<1>5. u = IF t.next < Len(Files) THEN [t EXCEPT !.next = @ + 1] ELSE Idle
  BY <1>4 DEF Shape
<1>6. \/ t.next < Len(Files) /\ u = [t EXCEPT !.next = @ + 1]
      \/ t.next = Len(Files) /\ u = Idle
  BY <1>1, <1>5
<1>7. tasks' = [tasks EXCEPT ![p] = u]
  BY <1>4, <1>5
<1> QED
  BY <1>1, <1>2, <1>3, <1>4, <1>6, <1>7

LEMMA Begins ==
  ASSUME Shape, NEW p \in Processes, NEW u, u = tasks'[p]
  PROVE  /\ BeginBuild(p) =>
              /\ tasks[p] = Idle
              /\ u = [op |-> "build", release |-> built + 1, next |-> 1] /\ u \in Builds
              /\ built' = built + 1 /\ tasks' = [tasks EXCEPT ![p] = u]
              /\ UNCHANGED <<variant, objects, directory, published, overtaken, governanceVars>>
         /\ BeginPublish(p) =>
              /\ FilesVerify(directory)
              /\ u = [op |-> "publish", at |-> "manifest", next |-> 1, record |-> EmptyRecord]
              /\ u \in Publications /\ tasks' = [tasks EXCEPT ![p] = u]
              /\ UNCHANGED <<variant, objects, directory, built, published, overtaken,
                             governanceVars>>
         /\ Stop(p) =>
              /\ u = Idle /\ tasks' = [tasks EXCEPT ![p] = u]
              /\ UNCHANGED <<variant, objects, directory, built, attempts, published, overtaken,
                             governanceVars>>
<1>1. EmptyRecord \in Records
  BY DEF EmptyRecord, Records, Contents
<1>2. ASSUME NEW v, Become(p, v) PROVE u = v /\ tasks' = [tasks EXCEPT ![p] = u]
  BY <1>2 DEF Become, Shape
<1>3. ASSUME BeginBuild(p)
      PROVE  /\ tasks[p] = Idle
             /\ u = [op |-> "build", release |-> built + 1, next |-> 1] /\ u \in Builds
             /\ built' = built + 1 /\ tasks' = [tasks EXCEPT ![p] = u]
             /\ UNCHANGED <<variant, objects, directory, published, overtaken, governanceVars>>
  BY <1>2, <1>3 DEF BeginBuild, Begin, Builds
<1>4. ASSUME BeginPublish(p)
      PROVE  /\ FilesVerify(directory)
             /\ u = [op |-> "publish", at |-> "manifest", next |-> 1, record |-> EmptyRecord]
             /\ u \in Publications /\ tasks' = [tasks EXCEPT ![p] = u]
             /\ UNCHANGED <<variant, objects, directory, built, published, overtaken,
                            governanceVars>>
  <2>1. u = [op |-> "publish", at |-> "manifest", next |-> 1, record |-> EmptyRecord]
        /\ tasks' = [tasks EXCEPT ![p] = u]
    BY <1>2, <1>4 DEF BeginPublish, Begin
  <2>2. u \in Publications
    BY <1>1, <2>1 DEF Publications
  <2> QED
    BY <1>4, <2>1, <2>2 DEF BeginPublish
<1>5. ASSUME Stop(p)
      PROVE  /\ u = Idle /\ tasks' = [tasks EXCEPT ![p] = u]
             /\ UNCHANGED <<variant, objects, directory, built, attempts, published, overtaken,
                            governanceVars>>
  BY <1>2, <1>5 DEF Stop
<1> QED
  BY <1>3, <1>4, <1>5

\* Chains only grow.
LEMMA ChainsGrow ==
  ASSUME Shape, Governance!Next, NEW e \in Elections
  PROVE  /\ Len(checkpoints[e]) <= Len(checkpoints'[e])
         /\ \A i \in 1..Len(checkpoints[e]) : checkpoints'[e][i] = checkpoints[e][i]
<1>1. checkpoints \in [Elections -> Seq(Governance!Checkpoint)]
  BY DEF Shape, Governance!TypeOK
<1>2. \/ checkpoints' = checkpoints
      \/ \E o \in Operators : Governance!AppendCheckpoint(o)
  BY DEF Governance!Next, Governance!Begin, Governance!BeginCheckpoint, Governance!Enroll,
         Governance!Revoke
<1>3. ASSUME NEW o \in Operators, Governance!AppendCheckpoint(o)
      PROVE  \/ checkpoints' = checkpoints
             \/ \E new \in Governance!Checkpoint :
                  checkpoints' = [checkpoints EXCEPT ![ElectionOf[calls[o].on]] = Append(@, new)]
  <2>1. calls[o].on \in Releases /\ calls[o].since \in Nat /\ clock \in Nat
    <3>1. /\ calls[o].op = "checkpoint" /\ clock \in Nat
          /\ calls \in [Operators -> Governance!Call \cup {Governance!NoCall}]
      BY <1>3 DEF Governance!AppendCheckpoint, Governance!Transaction, Shape, Governance!TypeOK
    <3> QED
      BY <3>1 DEF Governance!Call, Governance!NoCall
  <2>2. Governance!NewCheckpoint(calls[o].on, calls[o].since) \in Governance!Checkpoint
    BY <2>1, PublicationConstants DEF Governance!NewCheckpoint, Governance!Checkpoint
  <2> QED
    BY <1>3, <2>2 DEF Governance!AppendCheckpoint
<1>4. ASSUME NEW f, NEW new \in Governance!Checkpoint,
             checkpoints' = [checkpoints EXCEPT ![f] = Append(@, new)]
      PROVE  /\ Len(checkpoints[e]) <= Len(checkpoints'[e])
             /\ \A i \in 1..Len(checkpoints[e]) : checkpoints'[e][i] = checkpoints[e][i]
  <2>1. CASE e = f
    <3>1. checkpoints'[e] = Append(checkpoints[e], new) /\ checkpoints[e] \in Seq(Governance!Checkpoint)
      BY <1>1, <1>4, <2>1
    <3> QED
      BY <3>1, AppendProperties
  <2>2. CASE e # f
    <3>1. checkpoints'[e] = checkpoints[e] /\ checkpoints[e] \in Seq(Governance!Checkpoint)
      BY <1>1, <1>4, <2>2
    <3> QED
      BY <3>1
  <2> QED
    BY <2>1, <2>2
<1>5. CASE checkpoints' = checkpoints
  BY <1>1, <1>5
<1> QED
  BY <1>2, <1>3, <1>4, <1>5

----------------------------------------------------------------------------
(* Shape and History are inductive.                                        *)

LEMMA SameFiles ==
  variant' = variant => Files' = Files /\ Order' = Order /\ Summary' = Summary
  BY DEF Files, Order, Summary

LEMMA TaskKeepsShape ==
  ASSUME Shape, NEW p \in Processes, NEW u \in Builds \cup Publications \cup {Idle},
         tasks' = [tasks EXCEPT ![p] = u], variant' = variant, TaskFits(u)
  PROVE  /\ tasks' \in [Processes -> Builds \cup Publications \cup {Idle}]
         /\ \A q \in Processes : TaskFits(tasks[q])'
<1>1. \A q \in Processes : TaskFits(tasks'[q])
  BY DEF Shape
<1> QED
  BY <1>1, SameFiles DEF Shape, TaskFits

LEMMA OneMore ==
  ASSUME NEW n \in Nat, NEW k \in 1..n, NEW j, j = k + 1, NEW l, l = k - 1, NEW m, m = l + 1
  PROVE  m = j - 1 /\ j \in 1..n + 1
  OBVIOUS

LEMMA ShapeStep ==
  ASSUME Shape, History, [Next]_vars
  PROVE  Shape'
<1>1. CASE GovernanceStep
  BY <1>1, GovernanceTypes, SameFiles DEF GovernanceStep, publishVars, Shape, TaskFits
<1>2. CASE UNCHANGED vars
  BY <1>2, SameFiles DEF vars, governanceVars, Shape, TaskFits, Governance!TypeOK
<1> SUFFICES ASSUME NEW p \in Processes,
                    \/ BeginBuild(p) \/ WriteFile(p) \/ BeginPublish(p) \/ Reading(p)
                    \/ PutObject(p) \/ Stop(p),
                    NEW t, t = tasks[p], NEW u, u = tasks'[p]
             PROVE  Shape'
  BY <1>1, <1>2 DEF Next, Reading
<1>3. Governance!TypeOK' /\ variant' = variant
  <2>1. UNCHANGED governanceVars /\ variant' = variant
    BY Begins, Readings, Puts DEF WriteFile
  <2> QED
    BY <2>1 DEF Shape, Governance!TypeOK, governanceVars
<1>4. ASSUME directory' \in [ToSet(Files) -> Contents], built' \in Nat,
             tasks' = [tasks EXCEPT ![p] = u], u \in Builds \cup Publications \cup {Idle},
             TaskFits(u),
             \A record \in published' : record \in Records /\ Len(record.refs) = Len(Files)
      PROVE  Shape'
  BY <1>3, <1>4, TaskKeepsShape, SameFiles DEF Shape
<1>5. TaskFits(Idle)
  BY DEF TaskFits, Idle
<1>6. Len(Files) \in Nat /\ Len(Files) >= 2 /\ Len(Order) = Len(Files) + 2
  BY FileNames, OrderNames DEF Shape
<1>7. CASE BeginBuild(p)
  <2>1. TaskFits([op |-> "build", release |-> built + 1, next |-> 1])
    BY <1>6 DEF TaskFits
  <2> QED
    BY <1>4, <1>7, <2>1, Begins DEF Shape
<1>8. CASE BeginPublish(p)
  <2>1. TaskFits([op |-> "publish", at |-> "manifest", next |-> 1, record |-> EmptyRecord])
    BY <1>6 DEF TaskFits, EmptyRecord
  <2> QED
    BY <1>4, <1>8, <2>1, Begins DEF Shape
<1>9. CASE Stop(p)
  BY <1>4, <1>5, <1>9, Begins DEF Shape
<1>10. CASE WriteFile(p)
  <2>1. t.release \in Contents /\ u \in Builds \cup {Idle} /\ TaskFits(u)
    BY <1>5, <1>6, <1>10, Writes DEF Builds, Contents, TaskFits
  <2>2. directory' \in [ToSet(Files) -> Contents]
    BY <1>10, <2>1, Writes DEF Shape
  <2>3. UNCHANGED <<built, published>>
    BY <1>10 DEF WriteFile
  <2> QED
    BY <1>4, <1>10, <2>1, <2>2, <2>3, Writes DEF Shape
<1>11. CASE Reading(p)
  <2>1. TaskFits(t)
    BY DEF Shape
  <2>2. TaskFits(u)
    BY <1>6, <1>11, <2>1, Readings DEF TaskFits, Publications
  <2> QED
    BY <1>4, <1>11, <2>2, Readings DEF Shape
<1>12. CASE PutObject(p)
  <2>1. TaskFits(t) /\ t \in Publications /\ t.record \in Records /\ t.next \in Nat
    <3>1. t \in Publications
      BY <1>12, Puts
    <3> QED
      BY <3>1 DEF Shape, Publications
  <2>2. /\ UNCHANGED <<directory, built>> /\ tasks' = [tasks EXCEPT ![p] = u]
        /\ t.at = "put" /\ t.next \in 1..Len(Files) + 2
    BY <1>12, Puts
  <2>3. CASE Refused(u)
    BY <1>4, <1>5, <2>2, <2>3 DEF Shape, Refused
  <2>4. CASE FilePut(t, u)
    <3> DEFINE d == directory[Files[t.next]]
    <3>1. d \in Contents
      BY <2>1, <2>4, FileNames DEF Shape, FilePut
    <3>2. /\ u.record = Referenced(t.record, d) /\ u \in Publications /\ published' = published
          /\ t.next \in 1..Len(Files) /\ u.next = t.next + 1 /\ u.at = "put"
      BY <2>4 DEF FilePut
    <3> HIDE DEF d
    <3>3. Len(u.record.refs) = Len(t.record.refs) + 1
      BY <2>1, <3>1, <3>2, ReferencedFields
    <3>4. TaskFits(u)
      <4>1. Len(t.record.refs) = t.next - 1
        BY <2>1, <3>2 DEF TaskFits, Publications
      <4>2. Len(u.record.refs) = u.next - 1 /\ u.next \in 1..Len(Files) + 1
        <5>1. /\ t.next \in 1..Len(Files) /\ u.next = t.next + 1
              /\ Len(t.record.refs) = t.next - 1 /\ Len(u.record.refs) = Len(t.record.refs) + 1
              /\ Len(Files) \in Nat
          BY <1>6, <3>2, <3>3, <4>1
        <5> QED
          BY <5>1, OneMore
      <4> QED
        BY <1>6, <3>2, <4>2 DEF TaskFits, Publications
    <3> QED
      BY <1>4, <2>2, <3>2, <3>4 DEF Shape
  <2>5. CASE SnapshotsPut(t, u)
    <3>1. TaskFits(u)
      BY <1>6, <2>1, <2>5 DEF TaskFits, Publications, SnapshotsPut
    <3> QED
      BY <1>4, <2>2, <2>5, <3>1 DEF Shape, SnapshotsPut
  <2>6. CASE RecordPut(t, u)
    <3>1. Len(t.record.refs) = Len(Files)
      BY <1>6, <2>1, <2>6 DEF TaskFits, Publications, RecordPut
    <3> QED
      BY <1>4, <1>5, <2>1, <2>2, <2>6, <3>1 DEF Shape, RecordPut
  <2> QED
    BY <1>12, <2>3, <2>4, <2>5, <2>6, Puts
<1> QED
  BY <1>7, <1>8, <1>9, <1>10, <1>11, <1>12

LEMMA ChainedStays ==
  ASSUME Shape, NEW record, Chained(record),
         Governance!Next \/ UNCHANGED governanceVars
  PROVE  Chained(record)'
<1> DEFINE c == ChainOf(record.manifest)
<1>1. ElectionOf[record.manifest] \in Elections
  BY PublicationConstants DEF Chained
<1>2. /\ c \in Seq(Governance!Checkpoint) /\ Len(c) \in Nat
      /\ Len(c) <= Len(c') /\ \A i \in 1..Len(c) : c'[i] = c[i]
  <2>1. checkpoints[ElectionOf[record.manifest]] \in Seq(Governance!Checkpoint)
    BY <1>1 DEF Shape, Governance!TypeOK
  <2>2. CASE Governance!Next
    BY <1>1, <2>1, <2>2, ChainsGrow DEF ChainOf
  <2>3. CASE UNCHANGED governanceVars
    BY <2>1, <2>3 DEF ChainOf, governanceVars
  <2> QED
    BY <2>2, <2>3
<1>3. /\ Len(record.chain) <= Len(c)
      /\ \A i \in 1..Len(record.chain) : record.chain[i] = c[i]
  BY DEF Chained
<1>4. c' \in Seq(Governance!Checkpoint)
  <2>1. Governance!TypeOK'
    BY GovernanceTypes DEF Shape, Governance!TypeOK, governanceVars
  <2> QED
    BY <1>1, <2>1 DEF Governance!TypeOK, ChainOf
<1> HIDE DEF c
<1>5. /\ Len(record.chain) <= Len(c')
      /\ \A i \in 1..Len(record.chain) : record.chain[i] = c'[i]
  BY <1>2, <1>3, <1>4
<1> QED
  BY <1>5 DEF Chained, Binds, c

LEMMA HistoryStep ==
  ASSUME Shape, History, [Next]_vars
  PROVE  History'
<1>1. Governance!Next \/ UNCHANGED governanceVars
  <2>1. \A p \in Processes : BeginBuild(p) \/ BeginPublish(p) \/ Stop(p) => UNCHANGED governanceVars
    BY DEF BeginBuild, BeginPublish, Stop
  <2>2. \A p \in Processes : WriteFile(p) \/ PutObject(p) => UNCHANGED governanceVars
    BY DEF WriteFile, PutObject
  <2>3. \A p \in Processes : Reading(p) => UNCHANGED governanceVars
    BY Readings
  <2> QED
    BY <2>1, <2>2, <2>3 DEF Next, Reading, GovernanceStep, vars
<1>2. \A record : Chained(record) => Chained(record)'
  BY <1>1, ChainedStays
<1>3. ASSUME published' = published
      PROVE  (\A record \in published : Chained(record) /\ SnapshotsVerify(record))'
  BY <1>2, <1>3 DEF History, SnapshotsVerify, ChainVerifies
<1>4. ASSUME NEW t, TaskChained(t), directory' = directory, variant' = variant
      PROVE  TaskChained(t)'
  BY <1>2, <1>4, SameFiles DEF TaskChained, SnapshotsVerify, ChainVerifies
<1>5. ASSUME UNCHANGED <<tasks, directory, published, variant>> PROVE History'
  <2>1. \A p \in Processes : TaskChained(tasks[p])'
    <3>1. ASSUME NEW p \in Processes PROVE TaskChained(tasks[p])'
      <4>1. TaskChained(tasks[p]) /\ tasks'[p] = tasks[p]
        BY <1>5 DEF History
      <4> DEFINE t == tasks[p]
      <4>2. t' = t
        BY <4>1
      <4> HIDE DEF t
      <4> QED
        BY <1>2, <1>5, <4>1, <4>2, SameFiles DEF TaskChained, SnapshotsVerify, ChainVerifies, t
    <3> QED
      BY <3>1
  <2> QED
    BY <1>3, <1>5, <2>1 DEF History
<1>6. CASE GovernanceStep \/ UNCHANGED vars
  BY <1>5, <1>6 DEF GovernanceStep, publishVars, vars
<1> SUFFICES ASSUME NEW p \in Processes,
                    \/ BeginBuild(p) \/ WriteFile(p) \/ BeginPublish(p) \/ Reading(p)
                    \/ PutObject(p) \/ Stop(p),
                    NEW t, t = tasks[p], NEW u, u = tasks'[p]
             PROVE  History'
  BY <1>6 DEF Next, Reading
<1>7. ASSUME tasks' = [tasks EXCEPT ![p] = u], variant' = variant,
             \A f \in ToSet(Files) : directory[f] \in Releases => directory'[f] \in Releases,
             u.op = "publish" =>
               /\ \A f \in ToSet(Files) : directory[f] \in Releases
               /\ u.at # "manifest" => u.record.manifest \in Releases
               /\ u.at \in {"chain", "head", "events", "put"} => Chained(u.record)
               /\ u.at = "put" => SnapshotsVerify(u.record)
      PROVE  (\A q \in Processes : TaskChained(tasks[q]))'
  <2>1. ASSUME NEW q \in Processes, NEW v, v = tasks'[q],
               v.op = "publish" =>
                 /\ \A f \in ToSet(Files) : directory[f] \in Releases
                 /\ v.at # "manifest" => v.record.manifest \in Releases
                 /\ v.at \in {"chain", "head", "events", "put"} => Chained(v.record)
                 /\ v.at = "put" => SnapshotsVerify(v.record)
        PROVE  TaskChained(tasks[q])'
    <3>1. v.op = "publish" /\ v.at \in {"chain", "head", "events", "put"} => Chained(v.record)'
      BY <1>2, <2>1
    <3>2. v.op = "publish" => \A f \in ToSet(Files)' : directory'[f] \in Releases
      BY <1>7, <2>1, SameFiles
    <3> QED
      BY <2>1, <3>1, <3>2 DEF TaskChained, SnapshotsVerify, ChainVerifies
  <2>2. ASSUME NEW q \in Processes, q # p PROVE TaskChained(tasks[q])'
    <3>1. tasks'[q] = tasks[q] /\ TaskChained(tasks[q])
      BY <1>7, <2>2 DEF Shape, History
    <3> QED
      BY <2>1, <3>1 DEF TaskChained
  <2> QED
    BY <1>7, <2>1, <2>2
<1>8. History <=> /\ \A q \in Processes : TaskChained(tasks[q])
                  /\ \A record \in published : Chained(record) /\ SnapshotsVerify(record)
  BY DEF History
<1>9. CASE BeginBuild(p) \/ Stop(p)
  <2>1. /\ u.op # "publish" /\ tasks' = [tasks EXCEPT ![p] = u]
        /\ UNCHANGED <<variant, directory, published>>
    BY <1>9, Begins DEF Builds, Idle
  <2> QED
    BY <1>3, <1>7, <2>1 DEF History
<1>10. CASE BeginPublish(p)
  <2>1. /\ u.op = "publish" /\ u.at = "manifest" /\ tasks' = [tasks EXCEPT ![p] = u]
        /\ UNCHANGED <<variant, directory, published>> /\ FilesVerify(directory)
    BY <1>10, Begins
  <2>2. \A f \in ToSet(Files) : directory[f] \in Releases
    BY <2>1, FileNames DEF Shape, FilesVerify, ReleaseVerifies, Contents
  <2> QED
    BY <1>3, <1>7, <2>1, <2>2 DEF History
<1>11. CASE WriteFile(p)
  <2>1. /\ u.op # "publish" /\ tasks' = [tasks EXCEPT ![p] = u]
        /\ t \in Builds /\ directory' = [directory EXCEPT ![Files[t.next]] = t.release]
    BY <1>11, Writes DEF Builds, Idle
  <2>2. \A f \in ToSet(Files) : directory[f] \in Releases => directory'[f] \in Releases
    BY <2>1 DEF Shape, Builds
  <2>3. UNCHANGED <<variant, published>>
    BY <1>11 DEF WriteFile
  <2> QED
    BY <1>3, <1>7, <2>1, <2>2, <2>3 DEF History
<1>12. CASE Reading(p)
  <2>1. /\ t \in Publications /\ u \in Publications /\ tasks' = [tasks EXCEPT ![p] = u]
        /\ UNCHANGED <<variant, directory, published>> /\ u.at # "manifest"
    BY <1>12, Readings
  <2>2. /\ t.op = "publish" /\ \A f \in ToSet(Files) : directory[f] \in Releases
        /\ t.at # "manifest" => t.record.manifest \in Releases
    BY <2>1 DEF History, TaskChained, Publications
  <2>3. /\ u.record.manifest \in Releases
        /\ u.at \in {"chain", "head", "events", "put"} => Chained(u.record)
        /\ u.at = "put" => SnapshotsVerify(u.record)
    <3>1. "manifest.json" \in ToSet(Files) /\ directory["manifest.json"] \in Releases
      BY <2>2, FileNames DEF Shape
    <3> QED
      BY <1>12, <2>2, <3>1, Readings
  <2> QED
    BY <1>3, <1>7, <2>1, <2>2, <2>3 DEF History
<1>13. CASE PutObject(p)
  <2>1. /\ t \in Publications /\ t.at = "put" /\ tasks' = [tasks EXCEPT ![p] = u]
        /\ UNCHANGED <<variant, directory>>
        /\ Refused(u) \/ FilePut(t, u) \/ SnapshotsPut(t, u) \/ RecordPut(t, u)
    BY <1>13, Puts
  <2>2. /\ \A f \in ToSet(Files) : directory[f] \in Releases
        /\ t.record.manifest \in Releases /\ Chained(t.record) /\ SnapshotsVerify(t.record)
        /\ t.record \in Records
    BY <2>1 DEF History, TaskChained, Publications
  <2>3. CASE FilePut(t, u)
    <3>1. Files[t.next] \in ToSet(Files)
      BY <2>3, FileNames DEF Shape, FilePut
    <3>2. directory[Files[t.next]] \in Contents
      BY <3>1 DEF Shape
    <3>3. /\ u.record.manifest = t.record.manifest /\ u.record.checkpoint = t.record.checkpoint
          /\ u.record.chain = t.record.chain /\ u.record.head = t.record.head
          /\ u.record.events = t.record.events
      <4> DEFINE d == directory[Files[t.next]]
      <4>1. t.record \in Records /\ u.record = Referenced(t.record, d) /\ d \in Contents
        BY <2>2, <2>3, <3>2 DEF FilePut
      <4> HIDE DEF d
      <4> QED
        BY <4>1, ReferencedFields
    <3>4. Chained(u.record) /\ SnapshotsVerify(u.record)
      BY <2>2, <3>3, ChainedByFields DEF SnapshotsVerify
    <3> QED
      BY <1>3, <1>7, <2>1, <2>2, <2>3, <3>3, <3>4 DEF History, FilePut
  <2>4. CASE SnapshotsPut(t, u)
    BY <1>3, <1>7, <2>1, <2>2, <2>4 DEF History, SnapshotsPut
  <2>5. CASE Refused(u)
    BY <1>3, <1>7, <2>1, <2>5 DEF History, Refused, Idle
  <2>6. CASE RecordPut(t, u)
    <3>1. u.op # "publish" /\ published' = published \cup {t.record}
      BY <2>6 DEF RecordPut, Idle
    <3>2. ASSUME NEW record \in published' PROVE Chained(record)' /\ SnapshotsVerify(record)'
      <4>1. Chained(record) /\ SnapshotsVerify(record)
        BY <2>2, <3>1, <3>2 DEF History
      <4> QED
        BY <1>2, <4>1 DEF SnapshotsVerify, ChainVerifies
    <3> QED
      BY <1>7, <2>1, <3>1, <3>2 DEF History
  <2> QED
    BY <2>1, <2>3, <2>4, <2>5, <2>6
<1> QED
  BY <1>9, <1>10, <1>11, <1>12, <1>13

LEMMA InitHistory == Init => Shape /\ History
<1> SUFFICES ASSUME Init PROVE Shape /\ History
  OBVIOUS
<1>1. Governance!TypeOK
  BY DEF Init, Governance!Init, Governance!TypeOK
<1>2. tasks = [p \in Processes |-> Idle] /\ published = {}
  BY DEF Init
<1>3. \A p \in Processes : TaskFits(tasks[p]) /\ TaskChained(tasks[p])
  BY <1>2 DEF TaskFits, TaskChained, Idle
<1> QED
  BY <1>1, <1>2, <1>3 DEF Init, Shape, History, Contents

LEMMA SpecKeepsHistory == Spec => [](Shape /\ History)
<1>1. Shape /\ History /\ [Next]_vars => (Shape /\ History)'
  BY ShapeStep, HistoryStep
<1> QED
  BY <1>1, InitHistory, PTL DEF Spec

----------------------------------------------------------------------------
(* The copy of the key ledger in a publication.                            *)

IssuedEarlier ==
  \A e \in Elections : \A i \in DOMAIN checkpoints[e] : checkpoints[e][i].at < clock

\* What the copy lacks was committed after the checkpoints of the chain.
CopyFits(record) ==
  \A j \in DOMAIN keyEvents :
    \/ keyEvents[j] \in ToSet(record.events)
    \/ \A c \in ToSet(record.chain) : c.at < keyEvents[j].committed

Copies ==
  /\ IssuedEarlier
  /\ \A p \in Processes : Publishing(p) /\ tasks[p].at = "put" => CopyFits(tasks[p].record)
  /\ \A record \in published : CopyFits(record)

LEMMA CopyIsRead ==
  ASSUME Shape, NEW p \in Processes, Reading(p), NEW u, u = tasks'[p], u.at = "put"
  PROVE  u.record.events = keyEvents /\ UNCHANGED governanceVars
<1>1. ASSUME NEW at, NEW next, NEW record, ReadStep(p, at, next, record)
      PROVE  u.at = next /\ u.record = record
  <2>1. /\ tasks' = [tasks EXCEPT ![p] = [op |-> "publish", at |-> next,
                                          next |-> tasks[p].next, record |-> record]]
    BY <1>1, ReadFacts
  <2> QED
    BY <2>1 DEF Shape
<1>2. ~ReadManifest(p) /\ ~ReadSummary(p) /\ ~JudgeChain(p) /\ ~JudgeKeys(p)
  BY <1>1 DEF ReadManifest, ReadSummary, JudgeChain, JudgeKeys
<1>3. ~ReadCheckpoint(p)
  <2>1. ReadCheckpoint(p) => \E record : ReadStep(p, "checkpoint", "chain", record)
    BY DEF ReadCheckpoint
  <2> QED
    BY <1>1, <2>1
<1>4. ReadEvents(p)
  BY <1>2, <1>3 DEF Reading
<1>5. tasks[p].record \in Records
  BY <1>4, ReadFacts DEF ReadEvents, Publications
<1>6. /\ u.record = [tasks[p].record EXCEPT !.events = keyEvents]
      /\ UNCHANGED governanceVars
  BY <1>1, <1>4 DEF ReadEvents, ReadStep
<1> QED
  BY <1>5, <1>6 DEF Records

\* An event and a checkpoint bear the time they are committed at.
LEMMA EventsGrow ==
  ASSUME Shape, Governance!Next
  PROVE  \/ keyEvents' = keyEvents
         \/ \E new : keyEvents' = Append(keyEvents, new) /\ new.committed = clock
<1>1. ASSUME NEW o, NEW type, Governance!AppendEvent(o, type)
      PROVE  \E new : keyEvents' = Append(keyEvents, new) /\ new.committed = clock
  <2> DEFINE new == [type |-> type, key |-> calls[o].on, at |-> calls[o].since, committed |-> clock]
  <2>1. keyEvents' = Append(keyEvents, new) /\ new.committed = clock
    BY <1>1 DEF Governance!AppendEvent
  <2> QED
    BY <2>1
<1>2. PICK o \in Operators :
        \/ \E k \in SigningKeys : Governance!Begin(o, "enroll", k) \/ Governance!Begin(o, "revoke", k)
        \/ \E r \in Releases : Governance!BeginCheckpoint(o, r)
        \/ Governance!Enroll(o) \/ Governance!Revoke(o) \/ Governance!AppendCheckpoint(o)
  BY DEF Governance!Next
<1> QED
  BY <1>1, <1>2 DEF Governance!Begin, Governance!BeginCheckpoint, Governance!Enroll,
                    Governance!Revoke, Governance!AppendCheckpoint

LEMMA IssuedStep ==
  ASSUME Shape, IssuedEarlier, Governance!Next
  PROVE  IssuedEarlier'
<1>1. /\ clock \in Nat /\ checkpoints \in [Elections -> Seq(Governance!Checkpoint)]
  BY DEF Shape, Governance!TypeOK
<1>2. clock' = clock + 1
  BY DEF Governance!Next, Governance!Begin, Governance!BeginCheckpoint, Governance!Enroll,
         Governance!Revoke, Governance!AppendCheckpoint, Governance!Transaction
<1>3. CASE checkpoints' = checkpoints
  <2>1. ASSUME NEW e \in Elections, NEW i \in DOMAIN checkpoints[e]
        PROVE  checkpoints[e][i].at < clock + 1
    <3>1. checkpoints[e][i].at < clock /\ checkpoints[e][i].at \in Nat
      <4>1. checkpoints[e][i] \in Governance!Checkpoint
        BY <1>1
      <4> QED
        BY <4>1 DEF IssuedEarlier, Governance!Checkpoint
    <3> QED
      BY <1>1, <3>1
  <2> QED
    BY <1>2, <1>3, <2>1 DEF IssuedEarlier
<1>4. CASE checkpoints' # checkpoints
  <2>1. PICK o \in Operators : Governance!AppendCheckpoint(o)
    BY <1>4 DEF Governance!Next, Governance!Begin, Governance!BeginCheckpoint, Governance!Enroll,
                Governance!Revoke
  <2> DEFINE f == ElectionOf[calls[o].on]
             new == Governance!NewCheckpoint(calls[o].on, calls[o].since)
  <2>2. checkpoints' = [checkpoints EXCEPT ![f] = Append(checkpoints[f], new)] /\ new.at = clock
    BY <1>1, <1>4, <2>1 DEF Governance!AppendCheckpoint, Governance!NewCheckpoint
  <2>3. new \in Governance!Checkpoint
    <3>1. /\ calls[o].op = "checkpoint"
          /\ calls \in [Operators -> Governance!Call \cup {Governance!NoCall}]
      BY <2>1 DEF Governance!AppendCheckpoint, Governance!Transaction, Shape, Governance!TypeOK
    <3>2. calls[o].on \in Releases /\ calls[o].since \in Nat
      BY <3>1 DEF Governance!Call, Governance!NoCall
    <3> QED
      BY <1>1, <3>2, PublicationConstants DEF Governance!NewCheckpoint, Governance!Checkpoint
  <2> HIDE DEF f, new
  <2>4. ASSUME NEW e \in Elections, NEW i \in 1..Len(checkpoints[e])
        PROVE  checkpoints[e][i].at < clock /\ checkpoints[e][i].at \in Nat
    <3>1. checkpoints[e] \in Seq(Governance!Checkpoint)
      BY <1>1
    <3>2. checkpoints[e][i] \in Governance!Checkpoint /\ i \in DOMAIN checkpoints[e]
      BY <3>1
    <3> QED
      BY <3>2 DEF IssuedEarlier, Governance!Checkpoint
  <2>5. ASSUME NEW e \in Elections, NEW i \in DOMAIN checkpoints'[e]
        PROVE  checkpoints'[e][i].at < clock + 1
    <3>1. checkpoints[e] \in Seq(Governance!Checkpoint)
      BY <1>1
    <3>2. CASE e = f
      <4>1. checkpoints'[e] = Append(checkpoints[e], new)
        BY <1>1, <2>2, <3>2
      <4>2. i = Len(checkpoints[e]) + 1 \/ i \in 1..Len(checkpoints[e])
        BY <2>3, <2>5, <3>1, <4>1, AppendProperties
      <4>3. /\ i = Len(checkpoints[e]) + 1 => checkpoints'[e][i] = new
            /\ i \in 1..Len(checkpoints[e]) => checkpoints'[e][i] = checkpoints[e][i]
        BY <2>3, <3>1, <4>1, AppendProperties
      <4>4. ASSUME i \in 1..Len(checkpoints[e])
            PROVE  checkpoints[e][i].at < clock /\ checkpoints[e][i].at \in Nat
        BY <2>4, <3>1, <4>4
      <4> QED
        BY <1>1, <2>2, <4>2, <4>3, <4>4
    <3>3. CASE e # f
      <4>1. checkpoints'[e] = checkpoints[e]
        BY <1>1, <2>2, <3>3
      <4>2. checkpoints[e][i].at < clock /\ checkpoints[e][i].at \in Nat
        BY <2>4, <2>5, <3>1, <4>1
      <4> QED
        BY <1>1, <4>1, <4>2
    <3> QED
      BY <3>2, <3>3
  <2> QED
    BY <1>2, <2>5 DEF IssuedEarlier
<1> QED
  BY <1>3, <1>4

LEMMA CopyStays ==
  ASSUME Shape, IssuedEarlier, Governance!Next \/ UNCHANGED governanceVars,
         NEW record \in Records, Chained(record), CopyFits(record)
  PROVE  CopyFits(record)'
<1>1. CASE keyEvents' = keyEvents
  BY <1>1 DEF CopyFits
<1>2. CASE keyEvents' # keyEvents
  <2>1. Governance!Next
    BY <1>2 DEF governanceVars
  <2>2. PICK new : keyEvents' = Append(keyEvents, new) /\ new.committed = clock
    BY <1>2, <2>1, EventsGrow
  <2>3. ASSUME NEW c \in ToSet(record.chain) PROVE c.at < clock
    <3>1. PICK i \in 1..Len(record.chain) : c = record.chain[i]
      BY <2>3 DEF ToSet, Records
    <3>2. /\ checkpoints[ElectionOf[record.manifest]] \in Seq(Governance!Checkpoint)
          /\ ElectionOf[record.manifest] \in Elections
      BY PublicationConstants DEF Chained, Shape, Governance!TypeOK
    <3>3. /\ i \in 1..Len(checkpoints[ElectionOf[record.manifest]])
          /\ c = checkpoints[ElectionOf[record.manifest]][i]
      BY <3>1, <3>2 DEF Chained, ChainOf, Records
    <3> QED
      BY <3>2, <3>3 DEF IssuedEarlier
  <2>4. keyEvents \in Seq(Governance!KeyEvent) /\ keyEvents' \in Seq(Governance!KeyEvent)
    <3>1. Governance!TypeOK /\ Governance!TypeOK'
      BY <2>1, GovernanceTypes DEF Shape
    <3> QED
      BY <3>1 DEF Governance!TypeOK
  <2>5. ASSUME NEW j \in DOMAIN keyEvents'
        PROVE  \/ keyEvents'[j] \in ToSet(record.events)
               \/ \A c \in ToSet(record.chain) : c.at < keyEvents'[j].committed
    <3>1. \/ j \in DOMAIN keyEvents /\ keyEvents'[j] = keyEvents[j]
          \/ keyEvents'[j] = new
      BY <2>2, <2>4, <2>5
    <3> QED
      BY <2>2, <2>3, <3>1 DEF CopyFits
  <2> QED
    BY <2>5 DEF CopyFits
<1> QED
  BY <1>1, <1>2

LEMMA CopiesStep ==
  ASSUME Shape, History, Copies, [Next]_vars
  PROVE  Copies'
<1>1. Governance!Next \/ UNCHANGED governanceVars
  <2>1. \A p \in Processes : BeginBuild(p) \/ BeginPublish(p) \/ Stop(p) => UNCHANGED governanceVars
    BY DEF BeginBuild, BeginPublish, Stop
  <2>2. \A p \in Processes : WriteFile(p) \/ PutObject(p) => UNCHANGED governanceVars
    BY DEF WriteFile, PutObject
  <2>3. \A p \in Processes : Reading(p) => UNCHANGED governanceVars
    BY Readings
  <2> QED
    BY <2>1, <2>2, <2>3 DEF Next, Reading, GovernanceStep, vars
<1>2. IssuedEarlier'
  BY <1>1, IssuedStep DEF Copies, IssuedEarlier, governanceVars
<1>3. \A record \in Records : Chained(record) /\ CopyFits(record) => CopyFits(record)'
  BY <1>1, CopyStays DEF Copies
<1>4. \A record \in published : record \in Records /\ CopyFits(record)'
  BY <1>3 DEF Shape, History, Copies
<1>5. ASSUME NEW t, t \in Publications, t.at = "put", NEW q \in Processes, t = tasks[q]
      PROVE  CopyFits(t.record)' /\ t.record \in Records
  BY <1>3, <1>5 DEF Publications, History, TaskChained, Copies, Publishing
<1>6. ASSUME NEW q \in Processes, NEW v, v = tasks'[q],
             v.op = "publish" /\ v.at = "put" => CopyFits(v.record)'
      PROVE  (Publishing(q) /\ tasks[q].at = "put" => CopyFits(tasks[q].record))'
  BY <1>6 DEF Publishing, CopyFits
<1>7. ASSUME NEW q \in Processes, tasks'[q] = tasks[q]
      PROVE  (Publishing(q) /\ tasks[q].at = "put" => CopyFits(tasks[q].record))'
  <2>1. PICK v : v = tasks[q]
    OBVIOUS
  <2>2. v \in Builds \cup Publications \cup {Idle}
    BY <2>1 DEF Shape
  <2>3. v.op = "publish" /\ v.at = "put" => CopyFits(v.record)'
    BY <1>5, <2>1, <2>2 DEF Builds, Idle
  <2> QED
    BY <1>6, <1>7, <2>1, <2>3
<1>8. CASE UNCHANGED <<tasks, published>>
  BY <1>2, <1>4, <1>7, <1>8 DEF Copies
<1>9. GovernanceStep \/ UNCHANGED vars => UNCHANGED <<tasks, published>>
  BY DEF GovernanceStep, publishVars, vars
<1> SUFFICES ASSUME NEW p \in Processes,
                    \/ BeginBuild(p) \/ WriteFile(p) \/ BeginPublish(p) \/ Reading(p)
                    \/ PutObject(p) \/ Stop(p),
                    NEW t, t = tasks[p], NEW u, u = tasks'[p]
             PROVE  Copies'
  BY <1>8, <1>9 DEF Next, Reading
<1>10. ASSUME tasks' = [tasks EXCEPT ![p] = u], published' = published,
              u.op = "publish" /\ u.at = "put" => CopyFits(u.record)'
       PROVE  Copies'
  <2>1. ASSUME NEW q \in Processes
        PROVE  (Publishing(q) /\ tasks[q].at = "put" => CopyFits(tasks[q].record))'
    <3>1. CASE q = p
      BY <1>6, <1>10, <3>1
    <3>2. CASE q # p
      <4>1. tasks'[q] = tasks[q]
        BY <1>10, <3>2 DEF Shape
      <4> QED
        BY <1>7, <4>1
    <3> QED
      BY <3>1, <3>2
  <2> QED
    BY <1>2, <1>4, <1>10, <2>1 DEF Copies
<1>11. CASE BeginBuild(p) \/ WriteFile(p) \/ BeginPublish(p) \/ Stop(p)
  <2>1. tasks' = [tasks EXCEPT ![p] = u] /\ published' = published
    BY <1>11, Begins, Writes DEF WriteFile
  <2>2. u.op # "publish" \/ u.at # "put"
    BY <1>11, Begins, Writes DEF Builds, Idle
  <2> QED
    BY <1>10, <2>1, <2>2
<1>12. CASE Reading(p)
  <2>1. tasks' = [tasks EXCEPT ![p] = u] /\ published' = published
    BY <1>12, Readings
  <2>2. ASSUME u.at = "put" PROVE CopyFits(u.record)'
    <3>1. u.record.events = keyEvents /\ keyEvents' = keyEvents
      BY <1>12, <2>2, CopyIsRead DEF governanceVars
    <3>2. \A j \in DOMAIN keyEvents : keyEvents[j] \in ToSet(u.record.events)
      BY <3>1 DEF ToSet
    <3> QED
      BY <3>1, <3>2 DEF CopyFits
  <2> QED
    BY <1>10, <2>1, <2>2
<1>13. CASE PutObject(p)
  <2>1. /\ t \in Publications /\ t.at = "put" /\ tasks' = [tasks EXCEPT ![p] = u]
        /\ Refused(u) \/ FilePut(t, u) \/ SnapshotsPut(t, u) \/ RecordPut(t, u)
    BY <1>13, Puts
  <2>2. CopyFits(t.record)' /\ t.record \in Records
    BY <1>5, <2>1
  <2>3. CASE Refused(u)
    BY <1>10, <2>1, <2>3 DEF Refused, Idle
  <2>4. CASE FilePut(t, u)
    <3>1. directory[Files[t.next]] \in Contents
      BY <2>4, FileNames DEF Shape, FilePut
    <3>2. u.record.chain = t.record.chain /\ u.record.events = t.record.events
      <4> DEFINE d == directory[Files[t.next]]
      <4>1. t.record \in Records /\ u.record = Referenced(t.record, d) /\ d \in Contents
        BY <2>2, <2>4, <3>1 DEF FilePut
      <4> HIDE DEF d
      <4> QED
        BY <4>1, ReferencedFields
    <3>3. CopyFits(u.record)'
      BY <2>2, <3>2 DEF CopyFits
    <3> QED
      BY <1>10, <2>1, <2>4, <3>3 DEF FilePut
  <2>5. CASE SnapshotsPut(t, u)
    BY <1>10, <2>1, <2>2, <2>5 DEF SnapshotsPut
  <2>6. CASE RecordPut(t, u)
    <3>1. u = Idle /\ published' = published \cup {t.record}
      BY <2>6 DEF RecordPut
    <3>2. ASSUME NEW q \in Processes
          PROVE  (Publishing(q) /\ tasks[q].at = "put" => CopyFits(tasks[q].record))'
      <4>1. CASE q = p
        <5>1. u.op # "publish"
          BY <3>1 DEF Idle
        <5>2. u = tasks'[q]
          BY <4>1
        <5> QED
          BY <1>6, <5>1, <5>2
      <4>2. CASE q # p
        <5>1. tasks'[q] = tasks[q]
          BY <2>1, <4>2 DEF Shape
        <5> QED
          BY <1>7, <5>1
      <4> QED
        BY <4>1, <4>2
    <3> QED
      BY <1>2, <1>4, <2>2, <3>1, <3>2 DEF Copies
  <2> QED
    BY <2>1, <2>3, <2>4, <2>5, <2>6
<1> QED
  BY <1>11, <1>12, <1>13

LEMMA InitCopies == Init => Copies
  BY DEF Init, Governance!Init, Copies, IssuedEarlier, CopyFits, Publishing, Idle

\* For any operators, keys, releases and processes: a revocation that would
\* break a published chain was asked for no later than the checkpoint was issued
\* and committed after it.  What was committed before the chain was judged is in
\* the copy, which was found to clear the chain; what the copy lacks came later.
THEOREM OnlyARevocationUnderWayRefutes == Spec => []RefutedOnlyByRevocationUnderWay
<1>1. ASSUME Shape, History, Copies, NEW record \in published,
             NEW c \in ToSet(record.chain), NEW e \in ToSet(keyEvents),
             e.type = "revoke", e.key = c.key, e.at <= c.at
      PROVE  c.at < e.committed
  <2>1. PICK j \in DOMAIN keyEvents : e = keyEvents[j]
    BY <1>1 DEF ToSet
  <2>2. c \in Governance!Checkpoint /\ e \in Governance!KeyEvent
    BY <1>1, <2>1 DEF ToSet, Shape, Records, Governance!TypeOK
  <2>3. c.at \in Nat /\ e.at \in Nat
    BY <2>2 DEF Governance!Checkpoint, Governance!KeyEvent
  <2>4. e \notin ToSet(record.events)
    <3>1. e \in ToSet(record.events) => e.at > c.at
      BY <1>1 DEF History, SnapshotsVerify, ChainVerifies
    <3> QED
      BY <1>1, <2>3, <3>1
  <2>5. CopyFits(record)
    BY <1>1 DEF Copies
  <2> QED
    BY <1>1, <2>1, <2>4, <2>5 DEF CopyFits
<1>2. Shape /\ History /\ Copies => RefutedOnlyByRevocationUnderWay
  BY <1>1 DEF RefutedOnlyByRevocationUnderWay
<1>3. Shape /\ History /\ Copies /\ [Next]_vars => (Shape /\ History /\ Copies)'
  BY ShapeStep, HistoryStep, CopiesStep
<1> QED
  BY <1>2, <1>3, InitHistory, InitCopies, PTL DEF Spec

----------------------------------------------------------------------------
(* Replicas.                                                               *)

HeldIn(store, r, path) == {o[2] : o \in {q \in store[r] : q[1] = path}}

HeldByAll(store, path, data) == \A r \in Replicas : HeldIn(store, r, path) = {data}
Everywhere(path, data) == HeldByAll(objects, path, data)

LEMMA EverywhereIsHeld ==
  ASSUME NEW path, NEW data
  PROVE  /\ Everywhere(path, data) <=> \A r \in Replicas : HeldAt(r, path) = {data}
         /\ HeldByAll(objects', path, data) <=> \A r \in Replicas : HeldAt(r, path)' = {data}
  BY DEF Everywhere, HeldByAll, HeldAt, HeldIn

\* The default of ReplicatedImmutablePublicationBackend.
AllMustConfirm == MinimumReplicas = Cardinality(Replicas)

\* An object is stored where there is none, and nothing else changes.
LEMMA PutAt ==
  ASSUME NEW path, NEW data, NEW reached, Put(path, data, reached), NEW r \in Replicas, NEW x
  PROVE  HeldAt(r, x)' = IF x = path /\ r \in reached /\ HeldAt(r, path) = {} THEN {data}
                         ELSE HeldAt(r, x)
<1>1. objects'[r] = IF r \in reached /\ HeldAt(r, path) = {}
                    THEN objects[r] \cup {<<path, data>>} ELSE objects[r]
  BY DEF Put, PutIfAbsent
<1>2. CASE r \in reached /\ HeldAt(r, path) = {}
  <2>1. objects'[r] = objects[r] \cup {<<path, data>>}
    BY <1>1, <1>2
  <2>2. {q \in objects'[r] : q[1] = x} = {q \in objects[r] : q[1] = x}
                                          \cup (IF x = path THEN {<<path, data>>} ELSE {})
    BY <2>1
  <2>3. CASE x = path
    <3> DEFINE before == {q \in objects[r] : q[1] = x}
    <3>1. before = {}
      BY <1>2, <2>3 DEF HeldAt
    <3>2. {q \in objects'[r] : q[1] = x} = {<<path, data>>}
      BY <2>2, <2>3, <3>1
    <3>3. HeldAt(r, x)' = {o[2] : o \in {<<path, data>>}}
      BY <3>2 DEF HeldAt
    <3> QED
      BY <1>2, <2>3, <3>3
  <2>4. CASE x # path
    BY <2>2, <2>4 DEF HeldAt
  <2> QED
    BY <2>3, <2>4
<1>3. CASE ~(r \in reached /\ HeldAt(r, path) = {})
  BY <1>1, <1>3 DEF HeldAt
<1> QED
  BY <1>2, <1>3

\* What all replicas hold they hold for good, and it is what is read.
LEMMA EverywhereStays ==
  ASSUME NEW path, NEW data, Everywhere(path, data),
         \/ UNCHANGED objects
         \/ \E x, y : \E reached \in SUBSET Replicas : Put(x, y, reached)
  PROVE  HeldByAll(objects', path, data)
<1>1. CASE UNCHANGED objects
  BY <1>1 DEF Everywhere
<1>2. ASSUME NEW x, NEW y, NEW reached \in SUBSET Replicas, Put(x, y, reached)
      PROVE  HeldByAll(objects', path, data)
  <2>1. ASSUME NEW r \in Replicas PROVE HeldAt(r, path)' = {data}
    <3>1. HeldAt(r, path) = {data}
      BY EverywhereIsHeld
    <3> QED
      BY <1>2, <3>1, PutAt
  <2> QED
    BY <2>1, EverywhereIsHeld
<1> QED
  BY <1>1, <1>2

LEMMA EverywhereIsRead ==
  ASSUME NEW path, NEW data, Everywhere(path, data)
  PROVE  Read(path) = data
<1> DEFINE holders == {r \in Replicas : HeldAt(r, path) # {}}
           values == UNION {HeldAt(r, path) : r \in holders}
<1>1. holders = Replicas
  BY EverywhereIsHeld
<1>2. Replicas # {} /\ Cardinality(Replicas) >= MinimumReplicas
  BY ReplicaThreshold, FS_EmptySet, FS_CardinalityType
<1>3. values = {data}
  BY <1>1, <1>2, EverywhereIsHeld
<1>4. Cardinality({data}) = 1
  BY FS_Singleton
<1> HIDE DEF holders, values
<1>5. Cardinality(holders) >= MinimumReplicas /\ Cardinality(values) = 1
      /\ (CHOOSE v \in values : TRUE) = data
  BY <1>1, <1>2, <1>3, <1>4
<1> QED
  BY <1>5 DEF Read, holders, values

\* A write that every replica confirms.
LEMMA ConfirmedIsEverywhere ==
  ASSUME AllMustConfirm, NEW path, NEW data, Confirmed(<<path, data>>)
  PROVE  HeldByAll(objects', path, data)
<1>1. PICK reached \in SUBSET Replicas : \E answered \in SUBSET reached :
        Put(path, data, reached) /\ PutConfirmed(path, data, answered)
  BY DEF Confirmed
<1>2. PICK answered \in SUBSET reached : PutConfirmed(path, data, answered)
  BY <1>1
<1> DEFINE confirmed == {r \in answered : ~Conflicts(r, path, data)}
<1>3. confirmed = Replicas
  <2>1. confirmed \subseteq Replicas
    BY <1>1, <1>2
  <2>2. Cardinality(confirmed) >= Cardinality(Replicas)
    BY <1>2 DEF PutConfirmed, AllMustConfirm
  <2> HIDE DEF confirmed
  <2>3. /\ IsFiniteSet(Replicas) /\ Cardinality(confirmed) \in Nat /\ Cardinality(Replicas) \in Nat
        /\ Cardinality(confirmed) <= Cardinality(Replicas)
        /\ Cardinality(confirmed) = Cardinality(Replicas) => confirmed = Replicas
    BY <2>1, ReplicaThreshold, FS_Subset, FS_CardinalityType
  <2> QED
    BY <2>2, <2>3
<1>4. ASSUME NEW r \in Replicas PROVE HeldAt(r, path)' = {data}
  <2>1. r \in reached /\ HeldAt(r, path) \ {data} = {}
    BY <1>2, <1>3 DEF Conflicts
  <2>2. HeldAt(r, path) = {} \/ HeldAt(r, path) = {data}
    BY <2>1
  <2> QED
    BY <1>1, <2>1, <2>2, PutAt
<1> QED
  BY <1>4, EverywhereIsHeld

\* One that every replica holds when it is over.
LEMMA SpreadIsEverywhere ==
  ASSUME AllMustConfirm, NEW path, NEW data, Spread(<<path, data>>)
  PROVE  HeldByAll(objects', path, data)
<1>1. PICK reached \in SUBSET Replicas : Put(path, data, reached) /\ PutReadable(path, data, reached)
  BY DEF Spread
<1> DEFINE readable == {r \in {q \in Replicas : q \in reached \/ HeldAt(q, path) # {}} :
                          ~Conflicts(r, path, data)}
<1>2. readable = Replicas
  <2>1. readable \subseteq Replicas
    OBVIOUS
  <2>2. Cardinality(readable) >= Cardinality(Replicas)
    BY <1>1 DEF PutReadable, AllMustConfirm
  <2> HIDE DEF readable
  <2>3. /\ IsFiniteSet(Replicas) /\ Cardinality(readable) \in Nat /\ Cardinality(Replicas) \in Nat
        /\ Cardinality(readable) <= Cardinality(Replicas)
        /\ Cardinality(readable) = Cardinality(Replicas) => readable = Replicas
    BY <2>1, ReplicaThreshold, FS_Subset, FS_CardinalityType
  <2> QED
    BY <2>2, <2>3
<1>3. ASSUME NEW r \in Replicas PROVE HeldAt(r, path)' = {data}
  <2>1. (r \in reached \/ HeldAt(r, path) # {}) /\ HeldAt(r, path) \ {data} = {}
    BY <1>2 DEF Conflicts
  <2>2. HeldAt(r, path) = {} \/ HeldAt(r, path) = {data}
    BY <2>1
  <2> QED
    BY <1>1, <2>1, <2>2, PutAt
<1> QED
  BY <1>3, EverywhereIsHeld

----------------------------------------------------------------------------
(* What a publication has put is on all replicas.                          *)

StoredFiles(record) ==
  \A i \in 1..Len(record.refs) : Everywhere(Address(record, Files[i]), record.refs[i])

StoredSnapshots(record) == Everywhere(<<"snapshots", Snapshots(record)>>, Snapshots(record))

TaskStored(t) ==
  t.op = "publish" =>
    /\ StoredFiles(t.record)
    /\ t.next = Len(Files) + 2 => StoredSnapshots(t.record)

Stored ==
  /\ \A p \in Processes : TaskStored(tasks[p])
  /\ \A record \in published :
       /\ StoredFiles(record) /\ StoredSnapshots(record)
       /\ Everywhere(<<"publication", record>>, record)

LEMMA StorageStep ==
  ASSUME Shape, History, [Next]_vars
  PROVE  /\ variant' = variant
         /\ \A path, data : Everywhere(path, data) => HeldByAll(objects', path, data)
<1>1. \A p \in Processes : Reading(p) => UNCHANGED <<variant, objects>>
  BY Readings
<1>2. ASSUME ~\E p \in Processes : PutObject(p)
      PROVE  UNCHANGED <<variant, objects>>
  BY <1>1, <1>2 DEF Next, Reading, vars, GovernanceStep, publishVars, BeginBuild, WriteFile,
                    BeginPublish, Stop
<1>3. ASSUME NEW p \in Processes, PutObject(p)
      PROVE  /\ variant' = variant
             /\ \A path, data : Everywhere(path, data) => HeldByAll(objects', path, data)
  <2>1. PICK reached \in SUBSET Replicas :
          Put(NextObject(tasks[p])[1], NextObject(tasks[p])[2], reached)
    BY <1>3, Puts
  <2>2. variant' = variant
    BY <1>3 DEF PutObject
  <2>3. \E x, y : \E set \in SUBSET Replicas : Put(x, y, set)
    BY <2>1
  <2> QED
    BY <2>2, <2>3, EverywhereStays
<1> QED
  BY <1>2, <1>3, EverywhereStays

LEMMA StoredStep ==
  ASSUME AllMustConfirm, Shape, History, Stored, [Next]_vars
  PROVE  Stored'
<1>1. /\ variant' = variant /\ Files' = Files /\ Summary' = Summary
      /\ \A path, data : Everywhere(path, data) => HeldByAll(objects', path, data)
  BY StorageStep, SameFiles
<1>2. \A record : /\ StoredFiles(record) => StoredFiles(record)'
                  /\ StoredSnapshots(record) => StoredSnapshots(record)'
  BY <1>1 DEF StoredFiles, StoredSnapshots, Snapshots, Address, Everywhere
<1>3. \A t : TaskStored(t) => (t.op = "publish" =>
                                 /\ StoredFiles(t.record)'
                                 /\ t.next = Len(Files) + 2 => StoredSnapshots(t.record)')
  BY <1>2 DEF TaskStored
<1>4. ASSUME NEW record \in published
      PROVE  /\ StoredFiles(record)' /\ StoredSnapshots(record)'
             /\ Everywhere(<<"publication", record>>, record)'
  BY <1>1, <1>2 DEF Stored, Everywhere
<1>5. ASSUME NEW q \in Processes, NEW v, v = tasks'[q],
             v.op = "publish" =>
               /\ StoredFiles(v.record)'
               /\ v.next = Len(Files) + 2 => StoredSnapshots(v.record)'
      PROVE  TaskStored(tasks[q])'
  BY <1>1, <1>5 DEF TaskStored
<1>6. CASE UNCHANGED <<tasks, published>>
  <2>1. \A q \in Processes : TaskStored(tasks[q])'
    BY <1>3, <1>5, <1>6 DEF Stored
  <2> QED
    BY <1>4, <1>6, <2>1 DEF Stored
<1>7. GovernanceStep \/ UNCHANGED vars => UNCHANGED <<tasks, published>>
  BY DEF GovernanceStep, publishVars, vars
<1> SUFFICES ASSUME NEW p \in Processes,
                    \/ BeginBuild(p) \/ WriteFile(p) \/ BeginPublish(p) \/ Reading(p)
                    \/ PutObject(p) \/ Stop(p),
                    NEW t, t = tasks[p], NEW u, u = tasks'[p]
             PROVE  Stored'
  BY <1>6, <1>7 DEF Next, Reading
<1>8. ASSUME tasks' = [tasks EXCEPT ![p] = u],
             u.op = "publish" =>
               /\ StoredFiles(u.record)'
               /\ u.next = Len(Files) + 2 => StoredSnapshots(u.record)'
      PROVE  \A q \in Processes : TaskStored(tasks[q])'
  <2>1. ASSUME NEW q \in Processes, q # p PROVE TaskStored(tasks[q])'
    <3>1. tasks'[q] = tasks[q] /\ TaskStored(tasks[q])
      BY <1>8, <2>1 DEF Shape, Stored
    <3> QED
      BY <1>3, <1>5, <3>1
  <2> QED
    BY <1>5, <1>8, <2>1
<1>9. Len(Files) \in Nat /\ Len(Files) >= 2
  BY FileNames DEF Shape
<1>10. CASE BeginBuild(p) \/ WriteFile(p) \/ BeginPublish(p) \/ Reading(p) \/ Stop(p)
  <2>1. tasks' = [tasks EXCEPT ![p] = u] /\ published' = published
    BY <1>10, Begins, Writes, Readings DEF WriteFile
  <2>2. ASSUME u.op = "publish" PROVE Len(u.record.refs) = 0 /\ u.next = 1
    <3>1. CASE Reading(p)
      <4>1. t \in Publications /\ t.at # "put" /\ u.next = t.next /\ u.record.refs = t.record.refs
        BY <3>1, Readings
      <4>2. TaskFits(t) /\ t.op = "publish"
        BY <4>1 DEF Shape, Publications
      <4> QED
        BY <1>9, <4>1, <4>2 DEF TaskFits
    <3>2. CASE BeginPublish(p)
      BY <3>2, Begins DEF EmptyRecord
    <3> QED
      BY <1>10, <2>2, <3>1, <3>2, Begins, Writes DEF Idle, Builds
  <2>3. u.op = "publish" => StoredFiles(u.record)' /\ u.next # Len(Files) + 2
    BY <1>9, <2>2 DEF StoredFiles
  <2> QED
    BY <1>4, <1>8, <2>1, <2>3 DEF Stored
<1>11. CASE PutObject(p)
  <2>1. /\ t \in Publications /\ tasks' = [tasks EXCEPT ![p] = u]
        /\ Refused(u) \/ FilePut(t, u) \/ SnapshotsPut(t, u) \/ RecordPut(t, u)
    BY <1>11, Puts
  <2>2. /\ StoredFiles(t.record)'
        /\ t.next = Len(Files) + 2 => StoredSnapshots(t.record)'
        /\ TaskFits(t) /\ t.op = "publish" /\ t.next \in Nat /\ t.record \in Records
    BY <1>3, <2>1 DEF Stored, Shape, Publications
  <2>3. CASE Refused(u)
    BY <1>4, <1>8, <2>1, <2>3 DEF Stored, Refused, Idle
  <2>4. CASE FilePut(t, u)
    <3> DEFINE d == directory[Files[t.next]]
    <3>1. /\ t.next \in 1..Len(Files) /\ Confirmed(<<Address(t.record, Files[t.next]), d>>)
          /\ u.record = Referenced(t.record, d) /\ u.next = t.next + 1 /\ published' = published
      BY <2>4 DEF FilePut
    <3>2. d \in Contents
      BY <3>1, FileNames DEF Shape
    <3> HIDE DEF d
    <3>3. /\ u.record.manifest = t.record.manifest /\ u.record.summary = t.record.summary
          /\ Len(u.record.refs) = Len(t.record.refs) + 1
          /\ \A i \in 1..Len(t.record.refs) : u.record.refs[i] = t.record.refs[i]
          /\ u.record.refs[Len(t.record.refs) + 1] = d
          /\ Len(t.record.refs) \in Nat
      <4> DEFINE x == t.record  y == u.record
      <4>1. x \in Records /\ y = Referenced(x, d)
        BY <2>2, <3>1
      <4> HIDE DEF x, y
      <4>2. /\ y.manifest = x.manifest /\ y.summary = x.summary
            /\ Len(x.refs) \in Nat /\ Len(y.refs) = Len(x.refs) + 1
        BY <3>2, <4>1, ReferencedFields
      <4>3. y.refs[Len(x.refs) + 1] = d
        BY <3>2, <4>1, ReferencedFields
      <4>4. \A i \in 1..Len(x.refs) : y.refs[i] = x.refs[i]
        BY <3>2, <4>1, ReferencedFields
      <4> QED
        BY <4>2, <4>3, <4>4 DEF x, y
    <3>4. Len(t.record.refs) + 1 = t.next
      <4>1. Len(t.record.refs) = t.next - 1
        BY <1>9, <2>2, <3>1 DEF TaskFits
      <4> QED
        BY <2>2, <4>1
    <3>5. \A f : Address(u.record, f) = Address(t.record, f)
      BY <3>3 DEF Address
    <3>6. ASSUME NEW i \in 1..Len(u.record.refs)
          PROVE  HeldByAll(objects', Address(u.record, Files[i]), u.record.refs[i])
      <4>1. CASE i = t.next
        <5>1. HeldByAll(objects', Address(t.record, Files[t.next]), d)
          BY <3>1, ConfirmedIsEverywhere
        <5> QED
          BY <3>3, <3>4, <3>5, <4>1, <5>1
      <4>2. CASE i \in 1..Len(t.record.refs)
        <5>1. Everywhere(Address(t.record, Files[i]), t.record.refs[i])
          BY <2>1, <2>2, <4>2 DEF Stored, TaskStored, StoredFiles
        <5>2. Everywhere(Address(u.record, Files[i]), u.record.refs[i])
          BY <3>3, <3>5, <4>2, <5>1
        <5> QED
          BY <1>1, <5>2
      <4>3. i = t.next \/ i \in 1..Len(t.record.refs)
        <5>1. /\ Len(u.record.refs) = Len(t.record.refs) + 1 /\ Len(t.record.refs) \in Nat
              /\ Len(t.record.refs) + 1 = t.next
          BY <3>3, <3>4
        <5> QED
          BY <5>1
      <4> QED
        BY <4>1, <4>2, <4>3
    <3>7. StoredFiles(u.record)'
      BY <1>1, <3>6 DEF StoredFiles, Everywhere, Address
    <3> QED
      BY <1>4, <1>8, <1>9, <2>1, <3>1, <3>7 DEF Stored
  <2>5. CASE SnapshotsPut(t, u)
    <3>1. u.record = t.record /\ published' = published
      BY <2>5 DEF SnapshotsPut
    <3>2. StoredSnapshots(u.record)'
      <4>1. Confirmed(<<<<"snapshots", Snapshots(u.record)>>, Snapshots(u.record)>>)
        BY <2>5, <3>1 DEF SnapshotsPut
      <4>2. HeldByAll(objects', <<"snapshots", Snapshots(u.record)>>, Snapshots(u.record))
        BY <4>1, ConfirmedIsEverywhere
      <4> QED
        BY <4>2 DEF StoredSnapshots, Snapshots, Everywhere
    <3>3. StoredFiles(u.record)'
      <4>1. StoredFiles(t.record)
        BY <2>1, <2>2 DEF Stored, TaskStored
      <4>2. StoredFiles(u.record)
        BY <3>1, <4>1
      <4> QED
        BY <1>2, <4>2
    <3> QED
      BY <1>4, <1>8, <2>1, <3>1, <3>2, <3>3 DEF Stored
  <2>6. CASE RecordPut(t, u)
    <3>1. /\ Everywhere(<<"publication", t.record>>, t.record)' /\ u = Idle
          /\ StoredFiles(t.record)' /\ StoredSnapshots(t.record)'
          /\ published' = published \cup {t.record}
      <4>1. /\ Spread(<<<<"publication", t.record>>, t.record>>) /\ t.next = Len(Files) + 2
            /\ u = Idle /\ published' = published \cup {t.record}
        BY <2>6 DEF RecordPut
      <4>2. Everywhere(<<"publication", t.record>>, t.record)'
        BY <4>1, SpreadIsEverywhere DEF Everywhere
      <4>3. StoredFiles(t.record)' /\ StoredSnapshots(t.record)'
        BY <2>2, <4>1
      <4> QED
        BY <4>1, <4>2, <4>3
    <3> QED
      BY <1>4, <1>8, <2>1, <3>1 DEF Stored, Idle
  <2> QED
    BY <2>1, <2>3, <2>4, <2>5, <2>6
<1> QED
  BY <1>10, <1>11


LEMMA InitStored == Init => Stored
  BY DEF Init, Stored, TaskStored, Idle

LEMMA SpecKeepsStored == AllMustConfirm => (Spec => [](Shape /\ History /\ Stored))
<1> SUFFICES ASSUME AllMustConfirm PROVE Spec => [](Shape /\ History /\ Stored)
  OBVIOUS
<1>1. Shape /\ History /\ Stored /\ [Next]_vars => (Shape /\ History /\ Stored)'
  BY ShapeStep, HistoryStep, StoredStep
<1> QED
  BY <1>1, InitHistory, InitStored, PTL DEF Spec

LEMMA StoredIsComplete ==
  ASSUME Shape, Stored, NEW record \in published
  PROVE  ObjectsVerify(record)
<1>1. /\ StoredFiles(record) /\ StoredSnapshots(record)
      /\ Everywhere(<<"publication", record>>, record)
  BY DEF Stored
<1>2. DOMAIN Files = 1..Len(record.refs)
  BY FileNames DEF Shape
<1> QED
  BY <1>1, <1>2, EverywhereIsRead DEF StoredFiles, StoredSnapshots, ObjectsVerify

\* When every replica must confirm, a publication record is never on storage
\* without all it names: no failed, repeated or concurrent write of another
\* publication leaves a missing object or other bytes at an address it reads.
THEOREM PublicationsAreComplete == AllMustConfirm => (Spec => []PublishedIsComplete)
<1> SUFFICES ASSUME AllMustConfirm PROVE Spec => []PublishedIsComplete
  OBVIOUS
<1>1. Shape /\ History /\ Stored => PublishedIsComplete
  BY StoredIsComplete DEF PublishedIsComplete
<1>2. Spec => [](Shape /\ History /\ Stored)
  BY SpecKeepsStored
<1> QED
  BY <1>1, <1>2, PTL

----------------------------------------------------------------------------
(* What readers find of a publication.                                     *)

FilesOf(names, refs) ==
  [f \in ToSet(names) |-> refs[CHOOSE i \in DOMAIN names : names[i] = f]]

FoundAgain ==
  \A record \in published :
    ObjectsVerify(record) /\ Reassembled(record) = FilesOf(Files, record.refs)

LEMMA StoredIsFound == Shape /\ Stored => FoundAgain
<1> SUFFICES ASSUME Shape, Stored, NEW record \in published
             PROVE  ObjectsVerify(record) /\ Reassembled(record) = FilesOf(Files, record.refs)
  BY DEF FoundAgain
<1>1. ObjectsVerify(record)
  BY StoredIsComplete
<1>2. ASSUME NEW f \in ToSet(Files)
      PROVE  Read(Address(record, f)) = record.refs[CHOOSE i \in DOMAIN Files : Files[i] = f]
  <2>1. \E i \in DOMAIN Files : Files[i] = f
    BY DEF ToSet
  <2> DEFINE k == CHOOSE i \in DOMAIN Files : Files[i] = f
  <2>2. k \in DOMAIN Files /\ Files[k] = f
    BY <2>1
  <2> HIDE DEF k
  <2>3. Read(Address(record, Files[k])) = record.refs[k]
    BY <1>1, <2>2 DEF ObjectsVerify
  <2> QED
    BY <2>2, <2>3 DEF k
<1> QED
  BY <1>1, <1>2 DEF Reassembled, FilesOf

LEMMA PublishedGrows ==
  ASSUME Shape, History, [Next]_vars
  PROVE  published \subseteq published'
<1>1. \A p \in Processes : Reading(p) => UNCHANGED published
  BY Readings
<1>2. ASSUME NEW p \in Processes, PutObject(p)
      PROVE  published \subseteq published'
  BY <1>2, Puts DEF Refused, FilePut, SnapshotsPut, RecordPut
<1> QED
  BY <1>1, <1>2 DEF Next, Reading, vars, GovernanceStep, publishVars, BeginBuild, WriteFile,
                    BeginPublish, Stop

\* When every replica must confirm, a publication that once verified verifies
\* for good: no later publication of the same release, with other files at the
\* same addresses, and no failed write takes that from it.
THEOREM VerifiedPublicationsStayVerified == AllMustConfirm => (Spec => VerifiedPublicationsLast)
<1> SUFFICES ASSUME AllMustConfirm PROVE Spec => VerifiedPublicationsLast
  OBVIOUS
<1>1. Spec => [](Shape /\ History /\ Stored)
  BY SpecKeepsStored
<1>2. ASSUME Shape, History, FoundAgain, FoundAgain', [Next]_vars,
             NEW record \in published, Verified(record)
      PROVE  Verified(record)'
  <2>1. record \in published'
    BY <1>2, PublishedGrows
  <2>2. variant' = variant /\ Files' = Files /\ Summary' = Summary
    BY <1>2, StorageStep, SameFiles
  <2>3. Reassembled(record)' = Reassembled(record) /\ ObjectsVerify(record)'
    BY <1>2, <2>1, <2>2 DEF FoundAgain
  <2>4. FilesVerify(Reassembled(record))'
    BY <1>2, <2>2, <2>3 DEF Verified, FilesVerify, ReleaseVerifies
  <2>5. BindingsVerify(record)'
    BY <1>2, <2>2, <2>3 DEF Verified, BindingsVerify, Binds
  <2> QED
    BY <1>2, <2>3, <2>4, <2>5 DEF Verified, SnapshotsVerify, ChainVerifies
<1>3. Shape /\ History /\ FoundAgain /\ FoundAgain' /\ [Next]_vars
        => [\A record \in published : Verified(record) => Verified(record)']_vars
  BY <1>2
<1> QED
  BY <1>1, <1>3, StoredIsFound, PTL DEF Spec, VerifiedPublicationsLast

\* Two verified publications of one chain length and election, which a witness
\* may state both, are of one release, read at the same addresses, with the same
\* chain: the checkpoints of an election are only appended.
THEOREM EquivocationsAreOfOneRelease == Spec => []EquivocationsAreRepublications
<1>1. ASSUME Shape, History, NEW q \in published, NEW r \in published,
             Verified(q), Verified(r), Equivocal(q, r)
      PROVE  q.manifest = r.manifest /\ q.chain = r.chain /\ q.events # r.events
  <2>1. /\ q \in Records /\ Len(q.refs) = Len(Files) /\ Chained(q)
        /\ r \in Records /\ Len(r.refs) = Len(Files) /\ Chained(r)
    BY <1>1 DEF Shape, History
  <2>2. /\ ElectionOf[q.manifest] = ElectionOf[r.manifest] /\ Len(q.chain) = Len(r.chain)
        /\ <<q, q.checkpoint>> # <<r, r.checkpoint>>
    BY <1>1 DEF Equivocal, Statement
  <2>3. q.chain = r.chain
    <3>1. /\ q.chain \in Seq(Governance!Checkpoint) /\ r.chain \in Seq(Governance!Checkpoint)
      BY <2>1 DEF Records
    <3>2. ChainOf(q.manifest) = ChainOf(r.manifest)
      BY <2>2 DEF ChainOf
    <3>3. \A i \in 1..Len(q.chain) : q.chain[i] = r.chain[i]
      BY <2>1, <2>2, <3>2 DEF Chained
    <3> QED
      BY <2>2, <3>1, <3>3, SeqEqual
  <2>4. q.checkpoint = r.checkpoint
    BY <2>1, <2>3 DEF Chained
  <2>5. q.manifest = r.manifest
    BY <2>1, <2>4 DEF Chained, Binds
  <2>6. q.summary = q.manifest /\ r.summary = r.manifest
    BY <1>1 DEF Verified, FilesVerify, BindingsVerify
  <2>7. q.refs = r.refs
    <3>1. q.refs \in Seq(Contents) /\ r.refs \in Seq(Contents) /\ Len(q.refs) = Len(r.refs)
      BY <2>1 DEF Records
    <3>2. \A f : Address(q, f) = Address(r, f)
      BY <2>5, <2>6 DEF Address
    <3>3. \A i \in DOMAIN Files : q.refs[i] = r.refs[i]
      BY <1>1, <3>2 DEF Verified, ObjectsVerify
    <3>4. \A i \in 1..Len(q.refs) : q.refs[i] = r.refs[i]
      BY <1>1, <2>1, <3>3, FileNames DEF Shape
    <3> QED
      BY <3>1, <3>4, SeqEqual
  <2>8. ASSUME q.events = r.events PROVE FALSE
    <3>1. q.head = r.head
      BY <1>1, <2>8 DEF Verified, SnapshotsVerify
    <3>2. q = r
      BY <2>1, <2>3, <2>4, <2>5, <2>6, <2>7, <2>8, <3>1, SameRecord
    <3> QED
      BY <2>2, <2>4, <3>2
  <2> QED
    BY <2>3, <2>5, <2>8
<1>2. Shape /\ History => EquivocationsAreRepublications
  BY <1>1 DEF EquivocationsAreRepublications
<1> QED
  BY <1>2, SpecKeepsHistory, PTL

----------------------------------------------------------------------------
(* Builds in the directory that is published.                              *)

\* The summary of release x was overwritten: a build writes it last, so none is
\* left to write it again.
Gone(x) ==
  /\ x <= built /\ directory[Summary] # x
  /\ \A q \in Processes : Building(q) => tasks[q].release # x

BuildOrder ==
  /\ directory[Summary] <= built
  /\ \A q \in Processes :
       Building(q) => tasks[q].release <= built /\ tasks[q].release # directory[Summary]
  /\ \A q, r \in Processes :
       Building(q) /\ Building(r) /\ q # r => tasks[q].release # tasks[r].release

\* A step of no build.
BuildsRest ==
  /\ UNCHANGED <<variant, directory, built, overtaken>>
  /\ \A q \in Processes :
       tasks'[q].op = "build" => tasks[q].op = "build" /\ tasks'[q].release = tasks[q].release

LEMMA BuildSteps ==
  ASSUME Shape, History, [Next]_vars
  PROVE  \/ BuildsRest
         \/ \E p \in Processes : BeginBuild(p) \/ WriteFile(p)
<1>1. CASE UNCHANGED vars \/ GovernanceStep
  BY <1>1 DEF vars, GovernanceStep, publishVars, BuildsRest
<1>2. ASSUME NEW p \in Processes, NEW u, u = tasks'[p], tasks' = [tasks EXCEPT ![p] = u],
             u.op # "build", UNCHANGED <<variant, directory, built, overtaken>>
      PROVE  BuildsRest
  BY <1>2 DEF Shape, BuildsRest
<1>3. ASSUME NEW p \in Processes, Reading(p) \/ BeginPublish(p) \/ PutObject(p) \/ Stop(p)
      PROVE  BuildsRest
  <2> DEFINE u == tasks'[p]
  <2>1. CASE Reading(p)
    BY <1>2, <2>1, Readings DEF Publications
  <2>2. CASE BeginPublish(p) \/ Stop(p)
    BY <1>2, <2>2, Begins DEF Publications, Idle
  <2>3. CASE PutObject(p)
    <3>1. /\ tasks' = [tasks EXCEPT ![p] = u] /\ UNCHANGED <<variant, directory, built, overtaken>>
          /\ \/ Refused(u) \/ FilePut(tasks[p], u) \/ SnapshotsPut(tasks[p], u)
             \/ RecordPut(tasks[p], u)
      BY <2>3, Puts
    <3>2. u.op # "build"
      BY <3>1 DEF Refused, FilePut, SnapshotsPut, RecordPut, Idle, Publications
    <3> QED
      BY <1>2, <3>1, <3>2
  <2> QED
    BY <1>3, <2>1, <2>2, <2>3
<1> QED
  BY <1>1, <1>3 DEF Next, Reading

\* The summary of a release is written by the step that ends its build.
LEMMA SummaryIsLast ==
  ASSUME Shape, NEW p \in Processes, WriteFile(p), NEW t, t = tasks[p]
  PROVE  /\ t.op = "build" /\ t.release \in Releases /\ built' = built /\ variant' = variant
         /\ \A q \in Processes : q # p => tasks'[q] = tasks[q]
         /\ \/ /\ directory'[Summary] = directory[Summary]
               /\ tasks'[p].op = "build" => tasks'[p].release = t.release
            \/ directory'[Summary] = t.release /\ tasks'[p] = Idle
<1>1. /\ t \in Builds /\ t.next \in 1..Len(Files)
      /\ directory' = [directory EXCEPT ![Files[t.next]] = t.release]
      /\ tasks' = [tasks EXCEPT ![p] = tasks'[p]]
      /\ \/ t.next < Len(Files) /\ tasks'[p].release = t.release
         \/ t.next = Len(Files) /\ tasks'[p] = Idle
  BY Writes
<1>2. Summary \in ToSet(Files) /\ directory \in [ToSet(Files) -> Contents]
  BY FileNames DEF Shape
<1>3. CASE t.next < Len(Files)
  <2>1. Files[t.next] # Summary
    BY <1>1, <1>3, FileNames DEF Shape
  <2>2. t.next # Len(Files)
    BY <1>1, <1>3, FileNames DEF Shape
  <2> QED
    BY <1>1, <1>2, <2>1, <2>2 DEF Shape, Builds, WriteFile
<1>4. CASE t.next = Len(Files)
  <2>1. Files[t.next] = Summary /\ ~(t.next < Len(Files))
    BY <1>1, <1>4, FileNames DEF Shape
  <2> QED
    BY <1>1, <1>2, <2>1 DEF Shape, Builds, WriteFile
<1> QED
  BY <1>1, <1>3, <1>4

LEMMA BuildTypes ==
  ASSUME Shape
  PROVE  /\ built \in Nat /\ directory[Summary] \in Nat
         /\ \A q \in Processes : Building(q) => tasks[q].release \in Nat
         /\ Contents \subseteq Nat /\ Releases \subseteq Contents
<1>1. Contents \subseteq Nat /\ Releases \subseteq Contents
  BY PublicationConstants DEF Contents
<1>2. directory[Summary] \in Contents
  BY FileNames DEF Shape
<1>3. ASSUME NEW q \in Processes, Building(q) PROVE tasks[q].release \in Releases
  BY <1>3 DEF Shape, Building, Builds, Publications, Idle
<1>4. built \in Nat
  BY DEF Shape
<1> QED
  BY <1>1, <1>2, <1>3, <1>4

LEMMA BuildOrderStep ==
  ASSUME Shape, History, BuildOrder, [Next]_vars
  PROVE  /\ BuildOrder'
         /\ \A x \in Contents :
              /\ Gone(x) => Gone(x)'
              /\ x = directory[Summary] => x = directory'[Summary] \/ Gone(x)'
<1>1. /\ built \in Nat /\ directory[Summary] \in Nat /\ Contents \subseteq Nat
      /\ \A q \in Processes : Building(q) => tasks[q].release \in Nat
  BY BuildTypes
<1>2. Summary' = Summary
  BY StorageStep, SameFiles
<1>3. CASE BuildsRest
  <2>1. /\ directory' = directory /\ built' = built
        /\ \A q \in Processes :
             tasks'[q].op = "build" => Building(q) /\ tasks'[q].release = tasks[q].release
    BY <1>3 DEF BuildsRest, Building
  <2> QED
    BY <1>2, <2>1 DEF BuildOrder, Building, Gone
<1>4. ASSUME NEW p \in Processes, BeginBuild(p)
      PROVE  /\ BuildOrder'
             /\ \A x \in Contents :
                  /\ Gone(x) => Gone(x)'
                  /\ x = directory[Summary] => x = directory'[Summary] \/ Gone(x)'
  <2>1. /\ built' = built + 1 /\ directory' = directory
        /\ tasks'[p].op = "build" /\ tasks'[p].release = built + 1
        /\ \A q \in Processes : q # p => tasks'[q] = tasks[q]
    BY <1>4, Begins DEF Shape
  <2>2. directory'[Summary'] <= built' /\ directory'[Summary'] # built + 1
    BY <1>1, <1>2, <2>1 DEF BuildOrder
  <2>3. \A q \in Processes :
          tasks'[q].op = "build" =>
            tasks'[q].release <= built' /\ tasks'[q].release # directory'[Summary']
    BY <1>1, <1>2, <2>1, <2>2 DEF BuildOrder, Building
  <2>4. \A q, r \in Processes :
          tasks'[q].op = "build" /\ tasks'[r].op = "build" /\ q # r =>
            tasks'[q].release # tasks'[r].release
    BY <1>1, <2>1 DEF BuildOrder, Building
  <2>5. BuildOrder'
    BY <2>2, <2>3, <2>4 DEF BuildOrder, Building
  <2>6. ASSUME NEW x \in Contents, Gone(x) PROVE Gone(x)'
    <3>1. x <= built' /\ x # built + 1
      BY <1>1, <2>1, <2>6 DEF Gone
    <3> QED
      BY <1>2, <2>1, <2>6, <3>1 DEF Gone, Building
  <2> QED
    BY <1>2, <2>1, <2>5, <2>6
<1>5. ASSUME NEW p \in Processes, WriteFile(p)
      PROVE  /\ BuildOrder'
             /\ \A x \in Contents :
                  /\ Gone(x) => Gone(x)'
                  /\ x = directory[Summary] => x = directory'[Summary] \/ Gone(x)'
  <2> DEFINE y == tasks[p].release
  <2>1. /\ Building(p) /\ built' = built /\ \A q \in Processes : q # p => tasks'[q] = tasks[q]
        /\ \/ /\ directory'[Summary] = directory[Summary]
              /\ tasks'[p].op = "build" => tasks'[p].release = y
           \/ directory'[Summary] = y /\ tasks'[p] = Idle
    BY <1>5, SummaryIsLast DEF Building
  <2>2. y \in Nat /\ y <= built /\ y # directory[Summary]
        /\ \A q \in Processes : q # p /\ Building(q) => tasks[q].release # y
    BY <1>1, <2>1 DEF BuildOrder
  <2> HIDE DEF y
  <2>3. BuildOrder'
    <3>1. directory'[Summary'] <= built'
      BY <1>1, <1>2, <2>1, <2>2 DEF BuildOrder
    <3>2. \A q \in Processes :
            tasks'[q].op = "build" =>
              tasks'[q].release <= built' /\ tasks'[q].release # directory'[Summary']
      BY <1>1, <1>2, <2>1, <2>2 DEF BuildOrder, Building, Idle
    <3>3. \A q, r \in Processes :
            tasks'[q].op = "build" /\ tasks'[r].op = "build" /\ q # r =>
              tasks'[q].release # tasks'[r].release
      BY <2>1, <2>2 DEF BuildOrder, Building, Idle, y
    <3> QED
      BY <3>1, <3>2, <3>3 DEF BuildOrder, Building
  <2>4. ASSUME NEW x \in Contents, Gone(x) PROVE Gone(x)'
    BY <1>2, <2>1, <2>2, <2>4 DEF Gone, Building, Idle, y
  <2>5. ASSUME NEW x \in Contents, x = directory[Summary], x # directory'[Summary] PROVE Gone(x)'
    BY <1>2, <2>1, <2>2, <2>5 DEF Gone, BuildOrder, Building, Idle
  <2> QED
    BY <2>3, <2>4, <2>5
<1> QED
  BY <1>3, <1>4, <1>5, BuildSteps

----------------------------------------------------------------------------
(* Files that stay while they are published.                               *)

AllFrom(names, files) ==
  files["manifest.json"] # 0 /\ \A f \in names : files[f] = files["manifest.json"]

LEMMA FilesOfOneRelease ==
  ASSUME variant \in {"semantic", "postgres"}, NEW files
  PROVE  FilesVerify(files) <=> AllFrom(ToSet(Files), files)
  BY FileNames DEF FilesVerify, ReleaseVerifies, AllFrom

\* All that the publication has copied is of the release that it names.
Pure(record, spoiled) ==
  \/ record.manifest \in spoiled
  \/ /\ record.summary = record.manifest
     /\ \A i \in 1..Len(record.refs) : record.refs[i] = record.manifest

QuietTask(t, names, files, spoiled) ==
  /\ t.at = "manifest" => AllFrom(names, files) \/ files["manifest.json"] \in spoiled
  /\ t.at # "manifest" =>
       \/ t.record.manifest \in spoiled
       \/ AllFrom(names, files) /\ files["manifest.json"] = t.record.manifest
  /\ t.at \notin {"manifest", "summary"} => Pure(t.record, spoiled)

Undisturbed ==
  /\ \A q \in Processes :
       tasks[q].op = "publish" => QuietTask(tasks[q], ToSet(Files), directory, overtaken)
  /\ \A record \in published : Pure(record, overtaken)

LEMMA WriteDisturbs ==
  ASSUME Shape, History, Undisturbed, NEW p \in Processes, WriteFile(p)
  PROVE  Undisturbed'
<1>1. /\ overtaken' = overtaken \cup UNION {Subjects(q) : q \in {x \in Processes : Publishing(x)}}
      /\ published' = published /\ Files' = Files
      /\ \A q \in Processes : q # p => tasks'[q] = tasks[q]
  BY SummaryIsLast, SameFiles DEF WriteFile
<1>2. tasks'[p].op # "publish"
  BY Writes DEF Builds, Idle
<1>3. ASSUME NEW q \in Processes, NEW v, v = tasks'[q], v.op = "publish"
      PROVE  QuietTask(v, ToSet(Files), directory', overtaken')
  <2>1. v = tasks[q] /\ Publishing(q)
    BY <1>1, <1>2, <1>3 DEF Publishing
  <2>2. Subjects(q) \subseteq overtaken'
    BY <1>1, <2>1
  <2>3. /\ v.at = "manifest" => directory'["manifest.json"] \in overtaken'
        /\ v.at # "manifest" => v.record.manifest \in overtaken'
    BY <2>1, <2>2 DEF Subjects
  <2> QED
    BY <2>3 DEF QuietTask, Pure
<1>4. \A record \in published : Pure(record, overtaken')
  BY <1>1 DEF Undisturbed, Pure
<1> QED
  BY <1>1, <1>3, <1>4 DEF Undisturbed

LEMMA UndisturbedStep ==
  ASSUME Shape, History, Undisturbed, [Next]_vars
  PROVE  Undisturbed'
<1> DEFINE names == ToSet(Files)
<1>1. variant' = variant /\ Files' = Files
  BY StorageStep, SameFiles
<1>2. CASE UNCHANGED vars \/ GovernanceStep
  BY <1>2, <1>1 DEF vars, GovernanceStep, publishVars, Undisturbed
<1> SUFFICES ASSUME NEW p \in Processes,
                    \/ BeginBuild(p) \/ WriteFile(p) \/ BeginPublish(p) \/ Reading(p)
                    \/ PutObject(p) \/ Stop(p),
                    NEW t, t = tasks[p], NEW u, u = tasks'[p]
             PROVE  Undisturbed'
  BY <1>2 DEF Next, Reading
<1>3. ASSUME tasks' = [tasks EXCEPT ![p] = u], directory' = directory, overtaken' = overtaken,
             u.op = "publish" => QuietTask(u, names, directory, overtaken),
             \A record \in published' : record \in published \/ Pure(record, overtaken)
      PROVE  Undisturbed'
  <2>1. ASSUME NEW q \in Processes, NEW v, v = tasks'[q], v.op = "publish"
        PROVE  QuietTask(v, names, directory, overtaken)
    BY <1>3, <2>1 DEF Shape, Undisturbed
  <2>2. \A record \in published' : Pure(record, overtaken)
    BY <1>3 DEF Undisturbed
  <2> QED
    BY <1>1, <1>3, <2>1, <2>2 DEF Undisturbed
<1>4. t.op = "publish" => QuietTask(t, names, directory, overtaken)
  BY DEF Undisturbed
<1>5. CASE BeginBuild(p) \/ Stop(p)
  BY <1>3, <1>5, Begins DEF Idle, Builds
<1>6. CASE BeginPublish(p)
  <2>1. AllFrom(names, directory)
    BY <1>6, Begins, FilesOfOneRelease DEF Shape
  <2>2. u.at = "manifest"
    BY <1>6, Begins
  <2>3. QuietTask(u, names, directory, overtaken)
    BY <2>1, <2>2 DEF QuietTask
  <2> QED
    BY <1>3, <1>6, <2>3, Begins
<1>7. CASE Reading(p)
  <2>1. t \in Publications /\ t.op = "publish" /\ t.at # "put" /\ u.record.refs = t.record.refs
        /\ TaskFits(t)
    BY <1>7, Readings DEF Publications, Shape
  <2>2. Len(u.record.refs) = 0
    <3>1. Len(Files) >= 1 /\ t.next = 1
      BY <2>1, FileNames DEF Shape, TaskFits
    <3> QED
      BY <2>1, <3>1 DEF TaskFits
  <2>3. Summary \in names
    BY FileNames DEF Shape
  <2>4. QuietTask(t, names, directory, overtaken)
    BY <1>4, <2>1
  <2> HIDE DEF names
  <2>5. QuietTask(u, names, directory, overtaken)
    <3>1. CASE /\ t.at = "manifest" /\ u.at = "summary"
               /\ u.record.manifest = directory["manifest.json"]
      BY <2>4, <3>1 DEF QuietTask
    <3>2. CASE /\ t.at = "summary" /\ u.at = "checkpoint"
               /\ u.record.manifest = t.record.manifest
               /\ u.record.summary = directory[Summary]
      BY <2>2, <2>3, <2>4, <3>2 DEF QuietTask, Pure, AllFrom
    <3>3. CASE /\ t.at \in {"checkpoint", "chain", "head", "events"}
               /\ u.at \in {"chain", "head", "events", "put"}
               /\ u.record.manifest = t.record.manifest /\ u.record.summary = t.record.summary
      BY <2>2, <2>4, <3>3 DEF QuietTask, Pure
    <3> QED
      BY <1>7, <3>1, <3>2, <3>3, Readings
  <2> QED
    BY <1>3, <1>7, <2>5, Readings DEF names
<1>8. CASE PutObject(p)
  <2>1. /\ t \in Publications /\ t.op = "publish" /\ t.at = "put" /\ t.record \in Records
        /\ tasks' = [tasks EXCEPT ![p] = u] /\ UNCHANGED <<directory, overtaken>>
        /\ Refused(u) \/ FilePut(t, u) \/ SnapshotsPut(t, u) \/ RecordPut(t, u)
    BY <1>8, Puts DEF Publications
  <2>2. /\ \/ t.record.manifest \in overtaken
           \/ AllFrom(names, directory) /\ directory["manifest.json"] = t.record.manifest
        /\ Pure(t.record, overtaken)
    BY <1>4, <2>1 DEF QuietTask
  <2>3. CASE Refused(u)
    BY <1>3, <2>1, <2>3 DEF Refused, Idle
  <2>4. CASE FilePut(t, u)
    <3> DEFINE d == directory[Files[t.next]]  r == t.record  q == u.record
    <3>1. Files[t.next] \in names /\ u.at = "put"
      BY <2>4, FileNames DEF Shape, FilePut
    <3>2. d \in Contents
      BY <3>1 DEF Shape
    <3>3. r \in Records /\ q = Referenced(r, d)
      BY <2>1, <2>4 DEF FilePut
    <3>4. r.manifest \in overtaken \/ d = r.manifest
      BY <2>2, <3>1 DEF AllFrom
    <3>5. q.manifest = r.manifest /\ Pure(q, overtaken)
      <4>1. Pure(r, overtaken)
        BY <2>2
      <4> HIDE DEF d, r, q
      <4>2. /\ q.manifest = r.manifest /\ q.summary = r.summary
            /\ Len(r.refs) \in Nat /\ Len(q.refs) = Len(r.refs) + 1
        BY <3>2, <3>3, ReferencedFields
      <4>3. q.refs[Len(r.refs) + 1] = d
        BY <3>2, <3>3, ReferencedFields
      <4>4. \A i \in 1..Len(r.refs) : q.refs[i] = r.refs[i]
        BY <3>2, <3>3, ReferencedFields
      <4>5. \A i \in 1..Len(q.refs) : i \in 1..Len(r.refs) \/ i = Len(r.refs) + 1
        BY <4>2
      <4> QED
        BY <3>4, <4>1, <4>2, <4>3, <4>4, <4>5 DEF Pure
    <3>6. QuietTask(u, names, directory, overtaken)
      BY <2>2, <3>1, <3>5 DEF QuietTask
    <3> QED
      BY <1>3, <2>1, <2>4, <3>6 DEF FilePut
  <2>5. CASE SnapshotsPut(t, u)
    <3>1. u.at = "put" /\ u.record = t.record /\ published' = published
      BY <2>5 DEF SnapshotsPut
    <3>2. QuietTask(u, names, directory, overtaken)
      BY <2>2, <3>1 DEF QuietTask
    <3> QED
      BY <1>3, <2>1, <3>1, <3>2
  <2>6. CASE RecordPut(t, u)
    BY <1>3, <2>1, <2>2, <2>6 DEF RecordPut, Idle
  <2> QED
    BY <2>1, <2>3, <2>4, <2>5, <2>6
<1> QED
  BY <1>5, <1>6, <1>7, <1>8, WriteDisturbs

\* The summary that a publication read is in place, or gone for good.
Late(t) == t.op = "publish" /\ t.at \notin {"manifest", "summary"}

Steady ==
  \A q \in Processes :
    Late(tasks[q]) => \/ tasks[q].record.summary = directory[Summary]
                      \/ Gone(tasks[q].record.summary)

LEMMA LateTasks ==
  ASSUME Shape, History, [Next]_vars, NEW q \in Processes, NEW v, v = tasks'[q], Late(v)
  PROVE  /\ v.record.summary \in Contents
         /\ \/ Late(tasks[q]) /\ v.record.summary = tasks[q].record.summary
            \/ v.record.summary = directory[Summary] /\ directory' = directory
<1>1. ASSUME v = tasks[q]
      PROVE  Late(tasks[q]) /\ v.record.summary = tasks[q].record.summary
  BY <1>1
<1>2. ASSUME v # tasks[q]
      PROVE  \/ Late(tasks[q]) /\ v.record.summary = tasks[q].record.summary
             \/ v.record.summary = directory[Summary] /\ directory' = directory
  <2>1. ~(UNCHANGED vars \/ GovernanceStep)
    BY <1>2 DEF vars, GovernanceStep, publishVars
  <2>2. PICK p \in Processes : \/ BeginBuild(p) \/ WriteFile(p) \/ BeginPublish(p) \/ Reading(p)
                               \/ PutObject(p) \/ Stop(p)
    BY <2>1 DEF Next, Reading
  <2>3. tasks' = [tasks EXCEPT ![p] = tasks'[p]]
    BY <2>2, Begins, Writes, Readings, Puts
  <2>4. p = q
    BY <1>2, <2>3 DEF Shape
  <2>5. CASE BeginBuild(q) \/ WriteFile(q) \/ BeginPublish(q) \/ Stop(q)
    BY <2>5, Begins, Writes DEF Late, Idle, Builds
  <2>6. CASE Reading(q)
    BY <2>6, Readings DEF Late, Publications
  <2>7. CASE PutObject(q)
    <3> DEFINE t == tasks[q]
    <3>1. /\ t \in Publications /\ t.at = "put" /\ v.op = "publish"
          /\ Refused(v) \/ FilePut(t, v) \/ SnapshotsPut(t, v) \/ RecordPut(t, v)
      BY <2>7, Puts DEF Late
    <3>2. Late(t) /\ t.record \in Records
      BY <3>1 DEF Late, Publications
    <3>3. CASE FilePut(t, v)
      <4> DEFINE d == directory[Files[t.next]]
      <4>1. d \in Contents
        BY <3>3, FileNames DEF Shape, FilePut
      <4>2. v.record = Referenced(t.record, d)
        BY <3>3 DEF FilePut
      <4> HIDE DEF d
      <4>3. v.record.summary = t.record.summary
        BY <3>2, <4>1, <4>2, ReferencedFields
      <4> QED
        BY <3>2, <4>3
    <3> QED
      BY <3>1, <3>2, <3>3 DEF Refused, SnapshotsPut, RecordPut, Idle
  <2> QED
    BY <2>2, <2>4, <2>5, <2>6, <2>7
<1>3. Shape'
  BY ShapeStep
<1>4. v.record.summary \in Contents
  BY <1>3 DEF Shape, Late, Builds, Publications, Idle, Records
<1> QED
  BY <1>1, <1>2, <1>4

LEMMA SteadyStep ==
  ASSUME Shape, History, BuildOrder, Steady, [Next]_vars
  PROVE  Steady'
<1>1. Summary' = Summary
  BY StorageStep, SameFiles
<1>2. ASSUME NEW q \in Processes, NEW v, v = tasks'[q], Late(v)
      PROVE  v.record.summary = directory'[Summary] \/ Gone(v.record.summary)'
  <2> DEFINE x == v.record.summary
  <2>1. x \in Contents
    BY <1>2, LateTasks
  <2>2. x = directory[Summary] \/ Gone(x)
    BY <1>2, LateTasks DEF Steady
  <2> HIDE DEF x
  <2>3. x = directory'[Summary] \/ Gone(x)'
    BY <2>1, <2>2, BuildOrderStep
  <2> QED
    BY <2>3 DEF x
<1> QED
  BY <1>1, <1>2 DEF Steady, Late

----------------------------------------------------------------------------
(* What is at the addresses.                                               *)

LEMMA PutIn ==
  ASSUME NEW path, NEW data, NEW reached, Put(path, data, reached), NEW r \in Replicas, NEW x
  PROVE  \/ HeldIn(objects', r, x) = HeldIn(objects, r, x)
         \/ x = path /\ HeldIn(objects', r, x) = {data}
<1>1. HeldAt(r, x)' = IF x = path /\ r \in reached /\ HeldAt(r, path) = {} THEN {data}
                      ELSE HeldAt(r, x)
  BY PutAt
<1> QED
  BY <1>1 DEF HeldAt, HeldIn

OwnFiles ==
  \A r \in Replicas, f \in ToSet(ReleaseFiles), x \in Contents :
    x \in overtaken \/ HeldIn(objects, r, <<f, x>>) \subseteq {x}

OwnSummaries ==
  \A r \in Replicas, x \in Contents :
    Gone(x) \/ HeldIn(objects, r, <<Summary, x>>) \subseteq {x}

OwnRecords ==
  \A r \in Replicas, name \in {"snapshots", "publication"} :
    \A x : HeldIn(objects, r, <<name, x>>) \subseteq {x}

OwnBytes == OwnFiles /\ OwnSummaries /\ OwnRecords

LEMMA NextObjects ==
  ASSUME Shape, NEW p \in Processes, NEW t, t = tasks[p], t.op = "publish", t.at = "put"
  PROVE  /\ t.record \in Records
         /\ \/ /\ t.next \in 1..Len(Files)
               /\ NextObject(t) = <<Address(t.record, Files[t.next]), directory[Files[t.next]]>>
            \/ NextObject(t) = <<<<"snapshots", Snapshots(t.record)>>, Snapshots(t.record)>>
            \/ NextObject(t) = <<<<"publication", t.record>>, t.record>>
<1>1. t \in Publications /\ TaskFits(t)
  BY DEF Shape, Builds, Idle
<1>2. t.next \in 1..Len(Files) + 2 /\ t.record \in Records
  BY <1>1, OrderNames DEF TaskFits, Publications, Shape
<1>3. t.next \in 1..Len(Files) \/ t.next = Len(Files) + 1 \/ t.next = Len(Files) + 2
  BY <1>2, FileNames DEF Shape
<1>4. CASE t.next \in 1..Len(Files)
  <2>1. Order[t.next] = Files[t.next] /\ Order[t.next] \notin {"snapshots", "publication"}
    BY <1>4, OrderNames DEF Shape
  <2> QED
    BY <1>2, <1>4, <2>1 DEF NextObject
<1>5. CASE t.next = Len(Files) + 1
  <2>1. Order[t.next] = "snapshots"
    BY <1>5, OrderNames DEF Shape
  <2> QED
    BY <1>2, <2>1 DEF NextObject
<1>6. CASE t.next = Len(Files) + 2
  <2>1. Order[t.next] = "publication"
    BY <1>6, OrderNames DEF Shape
  <2> QED
    BY <1>2, <2>1 DEF NextObject
<1> QED
  BY <1>3, <1>4, <1>5, <1>6

\* Data that its address names, as far as nothing was overwritten.
AtOwnAddress(path, data) ==
  /\ \A f \in ToSet(ReleaseFiles), x \in Contents :
       path = <<f, x>> => x \in overtaken \/ data = x
  /\ \A x \in Contents : path = <<Summary, x>> => Gone(x) \/ data = x
  /\ \A name \in {"snapshots", "publication"} : \A x : path = <<name, x>> => data = x

LEMMA OwnObject ==
  ASSUME Shape, Undisturbed, Steady,
         NEW p \in Processes, NEW t, t = tasks[p], t.op = "publish", t.at = "put",
         NEW path, NEW data, NextObject(t) = <<path, data>>
  PROVE  AtOwnAddress(path, data)
<1>1. /\ \/ t.record.manifest \in overtaken
         \/ AllFrom(ToSet(Files), directory) /\ directory["manifest.json"] = t.record.manifest
      /\ t.record.summary = directory[Summary] \/ Gone(t.record.summary)
  BY DEF Undisturbed, QuietTask, Steady, Late
<1>2. /\ ToSet(Files) = ToSet(ReleaseFiles) \cup {Summary}
      /\ Summary \notin ToSet(ReleaseFiles)
      /\ "snapshots" \notin ToSet(Files) /\ "publication" \notin ToSet(Files)
      /\ \A i \in 1..Len(Files) : Files[i] \in ToSet(Files)
  BY FileNames DEF Shape
<1>3. ASSUME t.next \in 1..Len(Files),
             NextObject(t) = <<Address(t.record, Files[t.next]), directory[Files[t.next]]>>
      PROVE  AtOwnAddress(path, data)
  <2> DEFINE g == Files[t.next]
  <2>1. g \in ToSet(Files) /\ data = directory[g]
        /\ path = <<g, IF g = Summary THEN t.record.summary ELSE t.record.manifest>>
    BY <1>2, <1>3 DEF Address
  <2> HIDE DEF g
  <2>2. t.record.manifest \in overtaken \/ directory[g] = t.record.manifest
    BY <1>1, <2>1 DEF AllFrom
  <2>3. \A f, x : path = <<f, x>> =>
          f = g /\ x = IF g = Summary THEN t.record.summary ELSE t.record.manifest
    BY <2>1
  <2> QED
    BY <1>1, <1>2, <2>1, <2>2, <2>3 DEF AtOwnAddress
<1>4. ASSUME NEW own \in {"snapshots", "publication"}, path = <<own, data>>
      PROVE  AtOwnAddress(path, data)
  <2>1. \A f, x : path = <<f, x>> => x = data
    BY <1>4
  <2> QED
    BY <2>1 DEF AtOwnAddress
<1> QED
  BY <1>3, <1>4, NextObjects

LEMMA OwnStep ==
  ASSUME Shape, History, BuildOrder, Undisturbed, Steady, OwnBytes, [Next]_vars
  PROVE  OwnBytes'
<1>1. /\ Summary' = Summary /\ overtaken \subseteq overtaken'
      /\ \A x \in Contents : Gone(x) => Gone(x)'
  <2>1. \A p \in Processes : WriteFile(p) => overtaken \subseteq overtaken'
    BY DEF WriteFile
  <2>2. \A p \in Processes : BeginBuild(p) => overtaken' = overtaken
    BY DEF BeginBuild
  <2> QED
    BY <2>1, <2>2, BuildSteps, BuildOrderStep, StorageStep, SameFiles DEF BuildsRest
<1>2. \/ UNCHANGED objects
      \/ \E path, data : /\ AtOwnAddress(path, data)
                         /\ \E reached \in SUBSET Replicas : Put(path, data, reached)
  <2>1. ASSUME NEW p \in Processes, PutObject(p)
        PROVE  \E path, data : /\ AtOwnAddress(path, data)
                               /\ \E reached \in SUBSET Replicas : Put(path, data, reached)
    <3> DEFINE t == tasks[p]  path == NextObject(t)[1]  data == NextObject(t)[2]
    <3>1. /\ t.op = "publish" /\ t.at = "put"
          /\ \E reached \in SUBSET Replicas : Put(path, data, reached)
      BY <2>1, Puts DEF Publications
    <3>2. NextObject(t) = <<path, data>>
      BY <3>1, NextObjects
    <3>3. AtOwnAddress(path, data)
      BY <3>1, <3>2, OwnObject
    <3> QED
      BY <3>1, <3>3
  <2>2. \A p \in Processes : Reading(p) => UNCHANGED objects
    BY Readings
  <2> QED
    BY <2>1, <2>2 DEF Next, Reading, vars, GovernanceStep, publishVars, BeginBuild, WriteFile,
                      BeginPublish, Stop
<1>3. ASSUME NEW r \in Replicas, NEW x
      PROVE  \/ HeldIn(objects', r, x) = HeldIn(objects, r, x)
             \/ \E data : AtOwnAddress(x, data) /\ HeldIn(objects', r, x) = {data}
  BY <1>2, PutIn
<1>4. ASSUME NEW r \in Replicas, NEW f \in ToSet(ReleaseFiles), NEW x \in Contents
      PROVE  x \in overtaken' \/ HeldIn(objects', r, <<f, x>>) \subseteq {x}
  BY <1>1, <1>3 DEF OwnBytes, OwnFiles, AtOwnAddress
<1>5. ASSUME NEW r \in Replicas, NEW x \in Contents
      PROVE  Gone(x)' \/ HeldIn(objects', r, <<Summary, x>>) \subseteq {x}
  BY <1>1, <1>3 DEF OwnBytes, OwnSummaries, AtOwnAddress
<1>6. ASSUME NEW r \in Replicas, NEW name \in {"snapshots", "publication"}, NEW x
      PROVE  HeldIn(objects', r, <<name, x>>) \subseteq {x}
  BY <1>3 DEF OwnBytes, OwnRecords, AtOwnAddress
<1> QED
  BY <1>1, <1>4, <1>5, <1>6 DEF OwnBytes, OwnFiles, OwnSummaries, OwnRecords

QuietInv == BuildOrder /\ Undisturbed /\ Steady /\ OwnBytes

LEMMA InitQuiet == Init => QuietInv
<1> SUFFICES ASSUME Init PROVE QuietInv
  OBVIOUS
<1>1. /\ directory = [f \in ToSet(Files) |-> 0] /\ built = 0 /\ published = {}
      /\ \A q \in Processes : tasks[q].op \notin {"build", "publish"}
      /\ \A r \in Replicas : objects[r] = {}
  BY DEF Init, Idle, ObjectsInit
<1>2. directory[Summary] = 0
  BY <1>1, FileNames DEF Init
<1>3. \A r \in Replicas : \A x : HeldIn(objects, r, x) = {}
  BY <1>1 DEF HeldIn
<1>4. OwnBytes
  BY <1>3 DEF OwnBytes, OwnFiles, OwnSummaries, OwnRecords
<1> QED
  BY <1>1, <1>2, <1>4 DEF QuietInv, BuildOrder, Building, Undisturbed, Steady, Late

LEMMA SpecKeepsQuiet == Spec => [](Shape /\ History /\ QuietInv)
<1>1. Shape /\ History /\ QuietInv /\ [Next]_vars => (Shape /\ History /\ QuietInv)'
  <2>1. ASSUME Shape, History, QuietInv, [Next]_vars PROVE QuietInv'
    BY <2>1, BuildOrderStep, UndisturbedStep, SteadyStep, OwnStep DEF QuietInv
  <2> QED
    BY <2>1, ShapeStep, HistoryStep
<1> QED
  BY <1>1, InitHistory, InitQuiet, PTL DEF Spec

LEMMA PureIsVerified ==
  ASSUME Shape, History, Stored, Undisturbed, NEW record \in published,
         record.manifest \notin overtaken
  PROVE  Verified(record)
<1> DEFINE m == record.manifest
<1>1. /\ record.summary = m /\ \A i \in 1..Len(record.refs) : record.refs[i] = m
      /\ m \in Releases /\ Chained(record) /\ SnapshotsVerify(record)
      /\ Len(record.refs) = Len(Files)
  BY DEF Undisturbed, Pure, History, Chained, Shape
<1>2. ObjectsVerify(record)
  BY StoredIsComplete
<1>3. ASSUME NEW f \in ToSet(Files) PROVE Reassembled(record)[f] = m
  <2>1. PICK i \in 1..Len(Files) : Files[i] = f
    BY FileNames DEF Shape, ToSet
  <2>2. Read(Address(record, Files[i])) = m
    BY <1>1, <1>2, FileNames DEF ObjectsVerify, Shape
  <2> QED
    BY <2>1, <2>2 DEF Reassembled
<1>4. "manifest.json" \in ToSet(Files) /\ Summary \in ToSet(Files) /\ m # 0
  BY <1>1, FileNames, PublicationConstants DEF Shape
<1>5. AllFrom(ToSet(Files), Reassembled(record))
  BY <1>3, <1>4 DEF AllFrom
<1>6. FilesVerify(Reassembled(record))
  BY <1>5, FilesOfOneRelease DEF Shape
<1>7. BindingsVerify(record)
  BY <1>1, <1>3, <1>4 DEF BindingsVerify, Chained
<1> QED
  BY <1>1, <1>2, <1>6, <1>7 DEF Verified

LEMMA QuietMeetsOwnBytes ==
  ASSUME Shape, QuietInv, NEW p \in Processes, Publishing(p), tasks[p].at = "put",
         tasks[p].record.manifest \notin overtaken, NEW r \in Replicas
  PROVE  ~Conflicts(r, NextObject(tasks[p])[1], NextObject(tasks[p])[2])
<1> DEFINE t == tasks[p]  m == t.record.manifest
<1>1. /\ AllFrom(ToSet(Files), directory) /\ directory["manifest.json"] = m
      /\ t.record.summary = m /\ t.op = "publish"
  BY DEF QuietInv, Undisturbed, QuietTask, Pure, Publishing
<1>2. m \in Contents
  BY <1>1, NextObjects DEF Records
<1>3. CASE /\ t.next \in 1..Len(Files)
           /\ NextObject(t) = <<Address(t.record, Files[t.next]), directory[Files[t.next]]>>
  <2>1. Files[t.next] \in ToSet(ReleaseFiles) \cup {Summary}
    BY <1>3, FileNames DEF Shape
  <2>2. NextObject(t) = <<<<Files[t.next], m>>, m>>
    BY <1>1, <1>3, <2>1, FileNames DEF Address, AllFrom, Shape
  <2>3. ~Gone(m)
    BY <1>1, FileNames DEF AllFrom, Gone, Shape
  <2>4. HeldIn(objects, r, <<Files[t.next], m>>) \subseteq {m}
    BY <1>2, <2>1, <2>3 DEF QuietInv, OwnBytes, OwnFiles, OwnSummaries
  <2> QED
    BY <2>2, <2>4 DEF Conflicts, HeldAt, HeldIn
<1>4. ASSUME NEW name \in {"snapshots", "publication"}, NEW x, NextObject(t) = <<<<name, x>>, x>>
      PROVE  ~Conflicts(r, NextObject(t)[1], NextObject(t)[2])
  <2>1. HeldIn(objects, r, <<name, x>>) \subseteq {x}
    BY DEF QuietInv, OwnBytes, OwnRecords
  <2> QED
    BY <1>4, <2>1 DEF Conflicts, HeldAt, HeldIn
<1> QED
  BY <1>1, <1>3, <1>4, NextObjects

\* When every replica must confirm, a publication whose files stay as they are
\* while it runs verifies once it is written, and meets no foreign bytes at its
\* addresses before: builds of other releases, calls that failed half way and
\* publications of other releases under the same names do not spoil it.
THEOREM UndisturbedPublicationsVerify ==
  AllMustConfirm => (Spec => []OnlyRebuildsSpoilPublications)
<1> SUFFICES ASSUME AllMustConfirm PROVE Spec => []OnlyRebuildsSpoilPublications
  OBVIOUS
<1>1. Shape /\ History /\ Stored /\ QuietInv => OnlyRebuildsSpoilPublications
  BY PureIsVerified, QuietMeetsOwnBytes DEF OnlyRebuildsSpoilPublications, QuietInv
<1>2. Spec => [](Shape /\ History /\ Stored)
  BY SpecKeepsStored
<1> QED
  BY <1>1, <1>2, SpecKeepsQuiet, PTL

=============================================================================
