---------------------------- MODULE CutoverProofs ----------------------------
(***************************************************************************)
(* Theorems about ApplicationCutover, for any elections, evidence,         *)
(* processes and ledgers.  A migration looks at the cutover row once, when *)
(* it gets the row's lock, and writes in a later step; CutoverInv says     *)
(* that what it saw still holds, because whoever changes a row has its     *)
(* lock, and that a migrated election has kept what it was migrated with.  *)
(* SourceInv says that what it collected under the barrier is still what   *)
(* SQLite holds, GateInv that a call that inserts has a cutover row.       *)
(* ViewInv says that references are resolved within an election, ChainInv  *)
(* that a row that waits for its insert still continues its chain, and     *)
(* SnapshotsFit that SQLite still holds all that a snapshot copied.        *)
(***************************************************************************)
EXTENDS ApplicationCutover, LedgerProofs, TLAPS

CutoverStream(e) == <<"cutover", e>>

Shape ==
  /\ DOMAIN tasks = Processes
  /\ DOMAIN cutovers = Elections
  /\ DOMAIN application = Elections
  /\ streams \in [Streams -> Processes \cup {NoProcess}]
  /\ barrier \in Processes \cup {NoProcess}
  /\ \E S : snapshots \in Seq(S)

IsRow(row) ==
  \/ row = NoCutover
  \/ row = [mode |-> "native"]
  \/ \E source : row = [mode |-> "migrated", source |-> source]

CutoverRows == \A e \in Elections : IsRow(cutovers[e])

\* Who changes a cutover row has its lock, and nobody has a lock outside a call.
Locked ==
  /\ \A p \in Processes : tasks[p] = Idle => \A s \in Streams : streams[s] # p
  /\ \A p \in Processes : tasks[p].op \in {"activate", "migrate", "sync"} =>
       tasks[p].election \in Elections
  /\ \A p \in Processes : tasks[p].op = "activate" =>
       streams[CutoverStream(tasks[p].election)] = p
  /\ \A p \in Processes : barrier = p <=> tasks[p].op \in {"migrate", "sync"}
  /\ \A p \in Processes : tasks[p].op = "sync" => Len(snapshots) < MaxSnapshots
  /\ Len(snapshots) <= MaxSnapshots

\* What a migration saw under the lock is still so.
StillMayMigrate ==
  \A p \in Processes :
     tasks[p].op = "migrate" /\ streams[CutoverStream(tasks[p].election)] = p =>
       MayMigrate(cutovers[tasks[p].election], tasks[p].source)

\* A migrated election keeps the records it was migrated with.
Kept ==
  \A e \in Elections :
     cutovers[e].mode = "migrated" => cutovers[e].source \subseteq application[e]

CutoverInv == Shape /\ CutoverRows /\ Locked /\ StillMayMigrate /\ Kept

LEMMA StreamsOfElections == \A e \in Elections : CutoverStream(e) \in Streams
  BY DEF CutoverStream, Streams

LEMMA InitCutover == Init => CutoverInv
<1> SUFFICES ASSUME Init PROVE CutoverInv
  OBVIOUS
<1> USE DEF Init, Idle, NoCutover
<1>1. Shape
  <2>1. snapshots \in Seq({})
    OBVIOUS
  <2> QED
    BY <2>1 DEF Shape
<1>2. CutoverRows
  BY DEF CutoverRows, IsRow
<1>3. Locked
  <2>1. Len(snapshots) = 0 /\ MaxSnapshots \in Nat
    BY CutoverConstants
  <2>2. NoProcess \notin Processes
    BY CutoverConstants
  <2> QED
    BY <2>1, <2>2 DEF Locked
<1>4. StillMayMigrate /\ Kept
  BY DEF StillMayMigrate, Kept
<1> QED
  BY <1>1, <1>2, <1>3, <1>4 DEF CutoverInv

----------------------------------------------------------------------------
(* What the end of a transaction leaves true. *)

LEMMA Ended ==
  ASSUME CutoverInv, NEW p \in Processes, EndTransaction(p),
         \A q \in Processes \ {p} : tasks[q].op = "sync" => snapshots' = snapshots,
         Len(snapshots') <= MaxSnapshots, \E S : snapshots' \in Seq(S),
         DOMAIN cutovers' = Elections, DOMAIN application' = Elections
  PROVE  Shape' /\ Locked'
<1> USE DEF EndTransaction, Become
<1>1. Shape'
  BY DEF CutoverInv, Shape
<1>2. tasks'[p] = Idle /\ \A q \in Processes \ {p} : tasks'[q] = tasks[q]
  BY DEF CutoverInv, Shape
<1>3. \A s \in Streams : streams'[s] = IF streams[s] = p THEN NoProcess ELSE streams[s]
  OBVIOUS
<1>4. Idle.op = "idle"
  BY DEF Idle
<1>5. NoProcess \notin Processes
  BY CutoverConstants
<1>6. \A q \in Processes : tasks'[q] = Idle => \A s \in Streams : streams'[s] # q
  BY <1>2, <1>3, <1>5 DEF CutoverInv, Locked
<1>7. \A q \in Processes : tasks'[q].op \in {"activate", "migrate", "sync"} =>
        tasks'[q].election \in Elections
  BY <1>2, <1>4 DEF CutoverInv, Locked
<1>8. \A q \in Processes : tasks'[q].op = "activate" =>
        streams'[CutoverStream(tasks'[q].election)] = q
  BY <1>2, <1>3, <1>4, StreamsOfElections DEF CutoverInv, Locked
<1>9. \A q \in Processes : barrier' = q <=> tasks'[q].op \in {"migrate", "sync"}
  BY <1>2, <1>4, <1>5 DEF CutoverInv, Locked
<1>10. \A q \in Processes : tasks'[q].op = "sync" => Len(snapshots') < MaxSnapshots
  BY <1>2, <1>4 DEF CutoverInv, Locked
<1> QED
  BY <1>1, <1>6, <1>7, <1>8, <1>9, <1>10 DEF Locked

\* The other processes' views of the cutover rows: a row changes only if the
\* process that ends has its lock, and the lock then goes free.
LEMMA StillAfterEnd ==
  ASSUME CutoverInv, NEW p \in Processes, EndTransaction(p),
         \A e \in Elections : cutovers'[e] = cutovers[e] \/ streams[CutoverStream(e)] = p
  PROVE  StillMayMigrate'
<1> USE DEF EndTransaction, Become
<1>1. tasks'[p] = Idle /\ \A q \in Processes \ {p} : tasks'[q] = tasks[q]
  BY DEF CutoverInv, Shape
<1>2. \A s \in Streams : streams'[s] = IF streams[s] = p THEN NoProcess ELSE streams[s]
  OBVIOUS
<1>3. SUFFICES ASSUME NEW q \in Processes, tasks'[q].op = "migrate",
                      streams'[CutoverStream(tasks'[q].election)] = q
               PROVE  MayMigrate(cutovers'[tasks'[q].election], tasks'[q].source)
  BY DEF StillMayMigrate, MayMigrate
<1>4. q # p
  BY <1>1, <1>3 DEF Idle
<1>5. tasks'[q] = tasks[q] /\ tasks[q].election \in Elections
  BY <1>1, <1>3, <1>4 DEF CutoverInv, Locked
<1>6. streams[CutoverStream(tasks[q].election)] = q
  BY <1>2, <1>3, <1>4, <1>5, StreamsOfElections, CutoverConstants
<1>7. cutovers'[tasks[q].election] = cutovers[tasks[q].election]
  BY <1>4, <1>5, <1>6
<1> QED
  BY <1>3, <1>5, <1>6, <1>7 DEF CutoverInv, StillMayMigrate

LEMMA RowModes ==
  ASSUME CutoverInv, NEW e \in Elections
  PROVE  /\ cutovers[e].mode \in {"none", "native", "migrated"}
         /\ Enabled(e) => cutovers[e].mode # "none"
<1>1. CASE cutovers[e] = NoCutover
  BY <1>1 DEF NoCutover, Enabled
<1>2. CASE cutovers[e] = [mode |-> "native"]
  BY <1>2
<1>3. ASSUME NEW source, cutovers[e] = [mode |-> "migrated", source |-> source]
      PROVE  cutovers[e].mode = "migrated"
  BY <1>3
<1> QED
  BY <1>1, <1>2, <1>3 DEF CutoverInv, CutoverRows, IsRow

LEMMA KeptByCopies ==
  ASSUME CutoverInv, cutovers' = cutovers,
         \A e \in Elections : application[e] \subseteq application'[e]
  PROVE  Kept' /\ CutoverRows'
  BY DEF CutoverInv, Kept, CutoverRows

\* A call begins: it may take one lock that was free.
LEMMA Begun ==
  ASSUME CutoverInv, NEW p \in Processes, tasks[p] = Idle, NEW task, Become(p, task),
         task # Idle, task.op \notin {"migrate", "sync"}, 
         task.op = "activate" => task.election \in Elections /\ streams'[CutoverStream(task.election)] = p,
         NEW s, LockStream(p, s),
         UNCHANGED <<barrier, application, cutovers, snapshots>>
  PROVE  CutoverInv'
<1> USE DEF Become, LockStream
<1>1. tasks'[p] = task /\ \A q \in Processes \ {p} : tasks'[q] = tasks[q]
  BY DEF CutoverInv, Shape
<1>2. \A r \in Streams : streams'[r] = IF r = s THEN p ELSE streams[r]
  BY DEF CutoverInv, Shape
<1>3. Shape'
  BY DEF CutoverInv, Shape
<1>4. NoProcess \notin Processes
  BY CutoverConstants
<1>5. \A q \in Processes : tasks'[q] = Idle => \A r \in Streams : streams'[r] # q
  BY <1>1, <1>2 DEF CutoverInv, Locked
<1>6. \A q \in Processes : tasks'[q].op \in {"activate", "migrate", "sync"} =>
        tasks'[q].election \in Elections
  BY <1>1 DEF CutoverInv, Locked
<1>7. \A q \in Processes : tasks'[q].op = "activate" =>
        streams'[CutoverStream(tasks'[q].election)] = q
  BY <1>1, <1>2, <1>4, StreamsOfElections DEF CutoverInv, Locked
<1>8. \A q \in Processes : barrier' = q <=> tasks'[q].op \in {"migrate", "sync"}
  BY <1>1 DEF CutoverInv, Locked, Idle
<1>9. (\A q \in Processes : tasks'[q].op = "sync" => Len(snapshots') < MaxSnapshots)
      /\ Len(snapshots') <= MaxSnapshots
  BY <1>1 DEF CutoverInv, Locked
<1>10. StillMayMigrate'
  <2> SUFFICES ASSUME NEW q \in Processes, tasks'[q].op = "migrate",
                      streams'[CutoverStream(tasks'[q].election)] = q
               PROVE  MayMigrate(cutovers'[tasks'[q].election], tasks'[q].source)
    BY DEF StillMayMigrate, MayMigrate
  <2>1. q # p /\ tasks'[q] = tasks[q] /\ tasks[q].election \in Elections
    BY <1>1 DEF CutoverInv, Locked
  <2>2. streams[CutoverStream(tasks[q].election)] = q
    BY <2>1, <1>2, <1>4, StreamsOfElections
  <2> QED
    BY <2>1, <2>2 DEF CutoverInv, StillMayMigrate
<1>11. Kept' /\ CutoverRows'
  BY KeptByCopies
<1> QED
  BY <1>3, <1>5, <1>6, <1>7, <1>8, <1>9, <1>10, <1>11 DEF CutoverInv, Locked

\* A call that copies begins: it takes the barrier and no lock.
LEMMA BegunCopying ==
  ASSUME CutoverInv, NEW p \in Processes, tasks[p] = Idle, NEW task, Become(p, task), Hold(p),
         task.op \in {"migrate", "sync"}, task.election \in Elections,
         task.op = "sync" => Len(snapshots) < MaxSnapshots,
         UNCHANGED <<streams, application, cutovers, snapshots>>
  PROVE  CutoverInv'
<1> USE DEF Become, Hold
<1>1. tasks'[p] = task /\ \A q \in Processes \ {p} : tasks'[q] = tasks[q]
  BY DEF CutoverInv, Shape
<1>2. Shape'
  BY DEF CutoverInv, Shape
<1>3. NoProcess \notin Processes
  BY CutoverConstants
<1>4. task # Idle
  BY DEF Idle
<1>5. \A q \in Processes : tasks'[q] = Idle => \A r \in Streams : streams'[r] # q
  BY <1>1, <1>4 DEF CutoverInv, Locked
<1>6. \A q \in Processes : tasks'[q].op \in {"activate", "migrate", "sync"} =>
        tasks'[q].election \in Elections
  BY <1>1 DEF CutoverInv, Locked
<1>7. \A q \in Processes : tasks'[q].op = "activate" =>
        streams'[CutoverStream(tasks'[q].election)] = q
  BY <1>1 DEF CutoverInv, Locked
<1>8. \A q \in Processes : barrier' = q <=> tasks'[q].op \in {"migrate", "sync"}
  BY <1>1, <1>3 DEF CutoverInv, Locked
<1>9. (\A q \in Processes : tasks'[q].op = "sync" => Len(snapshots') < MaxSnapshots)
      /\ Len(snapshots') <= MaxSnapshots
  BY <1>1 DEF CutoverInv, Locked
<1>10. StillMayMigrate'
  <2> SUFFICES ASSUME NEW q \in Processes, tasks'[q].op = "migrate",
                      streams'[CutoverStream(tasks'[q].election)] = q
               PROVE  MayMigrate(cutovers'[tasks'[q].election], tasks'[q].source)
    BY DEF StillMayMigrate, MayMigrate
  <2>1. CASE q = p
    BY <2>1, <1>1, StreamsOfElections DEF CutoverInv, Locked
  <2>2. CASE q # p
    BY <2>2, <1>1 DEF CutoverInv, StillMayMigrate
  <2> QED
    BY <2>1, <2>2
<1>11. Kept' /\ CutoverRows'
  BY KeptByCopies
<1> QED
  BY <1>2, <1>5, <1>6, <1>7, <1>8, <1>9, <1>10, <1>11 DEF CutoverInv, Locked

----------------------------------------------------------------------------
(* Every step. *)

LEMMA RollbackKeeps ==
  ASSUME CutoverInv, NEW p \in Processes, Rollback(p)
  PROVE  CutoverInv'
<1>1. EndTransaction(p) /\ UNCHANGED <<application, cutovers, snapshots>>
  BY DEF Rollback
<1>2. Shape' /\ Locked'
  BY <1>1, Ended DEF CutoverInv, Shape, Locked
<1>3. StillMayMigrate'
  BY <1>1, StillAfterEnd
<1> QED
  BY <1>1, <1>2, <1>3, KeptByCopies DEF CutoverInv

LEMMA CommitWriteKeeps ==
  ASSUME CutoverInv, NEW p \in Processes, CommitWrite(p)
  PROVE  CutoverInv'
<1>1. EndTransaction(p) /\ UNCHANGED <<cutovers, snapshots>>
  BY DEF CommitWrite
<1>2. DOMAIN application' = Elections /\ \A e \in Elections : application[e] \subseteq application'[e]
  BY DEF CommitWrite, CutoverInv, Shape
<1>3. Shape' /\ Locked'
  BY <1>1, <1>2, Ended DEF CutoverInv, Shape, Locked
<1>4. StillMayMigrate'
  BY <1>1, StillAfterEnd
<1> QED
  BY <1>1, <1>2, <1>3, <1>4, KeptByCopies DEF CutoverInv

LEMMA ActivateKeeps ==
  ASSUME CutoverInv, NEW p \in Processes, ActivateNative(p)
  PROVE  /\ CutoverInv'
         /\ \A e \in Elections : Enabled(e) => cutovers'[e] = cutovers[e]
<1> DEFINE e == tasks[p].election
<1>1. EndTransaction(p) /\ UNCHANGED <<application, snapshots>>
  BY DEF ActivateNative
<1>2. e \in Elections /\ streams[CutoverStream(e)] = p
  BY DEF ActivateNative, CutoverInv, Locked
<1>3. DOMAIN cutovers' = Elections /\ cutovers'[e] = [mode |-> "native"]
      /\ \A f \in Elections \ {e} : cutovers'[f] = cutovers[f]
  BY <1>2 DEF ActivateNative, CutoverInv, Shape
<1>4. Shape' /\ Locked'
  BY <1>1, <1>3, Ended DEF CutoverInv, Shape, Locked
<1>5. StillMayMigrate'
  BY <1>1, <1>2, <1>3, StillAfterEnd
<1>6. CutoverRows'
  <2>1. IsRow(cutovers'[e])
    BY <1>3 DEF IsRow
  <2> QED
    BY <2>1, <1>3 DEF CutoverInv, CutoverRows
<1>7. Kept'
  <2> SUFFICES ASSUME NEW f \in Elections, cutovers'[f].mode = "migrated"
               PROVE  cutovers'[f].source \subseteq application'[f]
    BY DEF Kept
  <2>1. f # e
    BY <1>3
  <2> QED
    BY <2>1, <1>1, <1>3 DEF CutoverInv, Kept
<1>8. Enabled(e) => cutovers'[e] = cutovers[e]
  <2> SUFFICES ASSUME Enabled(e) PROVE cutovers[e] = [mode |-> "native"]
    BY <1>3
  <2> DEFINE row == cutovers[e]
  <2>1. row.mode # "migrated" /\ IsRow(row) /\ row # NoCutover
    BY <1>2 DEF ActivateNative, CutoverInv, CutoverRows, Enabled
  <2> HIDE DEF row
  <2>2. ~\E source : row = [mode |-> "migrated", source |-> source]
    BY <2>1
  <2>3. row = [mode |-> "native"]
    BY <2>1, <2>2 DEF IsRow
  <2> QED
    BY <2>3 DEF row
<1> QED
  BY <1>3, <1>4, <1>5, <1>6, <1>7, <1>8 DEF CutoverInv

\* A migration that commits over a migrated election copies what is there.
LEMMA CommitMigrationKeeps ==
  ASSUME CutoverInv, NEW p \in Processes, CommitMigration(p)
  PROVE  /\ CutoverInv'
         /\ \A e \in Elections : Enabled(e) =>
              cutovers'[e] = cutovers[e] /\ application'[e] = application[e]
<1> DEFINE e == tasks[p].election
           source == tasks[p].source
<1>1. EndTransaction(p) /\ UNCHANGED snapshots
  BY DEF CommitMigration
<1>2. e \in Elections /\ streams[CutoverStream(e)] = p /\ MayMigrate(cutovers[e], source)
  BY DEF CommitMigration, CutoverInv, Locked, StillMayMigrate, CutoverStream
<1>3. /\ DOMAIN application' = Elections
      /\ application'[e] = source /\ application[e] \subseteq source
      /\ \A f \in Elections \ {e} : application'[f] = application[f]
  BY <1>2 DEF CommitMigration, CutoverInv, Shape
<1>4. /\ DOMAIN cutovers' = Elections
      /\ \A f \in Elections \ {e} : cutovers'[f] = cutovers[f]
      /\ \/ cutovers'[e] = cutovers[e]
         \/ ~Enabled(e) /\ cutovers'[e] = [mode |-> "migrated", source |-> source]
  BY <1>2 DEF CommitMigration, CutoverInv, Shape
<1>5. Shape' /\ Locked'
  BY <1>1, <1>3, <1>4, Ended DEF CutoverInv, Shape, Locked
<1>6. StillMayMigrate'
  BY <1>1, <1>2, <1>4, StillAfterEnd
<1>7. CutoverRows'
  <2>1. cutovers'[e] = cutovers[e] \/ IsRow(cutovers'[e])
    BY <1>4 DEF IsRow
  <2> QED
    BY <2>1, <1>2, <1>4 DEF CutoverInv, CutoverRows
<1>8. Kept'
  BY <1>2, <1>3, <1>4 DEF CutoverInv, Kept
<1>9. Enabled(e) => application'[e] = application[e]
  <2> SUFFICES ASSUME Enabled(e) PROVE application'[e] = application[e]
    OBVIOUS
  <2>1. cutovers[e].mode = "migrated" /\ cutovers[e].source = source
    BY <1>2, RowModes DEF MayMigrate
  <2>2. source \subseteq application[e]
    BY <1>2, <2>1 DEF CutoverInv, Kept
  <2> QED
    BY <1>3, <2>2
<1> QED
  BY <1>2, <1>3, <1>4, <1>5, <1>6, <1>7, <1>8, <1>9 DEF CutoverInv

LEMMA LockMigrationKeeps ==
  ASSUME CutoverInv, NEW p \in Processes, LockMigration(p)
  PROVE  CutoverInv'
<1> DEFINE s == CutoverStream(tasks[p].election)
<1>1. UNCHANGED <<barrier, application, cutovers, tasks, snapshots>> /\ LockStream(p, s)
      /\ tasks[p].op = "migrate" /\ MayMigrate(cutovers[tasks[p].election], tasks[p].source)
  BY DEF LockMigration, CutoverStream
<1>2. \A r \in Streams : streams'[r] = IF r = s THEN p ELSE streams[r]
  BY <1>1 DEF LockStream, CutoverInv, Shape
<1>3. Shape'
  BY <1>1 DEF LockStream, CutoverInv, Shape
<1>4. streams[s] = NoProcess /\ NoProcess \notin Processes
  BY <1>1, CutoverConstants DEF LockStream
<1>5. \A q \in Processes : tasks'[q] = Idle => \A r \in Streams : streams'[r] # q
  BY <1>1, <1>2 DEF CutoverInv, Locked, Idle
<1>6. \A q \in Processes : tasks'[q].op = "activate" =>
        streams'[CutoverStream(tasks'[q].election)] = q
  BY <1>1, <1>2, <1>4, StreamsOfElections DEF CutoverInv, Locked
<1>7. Locked'
  BY <1>1, <1>5, <1>6 DEF CutoverInv, Locked
<1>8. StillMayMigrate'
  <2> SUFFICES ASSUME NEW q \in Processes, tasks[q].op = "migrate",
                      streams'[CutoverStream(tasks[q].election)] = q
               PROVE  MayMigrate(cutovers[tasks[q].election], tasks[q].source)
    BY <1>1 DEF StillMayMigrate, MayMigrate
  <2>1. CASE q = p
    BY <2>1, <1>1
  <2>2. CASE q # p
    <3>1. tasks[q].election \in Elections
      BY DEF CutoverInv, Locked
    <3>2. streams[CutoverStream(tasks[q].election)] = q
      BY <2>2, <3>1, <1>2, StreamsOfElections
    <3> QED
      BY <3>2 DEF CutoverInv, StillMayMigrate
  <2> QED
    BY <2>1, <2>2
<1>9. Kept' /\ CutoverRows'
  BY <1>1, KeptByCopies
<1> QED
  BY <1>3, <1>7, <1>8, <1>9 DEF CutoverInv

LEMMA WriteSnapshotKeeps ==
  ASSUME CutoverInv, NEW p \in Processes, WriteSnapshot(p)
  PROVE  CutoverInv'
<1>1. EndTransaction(p) /\ UNCHANGED <<application, cutovers>>
  BY DEF WriteSnapshot
<1>2. PICK snapshot : snapshots' = snapshots \/ snapshots' = Append(snapshots, snapshot)
  BY DEF WriteSnapshot
<1>3. PICK S : snapshots \in Seq(S)
  BY DEF CutoverInv, Shape
<1>4. snapshots' \in Seq(S \cup {snapshot}) /\ Len(snapshots') <= Len(snapshots) + 1
  BY <1>2, <1>3
<1>5. tasks[p].op = "sync"
  BY DEF WriteSnapshot
<1>6. Len(snapshots') <= MaxSnapshots
  BY <1>3, <1>4, <1>5, CutoverConstants DEF CutoverInv, Locked
<1>7. \A q \in Processes \ {p} : tasks[q].op # "sync"
  BY <1>5 DEF CutoverInv, Locked
<1>8. Shape' /\ Locked'
  BY <1>1, <1>4, <1>6, <1>7, Ended DEF CutoverInv, Shape
<1>9. StillMayMigrate'
  BY <1>1, StillAfterEnd
<1> QED
  BY <1>1, <1>8, <1>9, KeptByCopies DEF CutoverInv

\* Steps that change neither the calls nor the locks.
LEMMA OthersKeep ==
  ASSUME CutoverInv, UNCHANGED <<barrier, cutovers, streams, tasks, snapshots>>,
         DOMAIN application' = Elections,
         \A e \in Elections : application[e] \subseteq application'[e]
  PROVE  CutoverInv'
<1>1. Shape' /\ Locked' /\ StillMayMigrate'
  BY DEF CutoverInv, Shape, Locked, StillMayMigrate, MayMigrate
<1> QED
  BY <1>1, KeptByCopies DEF CutoverInv

----------------------------------------------------------------------------
(* The theorems. *)

LEMMA StepCutover == CutoverInv /\ [Next]_vars => CutoverInv'
<1> SUFFICES ASSUME CutoverInv, [Next]_vars PROVE CutoverInv'
  OBVIOUS
<1>1. CASE UNCHANGED vars
  BY <1>1, OthersKeep DEF vars, CutoverInv, Shape
<1>2. CASE LegacyWrite
  BY <1>2, OthersKeep DEF LegacyWrite, CutoverInv, Shape
<1>3. CASE Attest
  <2>1. UNCHANGED <<barrier, cutovers, streams, tasks, snapshots>>
    BY <1>3 DEF Attest
  <2>2. PICK e, record : application' = [application EXCEPT ![e] = @ \cup {record}]
    BY <1>3 DEF Attest
  <2>3. DOMAIN application' = Elections /\ \A f \in Elections : application[f] \subseteq application'[f]
    BY <2>2 DEF CutoverInv, Shape
  <2> QED
    BY <2>1, <2>3, OthersKeep
<1>4. ASSUME NEW p \in Processes, LockWrite(p)
      PROVE  CutoverInv'
  <2>1. PICK call, row :
          /\ LockStream(p, call.stream)
          /\ Become(p, [op |-> "insert", election |-> row[1], record |-> row[2]])
    BY <1>4 DEF LockWrite
  <2>2. tasks[p] = Idle /\ UNCHANGED <<barrier, application, cutovers, snapshots>>
    BY <1>4 DEF LockWrite
  <2> DEFINE task == [op |-> "insert", election |-> row[1], record |-> row[2]]
  <2>3. task.op = "insert" /\ task # Idle
    BY DEF Idle
  <2> HIDE DEF task
  <2> QED
    BY <2>1, <2>2, <2>3, Begun DEF task
<1>5. ASSUME NEW p \in Processes, NEW e \in Elections, BeginNative(p, e)
      PROVE  CutoverInv'
  <2> DEFINE task == [op |-> "activate", election |-> e]
  <2>1. /\ LockStream(p, CutoverStream(e)) /\ Become(p, task)
        /\ tasks[p] = Idle /\ UNCHANGED <<barrier, application, cutovers, snapshots>>
    BY <1>5 DEF BeginNative, CutoverStream
  <2>2. streams'[CutoverStream(e)] = p
    BY <2>1, StreamsOfElections DEF LockStream, CutoverInv, Shape
  <2>3. task.op = "activate" /\ task.election = e /\ task # Idle
    BY DEF Idle
  <2> HIDE DEF task
  <2> QED
    BY <2>1, <2>2, <2>3, Begun
<1>6. ASSUME NEW p \in Processes, NEW e \in Elections, BeginSync(p, e)
      PROVE  CutoverInv'
  <2> DEFINE task == [op |-> "sync", election |-> e, records |-> Records(ledger, e)]
  <2>1. /\ Hold(p) /\ Become(p, task) /\ tasks[p] = Idle /\ Len(snapshots) < MaxSnapshots
        /\ UNCHANGED <<streams, application, cutovers, snapshots>>
    BY <1>6 DEF BeginSync
  <2>2. task.op = "sync" /\ task.election = e
    OBVIOUS
  <2> HIDE DEF task
  <2> QED
    BY <2>1, <2>2, BegunCopying
<1>7. ASSUME NEW p \in Processes, NEW e \in Elections, NEW activate, BeginMigration(p, e, activate)
      PROVE  CutoverInv'
  <2> DEFINE task == [op |-> "migrate", election |-> e, activate |-> activate,
                      source |-> Records(ledger, e)]
  <2>1. /\ Hold(p) /\ Become(p, task) /\ tasks[p] = Idle
        /\ UNCHANGED <<streams, application, cutovers, snapshots>>
    BY <1>7 DEF BeginMigration
  <2>2. task.op = "migrate" /\ task.election = e
    OBVIOUS
  <2> HIDE DEF task
  <2> QED
    BY <2>1, <2>2, BegunCopying
<1>8. ASSUME NEW p \in Processes,
             CommitWrite(p) \/ ActivateNative(p) \/ LockMigration(p) \/ CommitMigration(p)
             \/ WriteSnapshot(p) \/ Rollback(p)
      PROVE  CutoverInv'
  BY <1>8, CommitWriteKeeps, ActivateKeeps, LockMigrationKeeps, CommitMigrationKeeps,
     WriteSnapshotKeeps, RollbackKeeps
<1> QED
  BY <1>1, <1>2, <1>3, <1>4, <1>5, <1>6, <1>7, <1>8 DEF Next

LEMMA AlwaysCutoverInv == Spec => []CutoverInv
  BY InitCutover, StepCutover, PTL DEF Spec

\* Every cutover row has one of three modes, a stream lock is held by a process
\* that is in a call and the write barrier by the one process that is copying.
THEOREM CutoverTypeCorrect == Spec => []TypeOK
<1>1. CutoverInv => TypeOK
  <2> SUFFICES ASSUME CutoverInv PROVE TypeOK
    OBVIOUS
  <2>1. \A e \in Elections : cutovers[e].mode \in {"none", "native", "migrated"}
    BY RowModes
  <2>2. \A s \in Streams : streams[s] # NoProcess => tasks[streams[s]] # Idle
    BY DEF CutoverInv, Shape, Locked
  <2> QED
    BY <2>1, <2>2 DEF CutoverInv, Locked, TypeOK
<1> QED
  BY <1>1, AlwaysCutoverInv, PTL

\* One step leaves the cutover of an election alone.
Final(e) ==
  Enabled(e) =>
    /\ cutovers'[e] = cutovers[e]
    /\ \A p \in Processes :
         tasks[p].op = "migrate" /\ tasks[p].election = e /\ tasks'[p] = Idle =>
            application'[e] = application[e]

LEMMA BegunIsFinal ==
  ASSUME CutoverInv, cutovers' = cutovers, NEW p \in Processes, NEW task, Become(p, task),
         tasks[p].op # "migrate", NEW e \in Elections
  PROVE  Final(e)
<1>1. \A q \in Processes \ {p} : tasks'[q] = tasks[q]
  BY DEF Become, CutoverInv, Shape
<1> QED
  BY <1>1 DEF Final, Idle

\* Once PostgreSQL has taken an election over, by an activation or a migration,
\* activate_native and migrate leave its row as it is, whatever the order in
\* which they took their locks, and no migration that ends brings rows into it.
THEOREM CutoversAreFinal == Spec => CutoverIsFinal
<1>1. ASSUME CutoverInv, [Next]_vars, NEW e \in Elections
      PROVE  Final(e)
  <2>1. CASE UNCHANGED vars
    BY <2>1 DEF vars, Final
  <2>2. CASE LegacyWrite \/ Attest
    <3>1. UNCHANGED <<cutovers, tasks>>
      BY <2>2 DEF LegacyWrite, Attest
    <3> QED
      BY <3>1 DEF Final, Idle
  <2>3. ASSUME NEW p \in Processes, LockWrite(p) PROVE Final(e)
    BY <2>3, <1>1, BegunIsFinal DEF LockWrite, Idle
  <2>4. ASSUME NEW p \in Processes, CommitWrite(p) PROVE Final(e)
    BY <2>4, <1>1, BegunIsFinal DEF CommitWrite, EndTransaction
  <2>5. ASSUME NEW p \in Processes, NEW f \in Elections, NEW activate,
               BeginNative(p, f) \/ BeginSync(p, f) \/ BeginMigration(p, f, activate)
        PROVE  Final(e)
    BY <2>5, <1>1, BegunIsFinal DEF BeginNative, BeginSync, BeginMigration, Idle
  <2>6. ASSUME NEW p \in Processes, ActivateNative(p) PROVE Final(e)
    BY <2>6, <1>1, ActivateKeeps DEF Final, ActivateNative
  <2>7. ASSUME NEW p \in Processes, LockMigration(p) PROVE Final(e)
    BY <2>7 DEF LockMigration, Final, Idle
  <2>8. ASSUME NEW p \in Processes, CommitMigration(p) PROVE Final(e)
    BY <2>8, <1>1, CommitMigrationKeeps DEF Final
  <2>9. ASSUME NEW p \in Processes, WriteSnapshot(p) PROVE Final(e)
    BY <2>9, <1>1, BegunIsFinal DEF WriteSnapshot, EndTransaction
  <2>10. ASSUME NEW p \in Processes, Rollback(p) PROVE Final(e)
    BY <2>10 DEF Rollback, Final
  <2> QED
    BY <1>1, <2>1, <2>2, <2>3, <2>4, <2>5, <2>6, <2>7, <2>8, <2>9, <2>10 DEF Next
<1>2. CutoverInv /\ [Next]_vars =>
        [\A e \in Elections : Enabled(e) =>
           /\ cutovers'[e] = cutovers[e]
           /\ \A p \in Processes :
                tasks[p].op = "migrate" /\ tasks[p].election = e /\ tasks'[p] = Idle =>
                   application'[e] = application[e]]_vars
  BY <1>1 DEF Final
<1> QED
  BY <1>2, AlwaysCutoverInv, PTL DEF Spec, CutoverIsFinal

----------------------------------------------------------------------------
(* The SQLite side only grows; under the barrier it stands still. *)

\* The operators of AtomicLedger are those of LedgerRecords.
LEMMA SameRow ==
  \A c, t, e, d : Legacy!NextRow(c, t, e, d) = NextRow(c, t, e, d)
  BY DEF Legacy!NextRow, NextRow, Legacy!LinkHash, LinkHash,
     Legacy!HashRecord, HashRecord, Legacy!NoHash, NoHash, Legacy!Last, Last

LEMMA SameSnapshot == \A l, e, d : Legacy!WithSnapshot(l, e, d) = WithSnapshot(l, e, d)
  BY SameRow DEF Legacy!WithSnapshot, WithSnapshot

LEMMA SameVersion == \A l, ev, e, a : Legacy!WithVersion(l, ev, e, a) = WithVersion(l, ev, e, a)
  BY SameRow DEF Legacy!WithVersion, WithVersion

LEMMA SameOthers ==
  /\ \A l, a : Legacy!WithAttestation(l, a) = WithAttestation(l, a)
  /\ \A l, x : Legacy!WithExtraction(l, x) = WithExtraction(l, x)
  /\ \A l, x : Legacy!WithReview(l, x) = WithReview(l, x)
  BY DEF Legacy!ToSet, ToSet, Legacy!WithAttestation, WithAttestation, Legacy!WithExtraction, WithExtraction,
     Legacy!WithReview, WithReview

LEMMA LegacyWriteGrows ==
  ASSUME LedgerOK(ledger), LegacyWrite
  PROVE  /\ LedgerOK(ledger') /\ Grows(ledger, ledger')
         /\ \A e \in Elections : Records(ledger, e) \subseteq Records(ledger', e)
<1>1. ASSUME NEW e, NEW d, Legacy!AppendSnapshot(e, d)
      PROVE  LedgerOK(ledger') /\ Grows(ledger, ledger')
  BY <1>1, SnapshotGrows, SameSnapshot DEF Legacy!AppendSnapshot
<1>2. ASSUME NEW ev, NEW e, NEW a, Legacy!AppendVersion(ev, e, a)
      PROVE  LedgerOK(ledger') /\ Grows(ledger, ledger')
  BY <1>2, VersionGrows, SameVersion DEF Legacy!AppendVersion
<1>3. ASSUME NEW ev, NEW v, NEW actor, Legacy!Attest(ev, v, actor)
      PROVE  LedgerOK(ledger') /\ Grows(ledger, ledger')
  BY <1>3, OthersGrow, SameOthers DEF Legacy!Attest
<1>4. ASSUME NEW id, NEW ev, NEW v, NEW s, Legacy!AddExtraction(id, ev, v, s)
      PROVE  LedgerOK(ledger') /\ Grows(ledger, ledger')
  BY <1>4, OthersGrow, SameOthers DEF Legacy!AddExtraction
<1>5. ASSUME NEW id, NEW x, Legacy!AddReview(id, x)
      PROVE  LedgerOK(ledger') /\ Grows(ledger, ledger')
  BY <1>5, OthersGrow, SameOthers DEF Legacy!AddReview
<1>6. LedgerOK(ledger') /\ Grows(ledger, ledger')
  BY <1>1, <1>2, <1>3, <1>4, <1>5 DEF LegacyWrite
<1> QED
  BY <1>6, RecordsGrow

\* What a migration has collected is what SQLite still holds.
SourceIsCurrent ==
  \A p \in Processes : tasks[p].op = "migrate" =>
    tasks[p].source = Records(ledger, tasks[p].election)

SourceInv == LedgerOK(ledger) /\ SourceIsCurrent

LEMMA InitSource == Init => SourceInv
<1> SUFFICES ASSUME Init PROVE SourceInv
  OBVIOUS
<1>1. IsSeq(<<>>)
  <2>1. <<>> \in Seq({})
    OBVIOUS
  <2> QED
    BY <2>1 DEF IsSeq
<1>2. ledger = [registry |-> [e \in Elections |-> <<>>],
                versions |-> [ev \in EvidenceIds |-> <<>>],
                attestations |-> <<>>, extractions |-> {}, reviews |-> {}]
  BY DEF Init, EmptyLedger
<1>3. LedgerOK(ledger)
  <2>1. \E r, v, a, x, q : ledger = [registry |-> r, versions |-> v, attestations |-> a,
                                    extractions |-> x, reviews |-> q]
    BY <1>2
  <2>2. /\ ledger.registry = [e \in Elections |-> <<>>]
        /\ ledger.versions = [ev \in EvidenceIds |-> <<>>]
        /\ ledger.attestations = <<>>
    BY <1>2
  <2> QED
    BY <1>1, <2>1, <2>2 DEF LedgerOK
<1>4. SourceIsCurrent
  BY DEF SourceIsCurrent, Init, Idle
<1> QED
  BY <1>3, <1>4 DEF SourceInv

LEMMA SourceByCall ==
  ASSUME CutoverInv, SourceInv, ledger' = ledger, NEW p \in Processes, NEW task, Become(p, task),
         task.op = "migrate" => task.source = Records(ledger, task.election)
  PROVE  SourceInv'
<1>1. tasks'[p] = task /\ \A q \in Processes \ {p} : tasks'[q] = tasks[q]
  BY DEF Become, CutoverInv, Shape
<1>2. SourceIsCurrent'
  BY <1>1 DEF SourceInv, SourceIsCurrent
<1> QED
  BY <1>2 DEF SourceInv

LEMMA StepSource == CutoverInv /\ SourceInv /\ [Next]_vars => SourceInv'
<1> SUFFICES ASSUME CutoverInv, SourceInv, [Next]_vars PROVE SourceInv'
  OBVIOUS
<1>1. CASE UNCHANGED <<ledger, tasks>>
  BY <1>1 DEF SourceInv, SourceIsCurrent
<1>2. CASE LegacyWrite
  <2>1. barrier = NoProcess /\ tasks' = tasks
    BY <1>2 DEF LegacyWrite
  <2>2. \A p \in Processes : tasks[p].op # "migrate"
    BY <2>1, CutoverConstants DEF CutoverInv, Locked
  <2>3. LedgerOK(ledger')
    BY <1>2, LegacyWriteGrows DEF SourceInv
  <2> QED
    BY <2>1, <2>2, <2>3 DEF SourceInv, SourceIsCurrent
<1>3. ASSUME NEW p \in Processes, LockWrite(p)
      PROVE  SourceInv'
  <2>1. PICK e, record : Become(p, [op |-> "insert", election |-> e, record |-> record])
    BY <1>3 DEF LockWrite
  <2> DEFINE task == [op |-> "insert", election |-> e, record |-> record]
  <2>2. task.op # "migrate"
    OBVIOUS
  <2>3. ledger' = ledger
    BY <1>3 DEF LockWrite
  <2> HIDE DEF task
  <2> QED
    BY <2>1, <2>2, <2>3, SourceByCall DEF task
<1>4. ASSUME NEW p \in Processes, NEW e \in Elections, BeginNative(p, e) \/ BeginSync(p, e)
      PROVE  SourceInv'
  BY <1>4, SourceByCall DEF BeginNative, BeginSync
<1>5. ASSUME NEW p \in Processes, NEW e \in Elections, NEW activate, BeginMigration(p, e, activate)
      PROVE  SourceInv'
  BY <1>5, SourceByCall DEF BeginMigration
<1>6. ASSUME NEW p \in Processes, EndTransaction(p), ledger' = ledger
      PROVE  SourceInv'
  BY <1>6, SourceByCall DEF EndTransaction, Idle
<1>7. ASSUME NEW p \in Processes,
             CommitWrite(p) \/ ActivateNative(p) \/ CommitMigration(p)
             \/ WriteSnapshot(p) \/ Rollback(p)
      PROVE  SourceInv'
  BY <1>6, <1>7 DEF CommitWrite, ActivateNative, CommitMigration, WriteSnapshot, Rollback
<1>8. ASSUME NEW p \in Processes, LockMigration(p)
      PROVE  SourceInv'
  BY <1>1, <1>8 DEF LockMigration
<1>9. CASE Attest
  BY <1>1, <1>9 DEF Attest
<1>10. CASE UNCHANGED vars
  BY <1>1, <1>10 DEF vars
<1> QED
  BY <1>2, <1>3, <1>4, <1>5, <1>7, <1>8, <1>9, <1>10 DEF Next

\* What each step leaves of the two places an election's records can be in.
LEMMA PlacesGrow ==
  ASSUME CutoverInv, SourceInv, [Next]_vars, NEW e \in Elections
  PROVE  /\ Records(ledger, e) \subseteq Records(ledger', e)
         /\ application[e] \subseteq application'[e]
<1>1. Records(ledger, e) \subseteq Records(ledger', e)
  <2>1. LegacyWrite \/ ledger' = ledger
    BY DEF Next, vars, Attest, LockWrite, CommitWrite, BeginNative, BeginSync, BeginMigration,
       ActivateNative, LockMigration, CommitMigration, WriteSnapshot, Rollback
  <2> QED
    BY <2>1, LegacyWriteGrows DEF SourceInv
<1>2. application[e] \subseteq application'[e]
  <2>1. CASE application' = application
    BY <2>1
  <2>2. ASSUME NEW f, NEW record, application' = [application EXCEPT ![f] = @ \cup {record}]
        PROVE  application[e] \subseteq application'[e]
    BY <2>2 DEF CutoverInv, Shape
  <2>3. ASSUME NEW p \in Processes, CommitMigration(p)
        PROVE  application[e] \subseteq application'[e]
    BY <2>3 DEF CommitMigration, CutoverInv, Shape
  <2>4. \/ application' = application
        \/ \E f, record : application' = [application EXCEPT ![f] = @ \cup {record}]
        \/ \E p \in Processes : CommitMigration(p)
    BY DEF Next, vars, LegacyWrite, Attest, LockWrite, CommitWrite, BeginNative, BeginSync,
       BeginMigration, ActivateNative, LockMigration, WriteSnapshot, Rollback
  <2> QED
    BY <2>1, <2>2, <2>3, <2>4
<1> QED
  BY <1>1, <1>2

\* A cutover row that turns to migrated does so with all of SQLite's records.
LEMMA MigratedWithAll ==
  ASSUME CutoverInv, SourceInv, [Next]_vars, NEW e \in Elections,
         cutovers'[e] # cutovers[e], cutovers'[e].mode = "migrated"
  PROVE  ~Enabled(e) /\ application'[e] = Records(ledger, e)
<1>1. PICK p \in Processes : ActivateNative(p) \/ CommitMigration(p)
  BY DEF Next, vars, LegacyWrite, Attest, LockWrite, CommitWrite, BeginNative, BeginSync,
     BeginMigration, LockMigration, WriteSnapshot, Rollback
<1>2. ~ActivateNative(p)
  <2> SUFFICES ASSUME ActivateNative(p) PROVE FALSE
    OBVIOUS
  <2>1. cutovers'[e] = [mode |-> "native"]
    BY DEF ActivateNative, CutoverInv, Shape
  <2> QED
    BY <2>1
<1>3. CommitMigration(p) /\ tasks[p].op = "migrate"
  BY <1>1, <1>2 DEF CommitMigration
<1>4. e = tasks[p].election /\ ~Enabled(e)
  BY <1>3 DEF CommitMigration, CutoverInv, Shape
<1>5. application'[e] = tasks[p].source
  BY <1>3, <1>4 DEF CommitMigration, CutoverInv, Shape
<1> QED
  BY <1>3, <1>4, <1>5 DEF SourceInv, SourceIsCurrent

\* Whoever writes to either side and whoever copies meanwhile, an election's
\* authoritative records are at every step those of before and perhaps more:
\* migrate activates only with all that SQLite holds, and keeps what is there.
THEOREM NothingIsLost == Spec => CutoverLosesNothing
<1>1. ASSUME CutoverInv, SourceInv, [Next]_vars, NEW e \in Elections,
             cutovers'[e] = cutovers[e] \/ cutovers'[e].mode = "migrated"
      PROVE  Authoritative(e) \subseteq Authoritative(e)'
  <2>1. CASE cutovers'[e] = cutovers[e]
    BY <1>1, <2>1, PlacesGrow DEF Authoritative, View, Enabled
  <2>2. CASE cutovers'[e] # cutovers[e] /\ cutovers'[e].mode = "migrated"
    <3>1. Enabled(e)'
      BY <2>2 DEF Enabled, NoCutover
    <3>2. ~Enabled(e) /\ application'[e] = Records(ledger, e)
      BY <1>1, <2>2, MigratedWithAll
    <3> QED
      BY <3>1, <3>2 DEF Authoritative, View
  <2> QED
    BY <1>1, <2>1, <2>2
<1>2. CutoverInv /\ SourceInv /\ [Next]_vars =>
        [\A e \in Elections : cutovers'[e] = cutovers[e] \/ cutovers'[e].mode = "migrated" =>
           Authoritative(e) \subseteq Authoritative(e)']_vars
  BY <1>1
<1> QED
  BY <1>2, AlwaysCutoverInv, InitSource, StepSource, PTL DEF Spec, CutoverLosesNothing

----------------------------------------------------------------------------
(* The gate: a call that inserts found the cutover row of its election. *)

LEMMA CallsAreGated ==
  ASSUME NEW call, call \in Calls, NEW row, row \in RowOf(call)
  PROVE  Enabled(row[1])
<1>1. ASSUME call.op = "snapshot", Enabled(call.election)
      PROVE  Enabled(row[1])
  <2>1. row \in SnapshotRow(call)
    BY <1>1 DEF RowOf
  <2>2. row[1] = call.election
    BY <2>1 DEF SnapshotRow
  <2> QED
    BY <1>1, <2>2
<1>2. ASSUME call.op = "ingest", Enabled(call.election)
      PROVE  Enabled(row[1])
  <2>1. row \in IngestRow(call)
    BY <1>2 DEF RowOf
  <2>2. row[1] = call.election
    BY <2>1 DEF IngestRow
  <2> QED
    BY <1>2, <2>2
<1>3. ASSUME call.op = "extract"
      PROVE  Enabled(row[1])
  <2>1. row \in ExtractRow(call)
    BY <1>3 DEF RowOf
  <2>2. \E r : Enabled(ElectionOf(r)) /\ row[1] = ElectionOf(r)
    BY <2>1 DEF ExtractRow
  <2> QED
    BY <2>2
<1>4. ASSUME call.op = "review", Enabled(ElectionOf(call.extraction))
      PROVE  Enabled(row[1])
  <2>1. row \in ReviewRow(call)
    BY <1>4 DEF RowOf
  <2>2. row[1] = ElectionOf(call.extraction)
    BY <2>1 DEF ReviewRow
  <2> QED
    BY <1>4, <2>2
<1>5. \/ call.op = "snapshot" /\ Enabled(call.election)
      \/ call.op = "ingest" /\ Enabled(call.election)
      \/ call.op = "extract"
      \/ call.op = "review" /\ Enabled(ElectionOf(call.extraction))
  BY DEF Calls
<1> QED
  BY <1>1, <1>2, <1>3, <1>4, <1>5

InsertsAreGated ==
  \A p \in Processes : tasks[p].op = "insert" /\ tasks[p].election \in Elections =>
    Enabled(tasks[p].election)

GateInv == InsertsAreGated /\ ClosedUntilCutover

LEMMA InitGate == Init => GateInv
  BY DEF Init, Idle, GateInv, InsertsAreGated, ClosedUntilCutover

\* A cutover row that is there stays.
LEMMA EnabledStays ==
  ASSUME CutoverInv, [Next]_vars, NEW e \in Elections, Enabled(e)
  PROVE  Enabled(e)'
<1>1. cutovers' = cutovers \/ \E p \in Processes : ActivateNative(p) \/ CommitMigration(p)
  BY DEF Next, vars, LegacyWrite, Attest, LockWrite, CommitWrite, BeginNative, BeginSync,
     BeginMigration, LockMigration, WriteSnapshot, Rollback
<1> QED
  BY <1>1, ActivateKeeps, CommitMigrationKeeps DEF Enabled

LEMMA GateByCall ==
  ASSUME CutoverInv, GateInv, [Next]_vars, NEW p \in Processes, NEW task, Become(p, task),
         task.op = "insert" /\ task.election \in Elections => Enabled(task.election)
  PROVE  InsertsAreGated'
<1>1. tasks'[p] = task /\ \A q \in Processes \ {p} : tasks'[q] = tasks[q]
  BY DEF Become, CutoverInv, Shape
<1> QED
  BY <1>1, EnabledStays DEF GateInv, InsertsAreGated

LEMMA StepGated == CutoverInv /\ GateInv /\ [Next]_vars => InsertsAreGated'
<1> SUFFICES ASSUME CutoverInv, GateInv, [Next]_vars PROVE InsertsAreGated'
  OBVIOUS
<1>1. CASE tasks' = tasks
  BY <1>1, EnabledStays DEF GateInv, InsertsAreGated
<1>2. ASSUME NEW p \in Processes, LockWrite(p)
      PROVE  InsertsAreGated'
  <2>1. PICK call, row : /\ call \in Calls /\ row \in RowOf(call)
                         /\ Become(p, [op |-> "insert", election |-> row[1], record |-> row[2]])
    BY <1>2 DEF LockWrite
  <2> DEFINE task == [op |-> "insert", election |-> row[1], record |-> row[2]]
  <2>2. task.election = row[1]
    OBVIOUS
  <2>3. Enabled(row[1])
    BY <2>1, CallsAreGated
  <2> HIDE DEF task
  <2> QED
    BY <2>1, <2>2, <2>3, GateByCall DEF task
<1>3. ASSUME NEW p \in Processes, NEW e \in Elections, NEW activate,
             BeginNative(p, e) \/ BeginSync(p, e) \/ BeginMigration(p, e, activate)
      PROVE  InsertsAreGated'
  BY <1>3, GateByCall DEF BeginNative, BeginSync, BeginMigration
<1>4. ASSUME NEW p \in Processes, EndTransaction(p)
      PROVE  InsertsAreGated'
  BY <1>4, GateByCall DEF EndTransaction, Idle
<1>5. ASSUME NEW p \in Processes,
             CommitWrite(p) \/ ActivateNative(p) \/ CommitMigration(p)
             \/ WriteSnapshot(p) \/ Rollback(p)
      PROVE  InsertsAreGated'
  BY <1>4, <1>5 DEF CommitWrite, ActivateNative, CommitMigration, WriteSnapshot, Rollback
<1> QED
  BY <1>1, <1>2, <1>3, <1>5 DEF Next, vars, LegacyWrite, Attest, LockMigration

\* What a step adds to an election that has no cutover row yet is what a
\* migration copied.
LEMMA StepClosed ==
  ASSUME CutoverInv, SourceInv, GateInv, [Next]_vars
  PROVE  ClosedUntilCutover'
<1> SUFFICES ASSUME NEW e \in Elections, (cutovers[e] = NoCutover)'
             PROVE  (application[e] \subseteq Records(ledger, e))'
  BY DEF ClosedUntilCutover
<1>1. cutovers[e] = NoCutover
  BY EnabledStays DEF Enabled
<1>2. application[e] \subseteq Records(ledger', e)
  BY <1>1, PlacesGrow DEF GateInv, ClosedUntilCutover
<1>3. CASE application' = application
  BY <1>2, <1>3
<1>4. CASE Attest
  <2>1. PICK f, record : Enabled(f) /\ application' = [application EXCEPT ![f] = @ \cup {record}]
    BY <1>4 DEF Attest
  <2> QED
    BY <1>1, <1>2, <2>1 DEF Enabled, CutoverInv, Shape
<1>5. ASSUME NEW p \in Processes, CommitWrite(p)
      PROVE  application'[e] \subseteq Records(ledger', e)
  <2>1. tasks[p].election # e
    BY <1>1, <1>5 DEF CommitWrite, GateInv, InsertsAreGated, Enabled
  <2>2. application'[e] = application[e]
    BY <1>5, <2>1 DEF CommitWrite, CutoverInv, Shape
  <2> QED
    BY <1>2, <2>2
<1>6. ASSUME NEW p \in Processes, CommitMigration(p)
      PROVE  application'[e] \subseteq Records(ledger', e)
  <2>1. CASE tasks[p].election = e
    <3>1. application'[e] = tasks[p].source /\ tasks[p].op = "migrate" /\ ledger' = ledger
      BY <1>6, <2>1 DEF CommitMigration, CutoverInv, Shape
    <3> QED
      BY <2>1, <3>1 DEF SourceInv, SourceIsCurrent
  <2>2. CASE tasks[p].election # e
    BY <1>2, <1>6, <2>2 DEF CommitMigration, CutoverInv, Shape
  <2> QED
    BY <2>1, <2>2
<1> QED
  BY <1>3, <1>4, <1>5, <1>6 DEF Next, vars, LegacyWrite, LockWrite, BeginNative, BeginSync,
     BeginMigration, ActivateNative, LockMigration, WriteSnapshot, Rollback

\* Before its cutover row appears an election has no history of its own in
\* PostgreSQL, although calls look at the row in one step and insert in another
\* and migrations that do not activate run meanwhile.
THEOREM ElectionsAreClosedUntilCutover == Spec => []ClosedUntilCutover
<1>1. Init => GateInv /\ SourceInv
  BY InitGate, InitSource
<1>2. CutoverInv /\ SourceInv /\ GateInv /\ [Next]_vars => GateInv' /\ SourceInv'
  BY StepSource, StepGated, StepClosed DEF GateInv
<1>3. GateInv => ClosedUntilCutover
  BY DEF GateInv
<1> QED
  BY <1>1, <1>2, <1>3, AlwaysCutoverInv, PTL DEF Spec

----------------------------------------------------------------------------
(* Closed views: what a record refers to is filed in its election before it. *)

\* A version's key is its place in its chain, an extraction's its id.
Named(r) ==
  /\ r.type = "evidence_version" => r.key = <<r.payload.stream, r.payload.version>>
  /\ r.type = "extraction" => r.key = <<r.payload.id>>

\* What a record refers to is among `records'.
HasVersionRecord(records, ev, v) ==
  \E q \in records :
    q.type = "evidence_version" /\ q.payload.stream = ev /\ q.payload.version = v

HasExtractionRecord(records, id) ==
  \E q \in records : q.type = "extraction" /\ q.payload.id = id

Resolves(records, r) ==
  /\ r.type \in {"attestation", "extraction"} =>
       HasVersionRecord(records, r.payload.evidence, r.payload.version)
  /\ r.type = "extraction" =>
       r.payload.supersedes = None \/ HasExtractionRecord(records, r.payload.supersedes)
  /\ r.type = "extraction_review" => HasExtractionRecord(records, r.payload.extraction)

LEMMA ClosedRecords ==
  ASSUME NEW records
  PROVE  ReferencesClosed(records) <=> \A r \in records : Resolves(records, r)
<1>1. \A type : \A x : x \in OfType(records, type) <=>
        \E r \in records : r.type = type /\ r.payload = x
  BY DEF OfType
<1>2. \A ev, v :
        <<ev, v>> \in {<<p.stream, p.version>> : p \in OfType(records, "evidence_version")}
        <=> HasVersionRecord(records, ev, v)
  BY <1>1 DEF HasVersionRecord
<1>3. \A id : (\E y \in OfType(records, "extraction") : y.id = id)
              <=> HasExtractionRecord(records, id)
  BY <1>1 DEF HasExtractionRecord
<1>4. ReferencesClosed(records) <=>
        /\ \A a \in OfType(records, "attestation") :
             HasVersionRecord(records, a.evidence, a.version)
        /\ \A x \in OfType(records, "extraction") :
             /\ HasVersionRecord(records, x.evidence, x.version)
             /\ x.supersedes = None \/ HasExtractionRecord(records, x.supersedes)
        /\ \A r \in OfType(records, "extraction_review") :
             HasExtractionRecord(records, r.extraction)
  BY <1>2, <1>3 DEF ReferencesClosed
<1> QED
  BY <1>1, <1>4 DEF Resolves

LEMMA ResolvesMore ==
  ASSUME NEW A, NEW B, A \subseteq B, NEW r, Resolves(A, r)
  PROVE  Resolves(B, r)
  BY DEF Resolves, HasVersionRecord, HasExtractionRecord

----------------------------------------------------------------------------
(* The records of the SQLite side. *)

\* Rows know their place, and a uuid is given once.
LegacyFits(l) ==
  /\ LedgerOK(l)
  /\ LedgerFits(l, Artifacts)
  /\ \A ev \in EvidenceIds : \A i \in DOMAIN l.versions[ev] :
       l.versions[ev][i].stream = ev /\ l.versions[ev][i].version = i
  /\ \A x, y \in l.extractions : x.id = y.id => x = y
  /\ \A q, r \in l.reviews : q.id = r.id => q = r

LEMMA LegacyRecords ==
  ASSUME NEW l, LegacyFits(l), NEW e
  PROVE  /\ \A r \in Records(l, e) : Named(r) /\ Resolves(Records(l, e), r)
         /\ KeysAreUnique(Records(l, e))
<1>1. \A r \in Records(l, e) : Named(r)
  BY RecordForms DEF Named, LegacyFits
<1>2. \A r \in Records(l, e) : Resolves(Records(l, e), r)
  BY FittingIsClosed, ClosedRecords DEF LegacyFits
<1>3. ASSUME NEW q \in Records(l, e), NEW r \in Records(l, e),
             q.type = r.type, q.key = r.key
      PROVE  q = r
  <2>1. CASE q.type = "registry_snapshot"
    <3>0. q.type = "registry_snapshot" /\ r.type = "registry_snapshot"
      BY <1>3, <2>1
    <3>1. PICK i : q = [type |-> "registry_snapshot", key |-> <<e, i>>,
                        payload |-> l.registry[e][i]]
      BY <3>0, RecordForms
    <3>2. PICK j : r = [type |-> "registry_snapshot", key |-> <<e, j>>,
                        payload |-> l.registry[e][j]]
      BY <3>0, RecordForms
    <3>3. i = j
      BY <1>3, <3>1, <3>2
    <3> QED
      BY <3>1, <3>2, <3>3
  <2>2. CASE q.type = "evidence_version"
    <3>0. q.type = "evidence_version" /\ r.type = "evidence_version"
      BY <1>3, <2>2
    <3>1. PICK ev, i : q = [type |-> "evidence_version", key |-> <<ev, i>>,
                            payload |-> l.versions[ev][i]]
      BY <3>0, RecordForms
    <3>2. PICK ew, j : r = [type |-> "evidence_version", key |-> <<ew, j>>,
                            payload |-> l.versions[ew][j]]
      BY <3>0, RecordForms
    <3>3. ev = ew /\ i = j
      BY <1>3, <3>1, <3>2
    <3> QED
      BY <3>1, <3>2, <3>3
  <2>3. CASE q.type = "attestation"
    <3>0. q.type = "attestation" /\ r.type = "attestation"
      BY <1>3, <2>3
    <3>1. PICK ev, v, i : q = [type |-> "attestation", key |-> <<ev, v, i>>,
                               payload |-> l.attestations[i]]
      BY <3>0, RecordForms
    <3>2. PICK ew, w, j : r = [type |-> "attestation", key |-> <<ew, w, j>>,
                               payload |-> l.attestations[j]]
      BY <3>0, RecordForms
    <3>3. ev = ew /\ v = w /\ i = j
      BY <1>3, <3>1, <3>2
    <3> QED
      BY <3>1, <3>2, <3>3
  <2>4. CASE q.type = "extraction"
    <3>0. q.type = "extraction" /\ r.type = "extraction"
      BY <1>3, <2>4
    <3>1. PICK x \in l.extractions :
            q = [type |-> "extraction", key |-> <<x.id>>, payload |-> x]
      BY <3>0, RecordForms
    <3>2. PICK y \in l.extractions :
            r = [type |-> "extraction", key |-> <<y.id>>, payload |-> y]
      BY <3>0, RecordForms
    <3>3. x = y
      BY <1>3, <3>1, <3>2 DEF LegacyFits
    <3> QED
      BY <3>1, <3>2, <3>3
  <2>5. CASE q.type = "extraction_review"
    <3>0. q.type = "extraction_review" /\ r.type = "extraction_review"
      BY <1>3, <2>5
    <3>1. PICK x \in l.reviews :
            q = [type |-> "extraction_review", key |-> <<x.id>>, payload |-> x]
      BY <3>0, RecordForms
    <3>2. PICK y \in l.reviews :
            r = [type |-> "extraction_review", key |-> <<y.id>>, payload |-> y]
      BY <3>0, RecordForms
    <3>3. x = y
      BY <1>3, <3>1, <3>2 DEF LegacyFits
    <3> QED
      BY <3>1, <3>2, <3>3
  <2> QED
    BY <2>1, <2>2, <2>3, <2>4, <2>5, RecordForms
<1> QED
  BY <1>1, <1>2, <1>3 DEF KeysAreUnique

LEMMA InitLegacyFits == Init => LegacyFits(ledger)
<1> SUFFICES ASSUME Init PROVE LegacyFits(ledger)
  OBVIOUS
<1>1. /\ \A e \in Elections : ledger.registry[e] = <<>>
      /\ \A ev \in EvidenceIds : ledger.versions[ev] = <<>>
      /\ ledger.extractions = {} /\ ledger.reviews = {}
      /\ DOMAIN <<>> = {}
  BY DEF Init, EmptyLedger
<1>2. LedgerOK(ledger)
  BY InitSource DEF SourceInv
<1>3. \A e : VersionRecords(ledger, e) = {}
  BY <1>1 DEF VersionRecords
<1>4. IsFiniteSet({})
  BY FS_EmptySet
<1>5. LedgerFits(ledger, Artifacts)
  BY <1>1, <1>3, <1>4 DEF LedgerFits, ChainVerified
<1> QED
  BY <1>1, <1>2, <1>5 DEF LegacyFits

\* What the inserts do to the table of reviews.
LEMMA KeptReviews ==
  ASSUME NEW l, LedgerOK(l)
  PROVE  /\ \A e, d : WithSnapshot(l, e, d).reviews = l.reviews
         /\ \A ev, e, a : WithVersion(l, ev, e, a).reviews = l.reviews
         /\ \A z : WithAttestation(l, z).reviews = l.reviews
         /\ \A z : WithExtraction(l, z).reviews = l.reviews
         /\ \A z : WithReview(l, z).reviews = l.reviews \cup {z}
<1>1. PICK r, v, a, x, q : l = [registry |-> r, versions |-> v, attestations |-> a,
                             extractions |-> x, reviews |-> q]
  BY DEF LedgerOK
<1>2. \A e, d : WithSnapshot(l, e, d).reviews = l.reviews
  BY <1>1 DEF WithSnapshot
<1>3. \A ev, e, c : WithVersion(l, ev, e, c).reviews = l.reviews
  BY <1>1 DEF WithVersion
<1>4. \A z : WithAttestation(l, z).reviews = l.reviews
  BY <1>1 DEF WithAttestation
<1>5. \A z : WithExtraction(l, z).reviews = l.reviews
  BY <1>1 DEF WithExtraction
<1>6. \A z : WithReview(l, z).reviews = l.reviews \cup {z}
  BY <1>1 DEF WithReview
<1> QED
  BY <1>2, <1>3, <1>4, <1>5, <1>6

LEMMA SameChecks ==
  \A l, x : Legacy!ExtractionAccepted(l, x) <=> ExtractionAccepted(l, x)
  BY DEF Legacy!ExtractionAccepted, ExtractionAccepted, Legacy!HasVersion, HasVersion

LEMMA LegacyWriteFits ==
  ASSUME LegacyFits(ledger), LegacyWrite
  PROVE  LegacyFits(ledger')
<1> USE DEF LegacyFits
<1>0. LedgerOK(ledger')
  BY LegacyWriteGrows
<1>1. ASSUME NEW e \in Elections, NEW d, Legacy!AppendSnapshot(e, d)
      PROVE  LegacyFits(ledger')
  <2>1. ledger' = WithSnapshot(ledger, e, d)
    BY <1>1, SameSnapshot DEF Legacy!AppendSnapshot
  <2>2. LedgerFits(ledger', Artifacts)
    BY <2>1, SnapshotFits
  <2>3. /\ ledger'.versions = ledger.versions /\ ledger'.extractions = ledger.extractions
        /\ ledger'.reviews = ledger.reviews
    BY <2>1, SnapshotTables, KeptReviews
  <2> QED
    BY <1>0, <2>2, <2>3
<1>2. ASSUME NEW ev \in EvidenceIds, NEW e \in Elections, NEW a \in Artifacts,
             Legacy!AppendVersion(ev, e, a)
      PROVE  LegacyFits(ledger')
  <2>1. ledger' = WithVersion(ledger, ev, e, a)
    BY <1>2, SameVersion DEF Legacy!AppendVersion
  <2>2. LedgerFits(ledger', Artifacts)
    BY <2>1, VersionFits
  <2>3. /\ ledger'.extractions = ledger.extractions
        /\ ledger'.reviews = ledger.reviews
    BY <2>1, VersionTables, KeptReviews
  <2>4. \A f \in EvidenceIds : \A i \in DOMAIN ledger'.versions[f] :
          ledger'.versions[f][i].stream = f /\ ledger'.versions[f][i].version = i
    BY <2>1, PlacesKept DEF Placed
  <2>5. /\ \A x, y \in ledger'.extractions : x.id = y.id => x = y
        /\ \A q, r \in ledger'.reviews : q.id = r.id => q = r
    BY <2>3
  <2> QED
    BY <1>0, <2>2, <2>4, <2>5
<1>3. ASSUME NEW ev, NEW v, NEW actor, Legacy!Attest(ev, v, actor)
      PROVE  LegacyFits(ledger')
  <2>1. PICK z : ledger' = WithAttestation(ledger, z)
    BY <1>3, SameOthers DEF Legacy!Attest
  <2>2. /\ ledger'.versions = ledger.versions /\ ledger'.extractions = ledger.extractions
        /\ ledger'.reviews = ledger.reviews
    BY <2>1, OtherTables, KeptReviews
  <2>3. LedgerFits(ledger', Artifacts)
    BY <2>1, OthersFit
  <2> QED
    BY <1>0, <2>2, <2>3
<1>4. ASSUME NEW id \in ExtractionIds, NEW ev, NEW v, NEW s,
             Legacy!AddExtraction(id, ev, v, s)
      PROVE  LegacyFits(ledger')
  <2>1. PICK z : /\ z.id = id /\ ExtractionAccepted(ledger, z)
                 /\ ledger' = WithExtraction(ledger, z)
                 /\ \A x \in ledger.extractions : x.id # id
    BY <1>4, SameOthers, SameChecks DEF Legacy!AddExtraction
  <2>2. /\ ledger'.versions = ledger.versions /\ ledger'.reviews = ledger.reviews
        /\ ledger'.extractions = ledger.extractions \cup {z}
    BY <2>1, OtherTables, KeptReviews
  <2>3. LedgerFits(ledger', Artifacts)
    BY <2>1, OthersFit
  <2>4. \A x, y \in ledger'.extractions : x.id = y.id => x = y
    BY <2>1, <2>2
  <2> QED
    BY <1>0, <2>2, <2>3, <2>4
<1>5. ASSUME NEW id, NEW x, Legacy!AddReview(id, x)
      PROVE  LegacyFits(ledger')
  <2>1. PICK z : /\ z.id = id /\ ledger' = WithReview(ledger, z)
                 /\ \A r \in ledger.reviews : r.id # id
    BY <1>5, SameOthers DEF Legacy!AddReview
  <2>2. ledger'.reviews = ledger.reviews \cup {z}
    BY <2>1, KeptReviews
  <2>3. ledger'.versions = ledger.versions /\ ledger'.extractions = ledger.extractions
    BY <2>1, OtherTables
  <2>4. LedgerFits(ledger', Artifacts)
    BY <2>1, OthersFit
  <2>5. \A q, r \in ledger'.reviews : q.id = r.id => q = r
    BY <2>1, <2>2
  <2> QED
    BY <1>0, <2>3, <2>4, <2>5
<1>6. Fresh("extraction") \subseteq ExtractionIds
  BY DEF Fresh
<1> QED
  BY <1>1, <1>2, <1>3, <1>4, <1>5, <1>6 DEF LegacyWrite

----------------------------------------------------------------------------
(* The records of PostgreSQL. *)

\* The unique index; names; and every reference is resolved in the election of
\* the record that makes it.
AppFits ==
  /\ \A e, f \in Elections : \A q \in application[e] : \A r \in application[f] :
       q.type = r.type /\ q.key = r.key => q = r /\ e = f
  /\ \A e \in Elections : \A r \in application[e] :
       Named(r) /\ Resolves(application[e], r)

\* What a call is about to insert refers to what is there.
InsertsFit ==
  \A p \in Processes : tasks[p].op = "insert" =>
    /\ tasks[p].election \in Elections
    /\ Named(tasks[p].record)
    /\ Resolves(application[tasks[p].election], tasks[p].record)

ViewInv == LegacyFits(ledger) /\ AppFits /\ InsertsFit

LEMMA InitViews == Init => ViewInv
<1>1. Init => AppFits /\ InsertsFit
  BY DEF Init, AppFits, InsertsFit, Idle
<1> QED
  BY <1>1, InitLegacyFits DEF ViewInv

\* Records copied into an election that are named, closed and clash with none.
LEMMA CopiedFits ==
  ASSUME AppFits, NEW e \in Elections, NEW source, application[e] \subseteq source,
         \A r \in source : ~Clashes(e, r) /\ Named(r) /\ Resolves(source, r),
         KeysAreUnique(source),
         application'[e] = source,
         \A f \in Elections \ {e} : application'[f] = application[f]
  PROVE  AppFits'
<1>1. ASSUME NEW f \in Elections \ {e}, NEW q \in source, NEW r \in application[f],
             q.type = r.type, q.key = r.key
      PROVE  FALSE
  BY <1>1 DEF Clashes
<1>2. \A q, r \in source : q.type = r.type /\ q.key = r.key => q = r
  BY DEF KeysAreUnique
<1>3. \A f, g \in Elections : \A q \in application'[f] : \A r \in application'[g] :
        q.type = r.type /\ q.key = r.key => q = r /\ f = g
  <2> SUFFICES ASSUME NEW f \in Elections, NEW g \in Elections,
                      NEW q \in application'[f], NEW r \in application'[g],
                      q.type = r.type, q.key = r.key
               PROVE  q = r /\ f = g
    OBVIOUS
  <2>1. CASE f = e /\ g = e
    BY <1>2, <2>1
  <2>2. CASE f = e /\ g # e
    BY <1>1, <2>2
  <2>3. CASE f # e /\ g = e
    BY <1>1, <2>3
  <2>4. CASE f # e /\ g # e
    BY <2>4 DEF AppFits
  <2> QED
    BY <2>1, <2>2, <2>3, <2>4
<1>4. \A f \in Elections : \A r \in application'[f] :
        Named(r) /\ Resolves(application'[f], r)
  BY DEF AppFits
<1> QED
  BY <1>3, <1>4 DEF AppFits, Named, Resolves, HasVersionRecord, HasExtractionRecord

\* One record more.
LEMMA InsertedFits ==
  ASSUME CutoverInv, AppFits, NEW e \in Elections, NEW record,
         ~Clashes(e, record), Named(record), Resolves(application[e], record),
         application' = [application EXCEPT ![e] = @ \cup {record}]
  PROVE  AppFits'
<1> DEFINE source == application[e] \cup {record}
<1>1. /\ application'[e] = source
      /\ \A f \in Elections \ {e} : application'[f] = application[f]
  BY DEF CutoverInv, Shape
<1>2. \A r \in source : ~Clashes(e, r)
  <2>1. \A r \in application[e] : ~Clashes(e, r)
    BY DEF AppFits, Clashes
  <2> QED
    BY <2>1
<1>3. \A r \in source : Named(r) /\ Resolves(source, r)
  BY ResolvesMore DEF AppFits
<1>4. KeysAreUnique(source)
  <2>1. \A r \in application[e] : r.type = record.type /\ r.key = record.key => r = record
    BY DEF Clashes
  <2>2. \A q, r \in application[e] : q.type = r.type /\ q.key = r.key => q = r
    BY DEF AppFits
  <2> QED
    BY <2>1, <2>2 DEF KeysAreUnique
<1>5. application[e] \subseteq source
  OBVIOUS
<1> HIDE DEF source
<1> QED
  BY <1>1, <1>2, <1>3, <1>4, <1>5, CopiedFits

LEMMA StoredRecords ==
  ASSUME NEW type, NEW r \in Stored(type)
  PROVE  r.type = type /\ ElectionOf(r) \in Elections /\ r \in application[ElectionOf(r)]
<1>1. \E e \in Elections : r \in application[e]
  BY DEF Stored
<1> QED
  BY <1>1 DEF Stored, ElectionOf

\* The row that a call makes refers to records of its own election.
LEMMA RowsFit ==
  ASSUME AppFits, NEW call \in Calls, NEW row \in RowOf(call)
  PROVE  /\ row[1] \in Elections
         /\ Named(row[2])
         /\ Resolves(application[row[1]], row[2])
<1>1. ASSUME call.op = "snapshot", call.election \in Elections
      PROVE  /\ row[1] \in Elections /\ Named(row[2])
             /\ Resolves(application[row[1]], row[2])
  <2>1. row \in SnapshotRow(call)
    BY <1>1 DEF RowOf
  <2>2. row[1] = call.election /\ row[2].type = "registry_snapshot"
    BY <2>1 DEF SnapshotRow
  <2> QED
    BY <1>1, <2>2 DEF Named, Resolves
<1>2. ASSUME call.op = "ingest", call.election \in Elections
      PROVE  /\ row[1] \in Elections /\ Named(row[2])
             /\ Resolves(application[row[1]], row[2])
  <2>1. row \in IngestRow(call)
    BY <1>2 DEF RowOf
  <2>2. /\ row[1] = call.election /\ row[2].type = "evidence_version"
        /\ row[2].key = <<row[2].payload.stream, row[2].payload.version>>
    BY <2>1 DEF IngestRow
  <2> QED
    BY <1>2, <2>2 DEF Named, Resolves
<1>3. ASSUME call.op = "extract"
      PROVE  /\ row[1] \in Elections /\ Named(row[2])
             /\ Resolves(application[row[1]], row[2])
  <2>1. row \in ExtractRow(call)
    BY <1>3 DEF RowOf
  <2> DEFINE ev == call.stream[2]
             f == row[1]
  <2>2. PICK v \in Stored("evidence_version") :
          /\ v.key = <<ev, call.version>>
          /\ \/ call.supersedes = None
             \/ \E x \in Stored("extraction") :
                  /\ x.payload.id = call.supersedes
                  /\ x.payload.evidence = ev /\ x.payload.version = call.version
          /\ row = <<ElectionOf(v), [type |-> "extraction", key |-> <<call.id>>,
               payload |-> [id |-> call.id, evidence |-> ev, version |-> call.version,
                            supersedes |-> call.supersedes, hash |-> v.payload.hash]]>>
    BY <2>1 DEF ExtractRow
  <2>3. /\ f = ElectionOf(v) /\ f \in Elections /\ v \in application[f]
        /\ v.type = "evidence_version"
    BY <2>2, StoredRecords
  <2>4. v.payload.stream = ev /\ v.payload.version = call.version
    <3>1. v.key = <<v.payload.stream, v.payload.version>>
      BY <2>3 DEF AppFits, Named
    <3> QED
      BY <2>2, <3>1
  <2>5. call.supersedes = None \/ HasExtractionRecord(application[f], call.supersedes)
    <3> SUFFICES ASSUME NEW x \in Stored("extraction"), x.payload.id = call.supersedes,
                        x.payload.evidence = ev, x.payload.version = call.version
                 PROVE  HasExtractionRecord(application[f], call.supersedes)
      BY <2>2
    <3>1. PICK g \in Elections : x \in application[g] /\ x.type = "extraction"
      BY StoredRecords
    <3>2. PICK u \in application[g] : /\ u.type = "evidence_version" /\ u.payload.stream = ev
                                      /\ u.payload.version = call.version
      BY <3>1 DEF AppFits, Resolves, HasVersionRecord
    <3>3. u.key = v.key
      BY <2>2, <3>2 DEF AppFits, Named
    <3>4. g = f
      BY <2>3, <3>2, <3>3 DEF AppFits
    <3> QED
      BY <3>1, <3>4 DEF HasExtractionRecord
  <2>6. HasVersionRecord(application[f], ev, call.version)
    BY <2>3, <2>4 DEF HasVersionRecord
  <2> DEFINE r == row[2]
  <2>7. /\ r.type = "extraction" /\ r.key = <<r.payload.id>>
        /\ r.payload.evidence = ev /\ r.payload.version = call.version
        /\ r.payload.supersedes = call.supersedes
    BY <2>2
  <2> HIDE DEF r, f, ev
  <2>8. Named(r) /\ Resolves(application[f], r)
    BY <2>5, <2>6, <2>7 DEF Named, Resolves
  <2> QED
    BY <2>3, <2>8 DEF r, f
<1>4. ASSUME call.op = "review", call.extraction \in Stored("extraction")
      PROVE  /\ row[1] \in Elections /\ Named(row[2])
             /\ Resolves(application[row[1]], row[2])
  <2>1. row \in ReviewRow(call)
    BY <1>4 DEF RowOf
  <2>2. /\ row[1] = ElectionOf(call.extraction) /\ row[2].type = "extraction_review"
        /\ row[2].payload.extraction = call.extraction.payload.id
    BY <2>1 DEF ReviewRow
  <2>3. /\ row[1] \in Elections /\ call.extraction \in application[row[1]]
        /\ call.extraction.type = "extraction"
    BY <1>4, <2>2, StoredRecords
  <2> QED
    BY <2>2, <2>3 DEF Named, Resolves, HasExtractionRecord
<1>5. \/ call.op = "snapshot" /\ call.election \in Elections
      \/ call.op = "ingest" /\ call.election \in Elections
      \/ call.op = "extract"
      \/ call.op = "review" /\ call.extraction \in Stored("extraction")
  BY DEF Calls
<1> QED
  BY <1>1, <1>2, <1>3, <1>4, <1>5

LEMMA AppStep ==
  ASSUME CutoverInv, SourceInv, ViewInv, [Next]_vars
  PROVE  AppFits'
<1> USE DEF ViewInv
<1>1. CASE application' = application
  BY <1>1 DEF AppFits, Named, Resolves, HasVersionRecord, HasExtractionRecord
<1>2. CASE Attest
  <2>1. PICK v \in Stored("evidence_version"), actor \in Actors :
          LET e == ElectionOf(v)
              record == [type |-> "attestation",
                         key |-> <<v.payload.stream, v.payload.version, "sha256", actor>>,
                         payload |-> [evidence |-> v.payload.stream,
                                      version |-> v.payload.version, actor |-> actor,
                                      hash |-> v.payload.hash]]
          IN  /\ ~Clashes(e, record)
              /\ application' = [application EXCEPT ![e] = @ \cup {record}]
    BY <1>2 DEF Attest, AttestationElection
  <2> DEFINE e == ElectionOf(v)
             record == [type |-> "attestation",
                        key |-> <<v.payload.stream, v.payload.version, "sha256", actor>>,
                        payload |-> [evidence |-> v.payload.stream,
                                     version |-> v.payload.version, actor |-> actor,
                                     hash |-> v.payload.hash]]
  <2>2. e \in Elections /\ v \in application[e] /\ v.type = "evidence_version"
    BY StoredRecords
  <2>3. /\ record.type = "attestation" /\ record.payload.evidence = v.payload.stream
        /\ record.payload.version = v.payload.version
    OBVIOUS
  <2>4. ~Clashes(e, record) /\ application' = [application EXCEPT ![e] = @ \cup {record}]
    BY <2>1
  <2> HIDE DEF record, e
  <2>5. Named(record) /\ Resolves(application[e], record)
    BY <2>2, <2>3 DEF Named, Resolves, HasVersionRecord
  <2> QED
    BY <2>2, <2>4, <2>5, InsertedFits
<1>3. ASSUME NEW p \in Processes, CommitWrite(p)
      PROVE  AppFits'
  BY <1>3, InsertedFits DEF CommitWrite, InsertsFit
<1>4. ASSUME NEW p \in Processes, CommitMigration(p)
      PROVE  AppFits'
  <2> DEFINE e == tasks[p].election
             source == tasks[p].source
  <2>1. e \in Elections /\ source = Records(ledger, e)
    BY <1>4 DEF CommitMigration, SourceInv, SourceIsCurrent, CutoverInv, Locked
  <2>2. /\ application[e] \subseteq source /\ \A r \in source : ~Clashes(e, r)
        /\ application'[e] = source
        /\ \A f \in Elections \ {e} : application'[f] = application[f]
    BY <1>4, <2>1 DEF CommitMigration, CutoverInv, Shape
  <2>3. (\A r \in source : Named(r) /\ Resolves(source, r)) /\ KeysAreUnique(source)
    BY <2>1, LegacyRecords
  <2> HIDE DEF source, e
  <2> QED
    BY <2>1, <2>2, <2>3, CopiedFits
<1> QED
  BY <1>1, <1>2, <1>3, <1>4 DEF Next, vars, LegacyWrite, LockWrite, BeginNative, BeginSync,
     BeginMigration, ActivateNative, LockMigration, WriteSnapshot, Rollback

LEMMA InsertByCall ==
  ASSUME CutoverInv, SourceInv, ViewInv, [Next]_vars, NEW p \in Processes, NEW task,
         Become(p, task),
         task.op = "insert" =>
           /\ task.election \in Elections /\ Named(task.record)
           /\ Resolves(application[task.election], task.record)
  PROVE  InsertsFit'
<1>1. tasks'[p] = task /\ \A q \in Processes \ {p} : tasks'[q] = tasks[q]
  BY DEF Become, CutoverInv, Shape
<1>2. SUFFICES ASSUME NEW q \in Processes, tasks'[q].op = "insert"
               PROVE  /\ tasks'[q].election \in Elections
                      /\ Named(tasks'[q].record)
                      /\ Resolves(application'[tasks'[q].election], tasks'[q].record)
  BY DEF InsertsFit, Named, Resolves, HasVersionRecord, HasExtractionRecord
<1>3. /\ tasks'[q].election \in Elections
      /\ Named(tasks'[q].record)
      /\ Resolves(application[tasks'[q].election], tasks'[q].record)
  BY <1>1, <1>2 DEF ViewInv, InsertsFit
<1> QED
  BY <1>3, PlacesGrow, ResolvesMore

LEMMA InsertsStep ==
  ASSUME CutoverInv, SourceInv, ViewInv, [Next]_vars
  PROVE  InsertsFit'
<1>1. CASE tasks' = tasks
  <2>1. SUFFICES ASSUME NEW q \in Processes, tasks[q].op = "insert"
                 PROVE  /\ tasks[q].election \in Elections
                        /\ Named(tasks[q].record)
                        /\ Resolves(application'[tasks[q].election], tasks[q].record)
    BY <1>1 DEF InsertsFit, Named, Resolves, HasVersionRecord, HasExtractionRecord
  <2> QED
    BY <2>1, PlacesGrow, ResolvesMore DEF ViewInv, InsertsFit
<1>2. ASSUME NEW p \in Processes, LockWrite(p)
      PROVE  InsertsFit'
  <2>1. PICK call, row : /\ call \in Calls /\ row \in RowOf(call)
                         /\ Become(p, [op |-> "insert", election |-> row[1], record |-> row[2]])
    BY <1>2 DEF LockWrite
  <2> DEFINE task == [op |-> "insert", election |-> row[1], record |-> row[2]]
  <2>2. task.election = row[1] /\ task.record = row[2]
    OBVIOUS
  <2>3. /\ row[1] \in Elections /\ Named(row[2])
        /\ Resolves(application[row[1]], row[2])
    BY <2>1, RowsFit DEF ViewInv
  <2> HIDE DEF task
  <2> QED
    BY <2>1, <2>2, <2>3, InsertByCall DEF task
<1>3. ASSUME NEW p \in Processes, NEW e \in Elections, NEW activate,
             BeginNative(p, e) \/ BeginSync(p, e) \/ BeginMigration(p, e, activate)
      PROVE  InsertsFit'
  BY <1>3, InsertByCall DEF BeginNative, BeginSync, BeginMigration
<1>4. ASSUME NEW p \in Processes, EndTransaction(p)
      PROVE  InsertsFit'
  BY <1>4, InsertByCall DEF EndTransaction, Idle
<1>5. ASSUME NEW p \in Processes,
             CommitWrite(p) \/ ActivateNative(p) \/ CommitMigration(p)
             \/ WriteSnapshot(p) \/ Rollback(p)
      PROVE  InsertsFit'
  BY <1>4, <1>5 DEF CommitWrite, ActivateNative, CommitMigration, WriteSnapshot, Rollback
<1> QED
  BY <1>1, <1>2, <1>3, <1>5 DEF Next, vars, LegacyWrite, Attest, LockMigration

LEMMA StepViews == CutoverInv /\ SourceInv /\ ViewInv /\ [Next]_vars => ViewInv'
<1>1. ASSUME LegacyFits(ledger), [Next]_vars PROVE LegacyFits(ledger')
  <2>1. LegacyWrite \/ ledger' = ledger
    BY <1>1 DEF Next, vars, Attest, LockWrite, CommitWrite, BeginNative, BeginSync,
       BeginMigration, ActivateNative, LockMigration, CommitMigration, WriteSnapshot, Rollback
  <2> QED
    BY <1>1, <2>1, LegacyWriteFits
<1> QED
  BY <1>1, AppStep, InsertsStep DEF ViewInv

\* A release that PostgreSQL makes of an election resolves every reference and
\* names no record twice, although its records were filed by a migration and by
\* calls that name evidence and extractions rather than elections.
THEOREM ViewsStayClosed == Spec => []ViewsAreClosed
<1>1. ASSUME ViewInv PROVE ViewsAreClosed
  <2>1. ASSUME NEW e \in Elections
        PROVE  ReferencesClosed(application[e]) /\ KeysAreUnique(application[e])
    BY <1>1, ClosedRecords DEF ViewInv, AppFits, KeysAreUnique
  <2>2. ReferencesClosed({}) /\ KeysAreUnique({})
    BY ClosedRecords DEF KeysAreUnique
  <2> QED
    BY <2>1, <2>2 DEF ViewsAreClosed, View
<1>2. Init => SourceInv /\ ViewInv
  BY InitSource, InitViews
<1>3. CutoverInv /\ SourceInv /\ ViewInv /\ [Next]_vars => SourceInv' /\ ViewInv'
  BY StepSource, StepViews
<1> QED
  BY <1>1, <1>2, <1>3, AlwaysCutoverInv, PTL DEF Spec

----------------------------------------------------------------------------
(* Chains: the rows of a stream, wherever they are filed. *)

\* A verified chain whose rows know their place.
GoodChain(c) ==
  /\ IsSeq(c)
  /\ ChainVerified(c)
  /\ \A i \in DOMAIN c : c[i].version = i

RowSet(c) == {c[i] : i \in DOMAIN c}
IsChain(rows) == \E c : GoodChain(c) /\ rows = RowSet(c)
OneElection(rows) == \A q, r \in rows : q.election = r.election

\* Reading the rows of a chain back gives the chain.
LEMMA Ordered ==
  ASSUME NEW c, GoodChain(c)
  PROVE  InOrder(RowSet(c)) = c
<1> DEFINE First(k) == {c[i] : i \in 1..k}
           rows == RowSet(c)
           Rank(r) == Cardinality({q \in rows : q.version < r.version})
<1>1. PICK n \in Nat : DOMAIN c = 1..n /\ c = [i \in 1..n |-> c[i]]
  <2>1. PICK S : c \in Seq(S)
    BY DEF GoodChain, IsSeq
  <2>2. Len(c) \in Nat /\ DOMAIN c = 1..Len(c) /\ c = [i \in 1..Len(c) |-> c[i]]
    BY <2>1
  <2> QED
    BY <2>2
<1>2. \A i \in 1..n : c[i].version = i
  BY <1>1 DEF GoodChain
<1>3. ASSUME NEW k \in 0..n
      PROVE  Cardinality(First(k)) = k
  <2> DEFINE f == [i \in 1..k |-> c[i]]
  <2>0. 1..k \subseteq 1..n
    OBVIOUS
  <2>1. f \in Bijection(1..k, First(k))
    <3>1. f \in [1..k -> First(k)]
      OBVIOUS
    <3>2. \A i, j \in 1..k : f[i] = f[j] => i = j
      BY <1>2, <2>0
    <3>3. \A x \in First(k) : \E i \in 1..k : f[i] = x
      OBVIOUS
    <3> HIDE DEF f, First
    <3> QED
      BY <3>1, <3>2, <3>3 DEF Bijection, Injection, IsInjective, Surjection
  <2>2. ExistsBijection(1..k, First(k))
    BY <2>1 DEF ExistsBijection
  <2>3. IsFiniteSet(1..k) /\ Cardinality(1..k) = k
    BY FS_Interval
  <2> HIDE DEF First
  <2>4. Cardinality(First(k)) = Cardinality(1..k)
    BY <2>2, <2>3, FS_Bijection
  <2> QED
    BY <2>3, <2>4
<1>4. ASSUME NEW i \in 1..n
      PROVE  Rank(c[i]) = i - 1
  <2>1. {q \in rows : q.version < c[i].version} = First(i - 1)
    BY <1>1, <1>2 DEF RowSet
  <2>2. i - 1 \in 0..n
    OBVIOUS
  <2> HIDE DEF First, rows
  <2> QED
    BY <1>3, <2>1, <2>2
<1>5. rows = First(n)
  BY <1>1 DEF RowSet
<1>6. Cardinality(rows) = n
  <2> HIDE DEF First, rows
  <2> QED
    BY <1>3, <1>5
<1>7. ASSUME NEW i \in 1..n
      PROVE  c[i] = CHOOSE r \in rows : Rank(r) = i - 1
  <2> HIDE DEF Rank
  <2>1. c[i] \in rows /\ Rank(c[i]) = i - 1
    BY <1>4, <1>5
  <2>2. \A r \in rows : Rank(r) = i - 1 => r = c[i]
    BY <1>4, <1>5
  <2> HIDE DEF rows
  <2> QED
    BY <2>1, <2>2
<1>8. InOrder(rows) = [i \in 1..n |-> CHOOSE r \in rows : Rank(r) = i - 1]
  <2> HIDE DEF rows
  <2> QED
    BY <1>6 DEF InOrder
<1> HIDE DEF Rank, rows
<1> QED
  BY <1>1, <1>7, <1>8 DEF rows

LEMMA NoRows == InOrder({}) = <<>>
<1>1. GoodChain(<<>>) /\ RowSet(<<>>) = {}
  BY EmptySequence DEF GoodChain, RowSet, ChainVerified
<1> QED
  BY <1>1, Ordered

LEMMA LongerGoodChain ==
  ASSUME NEW c, GoodChain(c), NEW stream, NEW e, NEW content
  PROVE  LET row == NextRow(c, stream, e, content)
         IN  /\ GoodChain(Append(c, row))
             /\ RowSet(Append(c, row)) = RowSet(c) \cup {row}
<1> DEFINE row == NextRow(c, stream, e, content)
           d == Append(c, row)
<1>1. PICK S : c \in Seq(S)
  BY DEF GoodChain, IsSeq
<1>2. row.version = Len(c) + 1
  BY DEF NextRow
<1>3. ChainVerified(d)
  BY ChainGrows DEF GoodChain
<1> HIDE DEF row
<1>4. /\ Len(c) \in Nat /\ DOMAIN c = 1..Len(c) /\ IsSeq(d)
      /\ DOMAIN d = 1..(Len(c) + 1)
      /\ \A i \in 1..Len(c) : d[i] = c[i]
      /\ d[Len(c) + 1] = row
  <2>1. d \in Seq(S \cup {row})
    BY <1>1
  <2> QED
    BY <1>1, <2>1 DEF IsSeq
<1> HIDE DEF d
<1>5. \A i \in DOMAIN d : d[i].version = i
  <2> SUFFICES ASSUME NEW i \in 1..(Len(c) + 1) PROVE d[i].version = i
    BY <1>4
  <2>1. CASE i \in 1..Len(c)
    BY <1>4, <2>1 DEF GoodChain
  <2>2. CASE i = Len(c) + 1
    BY <1>2, <1>4, <2>2
  <2> QED
    BY <1>4, <2>1, <2>2
<1>6. RowSet(d) = RowSet(c) \cup {row}
  <2>1. \A i \in 1..(Len(c) + 1) : i \in 1..Len(c) \/ i = Len(c) + 1
    BY <1>4
  <2>2. 1..Len(c) \subseteq 1..(Len(c) + 1) /\ Len(c) + 1 \in 1..(Len(c) + 1)
    BY <1>4
  <2> QED
    BY <1>4, <2>1, <2>2 DEF RowSet
<1> QED
  BY <1>3, <1>4, <1>5, <1>6 DEF GoodChain, d, row

LEMMA NextRowContinues ==
  ASSUME NEW rows, IsChain(rows), NEW stream, NEW e, NEW content
  PROVE  IsChain(rows \cup {NextRow(InOrder(rows), stream, e, content)})
<1>1. PICK c : GoodChain(c) /\ rows = RowSet(c)
  BY DEF IsChain
<1>2. InOrder(rows) = c
  BY <1>1, Ordered
<1> QED
  BY <1>1, <1>2, LongerGoodChain DEF IsChain

LEMMA ChainsStartAtOne ==
  ASSUME NEW rows, IsChain(rows), rows # {}
  PROVE  \E x \in rows : x.version = 1
<1>1. PICK c : GoodChain(c) /\ rows = RowSet(c)
  BY DEF IsChain
<1>2. PICK S : c \in Seq(S)
  BY <1>1 DEF GoodChain, IsSeq
<1>3. 1 \in DOMAIN c
  BY <1>1, <1>2 DEF RowSet
<1> QED
  BY <1>1, <1>3 DEF RowSet, GoodChain

LEMMA OrderedIsVerified ==
  ASSUME NEW rows, IsChain(rows)
  PROVE  ChainVerified(InOrder(rows))
<1>1. PICK c : GoodChain(c) /\ rows = RowSet(c)
  BY DEF IsChain
<1> QED
  BY <1>1, Ordered DEF GoodChain

----------------------------------------------------------------------------
(* The rows of a stream in given application_records. *)

RowsIn(app, type, stream) ==
  {r.payload : r \in {q \in UNION {{r \in app[e] : r.type = type} : e \in Elections} :
                        q.payload.stream = stream}}

LEMMA RowMembers ==
  \A app, type, stream, x :
    x \in RowsIn(app, type, stream) <=>
      \E e \in Elections : \E r \in app[e] :
        r.type = type /\ r.payload.stream = stream /\ x = r.payload
  BY DEF RowsIn

LEMMA RowsAreRowsIn ==
  \A type, stream : RowsOf(type, stream) = RowsIn(application, type, stream)
  BY DEF RowsOf, RowsIn, Stored

RowAdded(app, new, e, r) ==
  /\ e \in Elections
  /\ new[e] = app[e] \cup {r}
  /\ \A f \in Elections \ {e} : new[f] = app[f]

LEMMA RowsAdded ==
  ASSUME NEW app, NEW new, NEW e, NEW r, RowAdded(app, new, e, r), NEW type, NEW stream
  PROVE  /\ r.type = type /\ r.payload.stream = stream =>
              RowsIn(new, type, stream) = RowsIn(app, type, stream) \cup {r.payload}
         /\ r.type # type \/ r.payload.stream # stream =>
              RowsIn(new, type, stream) = RowsIn(app, type, stream)
<1>1. \A x : x \in RowsIn(new, type, stream) <=>
        \/ x \in RowsIn(app, type, stream)
        \/ r.type = type /\ r.payload.stream = stream /\ x = r.payload
  BY RowMembers DEF RowAdded
<1> QED
  BY <1>1

\* A registry row is filed in the election that its stream is, a version in the
\* election that it names.
Filed(e, r) ==
  /\ r.type = "registry_snapshot" => r.payload.stream = e
  /\ r.type = "evidence_version" => r.payload.stream \in EvidenceIds /\ r.payload.election = e

FiledIn(app) == \A e \in Elections : \A r \in app[e] : Filed(e, r)

Moved(l, ev) == \E q, r \in ToSet(l.versions[ev]) : q.election # r.election

ClashIn(app, e, record) ==
  \E f \in Elections : \E r \in app[f] :
     /\ r.type = record.type /\ r.key = record.key
     /\ f # e \/ r # record

\* The row r of election e is the next of its chain.
Continues(app, e, r) ==
  \E content : r.payload = NextRow(InOrder(RowsIn(app, r.type, r.payload.stream)),
                                   r.payload.stream, e, content)

\* What is so of a row that waits to be inserted: a registry row continues its
\* chain; so does a version, unless it will be refused or the chain was moved.
Waits(app, l, e, r) ==
  /\ Filed(e, r)
  /\ r.type = "registry_snapshot" => Continues(app, e, r)
  /\ r.type = "evidence_version" =>
       \/ Moved(l, r.payload.stream)
       \/ ClashIn(app, e, r)
       \/ /\ Continues(app, e, r)
          /\ \A q \in RowsIn(app, "evidence_version", r.payload.stream) : q.election = e

RegistryChains(app) == \A e \in Elections : IsChain(RowsIn(app, "registry_snapshot", e))

EvidenceChains(app, l) ==
  \A ev \in EvidenceIds :
    \/ Moved(l, ev)
    \/ /\ IsChain(RowsIn(app, "evidence_version", ev))
       /\ OneElection(RowsIn(app, "evidence_version", ev))

LockOf(r) ==
  IF r.type = "registry_snapshot" THEN <<"registry", r.payload.stream>>
  ELSE <<"evidence", r.payload.stream>>

ChainTypes == {"registry_snapshot", "evidence_version"}

\* The row of a call waits under the lock of its stream.
Waiting ==
  \A p \in Processes : tasks[p].op = "insert" =>
    /\ Waits(application, ledger, tasks[p].election, tasks[p].record)
    /\ tasks[p].record.type \in ChainTypes => streams[LockOf(tasks[p].record)] = p

\* The registry of SQLite numbers its rows.
RegistryFits(l) ==
  \A e \in Elections : \A i \in DOMAIN l.registry[e] :
    l.registry[e][i].stream = e /\ l.registry[e][i].version = i

ChainInv ==
  /\ RegistryFits(ledger)
  /\ FiledIn(application)
  /\ RegistryChains(application)
  /\ EvidenceChains(application, ledger)
  /\ Waiting

LEMMA EmptyIsChain == IsChain({}) /\ OneElection({})
<1>1. GoodChain(<<>>) /\ RowSet(<<>>) = {}
  BY EmptySequence DEF GoodChain, RowSet, ChainVerified
<1> QED
  BY <1>1 DEF IsChain, OneElection

LEMMA InitChains == Init => ChainInv
<1> SUFFICES ASSUME Init PROVE ChainInv
  OBVIOUS
<1>1. /\ \A e \in Elections : ledger.registry[e] = <<>> /\ application[e] = {}
      /\ \A p \in Processes : tasks[p] = Idle
  BY DEF Init, EmptyLedger
<1>2. \A type, stream : RowsIn(application, type, stream) = {}
  BY <1>1, RowMembers
<1>3. RegistryFits(ledger) /\ FiledIn(application)
  BY <1>1 DEF RegistryFits, FiledIn
<1>4. RegistryChains(application) /\ EvidenceChains(application, ledger)
  BY <1>2, EmptyIsChain DEF RegistryChains, EvidenceChains
<1>5. Waiting
  BY <1>1 DEF Waiting, Idle
<1> QED
  BY <1>3, <1>4, <1>5 DEF ChainInv

----------------------------------------------------------------------------
(* What the steps leave to a row that waits. *)

AppGrows(app, new) == \A f \in Elections : app[f] \subseteq new[f]
StaysMoved(l, k) == \A ev \in EvidenceIds : Moved(l, ev) => Moved(k, ev)

LEMMA WaitsOn ==
  ASSUME NEW app, NEW new, AppGrows(app, new),
         NEW l, NEW k, StaysMoved(l, k), NEW e, NEW r, Waits(app, l, e, r),
         r.type \in ChainTypes =>
           RowsIn(new, r.type, r.payload.stream) = RowsIn(app, r.type, r.payload.stream)
  PROVE  Waits(new, k, e, r)
<1>1. ClashIn(app, e, r) => ClashIn(new, e, r)
  BY DEF ClashIn, AppGrows
<1>2. r.type \in ChainTypes /\ Continues(app, e, r) => Continues(new, e, r)
  BY DEF Continues
<1> QED
  BY <1>1, <1>2 DEF Waits, ChainTypes, StaysMoved, Filed

\* A lock is kept until its transaction ends.
LEMMA LockHeld ==
  ASSUME CutoverInv, [Next]_vars, NEW p \in Processes, NEW s \in Streams, streams[s] = p,
         tasks'[p] # Idle
  PROVE  streams'[s] = p
<1>1. CASE streams' = streams
  BY <1>1
<1>2. ASSUME NEW q \in Processes, NEW t, LockStream(q, t)
      PROVE  streams'[s] = p
  BY <1>2, CutoverConstants DEF LockStream, CutoverInv, Shape
<1>3. ASSUME NEW q \in Processes, EndTransaction(q)
      PROVE  streams'[s] = p
  <2>1. tasks'[q] = Idle
    BY <1>3 DEF EndTransaction, Become, CutoverInv, Shape
  <2> QED
    BY <1>3, <2>1 DEF EndTransaction
<1>4. \/ streams' = streams
      \/ \E q \in Processes : \E t : LockStream(q, t)
      \/ \E q \in Processes : EndTransaction(q)
  BY DEF Next, vars, LegacyWrite, Attest, LockWrite, CommitWrite, BeginNative, BeginSync,
     BeginMigration, ActivateNative, LockMigration, CommitMigration, WriteSnapshot, Rollback
<1> QED
  BY <1>1, <1>2, <1>3, <1>4

\* Only LockWrite makes a row wait.
LEMMA WaitsBegin ==
  ASSUME CutoverInv, [Next]_vars, NEW p \in Processes, tasks'[p].op = "insert"
  PROVE  tasks'[p] = tasks[p] \/ LockWrite(p)
<1>1. CASE tasks' = tasks
  BY <1>1
<1>2. ASSUME NEW q \in Processes, LockWrite(q)
      PROVE  tasks'[p] = tasks[p] \/ LockWrite(p)
  <2>1. \E task : Become(q, task)
    BY <1>2 DEF LockWrite
  <2> QED
    BY <1>2, <2>1 DEF Become, CutoverInv, Shape
<1>3. ASSUME NEW q \in Processes, NEW task, Become(q, task), task.op # "insert"
      PROVE  tasks'[p] = tasks[p]
  BY <1>3 DEF Become, CutoverInv, Shape
<1>4. ASSUME NEW q \in Processes, EndTransaction(q)
      PROVE  tasks'[p] = tasks[p]
  BY <1>3, <1>4 DEF EndTransaction, Idle
<1>5. ASSUME NEW q \in Processes, NEW e \in Elections, NEW activate,
             BeginNative(q, e) \/ BeginSync(q, e) \/ BeginMigration(q, e, activate)
      PROVE  tasks'[p] = tasks[p]
  BY <1>3, <1>5 DEF BeginNative, BeginSync, BeginMigration
<1>6. ASSUME NEW q \in Processes,
             CommitWrite(q) \/ ActivateNative(q) \/ CommitMigration(q)
             \/ WriteSnapshot(q) \/ Rollback(q)
      PROVE  tasks'[p] = tasks[p]
  BY <1>4, <1>6 DEF CommitWrite, ActivateNative, CommitMigration, WriteSnapshot, Rollback
<1> QED
  BY <1>1, <1>2, <1>5, <1>6 DEF Next, vars, LegacyWrite, Attest, LockMigration

LEMMA MovedForGood ==
  ASSUME SourceInv, [Next]_vars
  PROVE  StaysMoved(ledger, ledger')
<1> SUFFICES ASSUME NEW ev \in EvidenceIds, Moved(ledger, ev)
             PROVE  Moved(ledger', ev)
  BY DEF StaysMoved
<1>1. LegacyWrite \/ ledger' = ledger
  BY DEF Next, vars, Attest, LockWrite, CommitWrite, BeginNative, BeginSync, BeginMigration,
     ActivateNative, LockMigration, CommitMigration, WriteSnapshot, Rollback
<1>2. CASE LegacyWrite
  <2>1. Grows(ledger, ledger')
    BY <1>2, LegacyWriteGrows DEF SourceInv
  <2>2. ToSet(ledger.versions[ev]) \subseteq ToSet(ledger'.versions[ev])
    BY <2>1 DEF Grows, Extends, ToSet
  <2> QED
    BY <2>2 DEF Moved
<1> QED
  BY <1>1, <1>2

----------------------------------------------------------------------------
(* A call with the lock of its stream makes the next row of the chain. *)

LEMMA SnapshotWaits ==
  ASSUME NEW t, t.election \in Elections, NEW row \in SnapshotRow(t)
  PROVE  /\ Waits(application, ledger, row[1], row[2])
         /\ LockOf(row[2]) = <<"registry", t.election>>
<1> DEFINE e == t.election
           rows == RowsIn(application, "registry_snapshot", e)
           next == NextRow(InOrder(rows), e, e, t.content)
           r == row[2]
<1>1. row = <<e, [type |-> "registry_snapshot", key |-> <<e, next.version>>, payload |-> next]>>
  BY RowsAreRowsIn DEF SnapshotRow, Chain
<1>2. next.stream = e
  BY DEF NextRow
<1> HIDE DEF next
<1>3. row[1] = e /\ r.type = "registry_snapshot" /\ r.payload = next
  BY <1>1
<1> HIDE DEF r, rows
<1>4. r.payload = NextRow(InOrder(rows), e, e, t.content)
  BY <1>3 DEF next
<1>5. Continues(application, e, r)
  BY <1>2, <1>3, <1>4 DEF Continues, rows
<1> QED
  BY <1>2, <1>3, <1>5 DEF Waits, Filed, LockOf, r

LEMMA IngestWaits ==
  ASSUME ChainInv, NEW t, t.election \in Elections, NEW ev \in EvidenceIds,
         t.stream = <<"evidence", ev>>, NEW row \in IngestRow(t)
  PROVE  /\ Waits(application, ledger, row[1], row[2])
         /\ LockOf(row[2]) = <<"evidence", ev>>
<1> DEFINE e == t.election
           rows == RowsIn(application, "evidence_version", ev)
           chain == InOrder(rows)
           previous == IF chain = <<>> THEN 0 ELSE Last(chain).version
           prev == LinkHash(chain)
           body == [stream |-> ev, version |-> previous + 1, election |-> e,
                    content |-> t.content]
           new == [stream |-> ev, version |-> previous + 1, election |-> e,
                   content |-> t.content, prev |-> prev, hash |-> HashRecord(prev, body)]
           r == row[2]
<1>1. /\ chain = <<>> \/ Last(chain).election = e
      /\ row = <<e, [type |-> "evidence_version", key |-> <<ev, new.version>>, payload |-> new]>>
  BY RowsAreRowsIn DEF IngestRow, Chain
<1>2. new.stream = ev /\ new.election = e
  OBVIOUS
<1>3. CASE Moved(ledger, ev)
  <2> HIDE DEF new
  <2>1. row[1] = e /\ r.type = "evidence_version" /\ r.payload = new
    BY <1>1
  <2> QED
    BY <1>2, <1>3, <2>1 DEF Waits, Filed, LockOf
<1>4. CASE ~Moved(ledger, ev)
  <2>1. IsChain(rows) /\ OneElection(rows)
    BY <1>4 DEF ChainInv, EvidenceChains
  <2>2. PICK c : GoodChain(c) /\ rows = RowSet(c)
    BY <2>1 DEF IsChain
  <2>3. chain = c
    BY <2>2, Ordered
  <2>4. PICK S : c \in Seq(S)
    BY <2>2 DEF GoodChain, IsSeq
  <2>5. c = <<>> \/ (Len(c) \in DOMAIN c /\ Last(c) = c[Len(c)])
    BY <2>4 DEF Last
  <2>6. previous = Len(c)
    BY <2>2, <2>3, <2>4, <2>5 DEF GoodChain
  <2>7. new = NextRow(chain, ev, e, t.content)
    BY <2>3, <2>6 DEF NextRow
  <2>8. \A q \in rows : q.election = e
    <3>1. CASE c = <<>>
      BY <2>2, <3>1 DEF RowSet
    <3>2. CASE c # <<>>
      <4>1. Last(c) \in rows /\ Last(c).election = e
        BY <1>1, <2>2, <2>3, <2>5, <3>2 DEF RowSet
      <4> QED
        BY <2>1, <4>1 DEF OneElection
    <3> QED
      BY <3>1, <3>2
  <2> HIDE DEF new, rows
  <2>9. row[1] = e /\ r.type = "evidence_version" /\ r.payload = new
    BY <1>1
  <2> HIDE DEF r
  <2>10. Continues(application, e, r)
    BY <1>2, <2>7, <2>9 DEF Continues, rows
  <2>11. Waits(application, ledger, e, r)
    BY <1>2, <2>8, <2>9, <2>10 DEF Waits, Filed, rows
  <2> QED
    BY <1>2, <2>9, <2>11 DEF LockOf, r
<1> QED
  BY <1>3, <1>4

LEMMA CallsWait ==
  ASSUME ChainInv, NEW call \in Calls, NEW row \in RowOf(call)
  PROVE  /\ Waits(application, ledger, row[1], row[2])
         /\ row[2].type \in ChainTypes => LockOf(row[2]) = call.stream /\ call.stream \in Streams
<1>1. ASSUME call.op = "snapshot", NEW e \in Elections, call.election = e,
             call.stream = <<"registry", e>>
      PROVE  /\ Waits(application, ledger, row[1], row[2])
             /\ LockOf(row[2]) = call.stream /\ call.stream \in Streams
  <2>1. row \in SnapshotRow(call)
    BY <1>1 DEF RowOf
  <2>2. call.stream \in Streams
    BY <1>1 DEF Streams
  <2> QED
    BY <1>1, <2>1, <2>2, SnapshotWaits
<1>2. ASSUME call.op = "ingest", call.election \in Elections, NEW ev \in EvidenceIds,
             call.stream = <<"evidence", ev>>
      PROVE  /\ Waits(application, ledger, row[1], row[2])
             /\ LockOf(row[2]) = call.stream /\ call.stream \in Streams
  <2>1. row \in IngestRow(call)
    BY <1>2 DEF RowOf
  <2>2. call.stream \in Streams
    BY <1>2 DEF Streams
  <2> QED
    BY <1>2, <2>1, <2>2, IngestWaits
<1>3. ASSUME call.op = "extract"
      PROVE  Waits(application, ledger, row[1], row[2]) /\ row[2].type \notin ChainTypes
  <2>1. row \in ExtractRow(call)
    BY <1>3 DEF RowOf
  <2>2. row[2].type = "extraction"
    BY <2>1 DEF ExtractRow
  <2> QED
    BY <2>2 DEF Waits, Filed, ChainTypes
<1>4. ASSUME call.op = "review"
      PROVE  Waits(application, ledger, row[1], row[2]) /\ row[2].type \notin ChainTypes
  <2>1. row \in ReviewRow(call)
    BY <1>4 DEF RowOf
  <2>2. row[2].type = "extraction_review"
    BY <2>1 DEF ReviewRow
  <2> QED
    BY <2>2 DEF Waits, Filed, ChainTypes
<1>5. \/ /\ call.op = "snapshot"
         /\ \E e \in Elections : call.election = e /\ call.stream = <<"registry", e>>
      \/ /\ call.op = "ingest" /\ call.election \in Elections
         /\ \E ev \in EvidenceIds : call.stream = <<"evidence", ev>>
      \/ call.op = "extract"
      \/ call.op = "review"
  BY DEF Calls
<1> QED
  BY <1>1, <1>2, <1>3, <1>4, <1>5

----------------------------------------------------------------------------
(* A commit of a row: the chain of its stream is one longer. *)

LEMMA SameLock ==
  ASSUME NEW q, NEW r, q.type \in ChainTypes, r.type = q.type,
         r.payload.stream = q.payload.stream
  PROVE  LockOf(q) = LockOf(r)
  BY DEF LockOf

LEMMA CommitsContinue ==
  ASSUME CutoverInv, SourceInv, ViewInv, ChainInv, [Next]_vars, NEW p \in Processes, CommitWrite(p)
  PROVE  /\ FiledIn(application')
         /\ RegistryChains(application')
         /\ EvidenceChains(application', ledger')
         /\ \A q \in Processes \ {p} : tasks[q].op = "insert" =>
              Waits(application', ledger', tasks[q].election, tasks[q].record)
<1> DEFINE e == tasks[p].election
           r == tasks[p].record
           stream == r.payload.stream
<1>1. /\ tasks[p].op = "insert" /\ ~Clashes(e, r)
      /\ application' = [application EXCEPT ![e] = @ \cup {r}] /\ ledger' = ledger
  BY DEF CommitWrite
<1>2. e \in Elections /\ Waits(application, ledger, e, r)
      /\ (r.type \in ChainTypes => streams[LockOf(r)] = p)
  BY <1>1 DEF ViewInv, InsertsFit, ChainInv, Waiting
<1>3. /\ application'[e] = application[e] \cup {r}
      /\ \A f \in Elections \ {e} : application'[f] = application[f]
  BY <1>1, <1>2 DEF CutoverInv, Shape
<1> HIDE DEF e, r, stream
<1>a. PICK after : after = application'
  OBVIOUS
<1>b. ASSUME NEW type, NEW s
      PROVE  /\ type # r.type \/ s # stream =>
                  RowsIn(after, type, s) = RowsIn(application, type, s)
             /\ type = r.type /\ s = stream =>
                  RowsIn(after, type, s) = RowsIn(application, type, s) \cup {r.payload}
  <2>1. RowAdded(application, after, e, r)
    BY <1>2, <1>3, <1>a DEF RowAdded
  <2> QED
    BY <2>1, RowsAdded DEF stream
<1>4. \A type, s : type # r.type \/ s # stream =>
        RowsIn(application', type, s) = RowsIn(application, type, s)
  BY <1>a, <1>b
<1>5. RowsIn(application', r.type, stream) =
        RowsIn(application, r.type, stream) \cup {r.payload}
  BY <1>a, <1>b
<1> USE DEF stream
<1>6. FiledIn(application')
  BY <1>2, <1>3 DEF ChainInv, FiledIn, Waits
<1>7. RegistryChains(application')
  <2> SUFFICES ASSUME NEW f \in Elections
               PROVE  IsChain(RowsIn(application', "registry_snapshot", f))
    BY DEF RegistryChains
  <2>1. IsChain(RowsIn(application, "registry_snapshot", f))
    BY DEF ChainInv, RegistryChains
  <2>2. CASE r.type = "registry_snapshot" /\ f = stream
    BY <1>2, <1>5, <2>1, <2>2, NextRowContinues DEF Waits, Continues
  <2>3. CASE r.type # "registry_snapshot" \/ f # stream
    BY <1>4, <2>1, <2>3
  <2> QED
    BY <2>2, <2>3
<1>8. EvidenceChains(application', ledger')
  <2> SUFFICES ASSUME NEW ev \in EvidenceIds, ~Moved(ledger, ev)
               PROVE  /\ IsChain(RowsIn(application', "evidence_version", ev))
                      /\ OneElection(RowsIn(application', "evidence_version", ev))
    BY <1>1 DEF EvidenceChains
  <2> DEFINE rows == RowsIn(application, "evidence_version", ev)
  <2>1. IsChain(rows) /\ OneElection(rows)
    BY DEF ChainInv, EvidenceChains
  <2>2. CASE r.type = "evidence_version" /\ ev = stream
    <3>1. ~ClashIn(application, e, r)
      BY <1>1 DEF Clashes, ClashIn, e, r
    <3>2. Continues(application, e, r) /\ r.payload.election = e
          /\ \A q \in rows : q.election = e
      BY <1>2, <2>2, <3>1 DEF Waits, Filed
    <3>3. IsChain(rows \cup {r.payload})
      BY <2>1, <2>2, <3>2, NextRowContinues DEF Continues
    <3>4. OneElection(rows \cup {r.payload})
      BY <3>2 DEF OneElection
    <3> QED
      BY <1>5, <2>2, <3>3, <3>4
  <2>3. CASE r.type # "evidence_version" \/ ev # stream
    BY <1>4, <2>1, <2>3
  <2> QED
    BY <2>2, <2>3
<1>9. ASSUME NEW q \in Processes \ {p}, tasks[q].op = "insert"
      PROVE  Waits(application', ledger', tasks[q].election, tasks[q].record)
  <2> DEFINE x == tasks[q].record
  <2>1. /\ Waits(application, ledger, tasks[q].election, x)
        /\ x.type \in ChainTypes => streams[LockOf(x)] = q
    BY <1>9 DEF ChainInv, Waiting
  <2>2. x.type \in ChainTypes => x.type # r.type \/ x.payload.stream # stream
    BY <1>2, <2>1, SameLock
  <2>3. AppGrows(application, after)
    BY <1>a, PlacesGrow DEF AppGrows
  <2>4. StaysMoved(ledger, ledger)
    BY DEF StaysMoved
  <2> HIDE DEF x
  <2>5. x.type \in ChainTypes =>
          RowsIn(after, x.type, x.payload.stream) =
            RowsIn(application, x.type, x.payload.stream)
    BY <1>b, <2>2
  <2>6. Waits(after, ledger, tasks[q].election, x)
    BY <2>1, <2>3, <2>4, <2>5, WaitsOn
  <2> QED
    BY <1>a, <1>1, <2>6 DEF x
<1> QED
  BY <1>6, <1>7, <1>8, <1>9

----------------------------------------------------------------------------
(* A migration files the chains of one election. *)

LEMMA RecordsFiled ==
  ASSUME NEW l, LegacyFits(l), RegistryFits(l), NEW e \in Elections, NEW r \in Records(l, e)
  PROVE  Filed(e, r)
<1>1. CASE r.type = "registry_snapshot"
  BY <1>1, RecordForms DEF Filed, RegistryFits
<1>2. CASE r.type = "evidence_version"
  <2>1. PICK ev \in EvidenceIds : \E i \in DOMAIN l.versions[ev] :
          l.versions[ev][i].election = e /\ r.payload = l.versions[ev][i]
    BY <1>2, RecordForms
  <2>2. \A i \in DOMAIN l.versions[ev] : l.versions[ev][i].stream = ev
    BY DEF LegacyFits
  <2> QED
    BY <1>2, <2>1, <2>2 DEF Filed
<1> QED
  BY <1>1, <1>2 DEF Filed

LEMMA RegistryMembers ==
  ASSUME NEW app, FiledIn(app), NEW e \in Elections, NEW x
  PROVE  x \in RowsIn(app, "registry_snapshot", e) <=>
           \E r \in app[e] : r.type = "registry_snapshot" /\ x = r.payload
BY RowMembers DEF FiledIn, Filed

Copied(app, new, l, e) ==
  /\ e \in Elections
  /\ app[e] \subseteq Records(l, e)
  /\ new[e] = Records(l, e)
  /\ \A f \in Elections \ {e} : new[f] = app[f]
  /\ \A r \in Records(l, e) : ~ClashIn(app, e, r)

LEMMA CopiedIsFiled ==
  ASSUME NEW app, NEW new, NEW l, NEW e, Copied(app, new, l, e),
         LegacyFits(l), RegistryFits(l), FiledIn(app)
  PROVE  FiledIn(new) /\ AppGrows(app, new)
BY RecordsFiled DEF FiledIn, Copied, AppGrows

LEMMA CopiedRegistry ==
  ASSUME NEW app, NEW new, NEW l, NEW e, Copied(app, new, l, e),
         LegacyFits(l), RegistryFits(l), FiledIn(app), RegistryChains(app)
  PROVE  /\ RegistryChains(new)
         /\ \A f \in Elections \ {e} :
              RowsIn(new, "registry_snapshot", f) = RowsIn(app, "registry_snapshot", f)
<1>1. FiledIn(new)
  BY CopiedIsFiled
<1>2. ASSUME NEW f \in Elections \ {e}
      PROVE  RowsIn(new, "registry_snapshot", f) = RowsIn(app, "registry_snapshot", f)
  <2>1. new[f] = app[f]
    BY DEF Copied
  <2>2. \A x : x \in RowsIn(new, "registry_snapshot", f)
               <=> x \in RowsIn(app, "registry_snapshot", f)
    BY <1>1, <2>1, RegistryMembers
  <2> QED
    BY <2>2
<1>3. IsChain(RowsIn(new, "registry_snapshot", e))
  <2> DEFINE c == l.registry[e]
  <2>1. e \in Elections /\ new[e] = Records(l, e)
    BY DEF Copied
  <2>2. GoodChain(c)
    BY <2>1 DEF GoodChain, LegacyFits, LedgerOK, LedgerFits, RegistryFits
  <2>3. ASSUME NEW x
        PROVE  (\E r \in Records(l, e) : r.type = "registry_snapshot" /\ x = r.payload)
               <=> x \in RowSet(c)
    <3>1. ASSUME NEW i \in DOMAIN c, x = c[i]
          PROVE  \E r \in Records(l, e) : r.type = "registry_snapshot" /\ x = r.payload
      <4> DEFINE r == [type |-> "registry_snapshot", key |-> <<e, i>>, payload |-> c[i]]
      <4>1. r \in SnapshotRecords(l, e)
        BY DEF SnapshotRecords
      <4>2. r \in Records(l, e) /\ r.type = "registry_snapshot" /\ r.payload = x
        BY <3>1, <4>1 DEF Records
      <4> QED
        BY <4>2
    <3>2. ASSUME NEW r \in Records(l, e), r.type = "registry_snapshot", x = r.payload
          PROVE  x \in RowSet(c)
      BY <3>2, RecordForms DEF RowSet
    <3> QED
      BY <3>1, <3>2 DEF RowSet
  <2> HIDE DEF c
  <2>4. \A x : x \in RowsIn(new, "registry_snapshot", e) <=> x \in RowSet(c)
    BY <1>1, <2>1, <2>3, RegistryMembers
  <2>5. RowsIn(new, "registry_snapshot", e) = RowSet(c)
    BY <2>4
  <2> QED
    BY <2>2, <2>5 DEF IsChain
<1> QED
  BY <1>2, <1>3 DEF RegistryChains

\* The versions of an evidence id that SQLite has not moved: either the
\* migration copies none of them, or all, and then none had been filed before
\* in another election.
LEMMA CopiedVersions ==
  ASSUME NEW app, NEW new, NEW l, NEW e, Copied(app, new, l, e),
         LegacyFits(l), RegistryFits(l), FiledIn(app),
         \A f \in Elections : \A r \in app[f] : Named(r),
         NEW ev \in EvidenceIds, ~Moved(l, ev),
         IsChain(RowsIn(app, "evidence_version", ev)),
         OneElection(RowsIn(app, "evidence_version", ev))
  PROVE  \/ RowsIn(new, "evidence_version", ev) = RowsIn(app, "evidence_version", ev)
         \/ /\ IsChain(RowsIn(new, "evidence_version", ev))
            /\ OneElection(RowsIn(new, "evidence_version", ev))
            /\ \A q \in RowsIn(app, "evidence_version", ev) : q.election = e
            /\ \E r \in new[e] : r.type = "evidence_version" /\ r.key = <<ev, 1>>
<1> DEFINE rows == RowsIn(app, "evidence_version", ev)
           after == RowsIn(new, "evidence_version", ev)
           c == l.versions[ev]
           source == Records(l, e)
           Copy(i) == [type |-> "evidence_version", key |-> <<ev, i>>, payload |-> c[i]]
<1>1. /\ e \in Elections /\ app[e] \subseteq source /\ new[e] = source
      /\ \A f \in Elections \ {e} : new[f] = app[f]
      /\ \A r \in source : ~ClashIn(app, e, r)
  BY DEF Copied
<1>2. GoodChain(c)
  BY DEF GoodChain, LegacyFits, LedgerOK, LedgerFits
<1>3. PICK S : c \in Seq(S)
  BY <1>2 DEF GoodChain, IsSeq
<1>4. \A i, j \in DOMAIN c : c[i].election = c[j].election
  BY DEF Moved, ToSet
<1>5. \A r \in source : r.type = "evidence_version" /\ r.payload.stream = ev =>
        \E i \in DOMAIN c : c[i].election = e /\ r.payload = c[i]
  BY RecordForms DEF LegacyFits
<1>6. CASE \A i \in DOMAIN c : c[i].election # e
  <2>1. \A r \in source : ~(r.type = "evidence_version" /\ r.payload.stream = ev)
    BY <1>5, <1>6
  <2> HIDE DEF source
  <2>2. \A x : x \in after <=> x \in rows
    BY <1>1, <2>1, RowMembers
  <2> HIDE DEF after, rows
  <2>3. after = rows
    BY <2>2
  <2> QED
    BY <2>3 DEF after, rows
<1>7. CASE \E i \in DOMAIN c : c[i].election = e
  <2>1. 1 \in DOMAIN c /\ \A i \in DOMAIN c : c[i].election = e
    BY <1>3, <1>4, <1>7
  <2>2. \A i \in DOMAIN c : /\ Copy(i) \in source /\ Copy(i).type = "evidence_version"
                            /\ Copy(i).payload = c[i] /\ Copy(i).key = <<ev, i>>
                            /\ c[i].stream = ev
    <3> SUFFICES ASSUME NEW i \in DOMAIN c
                 PROVE  /\ Copy(i) \in source /\ Copy(i).type = "evidence_version"
                        /\ Copy(i).payload = c[i] /\ Copy(i).key = <<ev, i>>
                        /\ c[i].stream = ev
      OBVIOUS
    <3>1. Copy(i) \in VersionRecords(l, e)
      BY <2>1 DEF VersionRecords
    <3> QED
      BY <3>1 DEF Records, LegacyFits
  <2> HIDE DEF Copy
  <2>3. ASSUME NEW f \in Elections \ {e}, NEW q \in app[f],
               q.type = "evidence_version", q.payload.stream = ev
        PROVE  FALSE
    <3>1. q.payload \in rows
      BY <2>3, RowMembers
    <3>2. PICK x \in rows : x.version = 1
      BY <3>1, ChainsStartAtOne
    <3>3. PICK g \in Elections : \E r \in app[g] :
            r.type = "evidence_version" /\ r.payload.stream = ev /\ x = r.payload
      BY <3>2, RowMembers
    <3>4. PICK r \in app[g] :
            r.type = "evidence_version" /\ r.payload.stream = ev /\ x = r.payload
      BY <3>3
    <3>5. x.election = g /\ q.payload.election = f
      BY <2>3, <3>4 DEF FiledIn, Filed
    <3>6. g = f
      BY <3>1, <3>2, <3>5 DEF OneElection
    <3>7. r.key = <<ev, 1>>
      BY <3>2, <3>4 DEF Named
    <3>8. ClashIn(app, e, Copy(1))
      BY <2>1, <2>2, <3>4, <3>6, <3>7 DEF ClashIn
    <3> QED
      BY <1>1, <2>1, <2>2, <3>8
  <2> HIDE DEF source
  <2>4. \A x : x \in after <=> x \in RowSet(c)
    <3>1. ASSUME NEW x \in after PROVE x \in RowSet(c)
      <4>1. PICK f \in Elections : \E r \in new[f] :
              r.type = "evidence_version" /\ r.payload.stream = ev /\ x = r.payload
        BY RowMembers
      <4>2. f = e
        BY <1>1, <2>3, <4>1
      <4> QED
        BY <1>1, <1>5, <4>1, <4>2 DEF RowSet
    <3>2. ASSUME NEW i \in DOMAIN c PROVE c[i] \in after
      BY <1>1, <2>2, RowMembers
    <3> QED
      BY <3>1, <3>2 DEF RowSet
  <2>5. \A q \in rows : q.election = e
    <3> SUFFICES ASSUME NEW q \in rows PROVE q.election = e
      OBVIOUS
    <3>1. PICK f \in Elections : \E r \in app[f] :
            r.type = "evidence_version" /\ r.payload.stream = ev /\ q = r.payload
      BY RowMembers
    <3>2. f = e
      BY <2>3, <3>1
    <3> QED
      BY <3>1, <3>2 DEF FiledIn, Filed
  <2>6. \E r \in new[e] : r.type = "evidence_version" /\ r.key = <<ev, 1>>
    BY <1>1, <2>1, <2>2
  <2> HIDE DEF after, rows, c
  <2>7. after = RowSet(c)
    BY <2>4
  <2>8. IsChain(after)
    BY <1>2, <2>7 DEF IsChain
  <2>9. OneElection(after)
    BY <2>1, <2>7 DEF OneElection, RowSet
  <2> QED
    BY <2>5, <2>6, <2>8, <2>9 DEF after, rows
<1> QED
  BY <1>6, <1>7

LEMMA WaitsOverCopy ==
  ASSUME NEW app, NEW new, NEW l, NEW e, Copied(app, new, l, e),
         LegacyFits(l), RegistryFits(l), FiledIn(app),
         \A f \in Elections : \A r \in app[f] : Named(r),
         RegistryChains(app), EvidenceChains(app, l),
         NEW g \in Elections \ {e}, NEW x, Named(x), Waits(app, l, g, x)
  PROVE  Waits(new, l, g, x)
<1> DEFINE ev == x.payload.stream
           rows == RowsIn(app, "evidence_version", ev)
<1>1. AppGrows(app, new) /\ StaysMoved(l, l)
  BY CopiedIsFiled DEF StaysMoved
<1>2. CASE x.type \notin ChainTypes
  BY <1>1, <1>2, WaitsOn
<1>3. CASE x.type = "registry_snapshot"
  <2>1. x.payload.stream = g
    BY <1>3 DEF Waits, Filed
  <2>2. RowsIn(new, x.type, x.payload.stream) = RowsIn(app, x.type, x.payload.stream)
    BY <1>3, <2>1, CopiedRegistry
  <2> QED
    BY <1>1, <2>2, WaitsOn
<1>4. CASE x.type = "evidence_version" /\ RowsIn(new, x.type, ev) = RowsIn(app, x.type, ev)
  BY <1>1, <1>4, WaitsOn
<1>5. CASE x.type = "evidence_version" /\ RowsIn(new, x.type, ev) # RowsIn(app, x.type, ev)
  <2>1. Filed(g, x) /\ ev \in EvidenceIds
    BY <1>5 DEF Waits, Filed
  <2>2. CASE Moved(l, ev) \/ ClashIn(app, g, x)
    BY <1>1, <1>5, <2>1, <2>2 DEF Waits, ClashIn, AppGrows
  <2>3. CASE ~Moved(l, ev) /\ ~ClashIn(app, g, x)
    <3>1. Continues(app, g, x) /\ \A q \in rows : q.election = g
      BY <1>5, <2>3 DEF Waits
    <3>2. IsChain(rows) /\ OneElection(rows)
      BY <2>1, <2>3 DEF EvidenceChains
    <3>3. /\ \A q \in rows : q.election = e
          /\ \E r \in new[e] : r.type = "evidence_version" /\ r.key = <<ev, 1>>
      BY <1>5, <2>1, <2>3, <3>2, CopiedVersions
    <3>4. rows = {}
      BY <3>1, <3>3
    <3>5. InOrder(RowsIn(app, x.type, ev)) = <<>>
      BY <1>5, <3>4, NoRows
    <3>6. PICK content : x.payload = NextRow(<<>>, ev, g, content)
      BY <3>1, <3>5 DEF Continues
    <3>7. x.payload.version = 1
      BY <3>6 DEF NextRow
    <3>8. x.key = <<ev, 1>>
      BY <1>5, <3>7 DEF Named
    <3>9. e \in Elections
      BY DEF Copied
    <3>10. ClashIn(new, g, x)
      BY <1>5, <3>3, <3>8, <3>9 DEF ClashIn
    <3> QED
      BY <1>5, <2>1, <3>10 DEF Waits
  <2> QED
    BY <2>2, <2>3
<1> QED
  BY <1>2, <1>3, <1>4, <1>5 DEF ChainTypes

----------------------------------------------------------------------------
(* Every step. *)

\* Steps that add no row to a chain.
RowsKept(app, new) ==
  \A type \in ChainTypes : \A s : RowsIn(new, type, s) = RowsIn(app, type, s)

LEMMA OthersContinue ==
  ASSUME CutoverInv, SourceInv, ChainInv, [Next]_vars, RowsKept(application, application')
  PROVE  /\ RegistryChains(application')
         /\ EvidenceChains(application', ledger')
         /\ \A q \in Processes : tasks[q].op = "insert" =>
              Waits(application', ledger', tasks[q].election, tasks[q].record)
<1>1. PICK after : after = application'
  OBVIOUS
<1>2. PICK later : later = ledger'
  OBVIOUS
<1>3. AppGrows(application, after) /\ StaysMoved(ledger, later)
  BY <1>1, <1>2, PlacesGrow, MovedForGood DEF AppGrows
<1>4. \A type \in ChainTypes : \A s : RowsIn(after, type, s) = RowsIn(application, type, s)
  BY <1>1 DEF RowsKept
<1>5. RegistryChains(after)
  BY <1>4 DEF ChainInv, RegistryChains, ChainTypes
<1>6. EvidenceChains(after, later)
  BY <1>3, <1>4 DEF ChainInv, EvidenceChains, ChainTypes, StaysMoved
<1>7. ASSUME NEW q \in Processes, tasks[q].op = "insert"
      PROVE  Waits(after, later, tasks[q].election, tasks[q].record)
  <2>1. Waits(application, ledger, tasks[q].election, tasks[q].record)
    BY <1>7 DEF ChainInv, Waiting
  <2> QED
    BY <1>3, <1>4, <2>1, WaitsOn
<1> QED
  BY <1>1, <1>2, <1>5, <1>6, <1>7

LEMMA MigrationContinues ==
  ASSUME CutoverInv, SourceInv, GateInv, ViewInv, ChainInv, [Next]_vars,
         NEW p \in Processes, CommitMigration(p)
  PROVE  /\ FiledIn(application')
         /\ RegistryChains(application')
         /\ EvidenceChains(application', ledger')
         /\ \A q \in Processes : tasks[q].op = "insert" =>
              Waits(application', ledger', tasks[q].election, tasks[q].record)
<1> DEFINE e == tasks[p].election
<1>1. /\ e \in Elections /\ tasks[p].source = Records(ledger, e) /\ ledger' = ledger
      /\ application[e] \subseteq tasks[p].source
      /\ \A r \in tasks[p].source : ~Clashes(e, r)
  BY DEF CommitMigration, SourceInv, SourceIsCurrent, CutoverInv, Locked
<1>2. /\ application'[e] = tasks[p].source
      /\ \A f \in Elections \ {e} : application'[f] = application[f]
  BY <1>1 DEF CommitMigration, CutoverInv, Shape
<1> HIDE DEF e
<1>3. PICK after : after = application'
  OBVIOUS
<1>4. CASE Enabled(e)
  <2>1. \A f \in Elections : after[f] = application[f]
    BY <1>1, <1>2, <1>3, <1>4, CommitMigrationKeeps
  <2>2. \A type, s : RowsIn(after, type, s) = RowsIn(application, type, s)
    <3> SUFFICES ASSUME NEW type, NEW s
                 PROVE  RowsIn(after, type, s) = RowsIn(application, type, s)
      OBVIOUS
    <3>1. \A x : x \in RowsIn(after, type, s) <=> x \in RowsIn(application, type, s)
      BY <2>1, RowMembers
    <3> QED
      BY <3>1
  <2>3. FiledIn(after)
    BY <2>1 DEF ChainInv, FiledIn
  <2>4. RowsKept(application, after)
    BY <2>2 DEF RowsKept
  <2> QED
    BY <1>3, <2>3, <2>4, OthersContinue
<1>5. CASE ~Enabled(e)
  <2>1. \A r : Clashes(e, r) <=> ClashIn(application, e, r)
    BY DEF Clashes, ClashIn
  <2>2. Copied(application, after, ledger, e)
    BY <1>1, <1>2, <1>3, <2>1 DEF Copied
  <2>3. /\ LegacyFits(ledger) /\ RegistryFits(ledger) /\ FiledIn(application)
        /\ RegistryChains(application) /\ EvidenceChains(application, ledger)
        /\ \A f \in Elections : \A r \in application[f] : Named(r)
    BY DEF ViewInv, AppFits, ChainInv
  <2>4. FiledIn(after)
    BY <2>2, <2>3, CopiedIsFiled
  <2>5. RegistryChains(after)
    BY <2>2, <2>3, CopiedRegistry
  <2>6. EvidenceChains(after, ledger)
    <3> SUFFICES ASSUME NEW ev \in EvidenceIds, ~Moved(ledger, ev)
                 PROVE  /\ IsChain(RowsIn(after, "evidence_version", ev))
                        /\ OneElection(RowsIn(after, "evidence_version", ev))
      BY DEF EvidenceChains
    <3>1. /\ IsChain(RowsIn(application, "evidence_version", ev))
          /\ OneElection(RowsIn(application, "evidence_version", ev))
      BY <2>3 DEF EvidenceChains
    <3> QED
      BY <2>2, <2>3, <3>1, CopiedVersions
  <2>7. ASSUME NEW q \in Processes, tasks[q].op = "insert"
        PROVE  Waits(after, ledger, tasks[q].election, tasks[q].record)
    <3>1. /\ tasks[q].election \in Elections /\ Named(tasks[q].record)
          /\ Waits(application, ledger, tasks[q].election, tasks[q].record)
      BY <2>7 DEF ViewInv, InsertsFit, ChainInv, Waiting
    <3>2. tasks[q].election # e
      BY <1>5, <2>7, <3>1 DEF GateInv, InsertsAreGated
    <3> QED
      BY <2>2, <2>3, <3>1, <3>2, WaitsOverCopy
  <2> QED
    BY <1>1, <1>3, <2>4, <2>5, <2>6, <2>7
<1> QED
  BY <1>4, <1>5

LEMMA AttestContinues ==
  ASSUME CutoverInv, SourceInv, ChainInv, [Next]_vars, Attest
  PROVE  FiledIn(application') /\ RowsKept(application, application')
<1>0. PICK v \in Stored("evidence_version"), actor \in Actors :
        LET e == ElectionOf(v)
            record == [type |-> "attestation",
                       key |-> <<v.payload.stream, v.payload.version, "sha256", actor>>,
                       payload |-> [evidence |-> v.payload.stream,
                                    version |-> v.payload.version, actor |-> actor,
                                    hash |-> v.payload.hash]]
        IN  application' = [application EXCEPT ![e] = @ \cup {record}]
  BY DEF Attest, AttestationElection
<1> DEFINE e == ElectionOf(v)
           record == [type |-> "attestation",
                      key |-> <<v.payload.stream, v.payload.version, "sha256", actor>>,
                      payload |-> [evidence |-> v.payload.stream,
                                   version |-> v.payload.version, actor |-> actor,
                                   hash |-> v.payload.hash]]
<1>1. /\ application' = [application EXCEPT ![e] = @ \cup {record}]
      /\ record.type = "attestation"
  BY <1>0
<1> HIDE DEF record
<1>2. e \in Elections
  BY StoredRecords
<1>3. PICK after : after = application'
  OBVIOUS
<1>4. after[e] = application[e] \cup {record}
      /\ \A f \in Elections \ {e} : after[f] = application[f]
  BY <1>1, <1>2, <1>3 DEF CutoverInv, Shape
<1> HIDE DEF e
<1>5. RowAdded(application, after, e, record)
  BY <1>2, <1>4 DEF RowAdded
<1>6. \A type \in ChainTypes : \A s : RowsIn(after, type, s) = RowsIn(application, type, s)
  <2> SUFFICES ASSUME NEW type \in ChainTypes, NEW s
               PROVE  RowsIn(after, type, s) = RowsIn(application, type, s)
    OBVIOUS
  <2>1. record.type # type
    BY <1>1 DEF ChainTypes
  <2> QED
    BY <1>5, <2>1, RowsAdded
<1>7. Filed(e, record)
  BY <1>1 DEF Filed
<1>8. FiledIn(after)
  BY <1>4, <1>7 DEF ChainInv, FiledIn
<1> QED
  BY <1>3, <1>6, <1>8 DEF RowsKept

LEMMA StepRegistryFits ==
  ASSUME SourceInv, RegistryFits(ledger), [Next]_vars
  PROVE  RegistryFits(ledger')
<1>1. LegacyWrite \/ ledger' = ledger
  BY DEF Next, vars, Attest, LockWrite, CommitWrite, BeginNative, BeginSync, BeginMigration,
     ActivateNative, LockMigration, CommitMigration, WriteSnapshot, Rollback
<1>2. ASSUME NEW e \in Elections, NEW d, Legacy!AppendSnapshot(e, d)
      PROVE  RegistryFits(ledger')
  <2> DEFINE c == ledger.registry[e]
             row == NextRow(c, e, e, d)
  <2>1. ledger' = WithSnapshot(ledger, e, d)
    BY <1>2, SameSnapshot DEF Legacy!AppendSnapshot
  <2>2. /\ ledger'.registry[e] = Append(c, row)
        /\ \A f \in Elections \ {e} : ledger'.registry[f] = ledger.registry[f]
    BY <2>1, SnapshotTables DEF SourceInv
  <2>3. row.stream = e /\ row.version = Len(c) + 1
    BY DEF NextRow
  <2>4. PICK S : c \in Seq(S)
    BY DEF SourceInv, LedgerOK, IsSeq
  <2>5. \A i \in DOMAIN c : c[i].stream = e /\ c[i].version = i
    BY DEF RegistryFits
  <2> HIDE DEF c, row
  <2>6. /\ Len(c) \in Nat /\ DOMAIN c = 1..Len(c)
        /\ DOMAIN Append(c, row) = 1..(Len(c) + 1)
        /\ \A i \in 1..Len(c) : Append(c, row)[i] = c[i]
        /\ Append(c, row)[Len(c) + 1] = row
    BY <2>4
  <2>7. ASSUME NEW i \in DOMAIN Append(c, row)
        PROVE  Append(c, row)[i].stream = e /\ Append(c, row)[i].version = i
    <3>1. i \in 1..Len(c) \/ i = Len(c) + 1
      BY <2>6
    <3> QED
      BY <2>3, <2>5, <2>6, <3>1
  <2> QED
    BY <2>2, <2>7 DEF RegistryFits
<1>3. ASSUME NEW ev \in EvidenceIds, NEW e, NEW a, Legacy!AppendVersion(ev, e, a)
      PROVE  ledger'.registry = ledger.registry
  BY <1>3, SameVersion, VersionTables DEF Legacy!AppendVersion, SourceInv
<1>4. ASSUME NEW ev, NEW v, NEW actor, Legacy!Attest(ev, v, actor)
      PROVE  ledger'.registry = ledger.registry
  BY <1>4, SameOthers, OtherTables DEF Legacy!Attest, SourceInv
<1>5. ASSUME NEW id, NEW ev, NEW v, NEW s, Legacy!AddExtraction(id, ev, v, s)
      PROVE  ledger'.registry = ledger.registry
  BY <1>5, SameOthers, OtherTables DEF Legacy!AddExtraction, SourceInv
<1>6. ASSUME NEW id, NEW x, Legacy!AddReview(id, x)
      PROVE  ledger'.registry = ledger.registry
  BY <1>6, SameOthers, OtherTables DEF Legacy!AddReview, SourceInv
<1> QED
  BY <1>1, <1>2, <1>3, <1>4, <1>5, <1>6 DEF LegacyWrite, RegistryFits

\* The rows that wait after a step, given that those from before still do.
LEMMA StepWaiting ==
  ASSUME CutoverInv, SourceInv, ViewInv, ChainInv, [Next]_vars,
         \A q \in Processes : tasks[q].op = "insert" /\ tasks'[q] = tasks[q] =>
           Waits(application', ledger', tasks[q].election, tasks[q].record)
  PROVE  Waiting'
<1> SUFFICES ASSUME NEW q \in Processes, tasks'[q].op = "insert"
             PROVE  /\ Waits(application', ledger', tasks'[q].election, tasks'[q].record)
                    /\ tasks'[q].record.type \in ChainTypes =>
                         streams'[LockOf(tasks'[q].record)] = q
  BY DEF Waiting
<1>1. CASE tasks'[q] = tasks[q]
  <2> DEFINE r == tasks[q].record
  <2>1. /\ Waits(application, ledger, tasks[q].election, r)
        /\ r.type \in ChainTypes => streams[LockOf(r)] = q
    BY <1>1 DEF ChainInv, Waiting
  <2>2. r.type \in ChainTypes => LockOf(r) \in Streams
    <3>1. tasks[q].election \in Elections
      BY <1>1 DEF ViewInv, InsertsFit
    <3> QED
      BY <2>1, <3>1 DEF Waits, Filed, ChainTypes, LockOf, Streams
  <2>3. tasks'[q] # Idle
    BY DEF Idle
  <2> HIDE DEF r
  <2>4. r.type \in ChainTypes => streams'[LockOf(r)] = q
    BY <2>1, <2>2, <2>3, LockHeld
  <2> QED
    BY <1>1, <2>4 DEF r
<1>2. CASE LockWrite(q)
  <2>1. PICK call, row :
          /\ call \in Calls /\ row \in RowOf(call) /\ LockStream(q, call.stream)
          /\ Become(q, [op |-> "insert", election |-> row[1], record |-> row[2]])
    BY <1>2 DEF LockWrite
  <2>2. tasks'[q] = [op |-> "insert", election |-> row[1], record |-> row[2]]
    BY <2>1 DEF Become, CutoverInv, Shape
  <2>3. tasks'[q].election = row[1] /\ tasks'[q].record = row[2]
    BY <2>2
  <2>4. /\ Waits(application, ledger, row[1], row[2])
        /\ row[2].type \in ChainTypes => LockOf(row[2]) = call.stream /\ call.stream \in Streams
    BY <2>1, CallsWait
  <2>5. row[2].type \in ChainTypes => streams'[LockOf(row[2])] = q
    BY <2>1, <2>4 DEF LockStream, CutoverInv, Shape
  <2>6. application' = application /\ ledger' = ledger
    BY <1>2 DEF LockWrite
  <2> QED
    BY <2>3, <2>4, <2>5, <2>6
<1> QED
  BY <1>1, <1>2, WaitsBegin

LEMMA StepChains ==
  CutoverInv /\ SourceInv /\ GateInv /\ ViewInv /\ ChainInv /\ [Next]_vars => ChainInv'
<1> SUFFICES ASSUME CutoverInv, SourceInv, GateInv, ViewInv, ChainInv, [Next]_vars
             PROVE  ChainInv'
  OBVIOUS
<1> DEFINE After ==
      /\ FiledIn(application')
      /\ RegistryChains(application')
      /\ EvidenceChains(application', ledger')
      /\ \A q \in Processes : tasks[q].op = "insert" /\ tasks'[q] = tasks[q] =>
           Waits(application', ledger', tasks[q].election, tasks[q].record)
<1>1. ASSUME application' = application
      PROVE  After
  <2>1. FiledIn(application') /\ RowsKept(application, application')
    BY <1>1 DEF ChainInv, RowsKept
  <2> QED
    BY <2>1, OthersContinue
<1>2. ASSUME Attest
      PROVE  After
  <2>1. FiledIn(application') /\ RowsKept(application, application')
    BY <1>2, AttestContinues
  <2> QED
    BY <2>1, OthersContinue
<1>3. ASSUME NEW p \in Processes, CommitWrite(p)
      PROVE  After
  <2>1. tasks'[p] # tasks[p]
    BY <1>3 DEF CommitWrite, EndTransaction, Become, CutoverInv, Shape, Idle
  <2> QED
    BY <1>3, <2>1, CommitsContinue
<1>4. ASSUME NEW p \in Processes, CommitMigration(p)
      PROVE  After
  BY <1>4, MigrationContinues
<1> HIDE DEF After
<1>5. After
  BY <1>1, <1>2, <1>3, <1>4 DEF Next, vars, LegacyWrite, LockWrite, BeginNative, BeginSync,
     BeginMigration, ActivateNative, LockMigration, WriteSnapshot, Rollback
<1>6. Waiting'
  BY <1>5, StepWaiting DEF After
<1>7. RegistryFits(ledger')
  BY StepRegistryFits DEF ChainInv
<1> QED
  BY <1>5, <1>6, <1>7 DEF ChainInv, After

\* Native appends continue the chains that a migration copied, although they
\* read a chain in one step and insert in another, and SQLite is still written:
\* a registry chain always verifies, and an evidence chain unless SQLite moved
\* the id between elections.
THEOREM NativeAppendsContinue == Spec => []OnlyMovedEvidenceBreaksChains
<1>1. ASSUME ChainInv PROVE OnlyMovedEvidenceBreaksChains
  <2>1. \A type, stream : Chain(type, stream) = InOrder(RowsIn(application, type, stream))
    BY RowsAreRowsIn DEF Chain
  <2>2. \A e \in Elections : ChainVerified(Chain("registry_snapshot", e))
    BY <1>1, <2>1, OrderedIsVerified DEF ChainInv, RegistryChains
  <2>3. \A ev \in EvidenceIds : Moved(ledger, ev) \/ ChainVerified(Chain("evidence_version", ev))
    BY <1>1, <2>1, OrderedIsVerified DEF ChainInv, EvidenceChains
  <2> QED
    BY <2>2, <2>3 DEF OnlyMovedEvidenceBreaksChains, Moved
<1>2. Init => SourceInv /\ GateInv /\ ViewInv /\ ChainInv
  BY InitSource, InitGate, InitViews, InitChains
<1>3. CutoverInv /\ SourceInv /\ GateInv /\ ViewInv /\ ChainInv /\ [Next]_vars =>
        SourceInv' /\ GateInv' /\ ViewInv' /\ ChainInv'
  BY StepSource, StepGated, StepClosed, StepViews, StepChains DEF GateInv
<1> QED
  BY <1>1, <1>2, <1>3, AlwaysCutoverInv, PTL DEF Spec

----------------------------------------------------------------------------
(* Snapshots. *)

\* What is copied under the barrier is what SQLite holds, and every snapshot is
\* some of it.
SnapshotsFit ==
  /\ \A p \in Processes : tasks[p].op = "sync" =>
       tasks[p].records = Records(ledger, tasks[p].election)
  /\ \A i \in DOMAIN snapshots :
       /\ snapshots[i].election \in Elections
       /\ snapshots[i].records \subseteq Records(ledger, snapshots[i].election)

LEMMA InitSnapshots == Init => SnapshotsFit
  BY DEF Init, Idle, SnapshotsFit

LEMMA SyncByCall ==
  ASSUME CutoverInv, SnapshotsFit, ledger' = ledger, snapshots' = snapshots,
         NEW p \in Processes, NEW task, Become(p, task),
         task.op = "sync" => task.records = Records(ledger, task.election)
  PROVE  SnapshotsFit'
<1>1. tasks'[p] = task /\ \A q \in Processes \ {p} : tasks'[q] = tasks[q]
  BY DEF Become, CutoverInv, Shape
<1> QED
  BY <1>1 DEF SnapshotsFit

LEMMA WrittenSnapshot ==
  ASSUME CutoverInv, SnapshotsFit, NEW p \in Processes, WriteSnapshot(p), snapshots' # snapshots
  PROVE  LET e == tasks[p].election
             new == [election |-> e, records |-> Records(ledger, e)]
         IN  /\ e \in Elections
             /\ snapshots' = Append(snapshots, new)
             /\ Len(snapshots) \in Nat /\ DOMAIN snapshots = 1..Len(snapshots)
             /\ DOMAIN snapshots' = 1..(Len(snapshots) + 1)
             /\ \A i \in 1..Len(snapshots) : snapshots'[i] = snapshots[i]
             /\ snapshots'[Len(snapshots) + 1] = new
<1> DEFINE new == [election |-> tasks[p].election,
                   records |-> Records(ledger, tasks[p].election)]
<1>1. tasks[p].op = "sync" /\ tasks[p].records = Records(ledger, tasks[p].election)
  BY DEF WriteSnapshot, SnapshotsFit
<1>2. snapshots' = Append(snapshots, new) /\ tasks[p].election \in Elections
  BY <1>1 DEF WriteSnapshot, CutoverInv, Locked
<1>3. PICK S : snapshots \in Seq(S)
  BY DEF CutoverInv, Shape
<1> HIDE DEF new
<1>4. /\ Len(snapshots) \in Nat /\ DOMAIN snapshots = 1..Len(snapshots)
      /\ DOMAIN Append(snapshots, new) = 1..(Len(snapshots) + 1)
      /\ \A i \in 1..Len(snapshots) : Append(snapshots, new)[i] = snapshots[i]
      /\ Append(snapshots, new)[Len(snapshots) + 1] = new
  BY <1>3
<1> QED
  BY <1>2, <1>4 DEF new

LEMMA WriteSnapshotFits ==
  ASSUME CutoverInv, SnapshotsFit, NEW p \in Processes, WriteSnapshot(p)
  PROVE  SnapshotsFit'
<1> DEFINE e == tasks[p].election
           new == [election |-> e, records |-> Records(ledger, e)]
           n == Len(snapshots)
<1>1. /\ ledger' = ledger /\ tasks'[p] = Idle
      /\ \A q \in Processes \ {p} : tasks'[q] = tasks[q]
  BY DEF WriteSnapshot, EndTransaction, Become, CutoverInv, Shape
<1>2. \A q \in Processes : tasks'[q].op = "sync" =>
        tasks'[q].records = Records(ledger', tasks'[q].election)
  BY <1>1 DEF SnapshotsFit, Idle
<1>3. CASE snapshots' = snapshots
  BY <1>1, <1>2, <1>3 DEF SnapshotsFit
<1>4. CASE snapshots' # snapshots
  <2>1. /\ e \in Elections /\ n \in Nat /\ DOMAIN snapshots = 1..n
        /\ DOMAIN snapshots' = 1..(n + 1)
        /\ \A i \in 1..n : snapshots'[i] = snapshots[i]
        /\ snapshots'[n + 1] = new
    BY <1>4, WrittenSnapshot
  <2>2. new.election = e /\ new.records = Records(ledger, e)
    OBVIOUS
  <2> HIDE DEF n, new
  <2>3. \A i \in DOMAIN snapshots' :
          /\ snapshots'[i].election \in Elections
          /\ snapshots'[i].records \subseteq Records(ledger', snapshots'[i].election)
    <3> SUFFICES ASSUME NEW i \in 1..(n + 1)
                 PROVE  /\ snapshots'[i].election \in Elections
                        /\ snapshots'[i].records \subseteq Records(ledger, snapshots'[i].election)
      BY <1>1, <2>1
    <3>1. i \in 1..n \/ i = n + 1
      BY <2>1
    <3> QED
      BY <2>1, <2>2, <3>1 DEF SnapshotsFit
  <2> QED
    BY <1>2, <2>3 DEF SnapshotsFit
<1> QED
  BY <1>3, <1>4

LEMMA StepSnapshots ==
  CutoverInv /\ SourceInv /\ SnapshotsFit /\ [Next]_vars => SnapshotsFit'
<1> SUFFICES ASSUME CutoverInv, SourceInv, SnapshotsFit, [Next]_vars PROVE SnapshotsFit'
  OBVIOUS
<1>1. CASE UNCHANGED <<ledger, tasks, snapshots>>
  BY <1>1 DEF SnapshotsFit
<1>2. CASE LegacyWrite
  <2>1. barrier = NoProcess /\ tasks' = tasks /\ snapshots' = snapshots
    BY <1>2 DEF LegacyWrite
  <2>2. \A p \in Processes : tasks[p].op # "sync"
    BY <2>1, CutoverConstants DEF CutoverInv, Locked
  <2>3. \A e \in Elections : Records(ledger, e) \subseteq Records(ledger', e)
    BY <1>2, LegacyWriteGrows DEF SourceInv
  <2> QED
    BY <2>1, <2>2, <2>3 DEF SnapshotsFit
<1>3. ASSUME NEW p \in Processes, LockWrite(p)
      PROVE  SnapshotsFit'
  <2>1. PICK e, record : Become(p, [op |-> "insert", election |-> e, record |-> record])
    BY <1>3 DEF LockWrite
  <2> DEFINE task == [op |-> "insert", election |-> e, record |-> record]
  <2>2. task.op # "sync"
    OBVIOUS
  <2>3. ledger' = ledger /\ snapshots' = snapshots
    BY <1>3 DEF LockWrite
  <2> HIDE DEF task
  <2> QED
    BY <2>1, <2>2, <2>3, SyncByCall DEF task
<1>4. ASSUME NEW p \in Processes, NEW e \in Elections, NEW activate,
             BeginNative(p, e) \/ BeginSync(p, e) \/ BeginMigration(p, e, activate)
      PROVE  SnapshotsFit'
  BY <1>4, SyncByCall DEF BeginNative, BeginSync, BeginMigration
<1>5. ASSUME NEW p \in Processes, EndTransaction(p), ledger' = ledger, snapshots' = snapshots
      PROVE  SnapshotsFit'
  BY <1>5, SyncByCall DEF EndTransaction, Idle
<1>6. ASSUME NEW p \in Processes,
             CommitWrite(p) \/ ActivateNative(p) \/ CommitMigration(p) \/ Rollback(p)
      PROVE  SnapshotsFit'
  BY <1>5, <1>6 DEF CommitWrite, ActivateNative, CommitMigration, Rollback
<1> QED
  BY <1>1, <1>2, <1>3, <1>4, <1>6, WriteSnapshotFits DEF Next, vars, Attest, LockMigration

\* The snapshots of an election have a last one.
Own(s, e) == {i \in DOMAIN s : s[i].election = e}
IsLast(m, S) == m \in S /\ \A i \in S : m >= i
HaveLast(s) == \A e \in Elections : Own(s, e) # {} => \E m : IsLast(m, Own(s, e))

LEMMA LastIsMax ==
  ASSUME NEW S, S \subseteq Nat, NEW m, IsLast(m, S)
  PROVE  Max(S) = m
<1>1. \A k \in S : IsLast(k, S) => k = m
  BY DEF IsLast
<1>2. m = CHOOSE k \in S : \A i \in S : k >= i
  BY <1>1 DEF IsLast
<1> QED
  BY <1>2 DEF Max

LEMMA SnapshotsChange ==
  ASSUME [Next]_vars
  PROVE  snapshots' = snapshots \/ \E p \in Processes : WriteSnapshot(p)
  BY DEF Next, vars, LegacyWrite, Attest, LockWrite, CommitWrite, BeginNative, BeginSync,
     BeginMigration, ActivateNative, LockMigration, CommitMigration, Rollback

\* What a step does to the snapshots of one election.
LEMMA OwnChange ==
  ASSUME CutoverInv, SnapshotsFit, HaveLast(snapshots), [Next]_vars, NEW e \in Elections
  PROVE  \/ Own(snapshots', e) = Own(snapshots, e)
            /\ \A i \in Own(snapshots, e) : snapshots'[i] = snapshots[i]
         \/ \E m : /\ IsLast(m, Own(snapshots', e))
                   /\ snapshots'[m].records = Records(ledger, e)
<1>1. CASE snapshots' = snapshots
  BY <1>1
<1>2. ASSUME NEW p \in Processes, WriteSnapshot(p), snapshots' # snapshots
      PROVE  \/ Own(snapshots', e) = Own(snapshots, e)
                /\ \A i \in Own(snapshots, e) : snapshots'[i] = snapshots[i]
             \/ \E m : /\ IsLast(m, Own(snapshots', e))
                       /\ snapshots'[m].records = Records(ledger, e)
  <2> DEFINE n == Len(snapshots)
             f == tasks[p].election
             new == [election |-> f, records |-> Records(ledger, f)]
  <2>1. /\ n \in Nat /\ DOMAIN snapshots = 1..n /\ DOMAIN snapshots' = 1..(n + 1)
        /\ \A i \in 1..n : snapshots'[i] = snapshots[i]
        /\ snapshots'[n + 1] = new
    BY <1>2, WrittenSnapshot
  <2>2. new.election = f /\ new.records = Records(ledger, f)
    OBVIOUS
  <2> HIDE DEF n, new
  <2>3. CASE f = e
    <3>1. IsLast(n + 1, Own(snapshots', e))
      BY <2>1, <2>2, <2>3 DEF Own, IsLast
    <3> QED
      BY <2>1, <2>2, <2>3, <3>1
  <2>4. CASE f # e
    <3>1. \A i \in 1..(n + 1) : snapshots'[i].election = e =>
            i \in 1..n /\ snapshots[i].election = e
      BY <2>1, <2>2, <2>4
    <3>2. Own(snapshots', e) = Own(snapshots, e)
      BY <2>1, <3>1 DEF Own
    <3> QED
      BY <2>1, <3>2 DEF Own
  <2> QED
    BY <2>3, <2>4
<1> QED
  BY <1>1, <1>2, SnapshotsChange

LEMMA StepHaveLast ==
  CutoverInv /\ SnapshotsFit /\ HaveLast(snapshots) /\ [Next]_vars => HaveLast(snapshots')
  BY OwnChange DEF HaveLast

LEMMA LatestIs ==
  ASSUME NEW e, NEW m, IsLast(m, Own(snapshots, e)), Own(snapshots, e) \subseteq Nat
  PROVE  LatestRecords(e) = snapshots[m].records
  BY LastIsMax DEF LatestRecords, Own, IsLast

LEMMA OwnAreNumbers ==
  ASSUME CutoverInv, NEW e
  PROVE  Own(snapshots, e) \subseteq Nat
  BY DEF CutoverInv, Shape, Own

\* The snapshot of an election that a release reads never goes back: whoever
\* synchronises at the same time, a later one holds all records of those
\* before, because each is copied and stored under one hold of the barrier.
THEOREM LatestSnapshotsGrow == Spec => SnapshotsOnlyGrow
<1>1. ASSUME CutoverInv, SnapshotsFit, HaveLast(snapshots), [Next]_vars, NEW e \in Elections
      PROVE  LatestRecords(e) \subseteq LatestRecords(e)'
  <2>1. Own(snapshots, e) \subseteq Nat
    BY <1>1, OwnAreNumbers
  <2>2. CutoverInv'
    BY <1>1, StepCutover
  <2>3. Own(snapshots', e) \subseteq Nat
    BY <2>2 DEF CutoverInv, Shape, Own
  <2>4. CASE Own(snapshots, e) = {}
    BY <2>4 DEF LatestRecords, Own
  <2>5. ASSUME NEW m, IsLast(m, Own(snapshots, e))
        PROVE  LatestRecords(e) \subseteq LatestRecords(e)'
    <3>1. LatestRecords(e) = snapshots[m].records
      BY <2>1, <2>5, LatestIs
    <3>2. CASE /\ Own(snapshots', e) = Own(snapshots, e)
               /\ \A i \in Own(snapshots, e) : snapshots'[i] = snapshots[i]
      <4>1. LatestRecords(e)' = snapshots'[Max(Own(snapshots', e))].records
        BY <2>5, <3>2 DEF LatestRecords, Own, IsLast
      <4>2. Max(Own(snapshots', e)) = m
        BY <2>1, <2>5, <3>2, LastIsMax
      <4> QED
        BY <2>5, <3>1, <3>2, <4>1, <4>2 DEF IsLast
    <3>3. ASSUME NEW k, IsLast(k, Own(snapshots', e)),
                 snapshots'[k].records = Records(ledger, e)
          PROVE  LatestRecords(e) \subseteq LatestRecords(e)'
      <4>1. LatestRecords(e)' = snapshots'[Max(Own(snapshots', e))].records
        BY <3>3 DEF LatestRecords, Own, IsLast
      <4>2. Max(Own(snapshots', e)) = k
        BY <2>3, <3>3, LastIsMax
      <4>3. snapshots[m].records \subseteq Records(ledger, e)
        BY <1>1, <2>5 DEF SnapshotsFit, IsLast, Own
      <4> QED
        BY <3>1, <3>3, <4>1, <4>2, <4>3
    <3> QED
      BY <1>1, <3>2, <3>3, OwnChange
  <2> QED
    BY <1>1, <2>4, <2>5 DEF HaveLast
<1>2. CutoverInv /\ SnapshotsFit /\ HaveLast(snapshots) /\ [Next]_vars =>
        [\A e \in Elections : LatestRecords(e) \subseteq LatestRecords(e)']_vars
  BY <1>1
<1>3. Init => SnapshotsFit /\ SourceInv /\ HaveLast(snapshots)
  BY InitSnapshots, InitSource DEF Init, HaveLast, Own
<1>4. CutoverInv /\ SourceInv /\ SnapshotsFit /\ HaveLast(snapshots) /\ [Next]_vars =>
        SnapshotsFit' /\ SourceInv' /\ HaveLast(snapshots)'
  BY StepSnapshots, StepSource, StepHaveLast
<1> QED
  BY <1>2, <1>3, <1>4, AlwaysCutoverInv, PTL DEF Spec, SnapshotsOnlyGrow

=============================================================================
