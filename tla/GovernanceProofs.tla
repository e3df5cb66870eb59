-------------------------- MODULE GovernanceProofs --------------------------
(***************************************************************************)
(* Theorems about ReleaseGovernance, for any operators, keys, releases and *)
(* elections, and any number of concurrent calls.                          *)
(***************************************************************************)
EXTENDS ReleaseGovernance, TLAPS

\* The ledger has an enrollment of key k, and nothing but revocations of it
\* that committed after time t.
EnrolledFor(k, t) ==
  /\ \E j \in DOMAIN keyEvents : keyEvents[j].type = "enroll" /\ keyEvents[j].key = k
  /\ \A j \in Revocations(k) : t < keyEvents[j].committed

\* What the key row says of the ledger: a key that is not revoked has no revocation.
RowsOK ==
  \A k \in SigningKeys :
    /\ keyRows[k] # "absent" => \E j \in DOMAIN keyEvents :
                                  keyEvents[j].type = "enroll" /\ keyEvents[j].key = k
    /\ keyRows[k] # "revoked" => Revocations(k) = {}

\* A call that found its signer active, and the checkpoint that it appends.
CallsOK ==
  \A o \in Operators : calls[o].op = "checkpoint" =>
    calls[o].since < clock /\ EnrolledFor(SignerOf[calls[o].on], calls[o].since)

CheckpointsOK ==
  \A e \in Elections : \A i \in DOMAIN checkpoints[e] :
    /\ checkpoints[e][i].began < clock
    /\ EnrolledFor(checkpoints[e][i].key, checkpoints[e][i].began)

GovernanceInv == TypeOK /\ RowsOK /\ CallsOK /\ CheckpointsOK /\ CheckpointedOnce

----------------------------------------------------------------------------
LEMMA InitGovernance == Init => GovernanceInv
<1> SUFFICES ASSUME Init PROVE GovernanceInv
  OBVIOUS
<1>1. TypeOK
  BY DEF Init, TypeOK
<1>2. RowsOK
  BY DEF Init, RowsOK, Revocations
<1>3. CallsOK
  BY DEF Init, CallsOK, NoCall
<1>4. CheckpointsOK /\ CheckpointedOnce
  BY DEF Init, CheckpointsOK, CheckpointedOnce
<1> QED
  BY <1>1, <1>2, <1>3, <1>4 DEF GovernanceInv

\* What a call may be, by its op.
LEMMA CallTypes ==
  ASSUME TypeOK, NEW o \in Operators
  PROVE  /\ calls[o].op \in {"enroll", "revoke"} =>
              calls[o].on \in SigningKeys /\ calls[o].since \in Nat
         /\ calls[o].op = "checkpoint" => calls[o].on \in Releases /\ calls[o].since \in Nat
  BY DEF TypeOK, Call, NoCall

\* What a step keeps when it spoils nothing that was true before it.
LEMMA CallKept ==
  ASSUME GovernanceInv, NEW q \in Operators, calls'[q] = calls[q], calls[q].op = "checkpoint",
         clock' = clock + 1,
         \A k : \A t \in Nat : t < clock /\ EnrolledFor(k, t) => EnrolledFor(k, t)'
  PROVE  (calls[q].since < clock /\ EnrolledFor(SignerOf[calls[q].on], calls[q].since))'
<1>1. calls[q].since \in Nat /\ calls[q].since < clock /\ clock \in Nat
  BY CallTypes DEF GovernanceInv, CallsOK, TypeOK
<1>2. EnrolledFor(SignerOf[calls[q].on], calls[q].since)
  BY DEF GovernanceInv, CallsOK
<1>3. \A k, t : k = SignerOf[calls'[q].on] /\ t = calls'[q].since => EnrolledFor(k, t)'
  BY <1>1, <1>2
<1> QED
  BY <1>1, <1>3

LEMMA CheckpointsKept ==
  ASSUME GovernanceInv, UNCHANGED checkpoints, clock \in Nat, clock' = clock + 1,
         \A k : \A t \in Nat : t < clock /\ EnrolledFor(k, t) => EnrolledFor(k, t)'
  PROVE  CheckpointsOK' /\ CheckpointedOnce'
<1>1. CheckpointedOnce'
  BY DEF GovernanceInv, CheckpointedOnce
<1>2. ASSUME NEW e \in Elections, NEW i \in DOMAIN checkpoints'[e]
      PROVE  (/\ checkpoints[e][i].began < clock
              /\ EnrolledFor(checkpoints[e][i].key, checkpoints[e][i].began))'
  <2>1. checkpoints'[e][i] = checkpoints[e][i] /\ i \in DOMAIN checkpoints[e]
    BY <1>2
  <2>2. /\ checkpoints[e][i].began \in Nat /\ checkpoints[e][i].began < clock
        /\ EnrolledFor(checkpoints[e][i].key, checkpoints[e][i].began)
    <3>1. checkpoints[e] \in Seq(Checkpoint)
      BY DEF GovernanceInv, TypeOK
    <3>2. checkpoints[e][i] \in Checkpoint
      BY <2>1, <3>1
    <3> QED
      BY <2>1, <3>2 DEF GovernanceInv, CheckpointsOK, Checkpoint
  <2>3. \A k, t : k = checkpoints'[e][i].key /\ t = checkpoints'[e][i].began => EnrolledFor(k, t)'
    BY <2>1, <2>2
  <2> QED
    BY <2>1, <2>2, <2>3
<1> QED
  BY <1>1, <1>2 DEF CheckpointsOK

LEMMA BeginKeepsInv ==
  ASSUME GovernanceInv, NEW o \in Operators, NEW op, NEW on, Begin(o, op, on),
         \/ op \in {"enroll", "revoke"} /\ on \in SigningKeys
         \/ op = "checkpoint" /\ on \in Releases /\ KeyActive(SignerOf[on])
  PROVE  GovernanceInv'
<1> USE DEF Begin
<1>1. /\ clock \in Nat /\ clock' = clock + 1
      /\ UNCHANGED <<keyRows, keyEvents, checkpoints>>
  BY DEF GovernanceInv, TypeOK
<1>2. TypeOK'
  BY <1>1 DEF GovernanceInv, TypeOK, Call, NoCall
<1>3. \A k, t : EnrolledFor(k, t) => EnrolledFor(k, t)'
  BY <1>1 DEF EnrolledFor, Revocations
<1>4. RowsOK' /\ CheckpointsOK' /\ CheckpointedOnce'
  BY <1>1, <1>3, CheckpointsKept DEF GovernanceInv, RowsOK, Revocations
<1>5. ASSUME NEW q \in Operators, calls'[q].op = "checkpoint"
      PROVE  (calls[q].since < clock /\ EnrolledFor(SignerOf[calls[q].on], calls[q].since))'
  <2>1. CASE q # o
    <3>1. calls'[q] = calls[q]
      BY <2>1 DEF GovernanceInv, TypeOK
    <3> QED
      BY <1>1, <1>3, <1>5, <3>1, CallKept
  <2>2. CASE q = o
    <3>1. calls'[q] = [op |-> op, on |-> on, since |-> clock]
      BY <2>2 DEF GovernanceInv, TypeOK
    <3>2. on \in Releases /\ keyRows[SignerOf[on]] = "active" /\ SignerOf[on] \in SigningKeys
      BY <1>5, <3>1, ReleaseConstants DEF KeyActive
    <3>3. EnrolledFor(SignerOf[on], clock)
      BY <3>2 DEF GovernanceInv, RowsOK, EnrolledFor
    <3>4. \A k, t : k = SignerOf[on] /\ t = clock => EnrolledFor(k, t)'
      BY <1>3, <3>3
    <3>5. \A k, t : k = SignerOf[calls'[q].on] /\ t = calls'[q].since => EnrolledFor(k, t)'
      BY <3>1, <3>4
    <3> QED
      BY <1>1, <3>1, <3>5
  <2> QED
    BY <2>1, <2>2
<1>6. CallsOK'
  BY <1>5 DEF CallsOK
<1> QED
  BY <1>2, <1>4, <1>6 DEF GovernanceInv

----------------------------------------------------------------------------
(* Transactions. *)

LEMMA EventAppended ==
  ASSUME TypeOK, NEW o \in Operators, NEW type, AppendEvent(o, type)
  PROVE  LET n == Len(keyEvents) + 1
         IN  /\ DOMAIN keyEvents' = 1..n /\ DOMAIN keyEvents = 1..n - 1 /\ n \in Nat \ {0}
             /\ \A j \in 1..n - 1 : keyEvents'[j] = keyEvents[j]
             /\ keyEvents'[n].type = type
             /\ keyEvents'[n].key = calls[o].on
             /\ keyEvents'[n].committed = clock
<1>1. keyEvents \in Seq(KeyEvent)
  BY DEF TypeOK
<1> QED
  BY <1>1 DEF AppendEvent

\* A new event cannot spoil what was looked at before its transaction.
LEMMA EventsAreLate ==
  ASSUME TypeOK, NEW o \in Operators, NEW type, AppendEvent(o, type)
  PROVE  \A k : \A t \in Nat : t < clock /\ EnrolledFor(k, t) => EnrolledFor(k, t)'
<1> DEFINE n == Len(keyEvents) + 1
<1>1. clock \in Nat
  BY DEF TypeOK
<1>2. /\ DOMAIN keyEvents' = 1..n /\ DOMAIN keyEvents = 1..n - 1 /\ n \in Nat \ {0}
      /\ \A j \in 1..n - 1 : keyEvents'[j] = keyEvents[j]
      /\ keyEvents'[n].committed = clock
  BY EventAppended
<1> HIDE DEF n
<1> SUFFICES ASSUME NEW k, NEW t \in Nat, t < clock, EnrolledFor(k, t)
             PROVE  EnrolledFor(k, t)'
  OBVIOUS
<1>3. \E j \in DOMAIN keyEvents' : keyEvents'[j].type = "enroll" /\ keyEvents'[j].key = k
  BY <1>2 DEF EnrolledFor
<1>4. ASSUME NEW j \in Revocations(k)' PROVE t < keyEvents'[j].committed
  <2>1. CASE j = n
    BY <1>2, <2>1
  <2>2. CASE j # n
    BY <1>2, <1>4, <2>2 DEF EnrolledFor, Revocations
  <2> QED
    BY <2>1, <2>2
<1> QED
  BY <1>3, <1>4 DEF EnrolledFor

LEMMA TransactionKeepsCalls ==
  ASSUME GovernanceInv, NEW o \in Operators, NEW op, Transaction(o, op),
         \A k : \A t \in Nat : t < clock /\ EnrolledFor(k, t) => EnrolledFor(k, t)'
  PROVE  /\ CallsOK'
         /\ clock \in Nat /\ clock' = clock + 1
         /\ calls' \in [Operators -> Call \cup {NoCall}]
<1>1. clock \in Nat /\ clock' = clock + 1 /\ calls' \in [Operators -> Call \cup {NoCall}]
  BY DEF Transaction, GovernanceInv, TypeOK
<1>2. ASSUME NEW q \in Operators, calls'[q].op = "checkpoint"
      PROVE  (calls[q].since < clock /\ EnrolledFor(SignerOf[calls[q].on], calls[q].since))'
  <2>1. calls'[q] = calls[q]
    BY <1>2 DEF Transaction, GovernanceInv, TypeOK, NoCall
  <2> QED
    BY <1>1, <1>2, <2>1, CallKept
<1> QED
  BY <1>1, <1>2 DEF CallsOK

LEMMA EnrollKeepsInv ==
  ASSUME GovernanceInv, NEW o \in Operators, Enroll(o)
  PROVE  GovernanceInv'
<1> DEFINE k == calls[o].on
<1>1. Transaction(o, "enroll") /\ k \in SigningKeys /\ calls[o].since \in Nat /\ UNCHANGED checkpoints
  BY CallTypes DEF Enroll, Transaction, GovernanceInv
<1>2. CASE /\ keyRows[k] = "absent"
           /\ keyRows' = [keyRows EXCEPT ![k] = "active"]
           /\ AppendEvent(o, "enroll")
  <2>1. \A x : \A t \in Nat : t < clock /\ EnrolledFor(x, t) => EnrolledFor(x, t)'
    BY <1>2, EventsAreLate DEF GovernanceInv
  <2>2. /\ CallsOK' /\ CheckpointsOK' /\ CheckpointedOnce'
        /\ clock \in Nat /\ clock' = clock + 1
        /\ calls' \in [Operators -> Call \cup {NoCall}]
    BY <1>1, <2>1, TransactionKeepsCalls, CheckpointsKept
  <2>3. TypeOK'
    BY <1>1, <1>2, <2>2 DEF GovernanceInv, TypeOK, AppendEvent, KeyEvent
  <2> DEFINE n == Len(keyEvents) + 1
  <2>4. /\ DOMAIN keyEvents' = 1..n /\ DOMAIN keyEvents = 1..n - 1 /\ n \in Nat \ {0}
        /\ \A j \in 1..n - 1 : keyEvents'[j] = keyEvents[j]
        /\ keyEvents'[n].type = "enroll" /\ keyEvents'[n].key = k
    BY <1>2, EventAppended DEF GovernanceInv
  <2>5. keyRows \in [SigningKeys -> {"absent", "active", "revoked"}]
    BY DEF GovernanceInv, TypeOK
  <2> HIDE DEF n, k
  <2>6. ASSUME NEW x \in SigningKeys
        PROVE  (/\ keyRows[x] # "absent" => \E j \in DOMAIN keyEvents :
                      keyEvents[j].type = "enroll" /\ keyEvents[j].key = x
                /\ keyRows[x] # "revoked" => Revocations(x) = {})'
    <3>1. CASE x = k
      BY <1>1, <1>2, <2>4, <2>5, <3>1 DEF GovernanceInv, RowsOK, Revocations
    <3>2. CASE x # k
      BY <1>1, <1>2, <2>4, <2>5, <3>2 DEF GovernanceInv, RowsOK, Revocations
    <3> QED
      BY <3>1, <3>2
  <2>7. RowsOK'
    BY <2>6 DEF RowsOK
  <2> QED
    BY <2>2, <2>3, <2>7 DEF GovernanceInv
<1>3. CASE UNCHANGED <<keyRows, keyEvents>>
  <2>1. \A x : \A t \in Nat : t < clock /\ EnrolledFor(x, t) => EnrolledFor(x, t)'
    BY <1>3 DEF EnrolledFor, Revocations
  <2>2. /\ CallsOK' /\ CheckpointsOK' /\ CheckpointedOnce'
        /\ clock \in Nat /\ clock' = clock + 1
        /\ calls' \in [Operators -> Call \cup {NoCall}]
    BY <1>1, <2>1, TransactionKeepsCalls, CheckpointsKept
  <2>3. RowsOK'
    BY <1>3 DEF GovernanceInv, RowsOK, Revocations
  <2> QED
    BY <1>1, <1>3, <2>2, <2>3 DEF GovernanceInv, TypeOK
<1> QED
  BY <1>2, <1>3 DEF Enroll

LEMMA RevokeKeepsInv ==
  ASSUME GovernanceInv, NEW o \in Operators, Revoke(o)
  PROVE  GovernanceInv'
<1> DEFINE k == calls[o].on
<1>1. Transaction(o, "revoke") /\ k \in SigningKeys /\ calls[o].since \in Nat /\ UNCHANGED checkpoints
  BY CallTypes DEF Revoke, Transaction, GovernanceInv
<1>2. CASE /\ Revocable(k)
           /\ keyRows' = [keyRows EXCEPT ![k] = "revoked"]
           /\ AppendEvent(o, "revoke")
  <2>1. \A x : \A t \in Nat : t < clock /\ EnrolledFor(x, t) => EnrolledFor(x, t)'
    BY <1>2, EventsAreLate DEF GovernanceInv
  <2>2. /\ CallsOK' /\ CheckpointsOK' /\ CheckpointedOnce'
        /\ clock \in Nat /\ clock' = clock + 1
        /\ calls' \in [Operators -> Call \cup {NoCall}]
    BY <1>1, <2>1, TransactionKeepsCalls, CheckpointsKept
  <2>3. TypeOK'
    BY <1>1, <1>2, <2>2 DEF GovernanceInv, TypeOK, AppendEvent, KeyEvent
  <2> DEFINE n == Len(keyEvents) + 1
  <2>4. /\ DOMAIN keyEvents' = 1..n /\ DOMAIN keyEvents = 1..n - 1 /\ n \in Nat \ {0}
        /\ \A j \in 1..n - 1 : keyEvents'[j] = keyEvents[j]
        /\ keyEvents'[n].type = "revoke" /\ keyEvents'[n].key = k
    BY <1>2, EventAppended DEF GovernanceInv
  <2>5. keyRows \in [SigningKeys -> {"absent", "active", "revoked"}]
    BY DEF GovernanceInv, TypeOK
  <2> HIDE DEF n, k
  <2>6. ASSUME NEW x \in SigningKeys
        PROVE  (/\ keyRows[x] # "absent" => \E j \in DOMAIN keyEvents :
                      keyEvents[j].type = "enroll" /\ keyEvents[j].key = x
                /\ keyRows[x] # "revoked" => Revocations(x) = {})'
    <3>1. CASE x = k
      BY <1>1, <1>2, <2>4, <2>5, <3>1 DEF GovernanceInv, RowsOK, Revocations, Revocable
    <3>2. CASE x # k
      BY <1>1, <1>2, <2>4, <2>5, <3>2 DEF GovernanceInv, RowsOK, Revocations
    <3> QED
      BY <3>1, <3>2
  <2>7. RowsOK'
    BY <2>6 DEF RowsOK
  <2> QED
    BY <2>2, <2>3, <2>7 DEF GovernanceInv
<1>3. CASE UNCHANGED <<keyRows, keyEvents>>
  <2>1. \A x : \A t \in Nat : t < clock /\ EnrolledFor(x, t) => EnrolledFor(x, t)'
    BY <1>3 DEF EnrolledFor, Revocations
  <2>2. /\ CallsOK' /\ CheckpointsOK' /\ CheckpointedOnce'
        /\ clock \in Nat /\ clock' = clock + 1
        /\ calls' \in [Operators -> Call \cup {NoCall}]
    BY <1>1, <2>1, TransactionKeepsCalls, CheckpointsKept
  <2>3. RowsOK'
    BY <1>3 DEF GovernanceInv, RowsOK, Revocations
  <2> QED
    BY <1>1, <1>3, <2>2, <2>3 DEF GovernanceInv, TypeOK
<1> QED
  BY <1>2, <1>3 DEF Revoke

LEMMA AppendCheckpointKeepsInv ==
  ASSUME GovernanceInv, NEW o \in Operators, AppendCheckpoint(o)
  PROVE  GovernanceInv'
<1> DEFINE r == calls[o].on  e == ElectionOf[r]  n == Len(checkpoints[e]) + 1
<1>1. /\ Transaction(o, "checkpoint") /\ calls[o].op = "checkpoint"
      /\ r \in Releases /\ calls[o].since \in Nat
      /\ UNCHANGED <<keyRows, keyEvents>>
  BY CallTypes DEF AppendCheckpoint, Transaction, GovernanceInv
<1>2. \A k : \A t \in Nat : t < clock /\ EnrolledFor(k, t) => EnrolledFor(k, t)'
  BY <1>1 DEF EnrolledFor, Revocations
<1>3. /\ CallsOK' /\ RowsOK'
      /\ clock \in Nat /\ clock' = clock + 1
      /\ calls' \in [Operators -> Call \cup {NoCall}]
  BY <1>1, <1>2, TransactionKeepsCalls DEF GovernanceInv, RowsOK, Revocations
<1>4. CASE UNCHANGED checkpoints
  BY <1>1, <1>2, <1>3, <1>4, CheckpointsKept DEF GovernanceInv, TypeOK
<1>5. CASE /\ ~Issued(r)
           /\ checkpoints' = [checkpoints EXCEPT ![e] = Append(@, NewCheckpoint(r, calls[o].since))]
  <2>1. checkpoints \in [Elections -> Seq(Checkpoint)] /\ e \in Elections
    BY <1>1, ReleaseConstants DEF GovernanceInv, TypeOK
  <2>2. NewCheckpoint(r, calls[o].since) \in Checkpoint
    BY <1>1, <1>3, ReleaseConstants DEF NewCheckpoint, Checkpoint
  <2>3. checkpoints' \in [Elections -> Seq(Checkpoint)]
    BY <1>5, <2>1, <2>2
  <2>4. \A x \in Elections : x # e => checkpoints'[x] = checkpoints[x]
    BY <1>5, <2>1
  <2>5. /\ n \in Nat \ {0} /\ DOMAIN checkpoints'[e] = 1..n /\ DOMAIN checkpoints[e] = 1..n - 1
        /\ \A i \in 1..n - 1 : checkpoints'[e][i] = checkpoints[e][i]
        /\ checkpoints'[e][n] = NewCheckpoint(r, calls[o].since)
    BY <1>5, <2>1, <2>2
  <2>6. \A i \in DOMAIN checkpoints[e] : checkpoints[e][i].release # r
    BY <1>5 DEF Issued
  <2> HIDE DEF n
  <2>7. CheckpointedOnce'
    <3> SUFFICES ASSUME NEW x \in Elections, NEW i \in DOMAIN checkpoints'[x],
                        NEW j \in DOMAIN checkpoints'[x],
                        checkpoints'[x][i].release = checkpoints'[x][j].release
                 PROVE  i = j
      BY DEF CheckpointedOnce
    <3>1. CASE x # e
      BY <2>4, <3>1 DEF GovernanceInv, CheckpointedOnce
    <3>2. CASE x = e
      <4>1. checkpoints'[e][n].release = r
        BY <2>5 DEF NewCheckpoint
      <4>2. \A m \in 1..n : m = n \/ m \in 1..n - 1
        BY <2>5
      <4>3. \A m \in 1..n - 1 : checkpoints'[e][m].release # r
        BY <2>5, <2>6
      <4>4. CASE i \in 1..n - 1 /\ j \in 1..n - 1
        <5>1. checkpoints[e][i].release = checkpoints[e][j].release
          BY <2>5, <3>2, <4>4
        <5> QED
          BY <2>1, <2>5, <4>4, <5>1 DEF GovernanceInv, CheckpointedOnce
      <4> QED
        BY <2>5, <3>2, <4>1, <4>2, <4>3, <4>4
    <3> QED
      BY <3>1, <3>2
  <2>8. ASSUME NEW x \in Elections, NEW i \in DOMAIN checkpoints'[x]
        PROVE  (/\ checkpoints[x][i].began < clock
                /\ EnrolledFor(checkpoints[x][i].key, checkpoints[x][i].began))'
    <3>1. CASE x = e /\ i = n
      <4>1. checkpoints'[x][i].key = SignerOf[r] /\ checkpoints'[x][i].began = calls[o].since
        BY <2>5, <3>1 DEF NewCheckpoint
      <4>2. calls[o].since < clock /\ EnrolledFor(SignerOf[r], calls[o].since)
        BY <1>1 DEF GovernanceInv, CallsOK
      <4>3. \A k, t : k = checkpoints'[x][i].key /\ t = checkpoints'[x][i].began => EnrolledFor(k, t)'
        BY <1>1, <1>2, <4>1, <4>2
      <4> QED
        BY <1>1, <1>3, <4>1, <4>2, <4>3
    <3>2. CASE ~(x = e /\ i = n)
      <4>1. i \in DOMAIN checkpoints[x] /\ checkpoints'[x][i] = checkpoints[x][i]
        BY <2>4, <2>5, <3>2
      <4>2. checkpoints[x][i] \in Checkpoint
        BY <2>1, <4>1
      <4>3. /\ checkpoints[x][i].began \in Nat /\ checkpoints[x][i].began < clock
            /\ EnrolledFor(checkpoints[x][i].key, checkpoints[x][i].began)
        BY <4>1, <4>2 DEF GovernanceInv, CheckpointsOK, Checkpoint
      <4>4. \A k, t : k = checkpoints'[x][i].key /\ t = checkpoints'[x][i].began => EnrolledFor(k, t)'
        BY <1>2, <4>1, <4>3
      <4> QED
        BY <1>3, <4>1, <4>3, <4>4
    <3> QED
      BY <3>1, <3>2
  <2>9. CheckpointsOK'
    BY <2>8 DEF CheckpointsOK
  <2> QED
    BY <1>1, <1>3, <2>3, <2>7, <2>9 DEF GovernanceInv, TypeOK
<1> QED
  BY <1>1, <1>4, <1>5 DEF AppendCheckpoint

LEMMA NextKeepsGovernance == GovernanceInv /\ [Next]_vars => GovernanceInv'
<1> SUFFICES ASSUME GovernanceInv, [Next]_vars PROVE GovernanceInv'
  OBVIOUS
<1>1. CASE UNCHANGED vars
  BY <1>1 DEF vars, GovernanceInv, TypeOK, RowsOK, CallsOK, CheckpointsOK, CheckpointedOnce,
     EnrolledFor, Revocations
<1>2. ASSUME NEW o \in Operators, NEW k \in SigningKeys,
             Begin(o, "enroll", k) \/ Begin(o, "revoke", k)
      PROVE  GovernanceInv'
  BY <1>2, BeginKeepsInv
<1>3. ASSUME NEW o \in Operators, NEW r \in Releases, BeginCheckpoint(o, r)
      PROVE  GovernanceInv'
  BY <1>3, BeginKeepsInv DEF BeginCheckpoint
<1>4. ASSUME NEW o \in Operators, Enroll(o) \/ Revoke(o) \/ AppendCheckpoint(o)
      PROVE  GovernanceInv'
  BY <1>4, EnrollKeepsInv, RevokeKeepsInv, AppendCheckpointKeepsInv
<1> QED
  BY <1>1, <1>2, <1>3, <1>4 DEF Next

LEMMA SpecKeepsGovernance == Spec => []GovernanceInv
  BY InitGovernance, NextKeepsGovernance, PTL DEF Spec

\* Every row of the store and every call in progress is one that
\* ReleaseGovernanceStore can have.
THEOREM GovernanceTypeCorrect == Spec => []TypeOK
  BY SpecKeepsGovernance, PTL DEF GovernanceInv

\* No two calls of append_checkpoint, however they overlap, leave a manifest
\* with two checkpoints, so that _matching_checkpoint always finds the one.
THEOREM ReleasesAreCheckpointedOnce == Spec => []CheckpointedOnce
  BY SpecKeepsGovernance, PTL DEF GovernanceInv

----------------------------------------------------------------------------
(* The rows and the ledger. *)

LEMMA StoryKept ==
  ASSUME LedgerMatchesRows, UNCHANGED <<keyRows, keyEvents>>
  PROVE  LedgerMatchesRows'
  BY DEF LedgerMatchesRows, EventsOf

\* The story of a key whose row and events stay.
LEMMA OtherStoryKept ==
  ASSUME LedgerMatchesRows, NEW k \in SigningKeys,
         keyRows'[k] = keyRows[k], EventsOf(k)' = EventsOf(k),
         \A j \in EventsOf(k) : keyEvents'[j] = keyEvents[j]
  PROVE  (\/ keyRows[k] = "absent" /\ EventsOf(k) = {}
          \/ /\ keyRows[k] = "active"
             /\ \E i \in EventsOf(k) : EventsOf(k) = {i} /\ keyEvents[i].type = "enroll"
          \/ /\ keyRows[k] = "revoked"
             /\ \E i, j \in EventsOf(k) :
                  /\ EventsOf(k) = {i, j} /\ i < j
                  /\ keyEvents[i].type = "enroll" /\ keyEvents[j].type = "revoke")'
  BY DEF LedgerMatchesRows

\* Which events a key has after one was appended.
LEMMA EventsAfter ==
  ASSUME TypeOK, NEW o \in Operators, NEW type, AppendEvent(o, type),
         NEW c, c = calls[o].on
  PROVE  LET n == Len(keyEvents) + 1
         IN  /\ \A k : k # c => EventsOf(k)' = EventsOf(k)
             /\ EventsOf(c)' = EventsOf(c) \cup {n}
             /\ \A k : \A j \in EventsOf(k) : j < n /\ keyEvents'[j] = keyEvents[j]
             /\ keyEvents'[n].type = type
<1> DEFINE n == Len(keyEvents) + 1
<1>1. /\ DOMAIN keyEvents' = 1..n /\ DOMAIN keyEvents = 1..n - 1 /\ n \in Nat \ {0}
      /\ \A j \in 1..n - 1 : keyEvents'[j] = keyEvents[j]
      /\ keyEvents'[n].type = type
      /\ keyEvents'[n].key = c
  BY EventAppended
<1>2. EventsOf(c)' = {j \in DOMAIN keyEvents' : keyEvents'[j].key = c}
  BY DEF EventsOf
<1> HIDE DEF n
<1>3. \A j \in 1..n : j = n \/ j \in 1..n - 1
  BY <1>1
<1>4. \A k : \A j \in EventsOf(k) : j < n /\ keyEvents'[j] = keyEvents[j]
  BY <1>1 DEF EventsOf
<1>5. \A k : k # c => EventsOf(k)' = EventsOf(k)
  BY <1>1, <1>3 DEF EventsOf
<1>6. {j \in DOMAIN keyEvents' : keyEvents'[j].key = c} = EventsOf(c) \cup {n}
  BY <1>1, <1>3 DEF EventsOf
<1> QED
  BY <1>1, <1>2, <1>4, <1>5, <1>6 DEF n

LEMMA EnrollTellsTheStory ==
  ASSUME GovernanceInv, LedgerMatchesRows, NEW o \in Operators, Enroll(o)
  PROVE  LedgerMatchesRows'
<1> DEFINE n == Len(keyEvents) + 1
<1>0. TypeOK /\ keyRows \in [SigningKeys -> {"absent", "active", "revoked"}]
  BY DEF GovernanceInv, TypeOK
<1>1. PICK c \in SigningKeys : c = calls[o].on
  BY <1>0, CallTypes DEF Enroll, Transaction
<1>2. CASE UNCHANGED <<keyRows, keyEvents>>
  BY <1>2, StoryKept
<1>3. CASE /\ keyRows[c] = "absent"
           /\ keyRows' = [keyRows EXCEPT ![c] = "active"]
           /\ AppendEvent(o, "enroll")
  <2>1. /\ \A k : k # c => EventsOf(k)' = EventsOf(k)
        /\ EventsOf(c)' = EventsOf(c) \cup {n}
        /\ \A k : \A j \in EventsOf(k) : j < n /\ keyEvents'[j] = keyEvents[j]
        /\ keyEvents'[n].type = "enroll"
    BY <1>0, <1>1, <1>3, EventsAfter
  <2>2. EventsOf(c) = {}
    BY <1>1, <1>3 DEF LedgerMatchesRows
  <2>3. keyRows'[c] = "active" /\ \A k \in SigningKeys : k # c => keyRows'[k] = keyRows[k]
    BY <1>0, <1>1, <1>3
  <2> HIDE DEF n
  <2>4. ASSUME NEW k \in SigningKeys
        PROVE  (\/ keyRows[k] = "absent" /\ EventsOf(k) = {}
                \/ /\ keyRows[k] = "active"
                   /\ \E i \in EventsOf(k) : EventsOf(k) = {i} /\ keyEvents[i].type = "enroll"
                \/ /\ keyRows[k] = "revoked"
                   /\ \E i, j \in EventsOf(k) :
                        /\ EventsOf(k) = {i, j} /\ i < j
                        /\ keyEvents[i].type = "enroll" /\ keyEvents[j].type = "revoke")'
    <3>1. CASE k # c
      BY <2>1, <2>3, <3>1, OtherStoryKept
    <3>2. CASE k = c
      <4>1. keyRows'[k] = "active" /\ EventsOf(c)' = {n}
        BY <2>1, <2>2, <2>3, <3>2
      <4> QED
        BY <2>1, <3>2, <4>1
    <3> QED
      BY <3>1, <3>2
  <2> QED
    BY <2>4 DEF LedgerMatchesRows
<1> QED
  BY <1>1, <1>2, <1>3 DEF Enroll

LEMMA RevokeTellsTheStory ==
  ASSUME GovernanceInv, LedgerMatchesRows, NEW o \in Operators, Revoke(o)
  PROVE  LedgerMatchesRows'
<1> DEFINE n == Len(keyEvents) + 1
<1>0. TypeOK /\ keyRows \in [SigningKeys -> {"absent", "active", "revoked"}]
  BY DEF GovernanceInv, TypeOK
<1>1. PICK c \in SigningKeys : c = calls[o].on
  BY <1>0, CallTypes DEF Revoke, Transaction
<1>2. CASE UNCHANGED <<keyRows, keyEvents>>
  BY <1>2, StoryKept
<1>3. CASE /\ keyRows[c] = "active"
           /\ keyRows' = [keyRows EXCEPT ![c] = "revoked"]
           /\ AppendEvent(o, "revoke")
  <2>1. /\ \A k : k # c => EventsOf(k)' = EventsOf(k)
        /\ EventsOf(c)' = EventsOf(c) \cup {n}
        /\ \A k : \A j \in EventsOf(k) : j < n /\ keyEvents'[j] = keyEvents[j]
        /\ keyEvents'[n].type = "revoke"
    BY <1>0, <1>1, <1>3, EventsAfter
  <2>2. PICK i \in EventsOf(c) : EventsOf(c) = {i} /\ keyEvents[i].type = "enroll"
    BY <1>1, <1>3 DEF LedgerMatchesRows
  <2>3. keyRows'[c] = "revoked" /\ \A k \in SigningKeys : k # c => keyRows'[k] = keyRows[k]
    BY <1>0, <1>1, <1>3
  <2> HIDE DEF n
  <2>4. ASSUME NEW k \in SigningKeys
        PROVE  (\/ keyRows[k] = "absent" /\ EventsOf(k) = {}
                \/ /\ keyRows[k] = "active"
                   /\ \E x \in EventsOf(k) : EventsOf(k) = {x} /\ keyEvents[x].type = "enroll"
                \/ /\ keyRows[k] = "revoked"
                   /\ \E x, y \in EventsOf(k) :
                        /\ EventsOf(k) = {x, y} /\ x < y
                        /\ keyEvents[x].type = "enroll" /\ keyEvents[y].type = "revoke")'
    <3>1. CASE k # c
      BY <2>1, <2>3, <3>1, OtherStoryKept
    <3>2. CASE k = c
      <4>1. /\ keyRows'[k] = "revoked" /\ EventsOf(c)' = {i, n} /\ i < n
            /\ keyEvents'[i].type = "enroll" /\ keyEvents'[n].type = "revoke"
        BY <2>1, <2>2, <2>3, <3>2
      <4> QED
        BY <3>2, <4>1
    <3> QED
      BY <3>1, <3>2
  <2> QED
    BY <2>4 DEF LedgerMatchesRows
<1> QED
  BY <1>1, <1>2, <1>3 DEF Revoke, Revocable

\* However enroll_release_signing_key and revoke_release_signing_key overlap,
\* the rows of the keys and the ledger of their events tell the same story: a
\* key is enrolled once, and revoked at most once, after that.
THEOREM LedgerAlwaysMatchesRows == Spec => []LedgerMatchesRows
<1>1. Init => LedgerMatchesRows
  BY DEF Init, LedgerMatchesRows, EventsOf
<1>2. GovernanceInv /\ LedgerMatchesRows /\ [Next]_vars => LedgerMatchesRows'
  BY EnrollTellsTheStory, RevokeTellsTheStory, StoryKept
     DEF Next, vars, Begin, BeginCheckpoint, AppendCheckpoint
<1> QED
  BY <1>1, <1>2, SpecKeepsGovernance, PTL DEF Spec

----------------------------------------------------------------------------
\* verify_checkpoint_chain rejects a checkpoint only if a revocation of its key
\* committed after append_checkpoint had looked at the key: whatever operators
\* do one after the other, the chain of an election verifies for ever.
THEOREM ChainsBreakByOverlapOnly == Spec => []OnlyOverlapBreaksChain
<1>1. GovernanceInv => OnlyOverlapBreaksChain
  <2> SUFFICES ASSUME GovernanceInv, NEW c \in AllCheckpoints, Revocations(c.key) = {}
               PROVE  Verifies(c)
    <3>1. ASSUME GovernanceInv, NEW c \in AllCheckpoints, NEW j \in Revocations(c.key)
          PROVE  c.began < keyEvents[j].committed
      BY <3>1 DEF GovernanceInv, CheckpointsOK, AllCheckpoints, EnrolledFor
    <3> QED
      BY <3>1 DEF OnlyOverlapBreaksChain
  <2>1. \E j \in DOMAIN keyEvents : keyEvents[j].type = "enroll" /\ keyEvents[j].key = c.key
    BY DEF GovernanceInv, CheckpointsOK, AllCheckpoints, EnrolledFor
  <2> QED
    BY <2>1 DEF Verifies, Revocations
<1> QED
  BY <1>1, SpecKeepsGovernance, PTL

=============================================================================
