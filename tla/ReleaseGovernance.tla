------------------------- MODULE ReleaseGovernance -------------------------
(***************************************************************************)
(* ReleaseGovernanceStore: the rows of release signing keys, the ledger of *)
(* their enrollments and revocations, and one chain of signed checkpoints  *)
(* per election.  Administrators and release operators call it             *)
(* concurrently.  A call reads the time, or the signer's key row, in one   *)
(* step and changes the store in a BEGIN IMMEDIATE transaction, a later    *)
(* one.  The clock ticks at every step, so no two timestamps are equal; an *)
(* event's place in its sequence stands for its number and its hash link.  *)
(***************************************************************************)
EXTENDS Naturals, Sequences

CONSTANTS
  Operators,    \* processes that call the store, one call at a time
  SigningKeys,  \* release signing keys
  Releases,     \* verified release directories, one manifest each
  Elections,    \* elections of these releases
  SignerOf,     \* the key that signed a release
  ElectionOf,   \* the election of a release
  MaxTime       \* bound on the clock: no call starts later

ASSUME ReleaseConstants ==
  /\ SignerOf \in [Releases -> SigningKeys]
  /\ ElectionOf \in [Releases -> Elections]
  /\ MaxTime \in Nat

VARIABLES
  clock,
  keyRows,      \* release_signing_keys: absent, active or revoked
  keyEvents,    \* release_key_events
  checkpoints,  \* release_checkpoints, by election
  calls         \* the call of each operator, between its two steps

vars == <<clock, keyRows, keyEvents, checkpoints, calls>>

\* `at' is created_at or issued_at; `committed' and `began' are history: when
\* the event's transaction ended, and when the signer's row was read.
KeyEvent == [type : {"enroll", "revoke"}, key : SigningKeys,
             at : Nat, committed : Nat]
Checkpoint == [release : Releases, key : SigningKeys, began : Nat, at : Nat]
Call == [op : {"enroll", "revoke"}, on : SigningKeys, since : Nat]
          \cup [op : {"checkpoint"}, on : Releases, since : Nat]
NoCall == [op |-> "none"]

TypeOK ==
  /\ clock \in Nat
  /\ keyRows \in [SigningKeys -> {"absent", "active", "revoked"}]
  /\ keyEvents \in Seq(KeyEvent)
  /\ checkpoints \in [Elections -> Seq(Checkpoint)]
  /\ calls \in [Operators -> Call \cup {NoCall}]

Init ==
  /\ clock = 0
  /\ keyRows = [k \in SigningKeys |-> "absent"]
  /\ keyEvents = <<>>
  /\ checkpoints = [e \in Elections |-> <<>>]
  /\ calls = [o \in Operators |-> NoCall]

----------------------------------------------------------------------------
\* The first step of a call: what it reads before its transaction.
Begin(o, op, on) ==
  /\ clock < MaxTime
  /\ clock' = clock + 1
  /\ calls[o] = NoCall
  /\ calls' = [calls EXCEPT ![o] = [op |-> op, on |-> on, since |-> clock]]
  /\ UNCHANGED <<keyRows, keyEvents, checkpoints>>

\* The transaction of a call, after which the call returns or raises.
Transaction(o, op) ==
  /\ calls[o].op = op
  /\ clock' = clock + 1
  /\ calls' = [calls EXCEPT ![o] = NoCall]

AppendEvent(o, type) ==
  keyEvents' = Append(keyEvents, [type |-> type, key |-> calls[o].on,
                                  at |-> calls[o].since, committed |-> clock])

----------------------------------------------------------------------------
\* enroll_release_signing_key: the public key is UNIQUE.
Enroll(o) ==
  /\ Transaction(o, "enroll")
  /\ \/ /\ keyRows[calls[o].on] = "absent"
        /\ keyRows' = [keyRows EXCEPT ![calls[o].on] = "active"]
        /\ AppendEvent(o, "enroll")
     \/ /\ keyRows[calls[o].on] # "absent"
        /\ UNCHANGED <<keyRows, keyEvents>>
  /\ UNCHANGED checkpoints

RevocableAgain(k) == keyRows[k] # "absent"  \* mutant of Revocable

\* The row exists and has no revoked_at.
Revocable(k) == keyRows[k] = "active"

\* revoke_release_signing_key
Revoke(o) ==
  /\ Transaction(o, "revoke")
  /\ \/ /\ Revocable(calls[o].on)
        /\ keyRows' = [keyRows EXCEPT ![calls[o].on] = "revoked"]
        /\ AppendEvent(o, "revoke")
     \/ /\ ~Revocable(calls[o].on)
        /\ UNCHANGED <<keyRows, keyEvents>>
  /\ UNCHANGED checkpoints

----------------------------------------------------------------------------
KeyKnown(k) == keyRows[k] # "absent"  \* mutant of KeyActive: revoked_at ignored

\* active_release_signing_key
KeyActive(k) == keyRows[k] = "active"

\* append_checkpoint up to its transaction: the release's signer is active now.
BeginCheckpoint(o, r) ==
  /\ KeyActive(SignerOf[r])
  /\ Begin(o, "checkpoint", r)

ReissuedAlways(r) == FALSE  \* mutant of Issued: the lookup is left out

\* The manifest has a checkpoint already, which is returned.
Issued(r) ==
  \E i \in DOMAIN checkpoints[ElectionOf[r]] :
    checkpoints[ElectionOf[r]][i].release = r

\* Mutant of NewCheckpoint: release and key are swapped.
SwappedCheckpoint(r, since) ==
  [release |-> SignerOf[r], key |-> r, began |-> since, at |-> clock]

NewCheckpoint(r, since) ==
  [release |-> r, key |-> SignerOf[r], began |-> since, at |-> clock]

\* append_checkpoint's transaction: it does not look at the key again.
AppendCheckpoint(o) ==
  /\ Transaction(o, "checkpoint")
  /\ \/ /\ ~Issued(calls[o].on)
        /\ checkpoints' =
             [checkpoints EXCEPT ![ElectionOf[calls[o].on]] =
                Append(@, NewCheckpoint(calls[o].on, calls[o].since))]
     \/ /\ Issued(calls[o].on)
        /\ UNCHANGED checkpoints
  /\ UNCHANGED <<keyRows, keyEvents>>

Next == \E o \in Operators :
  \/ \E k \in SigningKeys : Begin(o, "enroll", k) \/ Begin(o, "revoke", k)
  \/ \E r \in Releases : BeginCheckpoint(o, r)
  \/ Enroll(o) \/ Revoke(o) \/ AppendCheckpoint(o)

Spec == Init /\ [][Next]_vars

----------------------------------------------------------------------------
\* verify_checkpoint_chain on checkpoint c: its signer was enrolled, and not
\* revoked at or before the time of issue.
Verifies(c) ==
  /\ \E j \in DOMAIN keyEvents :
        keyEvents[j].type = "enroll" /\ keyEvents[j].key = c.key
  /\ \A j \in DOMAIN keyEvents :
        keyEvents[j].type = "revoke" /\ keyEvents[j].key = c.key
          => keyEvents[j].at > c.at

\* All checkpoints ever issued.
AllCheckpoints ==
  UNION {{checkpoints[e][i] : i \in DOMAIN checkpoints[e]} : e \in Elections}

Revocations(k) ==
  {j \in DOMAIN keyEvents : keyEvents[j].type = "revoke" /\ keyEvents[j].key = k}

EventsOf(k) == {j \in DOMAIN keyEvents : keyEvents[j].key = k}

\* The key rows and the transparency ledger tell the same story: a key is
\* enrolled once, before it is revoked once, whoever calls at the same time.
LedgerMatchesRows ==
  \A k \in SigningKeys :
    \/ keyRows[k] = "absent" /\ EventsOf(k) = {}
    \/ /\ keyRows[k] = "active"
       /\ \E i \in EventsOf(k) : EventsOf(k) = {i} /\ keyEvents[i].type = "enroll"
    \/ /\ keyRows[k] = "revoked"
       /\ \E i, j \in EventsOf(k) :
            /\ EventsOf(k) = {i, j} /\ i < j
            /\ keyEvents[i].type = "enroll" /\ keyEvents[j].type = "revoke"

\* publish_governed_release needs exactly one checkpoint of the manifest: two
\* operators that checkpoint the same release get the same one.
CheckpointedOnce ==
  \A e \in Elections : \A i, j \in DOMAIN checkpoints[e] :
    checkpoints[e][i].release = checkpoints[e][j].release => i = j

\* A checkpoint fails verification, and its election's chain with it, only if
\* its call overlapped the revocation of its key: a revocation that returned
\* before the call began refuses it, one that began after its issue spares it.
OnlyOverlapBreaksChain ==
  \A c \in AllCheckpoints :
    Verifies(c) \/ \E j \in Revocations(c.key) : c.began < keyEvents[j].committed

\* "Once a release key is revoked, it cannot create a new governed checkpoint"
\* (docs/RELEASE_KEY_TRANSPARENCY.md:31).
RevocationIsProspective ==
  \A c \in AllCheckpoints : \A j \in Revocations(c.key) :
    c.at < keyEvents[j].committed
============================================================================
