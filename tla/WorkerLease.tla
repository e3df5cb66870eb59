---------------------------- MODULE WorkerLease ----------------------------
(***************************************************************************)
(* The singleton "source-acquisition" lease that source workers compete    *)
(* for.  Two stores implement it:                                          *)
(*   - Fenced = TRUE : PostgresFencedLeaseStore behind the                 *)
(*     ContextualFencedLeaseStore / FencingContext pair of postgres_worker *)
(*   - Fenced = FALSE: the SQLite WorkerLeaseStore of source_worker        *)
(* An operation is one database transaction, hence one step here, except   *)
(* for the fenced try_acquire: the row its INSERT conflicts with may be    *)
(* deleted before its SELECT ... FOR UPDATE.  Time is abstracted: `live'   *)
(* says whether expires_at is still in the future, and LeaseExpires may    *)
(* turn it FALSE at any moment.                                            *)
(***************************************************************************)
EXTENDS Naturals

CONSTANTS
  Workers,     \* worker process identities (worker_id is unique per process)
  NoWorker,    \* stands for "no such row"
  Fenced,      \* which of the two stores is deployed
  MaxToken     \* bound: a lease with this token no longer expires

ASSUME LeaseConstants ==
  /\ NoWorker \notin Workers
  /\ Fenced \in BOOLEAN
  /\ MaxToken \in Nat \ {0}

VARIABLES
  lease,  \* the row of the lease table
  held    \* per process: token of the handle it holds in memory, 0 for none

leaseVars == <<lease, held>>

LeaseRow == [holder : Workers \cup {NoWorker}, token : Nat, live : BOOLEAN]

\* A missing row.
NoRow == [holder |-> NoWorker, token |-> 0, live |-> FALSE]

LeaseTypeOK ==
  /\ lease \in LeaseRow
  /\ held \in [Workers -> Nat]

LeaseInit ==
  /\ lease = NoRow
  /\ held = [w \in Workers |-> 0]

----------------------------------------------------------------------------
\* Mutant of LeaseRefused: the comparison with expires_at is inverted.
ExpiryInverted(w) == ~lease.live /\ lease.holder \notin {w, NoWorker}

\* The row of another worker has not expired: try_acquire returns None.
LeaseRefused(w) == lease.live /\ lease.holder # w

Grant(w, token) ==
  /\ lease' = [holder |-> w, token |-> token, live |-> TRUE]
  /\ held' = [held EXCEPT ![w] = token]

\* SQLite: read and upsert in one BEGIN IMMEDIATE transaction.  The row has no
\* token; 1 only marks that a handle is held.
LocalAcquire(w) == ~LeaseRefused(w) /\ Grant(w, 1)

\* PostgreSQL, first statement: INSERT ... ON CONFLICT DO NOTHING.
FencedInsert(w) == lease.holder = NoWorker /\ Grant(w, 1)

\* PostgreSQL, after a conflict: SELECT ... FOR UPDATE, then UPDATE.  A takeover
\* after expiry increments the token; the unexpired holder keeps its own.
FencedUpdate(w) ==
  /\ lease.holder # NoWorker
  /\ ~LeaseRefused(w)
  /\ Grant(w, IF lease.live THEN lease.token ELSE lease.token + 1)

\* Mutant of CheckedHandle: the token is compared, the worker is not.
CheckedTokenOnly(w) == lease.token = held[w]

\* What assert_current compares: the worker and the token of the handle.
CheckedHandle(w) == lease.holder = w /\ lease.token = held[w]

\* assert_current: the row exists, is the handle's, and has not expired.
IsCurrent(w) == held[w] # 0 /\ lease.live /\ CheckedHandle(w)

\* The fenced DELETE names worker and token; the SQLite one only the worker.
FencedDeletes(w) == held[w] # 0 /\ lease.holder = w /\ lease.token = held[w]
LocalDeletes(w)  == lease.holder = w

\* release(): the row is deleted, so the next INSERT starts again at token 1.
Release(w) ==
  /\ lease' = IF (IF Fenced THEN FencedDeletes(w) ELSE LocalDeletes(w))
                THEN NoRow ELSE lease
  /\ held' = [held EXCEPT ![w] = 0]

\* A process dies: its handle is gone, its row stays until it expires.
LoseHandle(w) ==
  /\ held' = [held EXCEPT ![w] = 0]
  /\ UNCHANGED lease

\* The lease time passes.
LeaseExpires ==
  /\ lease.live
  /\ Fenced => lease.token < MaxToken
  /\ lease' = [lease EXCEPT !.live = FALSE]
  /\ UNCHANGED held
============================================================================
