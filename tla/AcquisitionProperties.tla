----------------------- MODULE AcquisitionProperties -----------------------
(* What acquisition must guarantee, and what its documents claim. *)
EXTENDS Acquisition

----------------------------------------------------------------------------
(* Requests.                                                               *)

\* A request in the vocabulary of OneShotRequest.
Phase(k) ==
  IF executions[k] # "none" THEN executions[k]
  ELSE IF reservations[k] # NoReservation THEN "reserved" ELSE "open"

OneShot == INSTANCE OneShotRequest WITH
  Requests  <- Keys,
  phase     <- [k \in Keys |-> Phase(k)],
  sent      <- sends,
  stored    <- objects,
  receipted <- [k \in Keys |-> Len(receipts[k])]

\* Whatever workers, leases, crashes and API calls do, the ledgers treat every
\* request as OneShotRequest does: consumed and sent at most once, completed
\* only with bytes and one receipt, and never changed afterwards ("completed
\* executions are reconciled without refetching").
RequestsAreOneShot == OneShot!Spec

\* Steps at which a worker has consumed a reservation and is not done with it.
OwningSteps == {"send", "store", "receipt", "finish"}

\* What the ledgers say of the request that a worker at `step' works on.
ClaimFits(step, j) ==
  /\ step \in {"recover", "validate", "claim"} =>
       reservations[j.key] # NoReservation
  /\ step \in OwningSteps => executions[j.key] = "claimed"
  /\ step = "send" => sends[j.key] = 0
  /\ step \in {"store", "receipt", "finish"} => sends[j.key] = 1
  /\ step \in {"send", "store"} => j.key \notin objects
  /\ step = "receipt" => j.key \in objects
  /\ step \in {"send", "store", "receipt"} => Len(receipts[j.key]) = 0
  /\ step = "finish" =>
       /\ j.result = "completed" =>
            j.key \in objects /\ Len(receipts[j.key]) = 1
       /\ j.result # "completed" => Len(receipts[j.key]) = 0
       /\ j.result = "transport_error" => j.key \notin objects

\* Of all workers that ever look at a request, one has it between its claim and
\* its outcome, whatever happened to leases in between, and nothing was sent,
\* stored or certified for a request that nobody claimed.
ClaimsAreExclusive ==
  /\ \A w \in Workers : ClaimFits(pc[w], job[w])
  /\ \A v, w \in Workers :
       /\ v # w /\ pc[v] \in OwningSteps /\ pc[w] \in OwningSteps
       => job[v].key # job[w].key
  /\ \A k \in Keys :
       /\ executions[k] = "none" =>
            sends[k] = 0 /\ k \notin objects /\ Len(receipts[k]) = 0
       /\ executions[k] # "none" => reservations[k] # NoReservation

\* A receipt names the policy that its reservation was made under, that policy
\* was approved by a reviewer, and the bytes it certifies are stored.
ReceiptsAreBound ==
  \A k \in Keys : \A i \in DOMAIN receipts[k] :
    /\ receipts[k][i] = reservations[k].version
    /\ k \in objects
    /\ \E j \in DOMAIN approvals[Source(k)] :
          /\ approvals[Source(k)][j].version = receipts[k][i]
          /\ approvals[Source(k)][j].decision = "approve"

----------------------------------------------------------------------------
(* The run log.                                                            *)

\* A run is logged as completed only when the execution is: after a crash the
\* next worker reports what the ledger says, not what it hopes.
LogIsTruthful ==
  \A r \in runs : r.status = "completed" => executions[r.key] = "completed"

\* A request whose run was logged as failed is over, wherever execute() failed:
\* its plan has left the slot for good, so that nobody claims a reservation
\* which the failure left unused, sends again or settles the claim that a
\* failing _finish left behind.  Needs cycles that exclude each other: a fenced
\* worker may still claim after a check that it passed before it lost the
\* lease, and its late advance() may put the plan back.
FailedRunsAreOver ==
  [][\A r \in runs : r.status = "failed" =>
       /\ executions'[r.key] = executions[r.key]
       /\ sends'[r.key] = sends[r.key]
       /\ r.key \in objects' => r.key \in objects
       /\ receipts'[r.key] = receipts[r.key]]_vars

\* A request quarantined as ambiguous stays claimed: nobody was still at it.
QuarantineIsFinal ==
  \A r \in runs :
    r.status = "ambiguous_execution" => executions[r.key] = "claimed"

----------------------------------------------------------------------------
(* The lease.                                                              *)

\* Under a lease that outlasts the cycle, one worker at a time is in a cycle.
OneCycleAtATime ==
  \A v, w \in Workers :
    pc[v] \in CycleSteps /\ pc[w] \in CycleSteps => v = w

\* A fenced handle that has lost the lease never becomes current again: not by
\* a token that is granted anew after the row was deleted.
StaleStaysStale ==
  [][\A w \in Workers :
       /\ held[w] # 0 /\ ~IsCurrent(w)
       /\ pc[w] \in CycleSteps /\ pc'[w] \in CycleSteps
       => ~IsCurrent(w)']_vars

----------------------------------------------------------------------------
(* Plans.                                                                  *)

\* A plan never goes back to an earlier slot: with one cycle at a time no
\* worker writes a slot computed from a plan that has moved on.
SlotsNeverRegress ==
  [][\A p \in Plans : plans[p].version # 0 => plans'[p].next >= plans[p].next]_vars

\* A plan that is due does not stay so: it is run, deferred or blocked, in
\* spite of crashes and of workers that find the lease taken ("If the process is
\* killed before release, the lease expires naturally",
\* docs/STREAMING_AND_LEASES.md:23).
DuePlanProgresses ==
  \A p \in Plans, slot \in 0..MaxTime :
    /\ plans[p].enabled /\ plans[p].next = slot /\ slot <= clock
    ~> ~plans[p].enabled \/ plans[p].next # slot

\* A claim whose worker died is found and its plan is stopped, not skipped:
\* "claimed-but-ambiguous executions are quarantined rather than replayed"
\* (docs/STREAMING_AND_LEASES.md:23).  A claim left by a _finish that raises has
\* a run that failed, and its plan goes on: see FailedRunsAreOver.
AmbiguousClaimStopsPlan ==
  \A k \in Plans \X (0..MaxTime) :
    /\ executions[k] = "claimed"
    /\ \A w \in Workers : job[w].key # k
    /\ plans[k[1]].enabled /\ plans[k[1]].next = Slot(k)
    ~> ~plans[k[1]].enabled

\* Both checks of a plan's request would pass.
Allowed(k) ==
  /\ IsCurrentApproved(Source(k), PlanVersion(k))
  /\ Authorized(Source(k), PlanVersion(k))

\* Once a source's snapshot is superseded or its approval withdrawn for good, a
\* worker that is between cycles sends no more requests under it.
WithdrawnAuthorityStopsSending ==
  \A w \in Workers, k \in Plans \X (0..MaxTime) :
    [](pc[w] = "idle" /\ plans[k[1]] # NoPlan /\ []~Allowed(k)
         => []~(pc[w] = "send" /\ job[w].key = k))

----------------------------------------------------------------------------
(* The rate gate.                                                          *)

\* No window of the length that requests_per_minute speaks of holds more
\* reservations of a source than it allows: "Reservations count immediately, so
\* concurrent workers cannot all pass a rate check before responses arrive"
\* (docs/SOURCE_GOVERNANCE.md:28).
RateWindow ==
  \A s \in Sources, now \in 0..MaxTime :
    Cardinality(InWindow(s, now)) <= RatePerWindow

----------------------------------------------------------------------------
(* The fencing of captures.                                                *)

\* A worker whose token is stale before the response has even arrived does not
\* certify it: "a stale worker cannot persist a protected capture after losing
\* its current fencing token" (docs/RAW_OBJECT_STORAGE.md:52).
StaleCaptureIsRefused ==
  \A w \in Workers, k \in Plans \X (0..MaxTime) :
    [](pc[w] = "send" /\ job[w].key = k /\ ~IsCurrent(w) => [](receipts[k] = <<>>))
============================================================================
