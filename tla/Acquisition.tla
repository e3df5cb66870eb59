---------------------------- MODULE Acquisition ----------------------------
(***************************************************************************)
(* Automatic acquisition: source workers that compete for the lease, read  *)
(* the plans that are due and take each one through policy and approval    *)
(* checks, reservation, claim, transport, raw capture, receipt and the     *)
(* run log, while an operator and API requests change policies, approvals, *)
(* approver keys and plans.  Every step of a worker is one transaction (or *)
(* one external effect); between two steps anything else may happen, and a *)
(* worker keeps in `job' whatever the code keeps in local variables.       *)
(***************************************************************************)
EXTENDS SourceGovernance, WorkerLease, FiniteSets

CONSTANTS
  Plans,             \* automation plans (plan_id, fresh for every plan)
  ManualRequests,    \* request keys that belong to no plan
  SourceOf,          \* the source of a plan or of a manual request
  StartTimes,        \* values of start_at that a plan is created with
  TransportWorkers,  \* workers with a transport registered for the sources
  ApiKeys,           \* requests that the reservation endpoint is called with
  Interval,          \* interval_seconds of the plans
  Window,            \* the sliding window of the rate gate: one minute
  RatePerWindow,     \* requests_per_minute of the policies
  BatchLimit,        \* plans that one cycle reads at most
  LeaseCoversCycle,  \* whether lease_seconds outlasts every cycle
  MaxTime,           \* bound on the clock
  MaxCrashes         \* bound on the number of killed processes

Requesters == Plans \cup ManualRequests

\* A request key: "<plan_id>:<scheduled_for>".  Plan cycles only use attempt 1,
\* so the key stands for the reservation and for the reservation_id.
Keys == Requesters \X (0..MaxTime)
NoKey == <<>>

ASSUME AcquisitionConstants ==
  /\ Plans \cap ManualRequests = {}
  /\ SourceOf \in [Requesters -> Sources]
  /\ StartTimes \subseteq Nat
  /\ TransportWorkers \subseteq Workers
  /\ ApiKeys \subseteq Keys
  /\ Interval \in Nat \ {0}
  /\ Window \in Nat \ {0}
  /\ RatePerWindow \in Nat \ {0}
  /\ BatchLimit \in Nat \ {0}
  /\ LeaseCoversCycle \in BOOLEAN
  /\ MaxTime \in Nat
  /\ MaxCrashes \in Nat

VARIABLES
  clock,         \* wall time
  plans,         \* source_automation_plans
  runs,          \* source_automation_runs
  reservations,  \* source_request_reservations
  executions,    \* source_transport_executions: status of each row
  sends,         \* history: how often transport.send was called per request
  objects,       \* requests whose response bytes are in the raw store
  receipts,      \* source_receipts: policy version of each receipt, per request
  pc,            \* what a worker does next
  job,           \* the local variables of a worker's cycle
  ok,            \* the fencing guard of the next mutation has been passed
  api,           \* the API request in flight, between its check and its write
  crashes        \* processes killed so far

requestVars == <<reservations, executions, sends, objects, receipts>>
workerVars  == <<pc, job, ok, crashes>>
vars == <<clock, plans, runs, requestVars, workerVars, api,
          governanceVars, leaseVars>>

Steps ==
  {"idle", "acquire", "contend", "select", "authorize", "policy", "lookup",
   "reserve", "recover", "validate", "claim", "send", "store", "receipt",
   "finish", "move", "log", "release", "abort", "down"}

\* Steps that the Guarded* wrappers of postgres_worker put a fencing check before.
GuardedSteps == {"reserve", "claim", "finish", "move", "log"}

\* A worker holds a handle from its acquisition to its release.
CycleSteps == Steps \ {"idle", "acquire", "contend", "down"}

FinalStatus == {"completed", "transport_error", "capture_error"}
RunStatus ==
  {"completed", "deferred", "policy_blocked", "no_transport",
   "ambiguous_execution", "failed"}

Plan == [version : Nat, next : Nat, enabled : BOOLEAN]
NoPlan == [version |-> 0, next |-> 0, enabled |-> FALSE]
Reservation == [version : Nat, at : Nat]
NoReservation == [version |-> 0, at |-> 0]

Job ==
  [now : Nat,                                \* evaluated_at of the cycle
   batch : SUBSET Keys,                      \* due plans still to be run
   key : Keys \cup {NoKey},                  \* request of the current plan
   todo : {"none", "advance", "defer", "disable"},
   until : Nat,                              \* next_allowed_at of a deferral
   status : RunStatus \cup {"none"},         \* status of the run to log
   result : FinalStatus \cup {"none"}]       \* outcome of the execution
NoJob ==
  [now |-> 0, batch |-> {}, key |-> NoKey, todo |-> "none", until |-> 0,
   status |-> "none", result |-> "none"]

ApiRequest == [op : {"create", "resume", "reserve"}, key : Keys,
               version : Nat \ {0}, now : Nat]
NoRequest == [op |-> "none"]

TypeOK ==
  /\ GovernanceTypeOK
  /\ LeaseTypeOK
  /\ clock \in Nat
  /\ plans \in [Plans -> Plan]
  /\ runs \subseteq [key : Keys, status : RunStatus]
  /\ reservations \in [Keys -> Reservation]
  /\ executions \in [Keys -> FinalStatus \cup {"none", "claimed"}]
  /\ sends \in [Keys -> Nat]
  /\ objects \subseteq Keys
  /\ receipts \in [Keys -> Seq(Nat)]
  /\ pc \in [Workers -> Steps]
  /\ job \in [Workers -> Job]
  /\ ok \in [Workers -> BOOLEAN]
  /\ api \in ApiRequest \cup {NoRequest}
  /\ crashes \in Nat

Init ==
  /\ GovernanceInit
  /\ LeaseInit
  /\ clock = 0
  /\ plans = [p \in Plans |-> NoPlan]
  /\ runs = {}
  /\ reservations = [k \in Keys |-> NoReservation]
  /\ executions = [k \in Keys |-> "none"]
  /\ sends = [k \in Keys |-> 0]
  /\ objects = {}
  /\ receipts = [k \in Keys |-> <<>>]
  /\ pc = [w \in Workers |-> "idle"]
  /\ job = [w \in Workers |-> NoJob]
  /\ ok = [w \in Workers |-> FALSE]
  /\ api = NoRequest
  /\ crashes = 0

----------------------------------------------------------------------------
(* Helpers of a worker step.                                               *)

environmentVars == <<clock, crashes, api, governanceVars>>

Slot(k) == k[2]
Source(k) == SourceOf[k[1]]
PlanVersion(k) == plans[k[1]].version

Goto(w, step) == pc' = [pc EXCEPT ![w] = step]

\* The step's mutation goes ahead; under fencing its check has been passed.
Enter(w, step) ==
  /\ pc[w] = step
  /\ Fenced /\ step \in GuardedSteps => ok[w]
  /\ ok' = [ok EXCEPT ![w] = FALSE]

\* The plan's fate in this cycle: what happens to its row, and what is logged.
Decide(w, todo, status) ==
  /\ Goto(w, "move")
  /\ job' = [job EXCEPT ![w].todo = todo, ![w].status = status]

\* The next plan of the batch, or the end of the cycle.
NextPlan(w) == Goto(w, IF job[w].batch = {} THEN "release" ELSE "authorize")

----------------------------------------------------------------------------
(* The cycle of a worker: ProductionSourceWorker.run_once.                 *)

StartCycle(w) ==
  /\ pc[w] = "idle"
  /\ Goto(w, "acquire")
  /\ job' = [job EXCEPT ![w] = [NoJob EXCEPT !.now = clock]]
  /\ UNCHANGED <<environmentVars, plans, runs, requestVars, ok, leaseVars>>

\* try_acquire against SQLite, and the two statements of the fenced one.
AcquireLease(w) ==
  /\ \/ pc[w] = "acquire" /\ ~Fenced /\ LocalAcquire(w)
     \/ pc[w] = "acquire" /\ Fenced /\ FencedInsert(w)
     \/ pc[w] = "contend" /\ FencedUpdate(w)
  /\ Goto(w, "select")
  /\ UNCHANGED <<environmentVars, plans, runs, requestVars, job, ok>>

InsertConflicts(w) ==
  /\ pc[w] = "acquire" /\ Fenced
  /\ lease.holder # NoWorker
  /\ Goto(w, "contend")
  /\ UNCHANGED <<environmentVars, plans, runs, requestVars, job, ok, leaseVars>>

\* try_acquire returns None: a standby cycle that does nothing.
Standby(w) ==
  /\ pc[w] = IF Fenced THEN "contend" ELSE "acquire"
  /\ LeaseRefused(w)
  /\ Goto(w, "idle")
  /\ job' = [job EXCEPT ![w] = NoJob]
  /\ UNCHANGED <<environmentVars, plans, runs, requestVars, ok, leaseVars>>

\* The conflicting row was deleted meanwhile: RuntimeError, raised outside the
\* try of run_once, ends the process.
ContendFails(w) ==
  /\ pc[w] = "contend"
  /\ lease.holder = NoWorker
  /\ Goto(w, "down")
  /\ job' = [job EXCEPT ![w] = NoJob]
  /\ UNCHANGED <<environmentVars, plans, runs, requestVars, ok, leaseVars>>

\* due_plans: enabled plans that are due at `now', the earliest first.
Due(now) == {k \in Plans \X (0..MaxTime) :
               /\ plans[k[1]].version # 0
               /\ plans[k[1]].enabled
               /\ plans[k[1]].next = Slot(k)
               /\ Slot(k) <= now}

SelectDue(w) ==
  /\ pc[w] = "select"
  /\ \E batch \in SUBSET Due(job[w].now) :
       /\ Cardinality(batch) <= BatchLimit
       /\ \A k \in Due(job[w].now) \ batch :
            /\ Cardinality(batch) = BatchLimit
            /\ \A b \in batch : Slot(b) <= Slot(k)
       /\ job' = [job EXCEPT ![w].batch = batch]
       /\ Goto(w, IF batch = {} THEN "release" ELSE "authorize")
  /\ UNCHANGED <<environmentVars, plans, runs, requestVars, ok, leaseVars>>

\* release() in the finally clause; after an exception the process ends.
ReleaseLease(w) ==
  /\ pc[w] \in {"release", "abort"}
  /\ Release(w)
  /\ Goto(w, IF pc[w] = "release" THEN "idle" ELSE "down")
  /\ job' = [job EXCEPT ![w] = NoJob]
  /\ UNCHANGED <<environmentVars, plans, runs, requestVars, ok>>

----------------------------------------------------------------------------
(* One plan: ApprovalEnforcingAcquisitionWorker._run_plan around           *)
(* AutomaticAcquisitionWorker._run_plan.                                   *)

\* Mutant of ApprovalMissing: the wrapper is bypassed.
ApprovalIgnored(k) == FALSE

\* The plan's snapshot is the current one, yet nobody authorizes it.
ApprovalMissing(k) ==
  /\ IsCurrentApproved(Source(k), PlanVersion(k))
  /\ ~Authorized(Source(k), PlanVersion(k))

Authorize(w) ==
  /\ pc[w] = "authorize"
  /\ \E k \in job[w].batch :
       /\ \A b \in job[w].batch : Slot(k) <= Slot(b)
       /\ IF ApprovalMissing(k)
            THEN /\ Goto(w, "move")
                 /\ job' = [job EXCEPT ![w].batch = @ \ {k}, ![w].key = k,
                              ![w].todo = "disable",
                              ![w].status = "policy_blocked"]
            ELSE /\ Goto(w, "policy")
                 /\ job' = [job EXCEPT ![w].batch = @ \ {k}, ![w].key = k]
  /\ UNCHANGED <<environmentVars, plans, runs, requestVars, ok, leaseVars>>

CheckPolicy(w) ==
  LET k == job[w].key IN
  /\ pc[w] = "policy"
  /\ \/ /\ ~IsCurrentApproved(Source(k), PlanVersion(k))
        /\ Decide(w, "disable", "policy_blocked")
     \/ /\ IsCurrentApproved(Source(k), PlanVersion(k))
        /\ w \notin TransportWorkers
        /\ Decide(w, "disable", "no_transport")
     \/ /\ IsCurrentApproved(Source(k), PlanVersion(k))
        /\ w \in TransportWorkers
        /\ Goto(w, "lookup")
        /\ UNCHANGED job
  /\ UNCHANGED <<environmentVars, plans, runs, requestVars, ok, leaseVars>>

\* _existing_reservation
Lookup(w) ==
  /\ pc[w] = "lookup"
  /\ Goto(w, IF reservations[job[w].key] = NoReservation
               THEN "reserve" ELSE "recover")
  /\ UNCHANGED <<environmentVars, plans, runs, requestVars, job, ok, leaseVars>>
----------------------------------------------------------------------------
(* The reservation ledger and its rate gate: reserve() for attempt 1, one  *)
(* BEGIN IMMEDIATE transaction, called with the caller's idea of `now'.    *)
(* Whether the policy permits the URL and the method of a request is not   *)
(* modelled: any request may be refused for it, like a second one for a    *)
(* key that has a reservation.                                             *)

\* Reservations of source s that count at `now': at in (now - Window, now].
InWindow(s, now) ==
  {k \in Keys : /\ Source(k) = s
                /\ reservations[k] # NoReservation
                /\ reservations[k].at + Window > now
                /\ reservations[k].at <= now}

\* Mutant of RateLimited: one reservation too many.
RateLimitedLate(s, now) == Cardinality(InWindow(s, now)) > RatePerWindow

RateLimited(s, now) == Cardinality(InWindow(s, now)) >= RatePerWindow

\* The request is let in again when the RatePerWindow-th latest reservation,
\* made at `b', leaves the window.
ReopensAtOnce(b) == b  \* mutant of Reopens

Reopens(b) == b + Window

Blocks(s, now, b) ==
  /\ \E k \in InWindow(s, now) : reservations[k].at = b
  /\ Cardinality({k \in InWindow(s, now) : reservations[k].at > b})
       < RatePerWindow
  /\ Cardinality({k \in InWindow(s, now) : reservations[k].at >= b})
       >= RatePerWindow

InsertReservation(k, version, now) ==
  reservations' = [reservations EXCEPT ![k] = [version |-> version, at |-> now]]

Reserve(w) ==
  LET k == job[w].key
      s == Source(k)
      now == job[w].now
  IN
  /\ Enter(w, "reserve")
  /\ \/ /\ Decide(w, "advance", "deferred")  \* refused, without a next_allowed_at
        /\ UNCHANGED reservations
     \/ /\ reservations[k] = NoReservation  \* rate_limit
        /\ RateLimited(s, now)
        /\ \E b \in 0..now :
             /\ Blocks(s, now, b)
             /\ job' = [job EXCEPT ![w].todo = "defer", ![w].status = "deferred",
                          ![w].until = Reopens(b)]
        /\ Goto(w, "move")
        /\ UNCHANGED reservations
     \/ /\ reservations[k] = NoReservation
        /\ ~RateLimited(s, now)
        /\ InsertReservation(k, PlanVersion(k), now)
        /\ Goto(w, "recover")
        /\ UNCHANGED job
  /\ UNCHANGED <<environmentVars, plans, runs, executions, sends, objects,
                 receipts, leaseVars>>

----------------------------------------------------------------------------
(* The transport executor: execution() and execute().                      *)

\* Mutants of Recovery: a claim counts as success; a claim is passed over.
RecoveryTrustsClaim(status) ==
  <<"advance", IF status \in {"claimed", "completed"} THEN "completed"
                                                      ELSE "failed">>
RecoverySkipsClaim(status) ==
  <<"advance", IF status = "completed" THEN "completed" ELSE "failed">>

\* What becomes of the plan when an earlier attempt left a row behind.
Recovery(status) ==
  CASE status = "claimed"   -> <<"disable", "ambiguous_execution">>
    [] status = "completed" -> <<"advance", "completed">>
    [] OTHER                -> <<"advance", "failed">>

Recover(w) ==
  LET status == executions[job[w].key] IN
  /\ pc[w] = "recover"
  /\ \/ status = "none" /\ Goto(w, "validate") /\ UNCHANGED job
     \/ status # "none" /\ Decide(w, Recovery(status)[1], Recovery(status)[2])
  /\ UNCHANGED <<environmentVars, plans, runs, requestVars, ok, leaseVars>>

\* _validate_binding; its PermissionError is caught by _run_plan.
Validate(w) ==
  LET k == job[w].key
      bound == /\ IsCurrentApproved(Source(k), PlanVersion(k))
               /\ reservations[k].version = PlanVersion(k)
  IN
  /\ pc[w] = "validate"
  /\ \/ bound /\ Goto(w, "claim") /\ UNCHANGED job
     \/ ~bound /\ Decide(w, "advance", "failed")
  /\ UNCHANGED <<environmentVars, plans, runs, requestVars, ok, leaseVars>>

\* Mutant of Claimable: an unfinished execution is claimed again.
Reclaimable(k) == executions[k] # "completed"

\* _claim: INSERT of the row that consumes the reservation, once.
Claimable(k) == executions[k] = "none"

Claim(w) ==
  LET k == job[w].key IN
  /\ Enter(w, "claim")
  /\ \/ /\ Claimable(k)
        /\ executions' = [executions EXCEPT ![k] = "claimed"]
        /\ Goto(w, "send")
        /\ UNCHANGED job
     \/ /\ ~Claimable(k)
        /\ Decide(w, "advance", "failed")
        /\ UNCHANGED executions
  /\ UNCHANGED <<environmentVars, plans, runs, reservations, sends, objects,
                 receipts, leaseVars>>

\* The execution is over, but its row still says "claimed".
Conclude(w, result) ==
  /\ Goto(w, "finish")
  /\ job' = [job EXCEPT ![w].result = result]

\* transport.send returns a response, or raises after it may have been sent.
Send(w) ==
  /\ pc[w] = "send"
  /\ sends' = [sends EXCEPT ![job[w].key] = @ + 1]
  /\ \/ Goto(w, "store") /\ UNCHANGED job
     \/ Conclude(w, "transport_error")
  /\ UNCHANGED <<environmentVars, plans, runs, reservations, executions,
                 objects, receipts, ok, leaseVars>>

\* capture(): the bytes go to the raw store; an empty or oversized response, or
\* a storage error, stores nothing.
Store(w) ==
  /\ pc[w] = "store"
  /\ \/ /\ objects' = objects \cup {job[w].key}
        /\ Goto(w, "receipt")
        /\ UNCHANGED job
     \/ /\ Conclude(w, "capture_error")
        /\ UNCHANGED objects
  /\ UNCHANGED <<environmentVars, plans, runs, reservations, executions, sends,
                 receipts, ok, leaseVars>>

\* Mutant of CapturedVersion: the receipt names the policy of its own time.
LatestAtCapture(k) == LatestVersion(Source(k))

\* The receipt names the policy that execute() validated.
CapturedVersion(k) == PlanVersion(k)

\* capture(): the receipt row, which the database may refuse.
WriteReceipt(w) ==
  LET k == job[w].key IN
  /\ pc[w] = "receipt"
  /\ \/ /\ receipts' = [receipts EXCEPT ![k] = Append(@, CapturedVersion(k))]
        /\ Conclude(w, "completed")
     \/ /\ Conclude(w, "capture_error")
        /\ UNCHANGED receipts
  /\ UNCHANGED <<environmentVars, plans, runs, reservations, executions, sends,
                 objects, ok, leaseVars>>

\* _finish: an UPDATE that does not look at the status it overwrites.
Finish(w) ==
  LET k == job[w].key IN
  /\ Enter(w, "finish")
  /\ executions' = [executions EXCEPT ![k] = job[w].result]
  /\ Decide(w, "advance",
            IF job[w].result = "completed" THEN "completed" ELSE "failed")
  /\ UNCHANGED <<environmentVars, plans, runs, reservations, sends, objects,
                 receipts, leaseVars>>

\* _run_plan catches whatever execute() raises.  This is every exception that
\* leaves the ledgers as they are: a request that the policy does not permit or
\* a transport with half a provenance, before the claim; a database error in
\* _claim, in _finish or in the fencing check of either; and, with the request
\* claimed, an error while it is built or its response is opened or closed.
ExecuteRaises(w) ==
  /\ pc[w] \in {"validate", "claim", "send", "store", "finish"}
  /\ Decide(w, "advance", "failed")
  /\ ok' = [ok EXCEPT ![w] = FALSE]
  /\ UNCHANGED <<environmentVars, plans, runs, requestVars, leaseVars>>

----------------------------------------------------------------------------
(* The plan row and the run log.                                           *)

\* Mutant of NextSlot: `<' for `<=' in the loop of advance().
NextSlotStrict(slot, now) ==
  IF slot = now THEN slot ELSE slot + Interval * (((now - slot - 1) \div Interval) + 1)

\* advance(): the first slot of the plan read by due_plans that is after `now'.
NextSlot(slot, now) == slot + Interval * (((now - slot) \div Interval) + 1)

\* set_enabled(False), defer or advance.
Move(w) ==
  LET k == job[w].key
      p == k[1]
  IN
  /\ Enter(w, "move")
  /\ \/ /\ job[w].todo = "disable"
        /\ plans' = [plans EXCEPT ![p].enabled = FALSE]
     \/ /\ job[w].todo = "defer"
        /\ plans' = [plans EXCEPT ![p].next = job[w].until]
     \/ /\ job[w].todo = "advance"
        /\ plans' = [plans EXCEPT ![p].next = NextSlot(Slot(k), job[w].now)]
  /\ Goto(w, "log")
  /\ UNCHANGED <<environmentVars, runs, requestVars, job, leaseVars>>

\* Mutant of LoggedStatus: the executor's status, not the run's.
ExecutorStatus(w) == job[w].result

LoggedStatus(w) == job[w].status

\* add_run
Log(w) ==
  /\ Enter(w, "log")
  /\ runs' = runs \cup {[key |-> job[w].key, status |-> LoggedStatus(w)]}
  /\ NextPlan(w)
  /\ job' = [job EXCEPT ![w] =
               [NoJob EXCEPT !.now = job[w].now, !.batch = job[w].batch]]
  /\ UNCHANGED <<environmentVars, plans, requestVars, leaseVars>>

----------------------------------------------------------------------------
(* The fencing checks of the Guarded* wrappers.  A check is a query of its *)
(* own: the mutation it guards is a later transaction.                     *)

FencePasses(w) ==
  /\ Fenced
  /\ pc[w] \in GuardedSteps
  /\ ~ok[w]
  /\ IsCurrent(w)
  /\ ok' = [ok EXCEPT ![w] = TRUE]
  /\ UNCHANGED <<environmentVars, plans, runs, requestVars, pc, job, leaseVars>>

\* PermissionError: inside execute() it is caught and the plan advances, which
\* is guarded again; anywhere else it ends the cycle and the process.
FenceRefuses(w) ==
  /\ Fenced
  /\ pc[w] \in GuardedSteps
  /\ ~ok[w]
  /\ ~IsCurrent(w)
  /\ IF pc[w] \in {"claim", "finish"}
       THEN Decide(w, "advance", "failed")
       ELSE Goto(w, "abort") /\ UNCHANGED job
  /\ UNCHANGED <<environmentVars, plans, runs, requestVars, ok, leaseVars>>

WorkerStep(w) ==
  \/ StartCycle(w) \/ AcquireLease(w) \/ InsertConflicts(w) \/ Standby(w)
  \/ ContendFails(w) \/ SelectDue(w) \/ ReleaseLease(w)
  \/ Authorize(w) \/ CheckPolicy(w) \/ Lookup(w) \/ Reserve(w)
  \/ Recover(w) \/ Validate(w) \/ Claim(w) \/ Send(w) \/ Store(w)
  \/ WriteReceipt(w) \/ Finish(w) \/ ExecuteRaises(w) \/ Move(w) \/ Log(w)
  \/ FencePasses(w) \/ FenceRefuses(w)
----------------------------------------------------------------------------
(* Processes and time.                                                     *)

\* A worker process is killed.
Crash(w) ==
  /\ crashes < MaxCrashes
  /\ pc[w] # "down"
  /\ LoseHandle(w)
  /\ Goto(w, "down")
  /\ job' = [job EXCEPT ![w] = NoJob]
  /\ ok' = [ok EXCEPT ![w] = FALSE]
  /\ crashes' = crashes + 1
  /\ UNCHANGED <<clock, plans, runs, requestVars, api, governanceVars>>

\* A new process gets a fresh worker_id.  It takes over the identity w in the
\* model once the lease row no longer distinguishes the two.
Restart(w) ==
  /\ pc[w] = "down"
  /\ lease.holder # w \/ ~lease.live
  /\ Goto(w, "idle")
  /\ UNCHANGED <<environmentVars, plans, runs, requestVars, job, ok, leaseVars>>

\* With LeaseCoversCycle only the lease of a dead worker runs out.
Expire ==
  /\ LeaseExpires
  /\ LeaseCoversCycle => pc[lease.holder] \notin CycleSteps
  /\ UNCHANGED <<environmentVars, plans, runs, requestVars, pc, job, ok>>

Tick ==
  /\ clock < MaxTime
  /\ clock' = clock + 1
  /\ UNCHANGED <<crashes, api, governanceVars, plans, runs, requestVars,
                 pc, job, ok, leaseVars>>

----------------------------------------------------------------------------
(* Governance: the operator and the reviewers.                             *)

Govern ==
  /\ \/ \E s \in Sources, status \in AccessStatus : AppendPolicy(s, status)
     \/ \E s \in Sources, version \in 1..MaxVersions, decision \in Decision,
           a \in Approvers : AppendApproval(s, version, decision, a)
     \/ \E a \in Approvers : EnrollKey(a) \/ RevokeKey(a)
  /\ UNCHANGED <<clock, crashes, api, plans, runs, requestVars,
                 pc, job, ok, leaseVars>>

----------------------------------------------------------------------------
(* The API: one request in flight at a time, checked in one step (latest   *)
(* and require_authorized) and written in another.                         *)

ApiCheck(op, k) ==
  LET version == LatestVersion(Source(k)) IN
  /\ api = NoRequest
  /\ version # 0
  /\ Authorized(Source(k), version)
  /\ api' = [op |-> op, key |-> k, version |-> version, now |-> clock]
  /\ UNCHANGED <<clock, crashes, governanceVars, plans, runs, requestVars,
                 pc, job, ok, leaseVars>>

\* The endpoints for plans do not name a slot: they use slot 0 in the request.
ApiCheckCreate(p) == plans[p] = NoPlan /\ ApiCheck("create", <<p, 0>>)

ApiCheckResume(p) ==
  /\ plans[p].version = LatestVersion(SourceOf[p])
  /\ ApiCheck("resume", <<p, 0>>)

\* Nobody knows a plan_id, hence its request keys, before the plan exists.
ApiCheckReserve(k) ==
  /\ k[1] \in Plans => plans[k[1]] # NoPlan
  /\ ApiCheck("reserve", k)

\* The endpoint's write, after which it has answered.
ApiWrite(op) == api # NoRequest /\ api.op = op /\ api' = NoRequest

ApiCreate ==
  /\ ApiWrite("create")
  /\ \E start \in StartTimes \cup {clock} :
       plans' = [plans EXCEPT ![api.key[1]] =
                   [version |-> api.version, next |-> start, enabled |-> TRUE]]
  /\ UNCHANGED <<clock, crashes, governanceVars, runs, requestVars,
                 pc, job, ok, leaseVars>>

ApiResume ==
  /\ ApiWrite("resume")
  /\ plans' = [plans EXCEPT ![api.key[1]].enabled = TRUE]
  /\ UNCHANGED <<clock, crashes, governanceVars, runs, requestVars,
                 pc, job, ok, leaseVars>>

\* reserve() for attempt 1 again, unguarded: refused, or one more row.
ApiReserve ==
  /\ ApiWrite("reserve")
  /\ \/ UNCHANGED reservations
     \/ /\ reservations[api.key] = NoReservation
        /\ ~RateLimited(Source(api.key), api.now)
        /\ InsertReservation(api.key, api.version, api.now)
  /\ UNCHANGED <<clock, crashes, governanceVars, plans, runs, executions,
                 sends, objects, receipts, pc, job, ok, leaseVars>>

\* The pause endpoint: a single UPDATE, without any check.
Pause(p) ==
  /\ plans[p] # NoPlan
  /\ plans' = [plans EXCEPT ![p].enabled = FALSE]
  /\ UNCHANGED <<environmentVars, runs, requestVars, pc, job, ok, leaseVars>>

Api ==
  \/ \E p \in Plans : ApiCheckCreate(p) \/ ApiCheckResume(p) \/ Pause(p)
  \/ \E k \in ApiKeys : ApiCheckReserve(k)
  \/ ApiCreate \/ ApiResume \/ ApiReserve

----------------------------------------------------------------------------
Next ==
  \/ \E w \in Workers : WorkerStep(w) \/ Crash(w) \/ Restart(w)
  \/ Expire \/ Tick \/ Govern \/ Api

\* A running process keeps taking its steps, a killed one is started again, and
\* the lease of a dead holder runs out.
Fairness ==
  /\ \A w \in Workers : WF_vars(WorkerStep(w)) /\ WF_vars(Restart(w))
  /\ WF_vars(Expire /\ pc[lease.holder] = "down")

Spec == Init /\ [][Next]_vars
FairSpec == Spec /\ Fairness
============================================================================
