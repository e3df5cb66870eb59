-------------------------- MODULE AcquisitionProofs --------------------------
(***************************************************************************)
(* Theorems about acquisition, for every value of the constants: types,    *)
(* claims and one-shot requests first; then what the lease, the plans, the *)
(* run log and the receipts say of a cycle, for any number of workers and  *)
(* plans: without any assumption on leases, or with a lease that outlasts  *)
(* the cycle, as each theorem says; and what a cycle may still send after  *)
(* authority was withdrawn.                                                *)
(***************************************************************************)
EXTENDS AcquisitionProperties, FiniteSetTheorems, TLAPS

----------------------------------------------------------------------------
(* Type correctness.  TypeOK is not inductive: Log needs the status that   *)
(* Decide chose, Finish the result that Conclude chose, and Move needs the *)
(* slot of the plan not to be after the time it was read at.               *)

PlanKeys == Plans \X (0..MaxTime)

\* Steps at which a cycle is dealing with a plan.
PlanSteps ==
  {"policy", "lookup", "reserve", "recover", "validate", "claim", "send",
   "store", "receipt", "finish", "move", "log"}

JobFits(step, j) ==
  /\ \A k \in j.batch : k \in PlanKeys /\ Slot(k) <= j.now
  /\ step \in PlanSteps => j.key \in PlanKeys /\ Slot(j.key) <= j.now
  /\ step = "finish" => j.result # "none"
  /\ step \in {"move", "log"} => j.status # "none"

\* The part of TypeOK about workers, strengthened, and the part about the rest.
CyclesOK ==
  /\ pc \in [Workers -> Steps]
  /\ job \in [Workers -> Job]
  /\ \A w \in Workers : JobFits(pc[w], job[w])

StoresOK ==
  /\ GovernanceTypeOK
  /\ LeaseTypeOK
  /\ clock \in Nat
  /\ plans \in [Plans -> Plan]
  /\ runs \subseteq [key : Keys, status : RunStatus]
  /\ reservations \in [Keys -> Reservation]
  /\ executions \in [Keys -> FinalStatus \cup {"none", "claimed"}]
  /\ sends \in [Keys -> Nat]
  /\ objects \subseteq Keys
  /\ receipts \in [Keys -> Seq(Nat)]
  /\ ok \in [Workers -> BOOLEAN]
  /\ api \in ApiRequest \cup {NoRequest}
  /\ crashes \in Nat

Types == CyclesOK /\ StoresOK

\* The key of a plan's slot is a request key.
LEMMA PlanKeysAreKeys == PlanKeys \subseteq Keys
BY DEF PlanKeys, Keys, Requesters

\* What the two halves of a plan's request key are.
LEMMA KeyParts ==
  /\ \A k \in PlanKeys : k[1] \in Plans /\ k[2] \in 0..MaxTime
  /\ \A p \in Plans, slot \in 0..MaxTime : <<p, slot>> \in PlanKeys
  /\ \A k \in Keys : k[1] \in Requesters /\ Source(k) \in Sources
BY AcquisitionConstants DEF PlanKeys, Keys, Source

\* advance() stays within the slots of the model's clock arithmetic: a natural.
LEMMA NextSlotType ==
  ASSUME NEW slot \in Nat, NEW now \in Nat, slot <= now
  PROVE  NextSlot(slot, now) \in Nat
<1>1. Interval \in Nat /\ Interval > 0
  BY AcquisitionConstants
<1>2. (now - slot) \div Interval \in Nat
  BY <1>1
<1>. QED
  BY <1>1, <1>2 DEF NextSlot

\* The strengthened invariant gives the type invariant that TLC checks.
LEMMA TypesImplyTypeOK == Types => TypeOK
BY DEF Types, CyclesOK, StoresOK, TypeOK

\* An empty deployment satisfies it.
LEMMA InitTypes == Init => Types
<1>. SUFFICES ASSUME Init PROVE Types
  OBVIOUS
<1>. USE DEF Init
<1>1. GovernanceTypeOK
  BY DEF GovernanceInit, GovernanceTypeOK
<1>2. LeaseTypeOK
  BY DEF LeaseInit, LeaseTypeOK, NoRow, LeaseRow
<1>3. NoPlan \in Plan /\ NoReservation \in Reservation /\ NoJob \in Job
  BY DEF NoPlan, Plan, NoReservation, Reservation, NoJob, Job
<1>4. StoresOK
  BY <1>1, <1>2, <1>3 DEF StoresOK
<1>5. CyclesOK
  BY <1>3 DEF CyclesOK, JobFits, NoJob, PlanSteps, Steps
<1>. QED
  BY <1>4, <1>5 DEF Types

\* A step of w puts it at `step' with local variables `j'.
LEMMA CycleFrame ==
  ASSUME CyclesOK, NEW w \in Workers, NEW step \in Steps, NEW j \in Job,
         pc' = [pc EXCEPT ![w] = step], job' = [job EXCEPT ![w] = j],
         JobFits(step, j)
  PROVE  CyclesOK'
<1>. SUFFICES ASSUME NEW v \in Workers PROVE JobFits(pc'[v], job'[v])
  BY DEF CyclesOK, JobFits
<1>1. CASE v = w
  BY <1>1 DEF CyclesOK
<1>2. CASE v # w
  BY <1>2 DEF CyclesOK
<1>. QED
  BY <1>1, <1>2

\* A step of w that leaves its local variables alone.
LEMMA GotoFrame ==
  ASSUME CyclesOK, NEW w \in Workers, NEW step \in Steps, Goto(w, step),
         job' = job, JobFits(step, job[w])
  PROVE  CyclesOK'
<1>1. job' = [job EXCEPT ![w] = job[w]] /\ job[w] \in Job
  BY DEF CyclesOK
<1>. QED
  BY <1>1, CycleFrame DEF Goto

\* A step that drops the local variables.
LEMMA ResetFrame ==
  ASSUME CyclesOK, NEW w \in Workers, NEW step \in Steps \ PlanSteps,
         NEW now \in Nat, Goto(w, step),
         job' = [job EXCEPT ![w] = [NoJob EXCEPT !.now = now]]
  PROVE  CyclesOK'
<1>. DEFINE j == [NoJob EXCEPT !.now = now]
<1>1. j \in Job /\ JobFits(step, j)
  BY DEF NoJob, Job, JobFits, PlanSteps
<1>. QED
  BY <1>1, CycleFrame DEF Goto

\* A new cycle's local variables, written as an update.
LEMMA NoJobNow == NoJob = [NoJob EXCEPT !.now = 0]
BY DEF NoJob

\* Decide, from a step that deals with a plan.
LEMMA DecideFrame ==
  ASSUME CyclesOK, NEW w \in Workers, pc[w] \in PlanSteps,
         NEW todo \in {"advance", "defer", "disable"}, NEW status \in RunStatus,
         Decide(w, todo, status)
  PROVE  CyclesOK'
<1>. DEFINE j == [job[w] EXCEPT !.todo = todo, !.status = status]
<1>1. job[w] \in Job /\ JobFits(pc[w], job[w])
  BY DEF CyclesOK
<1>2. j \in Job /\ JobFits("move", j)
  BY <1>1 DEF Job, JobFits, RunStatus
<1>3. job' = [job EXCEPT ![w] = j]
  BY DEF Decide, CyclesOK
<1>. QED
  BY <1>2, <1>3, CycleFrame DEF Decide, Goto, Steps

\* Conclude, from a step of execute().
LEMMA ConcludeFrame ==
  ASSUME CyclesOK, NEW w \in Workers, pc[w] \in PlanSteps,
         NEW result \in FinalStatus, Conclude(w, result)
  PROVE  CyclesOK'
<1>. DEFINE j == [job[w] EXCEPT !.result = result]
<1>1. job[w] \in Job /\ JobFits(pc[w], job[w])
  BY DEF CyclesOK
<1>2. j \in Job /\ JobFits("finish", j)
  BY <1>1 DEF Job, JobFits, FinalStatus, PlanSteps
<1>3. job' = [job EXCEPT ![w] = j]
  BY DEF Conclude, CyclesOK
<1>. QED
  BY <1>2, <1>3, CycleFrame DEF Conclude, Goto, Steps

\* Steps that only change pc and job leave the stores as they are.
LEMMA StoresFrame ==
  ASSUME StoresOK,
         UNCHANGED <<environmentVars, plans, runs, requestVars, ok, leaseVars>>
  PROVE  StoresOK'
BY DEF StoresOK, environmentVars, requestVars, governanceVars, leaseVars,
       GovernanceTypeOK, LeaseTypeOK

\* So do steps that pass a fencing guard.
LEMMA GuardedFrame ==
  ASSUME StoresOK, NEW w \in Workers, ok' = [ok EXCEPT ![w] = FALSE],
         UNCHANGED <<environmentVars, plans, runs, requestVars, leaseVars>>
  PROVE  StoresOK'
BY DEF StoresOK, environmentVars, requestVars, governanceVars, leaseVars,
       GovernanceTypeOK, LeaseTypeOK

\* A granted lease is a lease row.
LEMMA GrantTypes ==
  ASSUME LeaseTypeOK, NEW w \in Workers, NEW token \in Nat, Grant(w, token)
  PROVE  LeaseTypeOK'
BY DEF LeaseTypeOK, LeaseRow, Grant

\* The steps of run_once around its plans.
LEMMA CycleStepTypes ==
  ASSUME Types, NEW w \in Workers,
         \/ StartCycle(w) \/ AcquireLease(w) \/ InsertConflicts(w) \/ Standby(w)
         \/ ContendFails(w) \/ SelectDue(w) \/ ReleaseLease(w)
  PROVE  Types'
<1>. USE DEF Types
<1>0. job[w] \in Job /\ JobFits(pc[w], job[w]) /\ clock \in Nat
  BY DEF CyclesOK, StoresOK
<1>1. CASE StartCycle(w)
  BY <1>0, <1>1, ResetFrame, StoresFrame DEF StartCycle, Steps, PlanSteps
<1>2. CASE AcquireLease(w)
  <2>1. CyclesOK'
    BY <1>0, <1>2, GotoFrame
       DEF AcquireLease, JobFits, Steps, PlanSteps
  <2>2. PICK token \in Nat : Grant(w, token)
    <3>1. lease.token \in Nat /\ lease.token + 1 \in Nat
      BY DEF StoresOK, LeaseTypeOK, LeaseRow
    <3>. QED
      BY <1>2, <3>1 DEF AcquireLease, LocalAcquire, FencedInsert, FencedUpdate
  <2>3. LeaseTypeOK'
    BY <2>2, GrantTypes DEF StoresOK
  <2>. QED
    BY <1>2, <2>1, <2>3
       DEF AcquireLease, StoresOK, environmentVars, requestVars,
           governanceVars, GovernanceTypeOK
<1>3. CASE InsertConflicts(w)
  BY <1>0, <1>3, GotoFrame, StoresFrame
     DEF InsertConflicts, JobFits, Steps, PlanSteps
<1>4. CASE Standby(w)
  BY NoJobNow, <1>4, ResetFrame, StoresFrame DEF Standby, Steps, PlanSteps
<1>5. CASE ContendFails(w)
  BY NoJobNow, <1>5, ResetFrame, StoresFrame DEF ContendFails, Steps, PlanSteps
<1>6. CASE SelectDue(w)
  <2>1. PICK batch \in SUBSET Due(job[w].now) :
          /\ job' = [job EXCEPT ![w].batch = batch]
          /\ Goto(w, IF batch = {} THEN "release" ELSE "authorize")
    BY <1>6 DEF SelectDue
  <2>. DEFINE step == IF batch = {} THEN "release" ELSE "authorize"
              j == [job[w] EXCEPT !.batch = batch]
  <2>2. \A k \in batch : k \in PlanKeys /\ Slot(k) <= job[w].now
    BY DEF Due, PlanKeys
  <2>3. step \in Steps \ PlanSteps /\ step # "finish"
    BY DEF Steps, PlanSteps
  <2>4. j \in Job /\ JobFits(step, j)
    BY <1>0, <2>2, <2>3, PlanKeysAreKeys DEF Job, JobFits, PlanSteps
  <2>5. job' = [job EXCEPT ![w] = j]
    BY <2>1 DEF CyclesOK
  <2>6. CyclesOK'
    BY <2>1, <2>3, <2>4, <2>5, CycleFrame DEF Goto
  <2>. QED
    BY <1>6, <2>6, StoresFrame DEF SelectDue
<1>7. CASE ReleaseLease(w)
  <2>1. CyclesOK'
    BY NoJobNow, <1>7, ResetFrame DEF ReleaseLease, Steps, PlanSteps
  <2>2. LeaseTypeOK'
    BY <1>7 DEF ReleaseLease, Release, StoresOK, LeaseTypeOK, LeaseRow, NoRow
  <2>. QED
    BY <1>7, <2>1, <2>2
       DEF ReleaseLease, StoresOK, environmentVars, requestVars,
           governanceVars, GovernanceTypeOK
<1>. QED
  BY <1>1, <1>2, <1>3, <1>4, <1>5, <1>6, <1>7

\* The steps of _run_plan up to the executor, and the plan row and run log.
LEMMA PlanStepTypes ==
  ASSUME Types, NEW w \in Workers,
         \/ Authorize(w) \/ CheckPolicy(w) \/ Lookup(w) \/ Reserve(w)
         \/ Recover(w) \/ Validate(w)
  PROVE  Types'
<1>. USE DEF Types
<1>0. job[w] \in Job /\ JobFits(pc[w], job[w])
  BY DEF CyclesOK
<1>k. pc[w] \in PlanSteps => job[w].key \in PlanKeys /\ job[w].key \in Keys
  BY <1>0, PlanKeysAreKeys DEF JobFits
<1>1. CASE Authorize(w)
  <2>1. PICK k \in job[w].batch :
          \/ /\ Goto(w, "move")
             /\ job' = [job EXCEPT ![w].batch = @ \ {k}, ![w].key = k,
                          ![w].todo = "disable", ![w].status = "policy_blocked"]
          \/ /\ Goto(w, "policy")
             /\ job' = [job EXCEPT ![w].batch = @ \ {k}, ![w].key = k]
    BY <1>1 DEF Authorize
  <2>2. k \in PlanKeys /\ k \in Keys /\ Slot(k) <= job[w].now
    BY <1>0, PlanKeysAreKeys DEF JobFits
  <2>. DEFINE i == [job[w] EXCEPT !.batch = @ \ {k}, !.key = k,
                      !.todo = "disable", !.status = "policy_blocked"]
              j == [job[w] EXCEPT !.batch = @ \ {k}, !.key = k]
  <2>3. /\ i \in Job /\ JobFits("move", i)
        /\ j \in Job /\ JobFits("policy", j)
    BY <1>0, <2>2 DEF Job, JobFits, RunStatus
  <2>4. \/ Goto(w, "move") /\ job' = [job EXCEPT ![w] = i]
        \/ Goto(w, "policy") /\ job' = [job EXCEPT ![w] = j]
    BY <2>1 DEF CyclesOK
  <2>5. CyclesOK'
    BY <2>3, <2>4, CycleFrame DEF Goto, Steps
  <2>. QED
    BY <1>1, <2>5, StoresFrame DEF Authorize
<1>2. CASE CheckPolicy(w)
  <2>1. pc[w] \in PlanSteps
    BY <1>2 DEF CheckPolicy, PlanSteps
  <2>2. \/ \E status \in RunStatus : Decide(w, "disable", status)
        \/ Goto(w, "lookup") /\ job' = job
    BY <1>2 DEF CheckPolicy, RunStatus
  <2>3. CyclesOK'
    BY <1>0, <2>1, <2>2, DecideFrame, GotoFrame DEF JobFits, Steps
  <2>. QED
    BY <1>2, <2>3, StoresFrame DEF CheckPolicy
<1>3. CASE Lookup(w)
  <2>1. CyclesOK'
    BY <1>0, <1>3, GotoFrame DEF Lookup, JobFits, PlanSteps, Steps
  <2>. QED
    BY <1>3, <2>1, StoresFrame DEF Lookup
<1>4. CASE Reserve(w)
  <2>1. pc[w] \in PlanSteps
    BY <1>4 DEF Reserve, Enter, PlanSteps
  <2>2. CASE Decide(w, "advance", "deferred") /\ UNCHANGED reservations
    <3>1. CyclesOK'
      BY <2>1, <2>2, DecideFrame DEF RunStatus
    <3>. QED
      BY <1>4, <2>2, <3>1, GuardedFrame DEF Reserve, Enter, requestVars
  <2>3. CASE /\ \E b \in 0..job[w].now :
                  job' = [job EXCEPT ![w].todo = "defer",
                            ![w].status = "deferred", ![w].until = Reopens(b)]
             /\ Goto(w, "move")
             /\ UNCHANGED reservations
    <3>1. PICK b \in 0..job[w].now :
            job' = [job EXCEPT ![w].todo = "defer",
                      ![w].status = "deferred", ![w].until = Reopens(b)]
      BY <2>3
    <3>2. Reopens(b) \in Nat
      BY <1>0, AcquisitionConstants DEF Job, Reopens
    <3>. DEFINE j == [job[w] EXCEPT !.todo = "defer", !.status = "deferred",
                        !.until = Reopens(b)]
    <3>3. j \in Job /\ JobFits("move", j)
      BY <1>0, <2>1, <3>2 DEF Job, JobFits, RunStatus
    <3>4. job' = [job EXCEPT ![w] = j]
      BY <3>1 DEF CyclesOK
    <3>5. CyclesOK'
      BY <2>3, <3>3, <3>4, CycleFrame DEF Goto, Steps
    <3>. QED
      BY <1>4, <2>3, <3>5, GuardedFrame DEF Reserve, Enter, requestVars
  <2>4. CASE /\ InsertReservation(job[w].key, PlanVersion(job[w].key), job[w].now)
             /\ Goto(w, "recover")
             /\ job' = job
    <3>1. CyclesOK'
      BY <1>0, <2>1, <2>4, GotoFrame DEF JobFits, Steps
    <3>2. job[w].now \in Nat /\ PlanVersion(job[w].key) \in Nat
      BY <1>0, <1>k, <2>1, KeyParts DEF Job, PlanVersion, StoresOK, Plan
    <3>3. reservations' \in [Keys -> Reservation]
      BY <2>4, <3>2 DEF InsertReservation, StoresOK, Reservation
    <3>. QED
      BY <1>4, <3>1, <3>3
         DEF Reserve, Enter, StoresOK, environmentVars, governanceVars,
             leaseVars, GovernanceTypeOK, LeaseTypeOK
  <2>. QED
    BY <1>4, <2>2, <2>3, <2>4 DEF Reserve
<1>5. CASE Recover(w)
  <2>1. pc[w] \in PlanSteps
    BY <1>5 DEF Recover, PlanSteps
  <2>2. \/ Goto(w, "validate") /\ job' = job
        \/ \E todo \in {"advance", "disable"}, status \in RunStatus :
              Decide(w, todo, status)
    <3>1. \A status : /\ Recovery(status)[1] \in {"advance", "disable"}
                      /\ Recovery(status)[2] \in RunStatus
      BY DEF Recovery, RunStatus
    <3>. QED
      BY <1>5, <3>1 DEF Recover
  <2>3. CyclesOK'
    BY <1>0, <2>1, <2>2, DecideFrame, GotoFrame DEF JobFits, Steps
  <2>. QED
    BY <1>5, <2>3, StoresFrame DEF Recover
<1>6. CASE Validate(w)
  <2>1. CyclesOK'
    BY <1>0, <1>6, DecideFrame, GotoFrame
       DEF Validate, JobFits, PlanSteps, Steps, RunStatus
  <2>. QED
    BY <1>6, <2>1, StoresFrame DEF Validate
<1>. QED
  BY <1>1, <1>2, <1>3, <1>4, <1>5, <1>6

\* The steps of execute() and capture(), and the fencing checks.
LEMMA RequestStepTypes ==
  ASSUME Types, NEW w \in Workers,
         \/ Claim(w) \/ Send(w) \/ Store(w) \/ WriteReceipt(w) \/ Finish(w)
         \/ Move(w) \/ Log(w) \/ FencePasses(w) \/ FenceRefuses(w)
         \/ ExecuteRaises(w)
  PROVE  Types'
<1>. USE DEF Types
<1>0. job[w] \in Job /\ JobFits(pc[w], job[w])
  BY DEF CyclesOK
<1>k. pc[w] \in PlanSteps =>
        /\ job[w].key \in PlanKeys /\ job[w].key \in Keys
        /\ job[w].key[1] \in Plans
        /\ Slot(job[w].key) \in Nat /\ Slot(job[w].key) <= job[w].now
  BY <1>0, PlanKeysAreKeys, KeyParts, AcquisitionConstants DEF JobFits, Slot
<1>. USE DEF StoresOK, environmentVars, requestVars, governanceVars, leaseVars,
             GovernanceTypeOK, LeaseTypeOK
<1>1. CASE Claim(w)
  <2>1. CyclesOK'
    BY <1>0, <1>1, DecideFrame, GotoFrame
       DEF Claim, Enter, JobFits, PlanSteps, Steps, RunStatus
  <2>. QED
    BY <1>1, <2>1 DEF Claim, Enter
<1>2. CASE Send(w)
  <2>1. CyclesOK'
    BY <1>0, <1>2, ConcludeFrame, GotoFrame
       DEF Send, JobFits, PlanSteps, Steps, FinalStatus
  <2>. QED
    BY <1>k, <1>2, <2>1 DEF Send, PlanSteps
<1>3. CASE Store(w)
  <2>1. CyclesOK'
    BY <1>0, <1>3, ConcludeFrame, GotoFrame
       DEF Store, JobFits, PlanSteps, Steps, FinalStatus
  <2>. QED
    BY <1>k, <1>3, <2>1 DEF Store, PlanSteps
<1>4. CASE WriteReceipt(w)
  <2>1. CyclesOK'
    BY <1>4, ConcludeFrame DEF WriteReceipt, PlanSteps, FinalStatus
  <2>2. CapturedVersion(job[w].key) \in Nat
    BY <1>k, <1>4 DEF WriteReceipt, PlanSteps, CapturedVersion, PlanVersion, Plan
  <2>3. job[w].key \in Keys
    BY <1>k, <1>4 DEF WriteReceipt, PlanSteps
  <2>4. Append(receipts[job[w].key], CapturedVersion(job[w].key)) \in Seq(Nat)
    BY <2>2, <2>3
  <2>5. receipts' \in [Keys -> Seq(Nat)]
    BY <1>4, <2>4 DEF WriteReceipt
  <2>. QED
    BY <1>4, <2>1, <2>5 DEF WriteReceipt
<1>5. CASE Finish(w)
  <2>1. CyclesOK'
    BY <1>5, DecideFrame DEF Finish, Enter, PlanSteps, RunStatus
  <2>2. job[w].result \in FinalStatus
    BY <1>0, <1>5 DEF Finish, Enter, JobFits, Job
  <2>. QED
    BY <1>5, <2>1, <2>2 DEF Finish, Enter
<1>6. CASE Move(w)
  <2>1. CyclesOK'
    BY <1>0, <1>6, GotoFrame DEF Move, Enter, JobFits, PlanSteps, Steps
  <2>2. /\ job[w].until \in Nat
        /\ NextSlot(Slot(job[w].key), job[w].now) \in Nat
    BY <1>0, <1>k, <1>6, NextSlotType DEF Move, Enter, PlanSteps, Job
  <2>3. plans' \in [Plans -> Plan]
    <3>1. plans \in [Plans -> Plan] /\ job[w].key[1] \in Plans
      BY <1>k, <1>6 DEF Move, Enter, PlanSteps
    <3>2. PICK n \in Nat :
            \/ plans' = [plans EXCEPT ![job[w].key[1]].enabled = FALSE]
            \/ plans' = [plans EXCEPT ![job[w].key[1]].next = n]
      BY <1>6, <2>2 DEF Move
    <3>3. CASE plans' = [plans EXCEPT ![job[w].key[1]].enabled = FALSE]
      BY <3>1, <3>3 DEF Plan
    <3>4. CASE plans' = [plans EXCEPT ![job[w].key[1]].next = n]
      BY <3>1, <3>4 DEF Plan
    <3>. QED
      BY <3>2, <3>3, <3>4
  <2>4. /\ UNCHANGED <<environmentVars, runs, requestVars, leaseVars>>
        /\ ok' = [ok EXCEPT ![w] = FALSE]
    BY <1>6 DEF Move, Enter
  <2>. QED
    BY <2>1, <2>3, <2>4
<1>7. CASE Log(w)
  <2>. DEFINE step == IF job[w].batch = {} THEN "release" ELSE "authorize"
              j == [NoJob EXCEPT !.now = job[w].now, !.batch = job[w].batch]
  <2>1. step \in Steps /\ step \notin PlanSteps
    BY DEF Steps, PlanSteps
  <2>2. j \in Job /\ JobFits(step, j)
    BY <1>0, <2>1 DEF Job, NoJob, JobFits, PlanSteps
  <2>3. CyclesOK'
    BY <1>7, <2>1, <2>2, CycleFrame DEF Log, NextPlan, Goto
  <2>4. job[w].key \in Keys /\ LoggedStatus(w) \in RunStatus
    BY <1>0, <1>k, <1>7 DEF Log, Enter, PlanSteps, JobFits, Job, LoggedStatus
  <2>. QED
    BY <1>7, <2>3, <2>4 DEF Log, Enter
<1>8. CASE FencePasses(w)
  BY <1>8 DEF FencePasses, CyclesOK
<1>9. CASE FenceRefuses(w) \/ ExecuteRaises(w)
  <2>1. CyclesOK'
    BY <1>0, <1>9, DecideFrame, GotoFrame
       DEF FenceRefuses, ExecuteRaises, GuardedSteps, JobFits, PlanSteps, Steps,
           RunStatus
  <2>. QED
    BY <1>9, <2>1, StoresFrame DEF FenceRefuses, ExecuteRaises
<1>. QED
  BY <1>1, <1>2, <1>3, <1>4, <1>5, <1>6, <1>7, <1>8, <1>9

\* The operator's and the reviewers' appends.
LEMMA GovernanceTypes ==
  ASSUME GovernanceTypeOK,
         \/ \E s \in Sources, status \in AccessStatus : AppendPolicy(s, status)
         \/ \E s \in Sources, version \in 1..MaxVersions, decision \in Decision,
               a \in Approvers : AppendApproval(s, version, decision, a)
         \/ \E a \in Approvers : EnrollKey(a) \/ RevokeKey(a)
  PROVE  GovernanceTypeOK'
<1>. USE DEF GovernanceTypeOK
<1>1. ASSUME NEW s \in Sources, NEW status \in AccessStatus,
             AppendPolicy(s, status)
      PROVE  GovernanceTypeOK'
  BY <1>1 DEF AppendPolicy
<1>2. ASSUME NEW s \in Sources, NEW version \in 1..MaxVersions,
             NEW decision \in Decision, NEW a \in Approvers,
             AppendApproval(s, version, decision, a)
      PROVE  GovernanceTypeOK'
  <2>1. [version |-> version, decision |-> decision, signer |-> a]
          \in ApprovalEvent
    BY GovernanceConstants DEF ApprovalEvent
  <2>. QED
    BY <1>2, <2>1 DEF AppendApproval
<1>3. ASSUME NEW a \in Approvers, EnrollKey(a) \/ RevokeKey(a)
      PROVE  GovernanceTypeOK'
  BY <1>3 DEF EnrollKey, RevokeKey
<1>. QED
  BY <1>1, <1>2, <1>3

\* The endpoints' checks and writes.
LEMMA ApiTypes ==
  ASSUME Types, Api
  PROVE  Types'
<1>. USE DEF Types, StoresOK, requestVars, governanceVars, leaseVars,
             environmentVars, GovernanceTypeOK, LeaseTypeOK, CyclesOK
<1>1. ASSUME NEW op \in {"create", "resume", "reserve"}, NEW k \in Keys,
             ApiCheck(op, k)
      PROVE  Types'
  <2>1. LatestVersion(Source(k)) \in Nat
    BY KeyParts DEF LatestVersion
  <2>2. [op |-> op, key |-> k, version |-> LatestVersion(Source(k)),
         now |-> clock] \in ApiRequest
    BY <1>1, <2>1 DEF ApiCheck, ApiRequest
  <2>. QED
    BY <1>1, <2>2 DEF ApiCheck
<1>2. \A p \in Plans : <<p, 0>> \in Keys
  BY KeyParts, PlanKeysAreKeys, AcquisitionConstants
<1>3. ASSUME NEW p \in Plans, ApiCheckCreate(p) \/ ApiCheckResume(p)
      PROVE  Types'
  BY <1>1, <1>2, <1>3 DEF ApiCheckCreate, ApiCheckResume
<1>4. ASSUME NEW k \in ApiKeys, ApiCheckReserve(k) PROVE Types'
  BY <1>1, <1>4, AcquisitionConstants DEF ApiCheckReserve
<1>5. ASSUME NEW p \in Plans, Pause(p) PROVE Types'
  BY <1>5 DEF Pause, Plan
<1>6. api # NoRequest => /\ api.key \in Keys
                         /\ api.version \in Nat /\ api.now \in Nat
  BY DEF ApiRequest
<1>7. CASE ApiCreate
  <2>1. PICK start \in StartTimes \cup {clock} :
          plans' = [plans EXCEPT ![api.key[1]] =
             [version |-> api.version, next |-> start, enabled |-> TRUE]]
    BY <1>7 DEF ApiCreate
  <2>2. plans' \in [Plans -> Plan]
    BY <1>6, <1>7, <2>1, AcquisitionConstants DEF ApiCreate, ApiWrite, Plan
  <2>. QED
    BY <1>7, <2>2 DEF ApiCreate, ApiWrite
<1>8. CASE ApiResume
  BY <1>8 DEF ApiResume, ApiWrite, Plan
<1>9. CASE ApiReserve
  <2>1. reservations' \in [Keys -> Reservation]
    <3>1. [version |-> api.version, at |-> api.now] \in Reservation
      BY <1>6, <1>9 DEF ApiReserve, ApiWrite, Reservation
    <3>2. \/ reservations' = reservations
          \/ reservations' = [reservations EXCEPT ![api.key] =
                                [version |-> api.version, at |-> api.now]]
      BY <1>9 DEF ApiReserve, InsertReservation
    <3>. QED
      BY <3>1, <3>2
  <2>. QED
    BY <1>9, <2>1 DEF ApiReserve, ApiWrite
<1>. QED
  BY <1>3, <1>4, <1>5, <1>7, <1>8, <1>9 DEF Api

\* Crashes, restarts and time.
LEMMA EnvironmentTypes ==
  ASSUME Types,
         \/ \E w \in Workers : Crash(w) \/ Restart(w)
         \/ Expire \/ Tick \/ Govern \/ Api
  PROVE  Types'
<1>. USE DEF Types, StoresOK, environmentVars, requestVars, governanceVars,
             leaseVars
<1>1. ASSUME NEW w \in Workers, Crash(w) PROVE Types'
  <2>2. CyclesOK'
    BY <1>1, NoJobNow, ResetFrame DEF Crash, Steps, PlanSteps
  <2>. QED
    BY <1>1, <2>2 DEF Crash, LoseHandle, GovernanceTypeOK, LeaseTypeOK
<1>2. ASSUME NEW w \in Workers, Restart(w) PROVE Types'
  <2>1. JobFits("idle", job[w])
    BY DEF CyclesOK, JobFits, PlanSteps
  <2>2. CyclesOK'
    BY <1>2, <2>1, GotoFrame DEF Restart, Steps
  <2>. QED
    BY <1>2, <2>2, StoresFrame DEF Restart
<1>3. CASE Expire
  <2>1. LeaseTypeOK'
    BY <1>3 DEF Expire, LeaseExpires, LeaseTypeOK, LeaseRow
  <2>. QED
    BY <1>3, <2>1 DEF Expire, CyclesOK, GovernanceTypeOK
<1>4. CASE Tick
  BY <1>4 DEF Tick, CyclesOK, GovernanceTypeOK, LeaseTypeOK
<1>5. CASE Govern
  <2>1. GovernanceTypeOK'
    BY <1>5, GovernanceTypes DEF Govern
  <2>. QED
    BY <1>5, <2>1 DEF Govern, CyclesOK, LeaseTypeOK
<1>6. CASE Api
  BY <1>6, ApiTypes DEF Api
<1>. QED
  BY <1>1, <1>2, <1>3, <1>4, <1>5, <1>6

----------------------------------------------------------------------------
\* Every step keeps the strengthened type invariant.
LEMMA TypesStep ==
  ASSUME Types, [Next]_vars
  PROVE  Types'
<1>1. CASE Next
  BY <1>1, CycleStepTypes, PlanStepTypes, RequestStepTypes, EnvironmentTypes
     DEF Next, WorkerStep
<1>2. CASE UNCHANGED vars
  BY <1>2 DEF vars, Types, CyclesOK, StoresOK, workerVars, requestVars,
              governanceVars, leaseVars, GovernanceTypeOK, LeaseTypeOK
<1>. QED
  BY <1>1, <1>2

\* Every reachable state is type correct: no step of a worker, of the API, of
\* the operator or of a crash leaves a row or a local variable that the stores
\* and the run log cannot hold.
THEOREM TypeCorrect == Spec => []TypeOK
<1>1. Types /\ [Next]_vars => Types'
  BY TypesStep
<1>. QED
  BY <1>1, InitTypes, TypesImplyTypeOK, PTL DEF Spec
----------------------------------------------------------------------------
(* The ledgers implement OneShotRequest, for any number of workers, plans, *)
(* crashes and lost leases, with and without fencing.  The argument does   *)
(* not mention the lease: what makes a request one-shot is the row that    *)
(* Claim inserts, and the worker that inserted it is the only one to go on *)
(* (ClaimsAreExclusive).                                                   *)

----------------------------------------------------------------------------
(* A plan that a worker has read exists: its version is not 0, so that the *)
(* reservation made for it is a row.                                       *)

KnownPlan(step, j) ==
  /\ \A k \in j.batch : PlanVersion(k) # 0
  /\ step \in PlanSteps => PlanVersion(j.key) # 0

PlansKnown == \A w \in Workers : KnownPlan(pc[w], job[w])

RequestInv == Types /\ PlansKnown /\ ClaimsAreExclusive

\* No step changes the policy version of a plan that exists.
LEMMA VersionsStay ==
  ASSUME Types, [Next]_vars
  PROVE  \A p \in Plans : plans[p].version # 0 => plans'[p].version # 0
<1>. SUFFICES ASSUME NEW p \in Plans, plans[p].version # 0
              PROVE  plans'[p].version # 0
  OBVIOUS
<1>0. plans \in [Plans -> Plan]
  BY DEF Types, StoresOK
<1>1. ASSUME NEW w \in Workers, Move(w) PROVE plans'[p].version # 0
  <2>1. \E q : \/ plans' = [plans EXCEPT ![q].enabled = FALSE]
               \/ \E n : plans' = [plans EXCEPT ![q].next = n]
    BY <1>1 DEF Move
  <2>2. plans[p] \in Plan
    BY <1>0
  <2>. QED
    BY <1>0, <2>1, <2>2 DEF Plan
<1>2. CASE ApiCreate
  <2>1. api.version # 0
    BY <1>2 DEF ApiCreate, ApiWrite, Types, StoresOK, ApiRequest
  <2>. QED
    BY <1>0, <1>2, <2>1 DEF ApiCreate, Plan
<1>3. CASE ApiResume
  BY <1>0, <1>3 DEF ApiResume, Plan
<1>4. ASSUME NEW q \in Plans, Pause(q) PROVE plans'[p].version # 0
  BY <1>0, <1>4 DEF Pause, Plan
<1>5. \/ plans' = plans
      \/ \E w \in Workers : Move(w)
      \/ ApiCreate \/ ApiResume \/ \E q \in Plans : Pause(q)
  <2>1. ASSUME NEW w \in Workers, WorkerStep(w), ~Move(w)
        PROVE  plans' = plans
    BY <2>1
       DEF WorkerStep, StartCycle, AcquireLease, InsertConflicts, Standby,
           ContendFails, SelectDue, ReleaseLease, Authorize, CheckPolicy,
           Lookup, Reserve, Recover, Validate, Claim, Send, Store, WriteReceipt,
           Finish, Log, FencePasses, FenceRefuses, ExecuteRaises
  <2>2. \A w \in Workers : Crash(w) \/ Restart(w) => plans' = plans
    BY DEF Crash, Restart
  <2>3. Expire \/ Tick \/ Govern => plans' = plans
    BY DEF Expire, Tick, Govern
  <2>4. Api => \/ plans' = plans
               \/ ApiCreate \/ ApiResume \/ \E q \in Plans : Pause(q)
    BY DEF Api, ApiCheckCreate, ApiCheckResume, ApiCheckReserve, ApiCheck,
           ApiReserve
  <2>. QED
    BY <2>1, <2>2, <2>3, <2>4 DEF Next, vars
<1>. QED
  BY <1>1, <1>2, <1>3, <1>4, <1>5

\* Where the plans that a worker deals with come from.
BatchMoves(w) ==
  /\ job'[w].batch \subseteq job[w].batch \cup Due(job[w].now)
  /\ pc'[w] \in PlanSteps =>
       \/ pc[w] \in PlanSteps /\ job'[w].key = job[w].key
       \/ job'[w].key \in job[w].batch

\* The requests a worker takes up are those of plans that exist.
LEMMA DecidedBatches ==
  ASSUME Types, NEW w \in Workers, pc[w] \in PlanSteps, NEW todo, NEW status,
         Decide(w, todo, status)
  PROVE  /\ BatchMoves(w)
         /\ \A v \in Workers \ {w} : pc'[v] = pc[v] /\ job'[v] = job[v]
<1>1. pc \in [Workers -> Steps] /\ job \in [Workers -> Job] /\ job[w] \in Job
  BY DEF Types, CyclesOK
<1>2. job' = [job EXCEPT ![w] = [job[w] EXCEPT !.todo = todo, !.status = status]]
  BY DEF Decide
<1>3. job'[w].key = job[w].key /\ job'[w].batch = job[w].batch
  BY <1>1, <1>2 DEF Job
<1>. QED
  BY <1>1, <1>2, <1>3 DEF BatchMoves, Decide, Goto

LEMMA WorkerBatches ==
  ASSUME Types, NEW w \in Workers,
         WorkerStep(w) \/ Crash(w) \/ Restart(w)
  PROVE  /\ BatchMoves(w)
         /\ \A v \in Workers \ {w} : pc'[v] = pc[v] /\ job'[v] = job[v]
<1>0. pc \in [Workers -> Steps] /\ job \in [Workers -> Job]
  BY DEF Types, CyclesOK
<1>. USE <1>0 DEF BatchMoves, PlanSteps, Goto, Job
<1>1. CASE \/ StartCycle(w) \/ Standby(w) \/ ContendFails(w) \/ ReleaseLease(w)
           \/ Crash(w)
  BY <1>1
     DEF StartCycle, Standby, ContendFails, ReleaseLease, Crash, NoJob
<1>2. CASE \/ AcquireLease(w) \/ InsertConflicts(w) \/ Restart(w)
           \/ FencePasses(w)
  BY <1>2 DEF AcquireLease, InsertConflicts, Restart, FencePasses
<1>3. CASE SelectDue(w)
  BY <1>3 DEF SelectDue
<1>4. CASE Authorize(w)
  <2>1. PICK k \in job[w].batch :
          /\ pc'[w] \in {"move", "policy"}
          /\ job'[w].key = k
          /\ job'[w].batch = job[w].batch \ {k}
          /\ \A v \in Workers \ {w} : pc'[v] = pc[v] /\ job'[v] = job[v]
    BY <1>4 DEF Authorize
  <2>. QED
    BY <2>1
<1>5. CASE Log(w)
  BY <1>5 DEF Log, NextPlan, Enter, NoJob
<1>6. CASE CheckPolicy(w) \/ Lookup(w) \/ Validate(w)
  BY <1>6, DecidedBatches DEF CheckPolicy, Lookup, Validate, Enter
<1>7. CASE Reserve(w) \/ Recover(w) \/ Claim(w)
  <2>1. CASE Reserve(w)
    BY <2>1, DecidedBatches DEF Reserve, Enter
  <2>2. CASE Recover(w) \/ Claim(w)
    BY <2>2, DecidedBatches DEF Recover, Claim, Enter
  <2>. QED
    BY <1>7, <2>1, <2>2
<1>8. CASE \/ Send(w) \/ Store(w) \/ WriteReceipt(w) \/ Finish(w) \/ Move(w)
           \/ FenceRefuses(w) \/ ExecuteRaises(w)
  <2>1. CASE Send(w) \/ Store(w) \/ WriteReceipt(w)
    <3>1. /\ pc[w] \in PlanSteps
          /\ \E step : Goto(w, step)
          /\ job' = job \/ \E result : job' = [job EXCEPT ![w].result = result]
      BY <2>1 DEF Send, Store, WriteReceipt, Conclude, Enter
    <3>2. job'[w].key = job[w].key /\ job'[w].batch = job[w].batch
      BY <3>1
    <3>. QED
      BY <3>1, <3>2
  <2>2. CASE Finish(w)
    BY <2>2, DecidedBatches DEF Finish, Enter
  <2>3. CASE Move(w)
    <3>1. pc[w] \in PlanSteps /\ job' = job /\ Goto(w, "log")
      BY <2>3 DEF Move, Enter
    <3>. QED
      BY <3>1
  <2>4. CASE FenceRefuses(w) \/ ExecuteRaises(w)
    <3>1. pc[w] \in PlanSteps
      BY <2>4 DEF FenceRefuses, ExecuteRaises, GuardedSteps
    <3>. QED
      BY <2>4, <3>1, DecidedBatches DEF FenceRefuses, ExecuteRaises
  <2>. QED
    BY <1>8, <2>1, <2>2, <2>3, <2>4
<1>. QED
  BY <1>1, <1>2, <1>3, <1>4, <1>5, <1>6, <1>7, <1>8 DEF WorkerStep

\* Nothing else touches a worker.
LEMMA OthersLeaveWorkers ==
  ASSUME Expire \/ Tick \/ Govern \/ Api \/ UNCHANGED vars
  PROVE  pc' = pc /\ job' = job
BY DEF Expire, Tick, Govern, Api, ApiCheckCreate, ApiCheckResume,
       ApiCheckReserve, ApiCheck, ApiCreate, ApiResume, ApiReserve, Pause,
       vars, workerVars

\* So a worker never works for a plan without a policy version.
LEMMA PlansKnownStep ==
  ASSUME Types, Types', PlansKnown, [Next]_vars
  PROVE  PlansKnown'
<1>1. \A v \in Workers : BatchMoves(v) \/ (pc'[v] = pc[v] /\ job'[v] = job[v])
  BY WorkerBatches, OthersLeaveWorkers DEF Next
<1>. SUFFICES ASSUME NEW v \in Workers PROVE KnownPlan(pc[v], job[v])'
  BY DEF PlansKnown
<1>2. \A k \in PlanKeys : PlanVersion(k) # 0 => PlanVersion(k)' # 0
  BY VersionsStay, KeyParts DEF PlanVersion
<1>3. /\ JobFits(pc[v], job[v]) /\ KnownPlan(pc[v], job[v])
      /\ \A k \in Due(job[v].now) : k \in PlanKeys /\ PlanVersion(k) # 0
  BY DEF Types, CyclesOK, PlansKnown, Due, PlanKeys, PlanVersion
<1>. QED
  BY <1>1, <1>2, <1>3 DEF BatchMoves, KnownPlan, JobFits
----------------------------------------------------------------------------
(* The invariant.                                                          *)

\* A step that leaves the request ledgers alone and does not make w the owner
\* of a request.
LEMMA QuietStep ==
  ASSUME Types, ClaimsAreExclusive, NEW w \in Workers, UNCHANGED requestVars,
         \A v \in Workers \ {w} : pc'[v] = pc[v] /\ job'[v] = job[v],
         pc'[w] \notin OwningSteps,
         pc'[w] \in {"recover", "validate", "claim"} =>
           reservations[job'[w].key] # NoReservation
  PROVE  ClaimsAreExclusive'
BY DEF ClaimsAreExclusive, ClaimFits, OwningSteps, requestVars

\* A step of the owner w of request k, or one that makes it the owner.
LEMMA OwnerStep ==
  ASSUME Types, Types', ClaimsAreExclusive, NEW w \in Workers, NEW k \in Keys,
         job[w].key = k, job'[w].key = k,
         pc[w] \in OwningSteps \/ executions[k] = "none",
         \A v \in Workers \ {w} : pc'[v] = pc[v] /\ job'[v] = job[v],
         reservations' = reservations,
         reservations[k] # NoReservation, executions'[k] # "none",
         \A i \in Keys \ {k} :
           /\ executions'[i] = executions[i]
           /\ sends'[i] = sends[i]
           /\ i \in objects' <=> i \in objects
           /\ receipts'[i] = receipts[i],
         ClaimFits(pc[w], job[w])',
         pc'[w] \notin {"recover", "validate", "claim"}
  PROVE  ClaimsAreExclusive'
<1>1. ASSUME NEW v \in Workers \ {w}, pc[v] \in OwningSteps
      PROVE  job[v].key \in Keys \ {k}
  <2>1. job[v].key # k
    BY <1>1 DEF ClaimsAreExclusive, ClaimFits
  <2>2. job[v].key \in Keys
    BY <1>1, PlanKeysAreKeys
       DEF Types, CyclesOK, JobFits, OwningSteps, PlanSteps
  <2>. QED
    BY <2>1, <2>2
<1>2. \A v \in Workers : ClaimFits(pc[v], job[v])'
  <2>. SUFFICES ASSUME NEW v \in Workers \ {w} PROVE ClaimFits(pc[v], job[v])'
    OBVIOUS
  <2>1. ClaimFits(pc[v], job[v])
    BY DEF ClaimsAreExclusive
  <2>2. CASE pc[v] \in OwningSteps
    BY <1>1, <2>1, <2>2 DEF ClaimFits, OwningSteps
  <2>3. CASE pc[v] \notin OwningSteps
    BY <2>1, <2>3 DEF ClaimFits, OwningSteps
  <2>. QED
    BY <2>2, <2>3
<1>3. \A u, v \in Workers :
        /\ u # v /\ pc'[u] \in OwningSteps /\ pc'[v] \in OwningSteps
        => job'[u].key # job'[v].key
  BY <1>1 DEF ClaimsAreExclusive
<1>4. \A i \in Keys :
        /\ executions'[i] = "none" =>
             sends'[i] = 0 /\ i \notin objects' /\ Len(receipts'[i]) = 0
        /\ executions'[i] # "none" => reservations'[i] # NoReservation
  BY DEF ClaimsAreExclusive
<1>. QED
  BY <1>2, <1>3, <1>4 DEF ClaimsAreExclusive

\* A reservation row is only ever added.
LEMMA ReservingStep ==
  ASSUME ClaimsAreExclusive,
         \A k \in Keys :
           reservations[k] # NoReservation => reservations'[k] # NoReservation,
         UNCHANGED <<executions, sends, objects, receipts>>,
         \A w \in Workers :
           \/ pc'[w] = pc[w] /\ job'[w] = job[w]
           \/ /\ pc'[w] \notin OwningSteps
              /\ pc'[w] \in {"recover", "validate", "claim"} =>
                   reservations'[job'[w].key] # NoReservation,
         Types
  PROVE  ClaimsAreExclusive'
<1>1. \A w \in Workers : pc[w] \in {"recover", "validate", "claim"} =>
        job[w].key \in Keys
  BY PlanKeysAreKeys DEF Types, CyclesOK, JobFits, PlanSteps
<1>. QED
  BY <1>1 DEF ClaimsAreExclusive, ClaimFits, OwningSteps

\* The steps from _claim to _finish.
LEMMA OwnerKeepsClaims ==
  ASSUME RequestInv, Types', NEW w \in Workers,
         \/ Claim(w) \/ Send(w) \/ Store(w) \/ WriteReceipt(w) \/ Finish(w)
  PROVE  ClaimsAreExclusive'
<1>. DEFINE k == job[w].key
<1>. USE DEF RequestInv
<1>0. /\ pc \in [Workers -> Steps] /\ job \in [Workers -> Job]
      /\ executions \in [Keys -> FinalStatus \cup {"none", "claimed"}]
      /\ sends \in [Keys -> Nat] /\ receipts \in [Keys -> Seq(Nat)]
  BY DEF Types, CyclesOK, StoresOK
<1>k. k \in Keys
  BY PlanKeysAreKeys
     DEF Types, CyclesOK, JobFits, Claim, Send, Store, WriteReceipt, Finish,
         Enter, PlanSteps
<1>o. \A v \in Workers \ {w} : pc'[v] = pc[v] /\ job'[v] = job[v]
  BY WorkerBatches DEF WorkerStep
<1>f. ClaimFits(pc[w], job[w])
  BY DEF ClaimsAreExclusive
<1>r. reservations[k] # NoReservation
  BY <1>f, <1>k
     DEF ClaimsAreExclusive, ClaimFits, OwningSteps,
         Claim, Send, Store, WriteReceipt, Finish, Enter
<1>1. CASE Claim(w)
  <2>1. CASE ~Claimable(k)
    <3>1. /\ UNCHANGED requestVars
          /\ pc'[w] = "move"
      BY <1>0, <1>1, <2>1 DEF Claim, Decide, Goto, requestVars
    <3>. QED
      BY <1>o, <3>1, QuietStep DEF OwningSteps
  <2>2. CASE Claimable(k)
    <3>1. /\ executions[k] = "none"
          /\ executions' = [executions EXCEPT ![k] = "claimed"]
          /\ UNCHANGED <<reservations, sends, objects, receipts>>
          /\ pc'[w] = "send" /\ job' = job
      BY <1>0, <1>1, <2>2 DEF Claim, Claimable, Goto
    <3>2. ClaimFits(pc[w], job[w])'
      BY <1>0, <1>k, <3>1 DEF ClaimFits, ClaimsAreExclusive, OwningSteps
    <3>. QED
      BY <1>0, <1>k, <1>o, <1>r, <3>1, <3>2, OwnerStep
  <2>. QED
    BY <2>1, <2>2
<1>2. CASE Send(w)
  <2>1. /\ sends' = [sends EXCEPT ![k] = @ + 1]
        /\ UNCHANGED <<reservations, executions, objects, receipts>>
        /\ job'[w].key = k /\ pc[w] = "send"
        /\ \/ pc'[w] = "store"
           \/ pc'[w] = "finish" /\ job'[w].result = "transport_error"
    BY <1>0, <1>2 DEF Send, Conclude, Goto, Job
  <2>2. ClaimFits(pc[w], job[w])'
    BY <1>0, <1>k, <1>f, <2>1 DEF ClaimFits, OwningSteps
  <2>. QED
    BY <1>0, <1>k, <1>o, <1>r, <1>f, <2>1, <2>2, OwnerStep
       DEF OwningSteps, ClaimFits
<1>3. CASE Store(w)
  <2>1. /\ UNCHANGED <<reservations, executions, sends, receipts>>
        /\ job'[w].key = k /\ pc[w] = "store"
        /\ \/ pc'[w] = "receipt" /\ objects' = objects \cup {k}
           \/ /\ pc'[w] = "finish" /\ job'[w].result = "capture_error"
              /\ objects' = objects
    BY <1>0, <1>3 DEF Store, Conclude, Goto, Job
  <2>2. ClaimFits(pc[w], job[w])'
    BY <1>0, <1>k, <1>f, <2>1 DEF ClaimFits, OwningSteps
  <2>. QED
    BY <1>0, <1>k, <1>o, <1>r, <1>f, <2>1, <2>2, OwnerStep
       DEF OwningSteps, ClaimFits
<1>4. CASE WriteReceipt(w)
  <2>1. /\ UNCHANGED <<reservations, executions, sends, objects>>
        /\ job'[w].key = k /\ pc[w] = "receipt" /\ pc'[w] = "finish"
        /\ \/ /\ job'[w].result = "completed"
              /\ receipts' = [receipts EXCEPT ![k] =
                                Append(@, CapturedVersion(k))]
           \/ job'[w].result = "capture_error" /\ receipts' = receipts
    BY <1>0, <1>4 DEF WriteReceipt, Conclude, Goto, Job
  <2>2. Len(Append(receipts[k], CapturedVersion(k))) = Len(receipts[k]) + 1
    <3>1. CapturedVersion(k) \in Nat
      BY <1>4, KeyParts
         DEF Types, CyclesOK, StoresOK, JobFits, WriteReceipt, PlanSteps,
             CapturedVersion, PlanVersion, Plan
    <3>. QED
      BY <1>0, <1>k, <3>1
  <2>3. ClaimFits(pc[w], job[w])'
    <3>1. /\ executions[k] = "claimed" /\ sends[k] = 1
          /\ k \in objects /\ Len(receipts[k]) = 0
      BY <1>f, <2>1 DEF ClaimFits, OwningSteps
    <3>2. IF job'[w].result = "completed" THEN Len(receipts'[k]) = 1
                                          ELSE Len(receipts'[k]) = 0
      <4>1. CASE receipts' = [receipts EXCEPT ![k] =
                               Append(@, CapturedVersion(k))]
                 /\ job'[w].result = "completed"
        <5>1. receipts'[k] = Append(receipts[k], CapturedVersion(k))
          BY <1>0, <1>k, <4>1
        <5>. QED
          BY <2>2, <3>1, <4>1, <5>1
      <4>2. CASE receipts' = receipts /\ job'[w].result = "capture_error"
        BY <3>1, <4>2
      <4>. QED
        BY <2>1, <4>1, <4>2
    <3>3. job'[w].result \in {"completed", "capture_error"}
      BY <2>1
    <3>. QED
      BY <2>1, <3>1, <3>2, <3>3 DEF ClaimFits, OwningSteps
  <2>. QED
    BY <1>0, <1>k, <1>o, <1>r, <1>f, <2>1, <2>3, OwnerStep
       DEF OwningSteps, ClaimFits
<1>5. CASE Finish(w)
  <2>1. /\ executions' = [executions EXCEPT ![k] = job[w].result]
        /\ UNCHANGED <<reservations, sends, objects, receipts>>
        /\ job'[w].key = k /\ pc[w] = "finish" /\ pc'[w] = "move"
        /\ job[w].result # "none"
    BY <1>0, <1>5
       DEF Finish, Enter, Decide, Goto, Job, Types, CyclesOK, JobFits
  <2>2. ClaimFits(pc[w], job[w])'
    BY <2>1 DEF ClaimFits, OwningSteps
  <2>. QED
    BY <1>0, <1>k, <1>o, <1>r, <2>1, <2>2, OwnerStep DEF OwningSteps
<1>. QED
  BY <1>1, <1>2, <1>3, <1>4, <1>5

\* All steps of a worker.
LEMMA WorkerKeepsClaims ==
  ASSUME RequestInv, Types', NEW w \in Workers,
         WorkerStep(w) \/ Crash(w) \/ Restart(w)
  PROVE  ClaimsAreExclusive'
<1>. DEFINE k == job[w].key
<1>. USE DEF RequestInv
<1>0. pc \in [Workers -> Steps] /\ job \in [Workers -> Job]
  BY DEF Types, CyclesOK
<1>k. pc[w] \in PlanSteps => k \in Keys
  BY PlanKeysAreKeys DEF Types, CyclesOK, JobFits
<1>o. \A v \in Workers \ {w} : pc'[v] = pc[v] /\ job'[v] = job[v]
  BY WorkerBatches
<1>f. ClaimFits(pc[w], job[w])
  BY DEF ClaimsAreExclusive
<1>r. pc[w] \in OwningSteps => reservations[k] # NoReservation
  BY <1>f, <1>k DEF ClaimsAreExclusive, ClaimFits, OwningSteps, PlanSteps
<1>1. CASE \/ StartCycle(w) \/ AcquireLease(w) \/ InsertConflicts(w)
           \/ Standby(w) \/ ContendFails(w) \/ SelectDue(w) \/ ReleaseLease(w)
           \/ Authorize(w) \/ CheckPolicy(w) \/ Move(w) \/ Log(w)
           \/ FenceRefuses(w) \/ ExecuteRaises(w) \/ Crash(w) \/ Restart(w)
  <2>1. /\ UNCHANGED requestVars
        /\ pc'[w] \notin OwningSteps
        /\ pc'[w] \notin {"recover", "validate", "claim"}
    BY <1>0, <1>1
       DEF StartCycle, AcquireLease, InsertConflicts, Standby, ContendFails,
           SelectDue, ReleaseLease, Authorize, CheckPolicy, Move, Log,
           FenceRefuses, ExecuteRaises, Crash, Restart, Goto, Decide, NextPlan,
           OwningSteps
  <2>. QED
    BY <1>o, <2>1, QuietStep
<1>2. CASE Lookup(w)
  <2>1. /\ UNCHANGED requestVars /\ job' = job
        /\ pc'[w] \in {"reserve", "recover"}
        /\ pc'[w] = "recover" => reservations[k] # NoReservation
    BY <1>0, <1>2 DEF Lookup, Goto
  <2>. QED
    BY <1>o, <2>1, QuietStep DEF OwningSteps
<1>3. CASE Recover(w) \/ Validate(w)
  <2>1. /\ UNCHANGED requestVars
        /\ pc'[w] \in {"validate", "claim", "move"}
        /\ job'[w].key = k
        /\ reservations[k] # NoReservation
    BY <1>0, <1>3, <1>f DEF Recover, Validate, Decide, Goto, ClaimFits, Job
  <2>. QED
    BY <1>o, <2>1, QuietStep DEF OwningSteps
<1>4. CASE Reserve(w)
  <2>1. k \in Keys /\ PlanVersion(k) # 0
    BY <1>k, <1>4 DEF Reserve, Enter, PlanSteps, PlansKnown, KnownPlan
  <2>2. /\ \/ reservations' = reservations
           \/ InsertReservation(k, PlanVersion(k), job[w].now)
        /\ \/ pc'[w] = "move"
           \/ /\ pc'[w] = "recover" /\ job' = job
              /\ InsertReservation(k, PlanVersion(k), job[w].now)
        /\ UNCHANGED <<executions, sends, objects, receipts>>
    BY <1>0, <1>4 DEF Reserve, Decide, Goto
  <2>. DEFINE row == [version |-> PlanVersion(k), at |-> job[w].now]
  <2>5. row # NoReservation
    BY <2>1 DEF NoReservation
  <2>6. \/ reservations' = reservations
        \/ reservations' = [reservations EXCEPT ![k] = row]
    BY <2>2 DEF InsertReservation
  <2>7. reservations \in [Keys -> Reservation]
    BY DEF Types, StoresOK
  <2>3. \A i \in Keys :
          reservations[i] # NoReservation => reservations'[i] # NoReservation
    BY <2>5, <2>6, <2>7
  <2>4. pc'[w] = "recover" => reservations'[job'[w].key] # NoReservation
    <3>1. pc'[w] = "recover" =>
            job' = job /\ reservations' = [reservations EXCEPT ![k] = row]
      BY <2>2 DEF InsertReservation
    <3>. QED
      BY <2>1, <2>5, <2>7, <3>1
  <2>. QED
    BY <1>o, <2>2, <2>3, <2>4, ReservingStep DEF OwningSteps
<1>5. CASE FencePasses(w)
  BY <1>5 DEF FencePasses, ClaimsAreExclusive, ClaimFits, requestVars
<1>. QED
  BY <1>1, <1>2, <1>3, <1>4, <1>5, OwnerKeepsClaims DEF WorkerStep

\* The endpoints only ever add a reservation.
LEMMA ApiKeepsClaims ==
  ASSUME RequestInv, ApiReserve
  PROVE  ClaimsAreExclusive'
<1>. USE DEF RequestInv
<1>. DEFINE row == [version |-> api.version, at |-> api.now]
<1>1. row # NoReservation
  BY DEF Types, StoresOK, ApiRequest, ApiReserve, ApiWrite, NoReservation
<1>2. \/ reservations' = reservations
      \/ reservations' = [reservations EXCEPT ![api.key] = row]
  BY DEF ApiReserve, InsertReservation
<1>3. reservations \in [Keys -> Reservation]
  BY DEF Types, StoresOK
<1>4. \A k \in Keys :
        reservations[k] # NoReservation => reservations'[k] # NoReservation
  BY <1>1, <1>2, <1>3
<1>. QED
  BY <1>4, ReservingStep DEF ApiReserve

\* Every step keeps the inductive invariant.
LEMMA RequestInvStep ==
  ASSUME RequestInv, [Next]_vars
  PROVE  RequestInv'
<1>1. Types'
  BY TypesStep DEF RequestInv
<1>2. PlansKnown'
  BY <1>1, PlansKnownStep DEF RequestInv
<1>3. ClaimsAreExclusive'
  <2>1. ASSUME NEW w \in Workers, WorkerStep(w) \/ Crash(w) \/ Restart(w)
        PROVE  ClaimsAreExclusive'
    BY <1>1, <2>1, WorkerKeepsClaims
  <2>2. CASE ApiReserve
    BY <2>2, ApiKeepsClaims
  <2>3. CASE \/ Expire \/ Tick \/ Govern \/ Api \/ UNCHANGED vars
    <3>1. CASE ~ApiReserve
      <4>1. UNCHANGED <<requestVars, pc, job>>
        BY <2>3, <3>1
           DEF Expire, Tick, Govern, Api, ApiCheckCreate, ApiCheckResume,
               ApiCheckReserve, ApiCheck, ApiCreate, ApiResume, Pause, vars,
               workerVars
      <4>. QED
        BY <4>1 DEF RequestInv, ClaimsAreExclusive, ClaimFits, requestVars
    <3>. QED
      BY <2>2, <3>1
  <2>. QED
    BY <2>1, <2>3 DEF Next
<1>. QED
  BY <1>1, <1>2, <1>3 DEF RequestInv

\* An empty deployment satisfies it.
LEMMA RequestInvInit == Init => RequestInv
<1>. SUFFICES ASSUME Init PROVE RequestInv
  OBVIOUS
<1>1. Types
  BY InitTypes
<1>2. PlansKnown
  BY DEF Init, PlansKnown, KnownPlan, NoJob, PlanSteps
<1>3. ClaimsAreExclusive
  BY DEF Init, ClaimsAreExclusive, ClaimFits, OwningSteps
<1>. QED
  BY <1>1, <1>2, <1>3 DEF RequestInv

\* A request that one worker has consumed is in no other worker's hands, and
\* the ledgers agree with how far that worker has got: nothing it has sent,
\* stored or certified belongs to a reservation that was not consumed.
THEOREM ClaimsStayExclusive == Spec => []ClaimsAreExclusive
<1>1. RequestInv => ClaimsAreExclusive
  BY DEF RequestInv
<1>2. RequestInv /\ [Next]_vars => RequestInv'
  BY RequestInvStep
<1>. QED
  BY <1>1, <1>2, RequestInvInit, PTL DEF Spec
----------------------------------------------------------------------------
(* The refinement.                                                         *)

\* A step that leaves the request ledgers alone is a stutter of the abstract one.
LEMMA QuietStutters ==
  ASSUME UNCHANGED requestVars
  PROVE  UNCHANGED OneShot!vars
BY DEF requestVars, OneShot!vars, Phase

\* A new reservation row opens a request.
LEMMA ReserveRefines ==
  ASSUME RequestInv, NEW k \in Keys, NEW version \in Nat \ {0}, NEW now,
         reservations[k] = NoReservation,
         InsertReservation(k, version, now),
         UNCHANGED <<executions, sends, objects, receipts>>
  PROVE  OneShot!Reserve(k)
<1>. DEFINE row == [version |-> version, at |-> now]
<1>1. row # NoReservation
  BY DEF NoReservation
<1>2. reservations' = [reservations EXCEPT ![k] = row]
  BY DEF InsertReservation
<1>3. /\ reservations \in [Keys -> Reservation]
      /\ executions[k] = "none"
  BY DEF RequestInv, Types, StoresOK, ClaimsAreExclusive
<1>4. Phase(k) = "open" /\ Phase(k)' = "reserved"
  BY <1>1, <1>2, <1>3 DEF Phase
<1>5. \A i \in Keys \ {k} : Phase(i)' = Phase(i)
  BY <1>2, <1>3 DEF Phase
<1>. QED
  BY <1>4, <1>5 DEF OneShot!Reserve, OneShot!Advance

\* A change of one row of the execution ledger is a change of that phase.
LEMMA ExecutionRefines ==
  ASSUME RequestInv, NEW k \in Keys,
         NEW status \in FinalStatus \cup {"claimed"},
         executions' = [executions EXCEPT ![k] = status],
         UNCHANGED <<reservations, sends, objects, receipts>>
  PROVE  OneShot!Advance(k, Phase(k), status)
<1>1. executions \in [Keys -> FinalStatus \cup {"none", "claimed"}]
  BY DEF RequestInv, Types, StoresOK
<1>2. Phase(k)' = status
  BY <1>1 DEF Phase, FinalStatus
<1>3. \A i \in Keys \ {k} : Phase(i)' = Phase(i)
  BY <1>1 DEF Phase
<1>. QED
  BY <1>2, <1>3 DEF OneShot!Advance

\* The receipt of a claimed request whose bytes are stored certifies it.
LEMMA CertifyRefines ==
  ASSUME NEW k \in Keys, Phase(k) = "claimed", k \in objects,
         Len(receipts[k]) = 0, Len(receipts'[k]) = 1,
         \A i \in Keys \ {k} : receipts'[i] = receipts[i],
         UNCHANGED <<reservations, executions, sends, objects>>
  PROVE  OneShot!Next
<1>1. [i \in Keys |-> Len(receipts[i])]' =
        [[i \in Keys |-> Len(receipts[i])] EXCEPT ![k] = 1]
  OBVIOUS
<1>2. OneShot!Certify(k)
  BY <1>1 DEF OneShot!Certify, Phase
<1>. QED
  BY <1>2 DEF OneShot!Next

\* The steps from _claim to _finish are the abstract request's steps.
LEMMA OwnerRefines ==
  ASSUME RequestInv, NEW w \in Workers,
         \/ Claim(w) \/ Send(w) \/ Store(w) \/ WriteReceipt(w) \/ Finish(w)
  PROVE  [OneShot!Next]_(OneShot!vars)
<1>. DEFINE k == job[w].key
<1>. USE DEF RequestInv
<1>0. /\ executions \in [Keys -> FinalStatus \cup {"none", "claimed"}]
      /\ sends \in [Keys -> Nat] /\ receipts \in [Keys -> Seq(Nat)]
      /\ job[w] \in Job /\ JobFits(pc[w], job[w])
  BY DEF Types, CyclesOK, StoresOK
<1>k. k \in Keys
  BY <1>0, PlanKeysAreKeys
     DEF JobFits, Claim, Send, Store, WriteReceipt, Finish, Enter, PlanSteps
<1>f. ClaimFits(pc[w], job[w])
  BY DEF ClaimsAreExclusive
<1>1. CASE Claim(w)
  <2>1. CASE ~Claimable(k)
    <3>1. UNCHANGED requestVars
      BY <1>1, <2>1 DEF Claim, requestVars
    <3>. QED
      BY <3>1, QuietStutters
  <2>2. CASE Claimable(k)
    <3>1. Phase(k) = "reserved"
      BY <1>1, <1>f, <2>2 DEF Claim, Enter, Claimable, ClaimFits, Phase
    <3>2. OneShot!Advance(k, Phase(k), "claimed")
      BY <1>1, <1>k, <2>2, ExecutionRefines DEF Claim
    <3>. QED
      BY <1>k, <3>1, <3>2 DEF OneShot!Next, OneShot!Consume
  <2>. QED
    BY <2>1, <2>2
<1>2. ASSUME pc[w] \in OwningSteps PROVE Phase(k) = "claimed"
  BY <1>2, <1>f DEF ClaimFits, Phase
<1>3. CASE Send(w)
  <2>1. /\ pc[w] = "send" /\ sends[k] = 0
        /\ sends' = [sends EXCEPT ![k] = @ + 1]
        /\ UNCHANGED <<reservations, executions, objects, receipts>>
    BY <1>3, <1>f DEF Send, ClaimFits
  <2>2. sends' = [sends EXCEPT ![k] = 1]
    BY <1>0, <1>k, <2>1
  <2>3. OneShot!Transmit(k)
    BY <1>2, <1>k, <2>1, <2>2 DEF OneShot!Transmit, Phase, OwningSteps
  <2>. QED
    BY <1>k, <2>3 DEF OneShot!Next
<1>4. CASE Store(w)
  <2>1. /\ pc[w] = "store" /\ sends[k] = 1 /\ k \notin objects
        /\ UNCHANGED <<reservations, executions, sends, receipts>>
        /\ objects' = objects \cup {k} \/ objects' = objects
    BY <1>4, <1>f DEF Store, ClaimFits
  <2>2. CASE objects' = objects
    BY <2>1, <2>2, QuietStutters DEF requestVars
  <2>3. CASE objects' = objects \cup {k}
    <3>1. OneShot!Keep(k)
      BY <1>2, <1>k, <2>1, <2>3 DEF OneShot!Keep, Phase, OwningSteps
    <3>. QED
      BY <1>k, <3>1 DEF OneShot!Next
  <2>. QED
    BY <2>1, <2>2, <2>3
<1>5. CASE WriteReceipt(w)
  <2>1. /\ pc[w] = "receipt" /\ k \in objects /\ Len(receipts[k]) = 0
        /\ UNCHANGED <<reservations, executions, sends, objects>>
        /\ \/ receipts' = [receipts EXCEPT ![k] = Append(@, CapturedVersion(k))]
           \/ receipts' = receipts
    BY <1>5, <1>f DEF WriteReceipt, ClaimFits
  <2>2. CASE receipts' = receipts
    BY <2>1, <2>2, QuietStutters DEF requestVars
  <2>3. CASE receipts' = [receipts EXCEPT ![k] = Append(@, CapturedVersion(k))]
    <3>1. CapturedVersion(k) \in Nat
      BY <1>0, <2>1, KeyParts
         DEF Types, StoresOK, JobFits, PlanSteps, CapturedVersion,
             PlanVersion, Plan
    <3>2. Len(Append(receipts[k], CapturedVersion(k))) = 1
      BY <1>0, <1>k, <2>1, <3>1
    <3>3. receipts'[k] = Append(receipts[k], CapturedVersion(k))
      BY <1>0, <1>k, <2>3
    <3>4. Len(receipts'[k]) = 1
      BY <3>2, <3>3
    <3>5. \A i \in Keys \ {k} : receipts'[i] = receipts[i]
      BY <1>0, <2>3
    <3>6. Phase(k) = "claimed"
      BY <1>2, <2>1 DEF OwningSteps
    <3>. QED
      BY <1>k, <2>1, <3>4, <3>5, <3>6, CertifyRefines
  <2>. QED
    BY <2>1, <2>2, <2>3
<1>6. CASE Finish(w)
  <2>1. /\ pc[w] = "finish" /\ job[w].result \in FinalStatus /\ sends[k] = 1
        /\ executions' = [executions EXCEPT ![k] = job[w].result]
        /\ UNCHANGED <<reservations, sends, objects, receipts>>
    BY <1>0, <1>6, <1>f DEF Finish, Enter, JobFits, Job, ClaimFits
  <2>2. OneShot!Advance(k, "claimed", job[w].result)
    BY <1>2, <1>k, <2>1, ExecutionRefines DEF OwningSteps
  <2>3. CASE job[w].result = "completed"
    <3>1. OneShot!Complete(k)
      BY <1>k, <1>f, <2>1, <2>2, <2>3 DEF OneShot!Complete, ClaimFits
    <3>. QED
      BY <1>k, <3>1 DEF OneShot!Next
  <2>4. CASE job[w].result # "completed"
    <3>1. OneShot!Fail(k)
      BY <1>k, <1>f, <2>1, <2>2, <2>4
         DEF OneShot!Fail, ClaimFits, FinalStatus
    <3>. QED
      BY <1>k, <3>1 DEF OneShot!Next
  <2>. QED
    BY <2>3, <2>4
<1>. QED
  BY <1>1, <1>3, <1>4, <1>5, <1>6

\* Every step is a step of the abstract request, or a stutter.
LEMMA StepRefines ==
  ASSUME RequestInv, [Next]_vars
  PROVE  [OneShot!Next]_(OneShot!vars)
<1>. USE DEF RequestInv
<1>1. ASSUME NEW w \in Workers, Reserve(w)
      PROVE  [OneShot!Next]_(OneShot!vars)
  <2>. DEFINE k == job[w].key
  <2>1. /\ k \in Keys /\ PlanVersion(k) \in Nat \ {0}
    <3>1. pc[w] \in PlanSteps
      BY <1>1 DEF Reserve, Enter, PlanSteps
    <3>2. k \in PlanKeys /\ PlanVersion(k) # 0
      BY <3>1 DEF Types, CyclesOK, JobFits, PlansKnown, KnownPlan
    <3>3. PlanVersion(k) \in Nat
      BY <3>2, KeyParts DEF PlanVersion, Types, StoresOK, Plan
    <3>. QED
      BY <3>2, <3>3, PlanKeysAreKeys
  <2>2. \/ UNCHANGED requestVars
        \/ /\ reservations[k] = NoReservation
           /\ InsertReservation(k, PlanVersion(k), job[w].now)
           /\ UNCHANGED <<executions, sends, objects, receipts>>
    BY <1>1 DEF Reserve, requestVars
  <2>3. UNCHANGED OneShot!vars \/ OneShot!Reserve(k)
    BY <2>1, <2>2, QuietStutters, ReserveRefines
  <2>. QED
    BY <2>1, <2>3 DEF OneShot!Next
<1>2. CASE ApiReserve
  <2>1. api.key \in Keys /\ api.version \in Nat \ {0}
    BY <1>2 DEF ApiReserve, ApiWrite, Types, StoresOK, ApiRequest
  <2>2. \/ UNCHANGED requestVars
        \/ /\ reservations[api.key] = NoReservation
           /\ InsertReservation(api.key, api.version, api.now)
           /\ UNCHANGED <<executions, sends, objects, receipts>>
    BY <1>2 DEF ApiReserve, requestVars
  <2>3. UNCHANGED OneShot!vars \/ OneShot!Reserve(api.key)
    BY <2>1, <2>2, QuietStutters, ReserveRefines
  <2>. QED
    BY <2>1, <2>3 DEF OneShot!Next
<1>3. ASSUME NEW w \in Workers,
             \/ Claim(w) \/ Send(w) \/ Store(w) \/ WriteReceipt(w) \/ Finish(w)
      PROVE  [OneShot!Next]_(OneShot!vars)
  BY <1>3, OwnerRefines
<1>4. ASSUME NEW w \in Workers, WorkerStep(w) \/ Crash(w) \/ Restart(w),
             ~Reserve(w), ~Claim(w), ~Send(w), ~Store(w), ~WriteReceipt(w),
             ~Finish(w)
      PROVE  UNCHANGED requestVars
  BY <1>4
     DEF WorkerStep, StartCycle, AcquireLease, InsertConflicts, Standby,
         ContendFails, SelectDue, ReleaseLease, Authorize, CheckPolicy, Lookup,
         Recover, Validate, Move, Log, FencePasses, FenceRefuses, ExecuteRaises,
         Crash, Restart
<1>5. CASE (Expire \/ Tick \/ Govern \/ Api \/ UNCHANGED vars) /\ ~ApiReserve
  <2>1. UNCHANGED requestVars
    BY <1>5 DEF Expire, Tick, Govern, Api, ApiCheckCreate, ApiCheckResume,
                ApiCheckReserve, ApiCheck, ApiCreate, ApiResume, Pause, vars
  <2>. QED
    BY <2>1, QuietStutters
<1>6. CASE \E w \in Workers : WorkerStep(w) \/ Crash(w) \/ Restart(w)
  BY <1>1, <1>3, <1>4, <1>6, QuietStutters
<1>. QED
  BY <1>2, <1>5, <1>6 DEF Next

\* An empty ledger is a set of open requests.
LEMMA InitRefines == Init => OneShot!Init
<1>. SUFFICES ASSUME Init PROVE OneShot!Init
  OBVIOUS
<1>1. \A k \in Keys : Phase(k) = "open" /\ Len(receipts[k]) = 0
  BY DEF Init, Phase
<1>. QED
  BY <1>1 DEF Init, OneShot!Init

\* The ledgers implement the one-shot request: whatever workers, leases,
\* crashes and API requests do, a reservation is consumed once, sent at most
\* once, completed only with stored bytes and one receipt, and then left alone.
THEOREM LedgersAreOneShot == Spec => RequestsAreOneShot
<1>1. RequestInv /\ [Next]_vars => RequestInv'
  BY RequestInvStep
<1>2. RequestInv /\ [Next]_vars => [OneShot!Next]_(OneShot!vars)
  BY StepRefines
<1>. QED
  BY <1>1, <1>2, RequestInvInit, InitRefines, PTL
     DEF Spec, RequestsAreOneShot, OneShot!Spec

----------------------------------------------------------------------------
(* The lease.                                                              *)

\* Who changes the lease row and the handles: a grant, a release, the death of
\* a holder, and time.
LEMMA LeaseMoves ==
  ASSUME Types, [Next]_vars
  PROVE  \/ UNCHANGED leaseVars
         \/ \E v \in Workers : AcquireLease(v) \/ ReleaseLease(v) \/ Crash(v)
         \/ Expire
<1>1. ASSUME NEW v \in Workers, WorkerStep(v), ~AcquireLease(v), ~ReleaseLease(v)
      PROVE  UNCHANGED leaseVars
  BY <1>1
     DEF WorkerStep, StartCycle, InsertConflicts, Standby, ContendFails,
         SelectDue, Authorize, CheckPolicy, Lookup, Reserve, Recover, Validate,
         Claim, Send, Store, WriteReceipt, Finish, Move, Log, FencePasses,
         FenceRefuses, ExecuteRaises
<1>2. ASSUME NEW v \in Workers, Restart(v) PROVE UNCHANGED leaseVars
  BY <1>2 DEF Restart
<1>3. Tick \/ Govern \/ Api \/ UNCHANGED vars => UNCHANGED leaseVars
  BY DEF Tick, Govern, Api, ApiCheckCreate, ApiCheckResume, ApiCheckReserve,
         ApiCheck, ApiCreate, ApiResume, ApiReserve, Pause, vars
<1>. QED
  BY <1>1, <1>2, <1>3 DEF Next

\* A handle that has lost the lease does not get it back within its cycle.
LEMMA StaleStep ==
  ASSUME Types, [Next]_vars, NEW w \in Workers, ~IsCurrent(w),
         pc[w] \in CycleSteps, pc'[w] \in CycleSteps
  PROVE  ~IsCurrent(w)'
<1>0. /\ pc \in [Workers -> Steps] /\ held \in [Workers -> Nat]
      /\ lease \in LeaseRow
  BY DEF Types, CyclesOK, StoresOK, LeaseTypeOK
<1>. USE DEF IsCurrent, CheckedHandle
<1>1. CASE UNCHANGED leaseVars
  BY <1>1 DEF leaseVars
<1>2. ASSUME NEW v \in Workers, AcquireLease(v) PROVE ~IsCurrent(w)'
  <2>1. v # w
    BY <1>2 DEF AcquireLease, CycleSteps
  <2>2. lease'.holder = v
    BY <1>2 DEF AcquireLease, LocalAcquire, FencedInsert, FencedUpdate, Grant
  <2>. QED
    BY <2>1, <2>2
<1>3. ASSUME NEW v \in Workers, ReleaseLease(v) PROVE ~IsCurrent(w)'
  <2>1. v # w
    BY <1>0, <1>3 DEF ReleaseLease, Goto, CycleSteps
  <2>2. held'[w] = held[w] /\ (lease' = lease \/ lease' = NoRow)
    BY <1>0, <1>3, <2>1 DEF ReleaseLease, Release
  <2>. QED
    BY <2>2 DEF NoRow
<1>4. ASSUME NEW v \in Workers, Crash(v) PROVE ~IsCurrent(w)'
  <2>1. v # w
    BY <1>0, <1>4 DEF Crash, Goto, CycleSteps
  <2>. QED
    BY <1>0, <1>4, <2>1 DEF Crash, LoseHandle
<1>5. CASE Expire
  <2>1. lease'.live = FALSE
    BY <1>0, <1>5 DEF Expire, LeaseExpires, LeaseRow
  <2>. QED
    BY <2>1
<1>. QED
  BY <1>1, <1>2, <1>3, <1>4, <1>5, LeaseMoves

\* A worker whose fenced handle was overtaken stays locked out for the rest of
\* its cycle: no grant, release or crash of others makes its token current again.
THEOREM StaleHandlesStayStale == Spec => StaleStaysStale
<1>1. Types /\ [Next]_vars => Types'
  BY TypesStep
<1>2. ASSUME Types, [Next]_vars
      PROVE  [\A w \in Workers :
                /\ held[w] # 0 /\ ~IsCurrent(w)
                /\ pc[w] \in CycleSteps /\ pc'[w] \in CycleSteps
                => ~IsCurrent(w)']_vars
  BY <1>2, StaleStep
<1>. QED
  BY <1>1, <1>2, InitTypes, PTL DEF Spec, StaleStaysStale
----------------------------------------------------------------------------
(* A lease that outlasts the cycle.                                        *)

LeaseHeld == \A w \in Workers :
  pc[w] \in CycleSteps => lease.holder = w /\ lease.live

\* Steps outside a cycle that do not grant the lease do not enter one.
LEMMA CyclesBeginWithAGrant ==
  ASSUME Types, [Next]_vars, NEW w \in Workers,
         pc'[w] \in CycleSteps, pc[w] \notin CycleSteps
  PROVE  AcquireLease(w)
<1>0. pc \in [Workers -> Steps]
  BY DEF Types, CyclesOK
<1>1. CASE WorkerStep(w)
  BY <1>0, <1>1
     DEF WorkerStep, StartCycle, InsertConflicts, Standby, ContendFails,
         SelectDue, ReleaseLease, Authorize, CheckPolicy, Lookup, Reserve,
         Recover, Validate, Claim, Send, Store, WriteReceipt, Finish, Move, Log,
         FencePasses, FenceRefuses, ExecuteRaises, Enter, Goto, CycleSteps,
         Steps, GuardedSteps
<1>2. CASE Crash(w) \/ Restart(w)
  BY <1>0, <1>2 DEF Crash, Restart, Goto, CycleSteps
<1>3. \A v \in Workers : WorkerStep(v) \/ Crash(v) \/ Restart(v) =>
        v = w \/ pc'[w] = pc[w]
  BY WorkerBatches
<1>. QED
  BY <1>1, <1>2, <1>3, OthersLeaveWorkers DEF Next

LEMMA LeaseHeldStep ==
  ASSUME LeaseCoversCycle, Types, LeaseHeld, [Next]_vars
  PROVE  LeaseHeld'
<1>. SUFFICES ASSUME NEW w \in Workers, pc'[w] \in CycleSteps
              PROVE  lease'.holder = w /\ lease'.live
  BY DEF LeaseHeld
<1>0. /\ pc \in [Workers -> Steps] /\ lease \in LeaseRow
      /\ NoWorker \notin Workers
  BY LeaseConstants DEF Types, CyclesOK, StoresOK, LeaseTypeOK
<1>1. ASSUME NEW v \in Workers, AcquireLease(v)
      PROVE  /\ lease'.holder = v /\ lease'.live
             /\ \A u \in Workers \ {v} : pc[u] \notin CycleSteps
  <2>1. lease'.holder = v /\ lease'.live
    BY <1>1 DEF AcquireLease, LocalAcquire, FencedInsert, FencedUpdate, Grant
  <2>2. ~(lease.live /\ lease.holder \in Workers \ {v})
    BY <1>0, <1>1 DEF AcquireLease, LocalAcquire, FencedInsert, FencedUpdate,
                      LeaseRefused
  <2>. QED
    BY <2>1, <2>2 DEF LeaseHeld
<1>2. CASE AcquireLease(w)
  BY <1>1, <1>2
<1>3. CASE pc[w] \in CycleSteps
  <2>1. lease.holder = w /\ lease.live
    BY <1>3 DEF LeaseHeld
  <2>2. CASE UNCHANGED leaseVars
    BY <2>1, <2>2 DEF leaseVars
  <2>3. ASSUME NEW v \in Workers, AcquireLease(v)
        PROVE  lease'.holder = w /\ lease'.live
    BY <1>1, <1>3, <2>3
  <2>4. ASSUME NEW v \in Workers, ReleaseLease(v) PROVE lease' = lease
    <3>1. v # w
      BY <1>0, <2>4 DEF ReleaseLease, Goto, CycleSteps
    <3>. QED
      BY <2>1, <2>4, <3>1 DEF ReleaseLease, Release, FencedDeletes, LocalDeletes
  <2>5. ASSUME NEW v \in Workers, Crash(v) PROVE lease' = lease
    BY <2>5 DEF Crash, LoseHandle
  <2>6. ~Expire
    BY <1>3, <2>1 DEF Expire
  <2>. QED
    BY <2>1, <2>2, <2>3, <2>4, <2>5, <2>6, LeaseMoves
<1>. QED
  BY <1>2, <1>3, CyclesBeginWithAGrant

LEMMA LeaseHeldInit == Init => LeaseHeld
BY DEF Init, LeaseHeld, CycleSteps

LEMMA OneHolder ==
  ASSUME LeaseHeld
  PROVE  OneCycleAtATime
BY DEF LeaseHeld, OneCycleAtATime

\* When the lease outlasts the cycle, workers of either store take turns:
\* a grant needs a row that is missing, expired or one's own, a release deletes
\* one's own row only, and the row of a worker in its cycle does not expire.
THEOREM CyclesAreExclusive ==
  ASSUME LeaseCoversCycle
  PROVE  Spec => []OneCycleAtATime
<1>1. Types /\ LeaseHeld /\ [Next]_vars => Types' /\ LeaseHeld'
  BY TypesStep, LeaseHeldStep
<1>2. LeaseHeld => OneCycleAtATime
  BY OneHolder
<1>. QED
  BY <1>1, <1>2, InitTypes, LeaseHeldInit, PTL DEF Spec
----------------------------------------------------------------------------
(* The run log.                                                            *)

\* Who changes the execution of a request: the one that claims it first, and
\* its owner.
LEMMA ExecutionMoves ==
  ASSUME RequestInv, [Next]_vars, NEW k \in Keys, executions'[k] # executions[k]
  PROVE  \E w \in Workers :
           /\ job[w].key = k
           /\ \/ Claim(w) /\ executions[k] = "none" /\ executions'[k] = "claimed"
              \/ /\ Finish(w) /\ executions[k] = "claimed"
                 /\ executions'[k] = job[w].result
<1>. USE DEF RequestInv
<1>0. executions \in [Keys -> FinalStatus \cup {"none", "claimed"}]
  BY DEF Types, StoresOK
<1>1. ASSUME NEW w \in Workers, Claim(w)
      PROVE  job[w].key = k /\ executions[k] = "none" /\ executions'[k] = "claimed"
  BY <1>0, <1>1 DEF Claim, Claimable
<1>2. ASSUME NEW w \in Workers, Finish(w)
      PROVE  /\ job[w].key = k /\ executions[k] = "claimed"
             /\ executions'[k] = job[w].result
  <2>1. job[w].key = k /\ executions'[k] = job[w].result
    BY <1>0, <1>2 DEF Finish
  <2>2. executions[k] = "claimed"
    BY <1>2, <2>1 DEF ClaimsAreExclusive, ClaimFits, OwningSteps, Finish, Enter
  <2>. QED
    BY <2>1, <2>2
<1>3. \E w \in Workers : Claim(w) \/ Finish(w)
  <2>1. ASSUME NEW w \in Workers, WorkerStep(w), ~Claim(w), ~Finish(w)
        PROVE  executions' = executions
    BY <2>1
       DEF WorkerStep, StartCycle, AcquireLease, InsertConflicts, Standby,
           ContendFails, SelectDue, ReleaseLease, Authorize, CheckPolicy,
           Lookup, Reserve, Recover, Validate, Send, Store, WriteReceipt, Move,
           Log, FencePasses, FenceRefuses, ExecuteRaises, requestVars
  <2>2. ASSUME NEW w \in Workers, Crash(w) \/ Restart(w)
        PROVE  executions' = executions
    BY <2>2 DEF Crash, Restart, requestVars
  <2>3. Expire \/ Tick \/ Govern \/ Api \/ UNCHANGED vars =>
          executions' = executions
    BY DEF Expire, Tick, Govern, Api, ApiCheckCreate, ApiCheckResume,
           ApiCheckReserve, ApiCheck, ApiCreate, ApiResume, ApiReserve, Pause,
           vars, requestVars
  <2>. QED
    BY <2>1, <2>2, <2>3 DEF Next
<1>. QED
  BY <1>1, <1>2, <1>3

Reporting(w) == pc[w] \in {"move", "log"}

\* Where the status that a worker is about to log comes from.
Decided(w, k, status) ==
  \/ status \notin {"completed", "ambiguous_execution"}
  \/ /\ pc[w] = "recover" /\ executions[k] # "none"
     /\ status = Recovery(executions[k])[2]
  \/ /\ pc[w] = "finish" /\ executions'[k] = job[w].result
     /\ status = IF job[w].result = "completed" THEN "completed" ELSE "failed"

LEMMA StatusIsDecided ==
  ASSUME Types, NEW w \in Workers, WorkerStep(w), Reporting(w)'
  PROVE  \/ Reporting(w) /\ job'[w] = job[w]
         \/ /\ Decided(w, job'[w].key, job'[w].status)
            /\ pc[w] # "authorize" => job'[w].key = job[w].key
<1>0. /\ pc \in [Workers -> Steps] /\ job \in [Workers -> Job]
      /\ job[w] \in Job
      /\ executions \in [Keys -> FinalStatus \cup {"none", "claimed"}]
  BY DEF Types, CyclesOK, StoresOK
<1>k. pc[w] \in PlanSteps => job[w].key \in Keys
  BY PlanKeysAreKeys DEF Types, CyclesOK, JobFits
<1>d. ASSUME NEW todo, NEW status, Decide(w, todo, status)
      PROVE  job'[w].key = job[w].key /\ job'[w].status = status
  <2>1. job' = [job EXCEPT ![w] = [job[w] EXCEPT !.todo = todo, !.status = status]]
    BY <1>d DEF Decide
  <2>. QED
    BY <1>0, <2>1 DEF Job
<1>. USE DEF Reporting, Decided
<1>1. CASE \/ StartCycle(w) \/ AcquireLease(w) \/ InsertConflicts(w)
           \/ Standby(w) \/ ContendFails(w) \/ SelectDue(w) \/ ReleaseLease(w)
           \/ Lookup(w) \/ Send(w) \/ Store(w) \/ WriteReceipt(w) \/ Log(w)
  BY <1>0, <1>1
     DEF StartCycle, AcquireLease, InsertConflicts, Standby, ContendFails,
         SelectDue, ReleaseLease, Lookup, Send, Store, WriteReceipt, Conclude,
         Log, NextPlan, Goto
<1>2. CASE Authorize(w)
  <2>1. PICK k \in job[w].batch :
          \/ pc'[w] = "policy"
          \/ job' = [job EXCEPT ![w].batch = @ \ {k}, ![w].key = k,
                       ![w].todo = "disable", ![w].status = "policy_blocked"]
    BY <1>0, <1>2 DEF Authorize, Goto
  <2>2. job'[w].status = "policy_blocked"
    BY <1>0, <2>1 DEF Job
  <2>. QED
    BY <1>2, <2>2 DEF Authorize
<1>3. CASE CheckPolicy(w) \/ Reserve(w)
  <2>1. /\ job'[w].key = job[w].key
        /\ job'[w].status \in {"policy_blocked", "no_transport", "deferred"}
    <3>1. CASE CheckPolicy(w)
      BY <1>0, <1>d, <3>1 DEF CheckPolicy, Goto
    <3>2. CASE Reserve(w)
      <4>1. CASE Decide(w, "advance", "deferred")
        BY <1>d, <4>1
      <4>2. CASE \E b \in 0..job[w].now :
                   job' = [job EXCEPT ![w].todo = "defer", ![w].status = "deferred",
                             ![w].until = Reopens(b)]
        <5>1. PICK b \in 0..job[w].now :
                job' = [job EXCEPT ![w] = [job[w] EXCEPT !.todo = "defer",
                          !.status = "deferred", !.until = Reopens(b)]]
          BY <4>2
        <5>. QED
          BY <1>0, <5>1 DEF Job
      <4>3. pc'[w] # "recover"
        OBVIOUS
      <4>. QED
        BY <1>0, <3>2, <4>1, <4>2, <4>3 DEF Reserve, Goto
    <3>. QED
      BY <1>3, <3>1, <3>2
  <2>. QED
    BY <2>1
<1>4. CASE Recover(w)
  BY <1>0, <1>4, <1>d DEF Recover, Goto
<1>5. CASE Validate(w) \/ Claim(w) \/ FenceRefuses(w) \/ ExecuteRaises(w)
  <2>1. Decide(w, "advance", "failed")
    BY <1>0, <1>5 DEF Validate, Claim, FenceRefuses, ExecuteRaises, Goto
  <2>. QED
    BY <1>d, <2>1
<1>7. CASE Finish(w)
  <2>1. /\ pc[w] = "finish"
        /\ executions' = [executions EXCEPT ![job[w].key] = job[w].result]
        /\ Decide(w, "advance",
                  IF job[w].result = "completed" THEN "completed" ELSE "failed")
    BY <1>7 DEF Finish, Enter
  <2>2. job[w].key \in Keys
    BY <1>k, <2>1 DEF PlanSteps
  <2>. QED
    BY <1>0, <1>d, <2>1, <2>2
<1>8. CASE Move(w) \/ FencePasses(w)
  BY <1>8 DEF Move, FencePasses, Enter
<1>. QED
  BY <1>1, <1>2, <1>3, <1>4, <1>5, <1>7, <1>8 DEF WorkerStep

\* What the log says, and what workers are about to add to it.
Pending(w) == [key |-> job[w].key, status |-> job[w].status]
Reports == runs \cup {Pending(w) : w \in {v \in Workers : Reporting(v)}}

LEMMA ReportsHaveKeys ==
  ASSUME Types', NEW r \in Reports'
  PROVE  r.key \in Keys
BY PlanKeysAreKeys
   DEF Types, StoresOK, CyclesOK, JobFits, Reports, Pending, Reporting, PlanSteps

LEMMA LoggedRuns ==
  ASSUME [Next]_vars, NEW r \in runs', r \notin runs
  PROVE  \E w \in Workers : Log(w) /\ r = Pending(w)
<1>1. ASSUME NEW w \in Workers, Log(w) PROVE r = Pending(w)
  BY <1>1 DEF Log, LoggedStatus, Pending
<1>2. ASSUME NEW w \in Workers, WorkerStep(w), ~Log(w) PROVE runs' = runs
  BY <1>2
     DEF WorkerStep, StartCycle, AcquireLease, InsertConflicts, Standby,
         ContendFails, SelectDue, ReleaseLease, Authorize, CheckPolicy, Lookup,
         Reserve, Recover, Validate, Claim, Send, Store, WriteReceipt, Finish,
         Move, FencePasses, FenceRefuses, ExecuteRaises
<1>3. \A w \in Workers : Crash(w) \/ Restart(w) => runs' = runs
  BY DEF Crash, Restart
<1>4. Expire \/ Tick \/ Govern \/ Api \/ UNCHANGED vars => runs' = runs
  BY DEF Expire, Tick, Govern, Api, ApiCheckCreate, ApiCheckResume,
         ApiCheckReserve, ApiCheck, ApiCreate, ApiResume, ApiReserve, Pause,
         vars
<1>. QED
  BY <1>1, <1>2, <1>3, <1>4 DEF Next

\* A report is new only when a worker has just decided on it.
LEMMA NewReports ==
  ASSUME Types, [Next]_vars, NEW r \in Reports', r \notin Reports
  PROVE  \E w \in Workers :
           /\ WorkerStep(w) /\ Decided(w, r.key, r.status)
           /\ pc[w] # "authorize" => r.key = job[w].key
<1>0. pc \in [Workers -> Steps]
  BY DEF Types, CyclesOK
<1>1. runs' \subseteq Reports
  BY LoggedRuns DEF Log, Enter, Reports, Reporting
<1>2. PICK w \in Workers : Reporting(w)' /\ r = Pending(w)'
  BY <1>1 DEF Reports
<1>3. ~(pc'[w] = pc[w] /\ job'[w] = job[w]) /\ ~(Reporting(w) /\ job'[w] = job[w])
  BY <1>2 DEF Reports, Pending, Reporting
<1>4. WorkerStep(w)
  <2>1. ~Crash(w) /\ ~Restart(w)
    BY <1>0, <1>2 DEF Crash, Restart, Goto, Reporting
  <2>. QED
    BY <1>3, <2>1, WorkerBatches, OthersLeaveWorkers DEF Next
<1>5. r.key = job'[w].key /\ r.status = job'[w].status
  BY <1>2 DEF Pending
<1>. QED
  BY <1>2, <1>3, <1>4, <1>5, StatusIsDecided

ReportsAreTruthful ==
  \A r \in Reports : r.status = "completed" => executions[r.key] = "completed"

LEMMA TruthfulStep ==
  ASSUME RequestInv, RequestInv', ReportsAreTruthful, [Next]_vars
  PROVE  ReportsAreTruthful'
<1>. SUFFICES ASSUME NEW r \in Reports', r.status = "completed"
              PROVE  executions'[r.key] = "completed"
  BY DEF ReportsAreTruthful
<1>1. r.key \in Keys
  BY ReportsHaveKeys DEF RequestInv
<1>2. executions[r.key] = "completed" => executions'[r.key] = "completed"
  BY <1>1, ExecutionMoves
<1>3. CASE r \in Reports
  BY <1>2, <1>3 DEF ReportsAreTruthful
<1>4. CASE r \notin Reports
  <2>1. PICK w \in Workers : Decided(w, r.key, r.status)
    BY <1>4, NewReports DEF RequestInv
  <2>2. \A status : Recovery(status)[2] = "completed" => status = "completed"
    BY DEF Recovery
  <2>. QED
    BY <1>2, <2>1, <2>2 DEF Decided
<1>. QED
  BY <1>3, <1>4

LEMMA TruthfulInit == Init => ReportsAreTruthful
BY DEF Init, ReportsAreTruthful, Reports, Reporting

\* The run log never claims more than the ledger: a run that is logged, or that
\* a worker is about to log, as completed is one whose execution is completed,
\* though others may have crashed in the middle of it or lost their lease.
THEOREM LogStaysTruthful == Spec => []LogIsTruthful
<1>1. RequestInv /\ ReportsAreTruthful /\ [Next]_vars =>
        RequestInv' /\ ReportsAreTruthful'
  BY RequestInvStep, TruthfulStep
<1>2. ReportsAreTruthful => LogIsTruthful
  BY DEF ReportsAreTruthful, Reports, LogIsTruthful
<1>. QED
  BY <1>1, <1>2, RequestInvInit, TruthfulInit, PTL DEF Spec
----------------------------------------------------------------------------
(* Quarantine.                                                             *)

\* A claim that nobody is at any more.
Abandoned(k) ==
  /\ executions[k] = "claimed"
  /\ \A w \in Workers : pc[w] \in OwningSteps => job[w].key # k

QuarantinedAreAbandoned ==
  \A r \in Reports : r.status = "ambiguous_execution" => Abandoned(r.key)

\* Who comes to own a request.
LEMMA OwnersClaim ==
  ASSUME RequestInv, [Next]_vars, NEW w \in Workers, pc'[w] \in OwningSteps
  PROVE  /\ job'[w].key = job[w].key
         /\ \/ pc[w] \in OwningSteps
            \/ Claim(w) /\ executions[job[w].key] = "none"
<1>0. pc \in [Workers -> Steps] /\ job \in [Workers -> Job]
  BY DEF RequestInv, Types, CyclesOK
<1>1. CASE pc'[w] = pc[w] /\ job'[w] = job[w]
  BY <1>1
<1>2. CASE WorkerStep(w)
  <2>1. CASE Claim(w)
    <3>1. pc'[w] = "send" => job' = job /\ executions[job[w].key] = "none"
      BY <1>0, <2>1 DEF Claim, Claimable, Decide, Goto
    <3>2. pc'[w] \in {"send", "move"}
      BY <1>0, <2>1 DEF Claim, Decide, Goto
    <3>. QED
      BY <2>1, <3>1, <3>2 DEF OwningSteps
  <2>2. CASE Send(w) \/ Store(w) \/ WriteReceipt(w) \/ FencePasses(w)
    <3>1. CASE Send(w) \/ Store(w) \/ WriteReceipt(w)
      <4>1. /\ pc[w] \in OwningSteps
            /\ job' = job \/ \E result : Conclude(w, result)
        BY <3>1 DEF Send, Store, WriteReceipt, OwningSteps
      <4>2. ASSUME NEW result, Conclude(w, result)
            PROVE  job'[w].key = job[w].key
        <5>1. job' = [job EXCEPT ![w] = [job[w] EXCEPT !.result = result]]
          BY <4>2 DEF Conclude
        <5>2. job[w] \in Job
          BY <1>0
        <5>. QED
          BY <1>0, <5>1, <5>2 DEF Job
      <4>. QED
        BY <4>1, <4>2
    <3>2. CASE FencePasses(w)
      BY <3>2 DEF FencePasses
    <3>. QED
      BY <2>2, <3>1, <3>2
  <2>3. CASE ~(\/ Claim(w) \/ Send(w) \/ Store(w) \/ WriteReceipt(w)
               \/ FencePasses(w))
    BY <1>0, <1>2, <2>3
       DEF WorkerStep, StartCycle, AcquireLease, InsertConflicts, Standby,
           ContendFails, SelectDue, ReleaseLease, Authorize, CheckPolicy,
           Lookup, Reserve, Recover, Validate, Finish, Move, Log, FenceRefuses,
           ExecuteRaises, Goto, Decide, NextPlan, OwningSteps
  <2>. QED
    BY <2>1, <2>2, <2>3
<1>3. CASE Crash(w) \/ Restart(w)
  BY <1>0, <1>3 DEF Crash, Restart, Goto, OwningSteps
<1>. QED
  BY <1>1, <1>2, <1>3, WorkerBatches, OthersLeaveWorkers DEF Next, RequestInv

\* An abandoned claim stays so: no step takes a claimed request up again.
LEMMA AbandonedStays ==
  ASSUME RequestInv, [Next]_vars, NEW k \in Keys, Abandoned(k)
  PROVE  Abandoned(k)'
<1>1. executions'[k] = "claimed"
  <2>1. \A w \in Workers : Finish(w) => pc[w] \in OwningSteps
    BY DEF Finish, Enter, OwningSteps
  <2>. QED
    BY <2>1, ExecutionMoves DEF Abandoned
<1>2. \A w \in Workers : pc'[w] \in OwningSteps => job'[w].key # k
  BY OwnersClaim DEF Abandoned
<1>. QED
  BY <1>1, <1>2 DEF Abandoned

LEMMA QuarantineStep ==
  ASSUME RequestInv, RequestInv', LeaseHeld, QuarantinedAreAbandoned, [Next]_vars
  PROVE  QuarantinedAreAbandoned'
<1>. SUFFICES ASSUME NEW r \in Reports', r.status = "ambiguous_execution"
              PROVE  Abandoned(r.key)'
  BY DEF QuarantinedAreAbandoned
<1>1. r.key \in Keys
  BY ReportsHaveKeys DEF RequestInv
<1>2. CASE r \in Reports
  BY <1>1, <1>2, AbandonedStays DEF QuarantinedAreAbandoned
<1>3. CASE r \notin Reports
  <2>1. PICK w \in Workers : Decided(w, r.key, r.status)
    BY <1>3, NewReports DEF RequestInv
  <2>2. /\ Recovery("completed")[2] = "completed"
        /\ \A status : Recovery(status)[2] = "ambiguous_execution" =>
             status = "claimed"
    BY DEF Recovery
  <2>3. pc[w] = "recover" /\ executions[r.key] = "claimed"
    BY <2>1, <2>2 DEF Decided
  <2>4. \A v \in Workers : pc[v] \notin OwningSteps
    BY <2>3, OneHolder DEF OneCycleAtATime, OwningSteps, CycleSteps, Steps
  <2>. QED
    BY <1>1, <2>3, <2>4, AbandonedStays DEF Abandoned
<1>. QED
  BY <1>2, <1>3

LEMMA QuarantineInit == Init => QuarantinedAreAbandoned
BY DEF Init, QuarantinedAreAbandoned, Reports, Reporting

\* When the lease outlasts the cycle, a claim that a later worker finds is
\* that of a dead one: the run that quarantines it is right for good.
THEOREM QuarantineStaysFinal ==
  ASSUME LeaseCoversCycle
  PROVE  Spec => []QuarantineIsFinal
<1>1. /\ RequestInv /\ LeaseHeld /\ QuarantinedAreAbandoned
      /\ [Next]_vars
      => RequestInv' /\ LeaseHeld' /\ QuarantinedAreAbandoned'
  BY RequestInvStep, LeaseHeldStep, QuarantineStep DEF RequestInv
<1>2. QuarantinedAreAbandoned => QuarantineIsFinal
  BY DEF QuarantinedAreAbandoned, Abandoned, Reports, QuarantineIsFinal
<1>. QED
  BY <1>1, <1>2, RequestInvInit, LeaseHeldInit, QuarantineInit, PTL DEF Spec
----------------------------------------------------------------------------
(* Policies, plans and receipts.                                           *)

\* A version of a source's policy that a reviewer has approved at some time.
Grounded(s, version) ==
  /\ version \in 1..LatestVersion(s)
  /\ \E j \in DOMAIN approvals[s] :
       approvals[s][j].version = version /\ approvals[s][j].decision = "approve"

\* Plans are created under approved versions, and by one request at a time.
PlansAreGrounded ==
  /\ \A p \in Plans :
       plans[p].version # 0 => Grounded(SourceOf[p], plans[p].version)
  /\ api # NoRequest /\ api.op = "create" =>
       /\ api.key[1] \in Plans /\ plans[api.key[1]].version = 0
       /\ Grounded(Source(api.key), api.version)

\* Policies and approvals are only ever appended.
LEMMA LedgersGrow ==
  ASSUME Types, [Next]_vars, NEW s \in Sources
  PROVE  /\ LatestVersion(s) <= LatestVersion(s)'
         /\ \A i \in 1..LatestVersion(s) : policies'[s][i] = policies[s][i]
         /\ DOMAIN approvals[s] \subseteq DOMAIN approvals'[s]
         /\ \A i \in DOMAIN approvals[s] : approvals'[s][i] = approvals[s][i]
<1>0. /\ policies \in [Sources -> Seq(AccessStatus)]
      /\ approvals \in [Sources -> Seq(ApprovalEvent)]
      /\ LatestVersion(s) \in Nat
  BY DEF Types, StoresOK, GovernanceTypeOK, LatestVersion
<1>1. CASE UNCHANGED <<policies, approvals>>
  BY <1>0, <1>1 DEF LatestVersion
<1>2. ASSUME NEW t \in Sources, NEW status \in AccessStatus, AppendPolicy(t, status)
      PROVE  /\ LatestVersion(s) <= LatestVersion(s)'
             /\ \A i \in 1..LatestVersion(s) : policies'[s][i] = policies[s][i]
             /\ approvals' = approvals
  <2>1. policies' = [policies EXCEPT ![t] = Append(policies[t], status)]
    BY <1>2 DEF AppendPolicy
  <2>2. \/ policies'[s] = policies[s]
        \/ policies'[s] = Append(policies[s], status)
    BY <1>0, <2>1
  <2>3. policies[s] \in Seq(AccessStatus)
    BY <1>0
  <2>. QED
    BY <1>2, <2>2, <2>3 DEF LatestVersion, AppendPolicy
<1>3. ASSUME NEW t \in Sources, NEW version, NEW decision \in Decision,
             NEW a \in Approvers, version \in 1..MaxVersions,
             AppendApproval(t, version, decision, a)
      PROVE  /\ policies' = policies
             /\ DOMAIN approvals[s] \subseteq DOMAIN approvals'[s]
             /\ \A i \in DOMAIN approvals[s] : approvals'[s][i] = approvals[s][i]
  <2>. DEFINE event == [version |-> version, decision |-> decision, signer |-> a]
  <2>1. event \in ApprovalEvent
    BY <1>3, GovernanceConstants DEF ApprovalEvent
  <2>2. approvals' = [approvals EXCEPT ![t] = Append(approvals[t], event)]
    BY <1>3 DEF AppendApproval
  <2>. HIDE DEF event
  <2>3. \/ approvals'[s] = approvals[s]
        \/ approvals'[s] = Append(approvals[s], event)
    BY <1>0, <2>2
  <2>4. approvals[s] \in Seq(ApprovalEvent)
    BY <1>0
  <2>. QED
    BY <1>3, <2>1, <2>3, <2>4 DEF AppendApproval
<1>4. ~Govern => UNCHANGED <<policies, approvals>>
  <2>1. ASSUME NEW w \in Workers, WorkerStep(w)
        PROVE  UNCHANGED <<policies, approvals>>
    BY <2>1
       DEF WorkerStep, StartCycle, AcquireLease, InsertConflicts, Standby,
           ContendFails, SelectDue, ReleaseLease, Authorize, CheckPolicy,
           Lookup, Reserve, Recover, Validate, Claim, Send, Store, WriteReceipt,
           Finish, Move, Log, FencePasses, FenceRefuses, ExecuteRaises,
           environmentVars, governanceVars
  <2>2. \A w \in Workers : Crash(w) \/ Restart(w) =>
          UNCHANGED <<policies, approvals>>
    BY DEF Crash, Restart, environmentVars, governanceVars
  <2>3. Expire \/ Tick \/ Api \/ UNCHANGED vars => UNCHANGED <<policies, approvals>>
    BY DEF Expire, Tick, Api, ApiCheckCreate, ApiCheckResume, ApiCheckReserve,
           ApiCheck, ApiCreate, ApiResume, ApiReserve, Pause, vars,
           environmentVars, governanceVars
  <2>. QED
    BY <2>1, <2>2, <2>3 DEF Next
<1>5. \A a \in Approvers : EnrollKey(a) \/ RevokeKey(a) =>
        UNCHANGED <<policies, approvals>>
  BY DEF EnrollKey, RevokeKey
<1>6. 0 <= LatestVersion(s) /\ LatestVersion(s) <= LatestVersion(s)
  BY <1>0
<1>. QED
  BY <1>1, <1>2, <1>3, <1>4, <1>5, <1>6 DEF Govern, LatestVersion

LEMMA GroundedStays ==
  ASSUME Types, Types', [Next]_vars, NEW s \in Sources, NEW version,
         Grounded(s, version)
  PROVE  Grounded(s, version)'
<1>1. LatestVersion(s) \in Nat /\ LatestVersion(s)' \in Nat
  BY DEF Types, StoresOK, GovernanceTypeOK, LatestVersion
<1>2. version \in 1..LatestVersion(s)'
  BY <1>1, LedgersGrow DEF Grounded
<1>3. PICK j \in DOMAIN approvals[s] :
        approvals[s][j].version = version /\ approvals[s][j].decision = "approve"
  BY DEF Grounded
<1>4. j \in DOMAIN approvals'[s] /\ approvals'[s][j] = approvals[s][j]
  BY LedgersGrow
<1>. QED
  BY <1>2, <1>3, <1>4 DEF Grounded

\* What require_authorized has found is an approved version.
LEMMA AuthorizedIsGrounded ==
  ASSUME Types, NEW s \in Sources, LatestVersion(s) # 0,
         Authorized(s, LatestVersion(s))
  PROVE  Grounded(s, LatestVersion(s))
<1>1. LatestVersion(s) \in Nat
  BY DEF Types, StoresOK, GovernanceTypeOK, LatestVersion
<1>2. LatestVersion(s) \in 1..LatestVersion(s)
  BY <1>1
<1>. QED
  BY <1>2 DEF Authorized, IsLatestEvent, Grounded

\* A plan's policy version is set by the request that creates it.
LEMMA PlanVersionMoves ==
  ASSUME Types, [Next]_vars, NEW p \in Plans,
         plans'[p].version # plans[p].version
  PROVE  ApiCreate /\ p = api.key[1] /\ plans'[p].version = api.version
<1>0. plans \in [Plans -> Plan]
  BY DEF Types, StoresOK
<1>1. ASSUME NEW w \in Workers, Move(w) PROVE FALSE
  <2>1. \E q : \/ plans' = [plans EXCEPT ![q].enabled = FALSE]
               \/ \E n : plans' = [plans EXCEPT ![q].next = n]
    BY <1>1 DEF Move
  <2>2. plans[p] \in Plan
    BY <1>0
  <2>. QED
    BY <1>0, <2>1, <2>2 DEF Plan
<1>2. CASE ApiCreate
  <2>1. PICK start \in StartTimes \cup {clock} :
          plans' = [plans EXCEPT ![api.key[1]] =
                      [version |-> api.version, next |-> start, enabled |-> TRUE]]
    BY <1>2 DEF ApiCreate
  <2>. QED
    BY <1>0, <1>2, <2>1
<1>3. ~ApiResume
  BY <1>0 DEF ApiResume, Plan
<1>4. \A q \in Plans : ~Pause(q)
  BY <1>0 DEF Pause, Plan
<1>5. ASSUME NEW w \in Workers, WorkerStep(w), ~Move(w) PROVE plans' = plans
  BY <1>5
     DEF WorkerStep, StartCycle, AcquireLease, InsertConflicts, Standby,
         ContendFails, SelectDue, ReleaseLease, Authorize, CheckPolicy, Lookup,
         Reserve, Recover, Validate, Claim, Send, Store, WriteReceipt, Finish,
         Log, FencePasses, FenceRefuses, ExecuteRaises
<1>6. \A w \in Workers : Crash(w) \/ Restart(w) => plans' = plans
  BY DEF Crash, Restart
<1>7. Expire \/ Tick \/ Govern \/ UNCHANGED vars => plans' = plans
  BY DEF Expire, Tick, Govern, vars
<1>8. Api => plans' = plans \/ ApiCreate
  BY <1>3, <1>4
     DEF Api, ApiCheckCreate, ApiCheckResume, ApiCheckReserve, ApiCheck,
         ApiReserve
<1>. QED
  BY <1>1, <1>2, <1>5, <1>6, <1>7, <1>8 DEF Next

\* A request to create a plan is accepted for an authorized version and for a
\* plan that does not exist.
LEMMA ApiChecks ==
  ASSUME Types, [Next]_vars, api' # api, api' # NoRequest, api'.op = "create"
  PROVE  /\ UNCHANGED <<plans, policies, approvals>>
         /\ \E q \in Plans :
              LET k == api'.key IN
              /\ plans[q] = NoPlan /\ k = <<q, 0>>
              /\ api'.version = LatestVersion(Source(k)) /\ api'.version # 0
              /\ Authorized(Source(k), api'.version)
<1>1. ASSUME NEW w \in Workers, WorkerStep(w) PROVE api' = api
  BY <1>1
     DEF WorkerStep, StartCycle, AcquireLease, InsertConflicts, Standby,
         ContendFails, SelectDue, ReleaseLease, Authorize, CheckPolicy, Lookup,
         Reserve, Recover, Validate, Claim, Send, Store, WriteReceipt, Finish,
         Move, Log, FencePasses, FenceRefuses, ExecuteRaises, environmentVars
<1>2. \A w \in Workers : Crash(w) \/ Restart(w) => api' = api
  BY DEF Crash, Restart, environmentVars
<1>3. Expire \/ Tick \/ Govern \/ UNCHANGED vars => api' = api
  BY DEF Expire, Tick, Govern, vars, environmentVars
<1>4. \A p \in Plans : Pause(p) => api' = api
  BY DEF Pause, environmentVars
<1>5. ApiCreate \/ ApiResume \/ ApiReserve => api' = NoRequest
  BY DEF ApiCreate, ApiResume, ApiReserve, ApiWrite
<1>6. \A p \in Plans : ~ApiCheckResume(p)
  BY DEF ApiCheckResume, ApiCheck
<1>7. \A k \in ApiKeys : ~ApiCheckReserve(k)
  BY DEF ApiCheckReserve, ApiCheck
<1>8. PICK p \in Plans : ApiCheckCreate(p)
  BY <1>1, <1>2, <1>3, <1>4, <1>5, <1>6, <1>7 DEF Next, Api
<1>. QED
  BY <1>8 DEF ApiCheckCreate, ApiCheck, governanceVars

LEMMA PlansGroundedStep ==
  ASSUME Types, Types', PlansAreGrounded, [Next]_vars
  PROVE  PlansAreGrounded'
<1>0. /\ SourceOf \in [Requesters -> Sources] /\ Plans \subseteq Requesters
      /\ plans \in [Plans -> Plan]
  BY AcquisitionConstants DEF Requesters, Types, StoresOK
<1>s. \A s \in Sources : LatestVersion(s) \in Nat
  BY DEF Types, StoresOK, GovernanceTypeOK, LatestVersion
<1>1. ASSUME NEW p \in Plans, NEW version, version = plans'[p].version, version # 0
      PROVE  Grounded(SourceOf[p], version)'
  <2>1. SourceOf[p] \in Sources
    BY <1>0
  <2>2. CASE version = plans[p].version
    <3>1. Grounded(SourceOf[p], version)
      BY <1>1, <2>2 DEF PlansAreGrounded
    <3>. QED
      BY <2>1, <3>1, GroundedStays
  <2>3. CASE version # plans[p].version
    <3>1. ApiCreate /\ p = api.key[1] /\ version = api.version
      BY <1>1, <2>3, PlanVersionMoves
    <3>2. Grounded(SourceOf[p], version)
      BY <3>1 DEF PlansAreGrounded, ApiCreate, ApiWrite, Source
    <3>. QED
      BY <2>1, <3>2, GroundedStays
  <2>. QED
    BY <2>2, <2>3
<1>2. ASSUME api' # NoRequest, api'.op = "create", NEW k, k = api'.key,
             NEW version, version = api'.version
      PROVE  k[1] \in Plans /\ plans'[k[1]].version = 0 /\ Grounded(Source(k), version)'
  <2>1. CASE api' = api
    <3>1. k \in Keys
      BY <1>2, <2>1 DEF Types, StoresOK, ApiRequest
    <3>2. ~ApiCreate
      BY <1>2, <2>1 DEF ApiCreate, ApiWrite
    <3>3. Grounded(Source(k), version) /\ k[1] \in Plans /\ plans[k[1]].version = 0
      BY <1>2, <2>1 DEF PlansAreGrounded
    <3>. QED
      BY <3>1, <3>2, <3>3, KeyParts, GroundedStays, PlanVersionMoves
  <2>2. CASE api' # api
    <3>1. /\ UNCHANGED <<plans, policies, approvals>>
          /\ \E q \in Plans :
               /\ plans[q] = NoPlan /\ k = <<q, 0>>
               /\ version = LatestVersion(Source(k)) /\ version # 0
               /\ Authorized(Source(k), version)
      BY <1>2, <2>2, ApiChecks
    <3>2. k \in PlanKeys
      BY <3>1, KeyParts, AcquisitionConstants
    <3>3. Source(k) \in Sources
      BY <3>2, KeyParts, PlanKeysAreKeys
    <3>4. Grounded(Source(k), version)
      BY <3>1, <3>3, AuthorizedIsGrounded
    <3>5. Grounded(Source(k), version)'
      BY <3>3, <3>4, GroundedStays
    <3>. QED
      BY <3>1, <3>5 DEF NoPlan
  <2>. QED
    BY <2>1, <2>2
<1>. QED
  BY <1>1, <1>2 DEF PlansAreGrounded, Source

\* Claims and receipts carry the version of their reservation.
BoundSteps == {"claim", "send", "store", "receipt"}

ReceiptsFit ==
  /\ \A w \in Workers : pc[w] \in BoundSteps =>
       reservations[job[w].key].version = PlanVersion(job[w].key)
  /\ \A k \in Keys : \A i \in DOMAIN receipts[k] :
       /\ receipts[k][i] = reservations[k].version
       /\ k \in objects
       /\ Grounded(Source(k), receipts[k][i])

ReceiptInv == RequestInv /\ PlansAreGrounded /\ ReceiptsFit

\* Who adds a reservation.
LEMMA ReservationMoves ==
  ASSUME [Next]_vars
  PROVE  \/ reservations' = reservations
         \/ \E w \in Workers : Reserve(w)
         \/ ApiReserve
<1>1. ASSUME NEW w \in Workers, WorkerStep(w), ~Reserve(w)
      PROVE  reservations' = reservations
  BY <1>1
     DEF WorkerStep, StartCycle, AcquireLease, InsertConflicts, Standby,
         ContendFails, SelectDue, ReleaseLease, Authorize, CheckPolicy, Lookup,
         Recover, Validate, Claim, Send, Store, WriteReceipt, Finish, Move, Log,
         FencePasses, FenceRefuses, ExecuteRaises, requestVars
<1>2. \A w \in Workers : Crash(w) \/ Restart(w) => reservations' = reservations
  BY DEF Crash, Restart, requestVars
<1>3. Expire \/ Tick \/ Govern \/ UNCHANGED vars => reservations' = reservations
  BY DEF Expire, Tick, Govern, vars, requestVars
<1>4. Api => reservations' = reservations \/ ApiReserve
  BY DEF Api, ApiCheckCreate, ApiCheckResume, ApiCheckReserve, ApiCheck,
         ApiCreate, ApiResume, Pause, requestVars
<1>. QED
  BY <1>1, <1>2, <1>3, <1>4 DEF Next

\* A reservation row does not change.
LEMMA ReservationsStay ==
  ASSUME RequestInv, [Next]_vars, NEW k \in Keys, reservations[k] # NoReservation
  PROVE  reservations'[k] = reservations[k]
<1>0. reservations \in [Keys -> Reservation]
  BY DEF RequestInv, Types, StoresOK
<1>1. ASSUME NEW j, NEW version, NEW now, reservations[j] = NoReservation,
             InsertReservation(j, version, now)
      PROVE  reservations'[k] = reservations[k]
  BY <1>0, <1>1 DEF InsertReservation
<1>2. ASSUME NEW w \in Workers, Reserve(w)
      PROVE  reservations'[k] = reservations[k]
  <2>1. CASE reservations' = reservations
    BY <2>1
  <2>2. CASE /\ reservations[job[w].key] = NoReservation
             /\ InsertReservation(job[w].key, PlanVersion(job[w].key), job[w].now)
    BY <1>1, <2>2
  <2>. QED
    BY <1>2, <2>1, <2>2 DEF Reserve
<1>3. CASE ApiReserve
  <2>1. CASE reservations' = reservations
    BY <2>1
  <2>2. CASE /\ reservations[api.key] = NoReservation
             /\ InsertReservation(api.key, api.version, api.now)
    BY <1>1, <2>2
  <2>. QED
    BY <1>3, <2>1, <2>2 DEF ApiReserve
<1>. QED
  BY <1>2, <1>3, ReservationMoves

\* Nobody claims a request without having validated it.
LEMMA ClaimersValidate ==
  ASSUME RequestInv, [Next]_vars, NEW w \in Workers, pc'[w] \in BoundSteps
  PROVE  /\ job'[w].key = job[w].key /\ job[w].key \in PlanKeys
         /\ reservations[job[w].key] # NoReservation
         /\ \/ pc[w] \in BoundSteps
            \/ /\ pc[w] = "validate"
               /\ reservations[job[w].key].version = PlanVersion(job[w].key)
               /\ IsCurrentApproved(Source(job[w].key), PlanVersion(job[w].key))
<1>. DEFINE k == job[w].key
<1>0. pc \in [Workers -> Steps] /\ job \in [Workers -> Job]
  BY DEF RequestInv, Types, CyclesOK
<1>1. job'[w].key = k /\ pc[w] \in BoundSteps \cup {"validate"}
  <2>1. CASE WorkerStep(w)
    <3>1. /\ pc[w] \in BoundSteps \cup {"validate"}
          /\ pc'[w] = "claim" => job' = job
      BY <1>0, <2>1
         DEF WorkerStep, StartCycle, AcquireLease, InsertConflicts, Standby,
             ContendFails, SelectDue, ReleaseLease, Authorize, CheckPolicy,
             Lookup, Reserve, Recover, Validate, Claim, Send, Store, Conclude,
             WriteReceipt, Finish, Move, Log, FencePasses, FenceRefuses,
             ExecuteRaises, Enter, Goto, Decide, NextPlan, BoundSteps
    <3>2. pc'[w] # "claim" => job'[w].key = k
      BY OwnersClaim DEF OwningSteps, BoundSteps
    <3>. QED
      BY <3>1, <3>2
  <2>2. ~Crash(w) /\ ~Restart(w)
    BY <1>0 DEF Crash, Restart, Goto, BoundSteps
  <2>3. CASE pc'[w] = pc[w] /\ job'[w] = job[w]
    BY <2>3
  <2>. QED
    BY <2>1, <2>2, <2>3, WorkerBatches, OthersLeaveWorkers DEF Next, RequestInv
<1>2. k \in PlanKeys
  BY <1>1 DEF BoundSteps, PlanSteps, RequestInv, Types, CyclesOK, JobFits
<1>3. reservations[k] # NoReservation
  BY <1>1, <1>2, PlanKeysAreKeys
     DEF BoundSteps, RequestInv, ClaimsAreExclusive, ClaimFits, OwningSteps
<1>4. CASE pc[w] = "validate"
  <2>1. CASE WorkerStep(w)
    <3>1. Validate(w)
      BY <1>0, <1>4, <2>1
         DEF WorkerStep, StartCycle, AcquireLease, InsertConflicts, Standby,
             ContendFails, SelectDue, ReleaseLease, Authorize, CheckPolicy,
             Lookup, Reserve, Recover, Claim, Send, Store, WriteReceipt, Finish,
             Move, Log, FencePasses, FenceRefuses, ExecuteRaises, Enter, Goto,
             Decide, BoundSteps, GuardedSteps
    <3>. QED
      BY <1>0, <1>1, <1>2, <1>3, <1>4, <3>1
         DEF Validate, Decide, Goto, BoundSteps
  <2>2. ~Crash(w) /\ ~Restart(w)
    BY <1>0, <1>4 DEF Crash, Restart, Goto, BoundSteps
  <2>3. ~(pc'[w] = pc[w] /\ job'[w] = job[w])
    BY <1>4 DEF BoundSteps
  <2>. QED
    BY <2>1, <2>2, <2>3, WorkerBatches, OthersLeaveWorkers DEF Next, RequestInv
<1>. QED
  BY <1>1, <1>2, <1>3, <1>4

\* A plan that exists keeps its policy version.
LEMMA PlanVersionStays ==
  ASSUME Types, PlansAreGrounded, [Next]_vars, NEW k \in PlanKeys,
         PlanVersion(k) # 0
  PROVE  PlanVersion(k)' = PlanVersion(k)
BY PlanVersionMoves, KeyParts
   DEF PlanVersion, PlansAreGrounded, ApiCreate, ApiWrite

\* What is stored stays, and a receipt names the plan's version.
LEMMA ObjectsStay ==
  ASSUME [Next]_vars
  PROVE  objects \subseteq objects'
<1>1. ASSUME NEW w \in Workers, WorkerStep(w) PROVE objects \subseteq objects'
  BY <1>1
     DEF WorkerStep, StartCycle, AcquireLease, InsertConflicts, Standby,
         ContendFails, SelectDue, ReleaseLease, Authorize, CheckPolicy, Lookup,
         Reserve, Recover, Validate, Claim, Send, Store, WriteReceipt, Finish,
         Move, Log, FencePasses, FenceRefuses, ExecuteRaises, requestVars
<1>2. \A w \in Workers : Crash(w) \/ Restart(w) => objects' = objects
  BY DEF Crash, Restart, requestVars
<1>3. Expire \/ Tick \/ Govern \/ Api \/ UNCHANGED vars => objects' = objects
  BY DEF Expire, Tick, Govern, Api, ApiCheckCreate, ApiCheckResume,
         ApiCheckReserve, ApiCheck, ApiCreate, ApiResume, ApiReserve, Pause,
         vars, requestVars
<1>. QED
  BY <1>1, <1>2, <1>3 DEF Next

LEMMA ReceiptMoves ==
  ASSUME Types, [Next]_vars, NEW k \in Keys, receipts'[k] # receipts[k]
  PROVE  \E w \in Workers :
           /\ WriteReceipt(w) /\ job[w].key = k
           /\ receipts'[k] = Append(receipts[k], PlanVersion(k))
<1>0. receipts \in [Keys -> Seq(Nat)]
  BY DEF Types, StoresOK
<1>1. ASSUME NEW w \in Workers, WorkerStep(w), ~WriteReceipt(w)
      PROVE  receipts' = receipts
  BY <1>1
     DEF WorkerStep, StartCycle, AcquireLease, InsertConflicts, Standby,
         ContendFails, SelectDue, ReleaseLease, Authorize, CheckPolicy, Lookup,
         Reserve, Recover, Validate, Claim, Send, Store, Finish, Move, Log,
         FencePasses, FenceRefuses, ExecuteRaises, requestVars
<1>2. \A w \in Workers : Crash(w) \/ Restart(w) => receipts' = receipts
  BY DEF Crash, Restart, requestVars
<1>3. Expire \/ Tick \/ Govern \/ Api \/ UNCHANGED vars => receipts' = receipts
  BY DEF Expire, Tick, Govern, Api, ApiCheckCreate, ApiCheckResume,
         ApiCheckReserve, ApiCheck, ApiCreate, ApiResume, ApiReserve, Pause,
         vars, requestVars
<1>4. PICK w \in Workers : WriteReceipt(w)
  BY <1>1, <1>2, <1>3 DEF Next
<1>5. receipts' = [receipts EXCEPT ![job[w].key] =
                     Append(receipts[job[w].key], PlanVersion(job[w].key))]
  BY <1>4 DEF WriteReceipt, CapturedVersion
<1>. QED
  BY <1>0, <1>4, <1>5

LEMMA ReceiptStep ==
  ASSUME ReceiptInv, RequestInv', [Next]_vars
  PROVE  ReceiptsFit'
<1>. USE DEF ReceiptInv
<1>0. /\ receipts \in [Keys -> Seq(Nat)]
      /\ job \in [Workers -> Job]
  BY DEF RequestInv, Types, StoresOK, CyclesOK
<1>1. ASSUME NEW w \in Workers, pc'[w] \in BoundSteps
      PROVE  reservations'[job'[w].key].version = plans'[job'[w].key[1]].version
  <2>. DEFINE k == job[w].key
  <2>1. /\ job'[w].key = k /\ k \in PlanKeys /\ reservations[k] # NoReservation
        /\ reservations[k].version = PlanVersion(k)
    BY <1>1, ClaimersValidate DEF ReceiptsFit
  <2>2. PlanVersion(k) # 0
    <3>1. pc[w] \in PlanSteps
      BY <1>1, ClaimersValidate DEF BoundSteps, PlanSteps
    <3>. QED
      BY <3>1 DEF RequestInv, PlansKnown, KnownPlan
  <2>3. reservations'[k] = reservations[k]
    BY <2>1, PlanKeysAreKeys, ReservationsStay
  <2>4. PlanVersion(k)' = PlanVersion(k)
    BY <2>1, <2>2, PlanVersionStays DEF RequestInv
  <2>. QED
    BY <2>1, <2>3, <2>4 DEF PlanVersion
<1>2. ASSUME NEW k \in Keys, NEW i \in DOMAIN receipts'[k]
      PROVE  /\ receipts'[k][i] = reservations'[k].version
             /\ k \in objects'
             /\ \A v : v = receipts'[k][i] => Grounded(Source(k), v)'
  <2>0. Source(k) \in Sources
    BY KeyParts
  <2>1. CASE receipts'[k] = receipts[k]
    <3>1. reservations[k] # NoReservation
      <4>1. Len(receipts[k]) # 0
        BY <1>0, <1>2, <2>1
      <4>. QED
        BY <4>1 DEF RequestInv, ClaimsAreExclusive
    <3>2. objects \subseteq objects'
      BY ObjectsStay DEF RequestInv
    <3>. QED
      BY <1>2, <2>0, <2>1, <3>1, <3>2, ReservationsStay, GroundedStays
         DEF ReceiptsFit, RequestInv
  <2>2. ASSUME NEW w \in Workers, WriteReceipt(w), job[w].key = k,
               receipts'[k] = Append(receipts[k], PlanVersion(k))
        PROVE  /\ receipts'[k][i] = reservations'[k].version
               /\ k \in objects'
               /\ \A v : v = receipts'[k][i] => Grounded(Source(k), v)'
    <3>1. pc[w] = "receipt" /\ k \in PlanKeys /\ PlanVersion(k) # 0
      BY <2>2
         DEF WriteReceipt, PlanSteps, RequestInv, PlansKnown, KnownPlan, Types,
             CyclesOK, JobFits
    <3>2. /\ Len(receipts[k]) = 0 /\ k \in objects /\ reservations[k] # NoReservation
      BY <2>2, <3>1 DEF RequestInv, ClaimsAreExclusive, ClaimFits, OwningSteps
    <3>3. PlanVersion(k) \in Nat
      BY <3>1, KeyParts DEF RequestInv, Types, StoresOK, PlanVersion, Plan
    <3>4. receipts'[k][i] = PlanVersion(k)
      <4>1. receipts[k] \in Seq(Nat)
        BY <1>0
      <4>. QED
        BY <1>2, <2>2, <3>2, <3>3, <4>1
    <3>5. reservations'[k].version = PlanVersion(k)
      BY <2>2, <3>1, <3>2, ReservationsStay DEF ReceiptsFit, BoundSteps
    <3>6. Grounded(Source(k), PlanVersion(k))
      BY <3>1, KeyParts DEF PlansAreGrounded, PlanVersion, Source
    <3>7. Grounded(Source(k), PlanVersion(k))'
      <4>1. \A v : Grounded(Source(k), v) => Grounded(Source(k), v)'
        BY <2>0, GroundedStays DEF RequestInv
      <4>2. PlanVersion(k)' = PlanVersion(k)
        BY <3>1, PlanVersionStays DEF RequestInv
      <4>. QED
        BY <3>6, <4>1, <4>2 DEF Grounded
    <3>8. PlanVersion(k)' = PlanVersion(k)
      BY <3>1, PlanVersionStays DEF RequestInv
    <3>. QED
      BY <2>2, <3>2, <3>4, <3>5, <3>7, <3>8 DEF WriteReceipt, Grounded
  <2>. QED
    BY <2>1, <2>2, ReceiptMoves DEF RequestInv
<1>3. \A k \in Keys : \A i \in DOMAIN receipts'[k] : Grounded(Source(k), receipts[k][i])'
  BY <1>2 DEF Grounded
<1>. QED
  BY <1>1, <1>2, <1>3 DEF ReceiptsFit, PlanVersion

LEMMA ReceiptInvStep ==
  ASSUME ReceiptInv, [Next]_vars
  PROVE  ReceiptInv'
<1>1. RequestInv'
  BY RequestInvStep DEF ReceiptInv
<1>2. PlansAreGrounded'
  BY <1>1, PlansGroundedStep DEF ReceiptInv, RequestInv
<1>3. ReceiptsFit'
  BY <1>1, ReceiptStep
<1>. QED
  BY <1>1, <1>2, <1>3 DEF ReceiptInv

LEMMA ReceiptInvInit == Init => ReceiptInv
<1>. SUFFICES ASSUME Init PROVE ReceiptInv
  OBVIOUS
<1>1. PlansAreGrounded
  BY DEF Init, PlansAreGrounded, NoPlan
<1>2. ReceiptsFit
  BY DEF Init, ReceiptsFit, BoundSteps
<1>. QED
  BY <1>1, <1>2, RequestInvInit DEF ReceiptInv

\* A receipt is bound to the authority it was fetched under: whoever changes
\* policies and approvals between reserve and capture, it names the version its
\* reservation was made under, which a reviewer approved, and its bytes are kept.
THEOREM ReceiptsStayBound == Spec => []ReceiptsAreBound
<1>1. ReceiptInv /\ [Next]_vars => ReceiptInv'
  BY ReceiptInvStep
<1>2. ReceiptInv => ReceiptsAreBound
  BY DEF ReceiptInv, ReceiptsFit, Grounded, ReceiptsAreBound
<1>. QED
  BY <1>1, <1>2, ReceiptInvInit, PTL DEF Spec
----------------------------------------------------------------------------
(* Slots.                                                                  *)

\* Steps at which a plan has not been moved yet.
OpenSteps == PlanSteps \ {"log"}

\* What a worker has read of its plans is still so.
SlotsFit(step, j) ==
  /\ step \notin CycleSteps => j.batch = {}
  /\ \A k \in j.batch : plans[k[1]].next = Slot(k)
  /\ \A k, l \in j.batch : k[1] = l[1] => k = l
  /\ step \in OpenSteps =>
       /\ plans[j.key[1]].next = Slot(j.key)
       /\ \A k \in j.batch : k[1] # j.key[1]
  /\ step = "move" /\ j.todo = "defer" => j.until >= Slot(j.key)

PlansAreCurrent == \A w \in Workers : SlotsFit(pc[w], job[w])

\* A plan's slot is set by the request that creates it and by Move.
LEMMA SlotMoves ==
  ASSUME Types, PlansAreGrounded, [Next]_vars, NEW p \in Plans,
         plans[p].version # 0, plans'[p].next # plans[p].next
  PROVE  \E w \in Workers :
           /\ Move(w) /\ job[w].key[1] = p
           /\ \/ job[w].todo = "defer" /\ plans'[p].next = job[w].until
              \/ /\ job[w].todo = "advance"
                 /\ plans'[p].next = NextSlot(Slot(job[w].key), job[w].now)
<1>0. plans \in [Plans -> Plan]
  BY DEF Types, StoresOK
<1>2. ~ApiCreate
  <2>1. SUFFICES ASSUME ApiCreate PROVE FALSE
    OBVIOUS
  <2>2. PICK start \in StartTimes \cup {clock} :
          plans' = [plans EXCEPT ![api.key[1]] =
                      [version |-> api.version, next |-> start, enabled |-> TRUE]]
    BY <2>1 DEF ApiCreate
  <2>3. api.key[1] # p
    BY <2>1 DEF PlansAreGrounded, ApiCreate, ApiWrite
  <2>. QED
    BY <1>0, <2>2, <2>3
<1>3. ~ApiResume
  BY <1>0 DEF ApiResume, Plan
<1>4. \A q \in Plans : ~Pause(q)
  BY <1>0 DEF Pause, Plan
<1>5. ASSUME NEW w \in Workers, WorkerStep(w), ~Move(w) PROVE plans' = plans
  BY <1>5
     DEF WorkerStep, StartCycle, AcquireLease, InsertConflicts, Standby,
         ContendFails, SelectDue, ReleaseLease, Authorize, CheckPolicy, Lookup,
         Reserve, Recover, Validate, Claim, Send, Store, WriteReceipt, Finish,
         Log, FencePasses, FenceRefuses, ExecuteRaises
<1>6. \A w \in Workers : Crash(w) \/ Restart(w) => plans' = plans
  BY DEF Crash, Restart
<1>7. Expire \/ Tick \/ Govern \/ UNCHANGED vars => plans' = plans
  BY DEF Expire, Tick, Govern, vars
<1>8. Api => plans' = plans
  BY <1>2, <1>3, <1>4
     DEF Api, ApiCheckCreate, ApiCheckResume, ApiCheckReserve, ApiCheck,
         ApiReserve
<1>9. PICK w \in Workers : Move(w)
  BY <1>5, <1>6, <1>7, <1>8 DEF Next
<1>10. plans[p] \in Plan
  BY <1>0
<1>11. CASE /\ job[w].todo = "disable"
            /\ plans' = [plans EXCEPT ![job[w].key[1]].enabled = FALSE]
  BY <1>0, <1>10, <1>11 DEF Plan
<1>12. CASE /\ job[w].todo = "defer"
            /\ plans' = [plans EXCEPT ![job[w].key[1]].next = job[w].until]
  BY <1>0, <1>9, <1>10, <1>12 DEF Plan
<1>13. CASE /\ job[w].todo = "advance"
            /\ plans' = [plans EXCEPT ![job[w].key[1]].next =
                           NextSlot(Slot(job[w].key), job[w].now)]
  BY <1>0, <1>9, <1>10, <1>13 DEF Plan
<1>. QED
  BY <1>9, <1>11, <1>12, <1>13 DEF Move

\* What a step of a worker does to its batch and to its current plan.
BatchStep(w) ==
  /\ pc'[w] \notin CycleSteps =>
       \/ job'[w].batch = {}
       \/ job'[w].batch = job[w].batch /\ pc[w] \notin CycleSteps
  /\ \/ pc[w] = "select" /\ job'[w].batch \subseteq Due(job[w].now)
     \/ job'[w].batch \subseteq job[w].batch
  /\ pc'[w] \in OpenSteps =>
       \/ /\ pc[w] \in OpenSteps /\ job'[w].key = job[w].key
          /\ job'[w].batch = job[w].batch
       \/ /\ pc[w] = "authorize" /\ job'[w].key \in job[w].batch
          /\ job'[w].batch = job[w].batch \ {job'[w].key}
  /\ pc'[w] = "move" /\ job'[w].todo = "defer" =>
       \/ pc[w] = "move" /\ job'[w] = job[w]
       \/ /\ pc[w] \in OpenSteps /\ job'[w].key = job[w].key
          /\ job'[w].until > job[w].now

LEMMA DecidedStep ==
  ASSUME Types, NEW w \in Workers, pc[w] \in OpenSteps,
         NEW todo \in {"advance", "disable"}, NEW status, Decide(w, todo, status)
  PROVE  BatchStep(w)
<1>0. pc \in [Workers -> Steps] /\ job \in [Workers -> Job] /\ job[w] \in Job
  BY DEF Types, CyclesOK
<1>1. job' = [job EXCEPT ![w] = [job[w] EXCEPT !.todo = todo, !.status = status]]
  BY DEF Decide
<1>2. /\ job'[w].key = job[w].key /\ job'[w].batch = job[w].batch
      /\ job'[w].todo = todo
  BY <1>0, <1>1 DEF Job
<1>3. pc'[w] = "move"
  BY <1>0 DEF Decide, Goto
<1>. QED
  BY <1>2, <1>3 DEF BatchStep, CycleSteps, Steps

LEMMA WorkerBatchStep ==
  ASSUME Types, NEW w \in Workers, WorkerStep(w) \/ Crash(w) \/ Restart(w)
  PROVE  BatchStep(w)
<1>0. /\ pc \in [Workers -> Steps] /\ job \in [Workers -> Job] /\ job[w] \in Job
      /\ JobFits(pc[w], job[w])
  BY DEF Types, CyclesOK
<1>. USE DEF Goto
<1>1. CASE StartCycle(w) \/ Standby(w) \/ ContendFails(w) \/ ReleaseLease(w) \/ Crash(w)
  <2>1. pc'[w] \in {"acquire", "idle", "down"} /\ job'[w].batch = {}
    BY <1>0, <1>1
       DEF StartCycle, Standby, ContendFails, ReleaseLease, Crash, NoJob
  <2>. QED
    BY <2>1 DEF BatchStep, OpenSteps, PlanSteps
<1>2. CASE AcquireLease(w) \/ InsertConflicts(w) \/ Restart(w) \/ FencePasses(w)
  BY <1>0, <1>2
     DEF AcquireLease, InsertConflicts, Restart, FencePasses, BatchStep,
         OpenSteps, PlanSteps, CycleSteps, Steps, GuardedSteps
<1>3. CASE SelectDue(w)
  BY <1>0, <1>3 DEF SelectDue, BatchStep, OpenSteps, PlanSteps, CycleSteps, Steps
<1>4. CASE Authorize(w)
  <2>2. PICK k \in job[w].batch :
          /\ job'[w].batch = job[w].batch \ {k} /\ job'[w].key = k
          /\ pc'[w] = "policy" \/ (pc'[w] = "move" /\ job'[w].todo = "disable")
    BY <1>0, <1>4 DEF Authorize, Job
  <2>. QED
    BY <1>4, <2>2 DEF Authorize, BatchStep, OpenSteps, PlanSteps, CycleSteps, Steps
<1>5. CASE Log(w)
  BY <1>0, <1>5
     DEF Log, Enter, NextPlan, NoJob, BatchStep, OpenSteps, PlanSteps,
         CycleSteps, Steps, Job
<1>6. ASSUME pc[w] \in OpenSteps, pc'[w] \in {"lookup", "recover", "reserve",
               "validate", "claim", "send", "log", "abort", "store", "receipt"},
             job' = job
      PROVE  BatchStep(w)
  BY <1>0, <1>6 DEF BatchStep, OpenSteps, PlanSteps, CycleSteps, Steps
<1>7. CASE CheckPolicy(w) \/ Lookup(w) \/ Validate(w) \/ Claim(w) \/ Move(w)
  BY <1>0, <1>6, <1>7, DecidedStep
     DEF CheckPolicy, Lookup, Validate, Claim, Move, Enter, OpenSteps, PlanSteps
<1>8. CASE Recover(w)
  <2>1. \A status : Recovery(status)[1] \in {"advance", "disable"}
    BY DEF Recovery
  <2>. QED
    BY <1>0, <1>6, <1>8, <2>1, DecidedStep DEF Recover, OpenSteps, PlanSteps
<1>9. CASE Reserve(w)
  <2>1. CASE \E b \in 0..job[w].now :
               /\ Blocks(Source(job[w].key), job[w].now, b)
               /\ job' = [job EXCEPT ![w].todo = "defer", ![w].status = "deferred",
                            ![w].until = Reopens(b)]
               /\ pc' = [pc EXCEPT ![w] = "move"]
    <3>1. PICK b \in 0..job[w].now :
            /\ Blocks(Source(job[w].key), job[w].now, b)
            /\ job' = [job EXCEPT ![w] = [job[w] EXCEPT !.todo = "defer",
                         !.status = "deferred", !.until = Reopens(b)]]
            /\ pc' = [pc EXCEPT ![w] = "move"]
      BY <2>1
    <3>2. /\ job'[w].until = b + Window /\ job'[w].key = job[w].key
          /\ job'[w].batch = job[w].batch /\ pc'[w] = "move"
      BY <1>0, <3>1 DEF Reopens, Job
    <3>3. b + Window > job[w].now
      BY <3>1 DEF Blocks, InWindow
    <3>. QED
      BY <1>9, <3>2, <3>3
         DEF Reserve, Enter, BatchStep, OpenSteps, PlanSteps, CycleSteps, Steps
  <2>. QED
    BY <1>0, <1>6, <1>9, <2>1, DecidedStep DEF Reserve, Enter, OpenSteps, PlanSteps
<1>10. CASE Send(w) \/ Store(w) \/ WriteReceipt(w)
  <2>1. ASSUME NEW result, Conclude(w, result) PROVE BatchStep(w)
    <3>1. /\ job' = [job EXCEPT ![w] = [job[w] EXCEPT !.result = result]]
          /\ pc' = [pc EXCEPT ![w] = "finish"]
      BY <2>1 DEF Conclude
    <3>2. /\ job'[w].key = job[w].key /\ job'[w].batch = job[w].batch
          /\ pc'[w] = "finish"
      BY <1>0, <3>1 DEF Job
    <3>. QED
      BY <1>10, <3>2
         DEF Send, Store, WriteReceipt, BatchStep, OpenSteps, PlanSteps,
             CycleSteps, Steps
  <2>. QED
    BY <1>0, <1>6, <1>10, <2>1 DEF Send, Store, WriteReceipt, OpenSteps,
                                   PlanSteps
<1>11. CASE Finish(w) \/ FenceRefuses(w) \/ ExecuteRaises(w)
  <2>1. CASE pc'[w] = "abort" /\ job' = job /\ pc[w] \notin {"idle", "acquire", "contend", "down"}
    BY <1>0, <2>1 DEF BatchStep, OpenSteps, PlanSteps, CycleSteps, Steps
  <2>. QED
    BY <1>0, <1>11, <2>1, DecidedStep
       DEF Finish, FenceRefuses, ExecuteRaises, Enter, GuardedSteps, OpenSteps,
           PlanSteps
<1>. QED
  BY <1>1, <1>2, <1>3, <1>4, <1>5, <1>7, <1>8, <1>9, <1>10, <1>11 DEF WorkerStep

\* advance() goes to a later slot.
LEMMA NextSlotIsLater ==
  ASSUME NEW slot \in Nat, NEW now \in Nat, slot <= now
  PROVE  NextSlot(slot, now) > slot
<1>1. Interval \in Nat /\ Interval > 0
  BY AcquisitionConstants
<1>2. (now - slot) \div Interval \in Nat
  BY <1>1
<1>. DEFINE n == ((now - slot) \div Interval) + 1
<1>3. n \in Nat /\ n > 0
  BY <1>2
<1>. HIDE DEF n
<1>4. Interval * n \in Nat /\ Interval * n > 0
  BY <1>1, <1>3
<1>. QED
  BY <1>4 DEF NextSlot, n

\* A worker that moves a plan finds it where it read it.
LEMMA MoversAreCurrent ==
  ASSUME Types, PlansAreCurrent, NEW w \in Workers, Move(w)
  PROVE  LET k == job[w].key IN
         /\ pc[w] = "move" /\ k \in PlanKeys /\ plans[k[1]].next = Slot(k)
         /\ job[w].todo = "defer" => job[w].until >= Slot(k)
         /\ job[w].todo = "advance" => NextSlot(Slot(k), job[w].now) > Slot(k)
<1>. DEFINE k == job[w].key
<1>1. /\ pc[w] = "move" /\ k \in PlanKeys /\ Slot(k) <= job[w].now
      /\ job[w] \in Job
  BY DEF Move, Enter, Types, CyclesOK, JobFits, PlanSteps
<1>2. Slot(k) \in Nat /\ job[w].now \in Nat
  BY <1>1, KeyParts, AcquisitionConstants DEF Slot, Job
<1>3. NextSlot(Slot(k), job[w].now) > Slot(k)
  BY <1>1, <1>2, NextSlotIsLater
<1>. QED
  BY <1>1, <1>3 DEF PlansAreCurrent, SlotsFit, OpenSteps, PlanSteps

LEMMA PlansCurrentStep ==
  ASSUME RequestInv, PlansAreGrounded, LeaseHeld, PlansAreCurrent, [Next]_vars
  PROVE  PlansAreCurrent'
<1>. USE DEF RequestInv
<1>. SUFFICES ASSUME NEW w \in Workers PROVE SlotsFit(pc[w], job[w])'
  BY DEF PlansAreCurrent
<1>0. /\ SlotsFit(pc[w], job[w]) /\ KnownPlan(pc[w], job[w])
      /\ JobFits(pc[w], job[w]) /\ job[w] \in Job
  BY DEF PlansAreCurrent, PlansKnown, Types, CyclesOK
<1>1. \A k \in PlanKeys : k[1] \in Plans
  BY KeyParts
<1>2. ASSUME NEW k \in PlanKeys, PlanVersion(k) # 0,
             plans'[k[1]].next # plans[k[1]].next
      PROVE  \E v \in Workers : Move(v) /\ job[v].key[1] = k[1]
  BY <1>1, <1>2, SlotMoves DEF PlanVersion
<1>3. ASSUME NEW v \in Workers, Move(v), v # w
      PROVE  pc[w] \notin CycleSteps
  BY <1>3, OneHolder DEF OneCycleAtATime, Move, Enter, CycleSteps, Steps
<1>4. CASE pc'[w] = pc[w] /\ job'[w] = job[w]
  <2>1. CASE pc[w] \notin CycleSteps
    BY <1>0, <1>4, <2>1 DEF SlotsFit, OpenSteps, PlanSteps, CycleSteps, Steps
  <2>2. CASE pc[w] \in CycleSteps
    <3>1. \A v \in Workers : Move(v) => v = w
      BY <1>3, <2>2
    <3>2. ~Move(w)
      <4>1. pc \in [Workers -> Steps]
        BY DEF Types, CyclesOK
      <4>. QED
        BY <1>4, <4>1 DEF Move, Enter, Goto
    <3>3. \A k \in PlanKeys : PlanVersion(k) # 0 => plans'[k[1]].next = plans[k[1]].next
      BY <1>2, <3>1, <3>2
    <3>4. pc[w] \in OpenSteps => job[w].key \in PlanKeys /\ PlanVersion(job[w].key) # 0
      BY <1>0 DEF OpenSteps, JobFits, KnownPlan
    <3>5. \A k \in job[w].batch : k \in PlanKeys /\ PlanVersion(k) # 0
      BY <1>0 DEF JobFits, KnownPlan
    <3>. QED
      BY <1>0, <1>4, <3>3, <3>4, <3>5 DEF SlotsFit
  <2>. QED
    BY <2>1, <2>2
<1>5. CASE WorkerStep(w) \/ Crash(w) \/ Restart(w)
  <2>1. BatchStep(w)
    BY <1>5, WorkerBatchStep
  <2>2. CASE Move(w)
    <3>1. /\ pc[w] = "move" /\ pc'[w] = "log" /\ job'[w] = job[w]
      <4>1. pc \in [Workers -> Steps]
        BY DEF Types, CyclesOK
      <4>. QED
        BY <2>2, <4>1 DEF Move, Enter, Goto
    <3>2. \A k \in job[w].batch : k \in PlanKeys /\ PlanVersion(k) # 0
      BY <1>0 DEF JobFits, KnownPlan
    <3>3. \A k \in job[w].batch : k[1] # job[w].key[1]
      BY <1>0, <3>1 DEF SlotsFit, OpenSteps, PlanSteps
    <3>4. ASSUME NEW k \in job[w].batch PROVE plans'[k[1]].next = plans[k[1]].next
      <4>1. ASSUME NEW v \in Workers, Move(v) PROVE v = w
        BY <1>3, <3>1, <4>1 DEF CycleSteps, Steps
      <4>. QED
        BY <1>2, <3>2, <3>3, <4>1
    <3>. QED
      BY <1>0, <3>1, <3>4 DEF SlotsFit, OpenSteps, PlanSteps, CycleSteps, Steps
  <2>3. CASE ~Move(w)
    <3>1. plans' = plans
      BY <1>5, <2>3
         DEF WorkerStep, StartCycle, AcquireLease, InsertConflicts, Standby,
             ContendFails, SelectDue, ReleaseLease, Authorize, CheckPolicy,
             Lookup, Reserve, Recover, Validate, Claim, Send, Store,
             WriteReceipt, Finish, Log, FencePasses, FenceRefuses,
             ExecuteRaises, Crash, Restart
    <3>2. \A k \in Due(job[w].now) : plans[k[1]].next = Slot(k) /\ k \in PlanKeys
      BY DEF Due, PlanKeys
    <3>3. \A k, l \in Due(job[w].now) : k[1] = l[1] => k = l
      <4>1. \A k, l \in PlanKeys : k[1] = l[1] /\ Slot(k) = Slot(l) => k = l
        BY DEF PlanKeys, Slot
      <4>. QED
        BY <3>2, <4>1
    <3>4. /\ pc'[w] \notin CycleSteps => job'[w].batch = {}
          /\ \A k \in job'[w].batch : plans[k[1]].next = Slot(k)
          /\ \A k, l \in job'[w].batch : k[1] = l[1] => k = l
      BY <1>0, <2>1, <3>2, <3>3 DEF BatchStep, SlotsFit
    <3>5. ASSUME pc'[w] \in OpenSteps
          PROVE  /\ plans[job'[w].key[1]].next = Slot(job'[w].key)
                 /\ \A k \in job'[w].batch : k[1] # job'[w].key[1]
      BY <1>0, <2>1, <3>5 DEF BatchStep, SlotsFit
    <3>6. ASSUME pc'[w] = "move", job'[w].todo = "defer"
          PROVE  job'[w].until >= Slot(job'[w].key)
      <4>1. CASE pc[w] = "move" /\ job'[w] = job[w]
        BY <1>0, <3>6, <4>1 DEF SlotsFit
      <4>2. CASE /\ pc[w] \in OpenSteps /\ job'[w].key = job[w].key
                 /\ job'[w].until > job[w].now
        <5>1. /\ Slot(job[w].key) <= job[w].now /\ job[w].now \in Nat
              /\ job[w].key \in PlanKeys
          BY <1>0, <4>2 DEF JobFits, OpenSteps, Job
        <5>2. Slot(job[w].key) \in Nat
          BY <5>1, KeyParts, AcquisitionConstants DEF Slot
        <5>3. job'[w].until \in Nat
          <6>1. Types'
            BY TypesStep
          <6>. QED
            BY <6>1 DEF Types, CyclesOK, Job
        <5>. QED
          BY <4>2, <5>1, <5>2, <5>3
      <4>. QED
        BY <2>1, <3>6, <4>1, <4>2 DEF BatchStep
    <3>. QED
      BY <3>1, <3>4, <3>5, <3>6 DEF SlotsFit
  <2>. QED
    BY <2>2, <2>3
<1>. QED
  BY <1>4, <1>5, WorkerBatches, OthersLeaveWorkers DEF Next

LEMMA PlansCurrentInit == Init => PlansAreCurrent
BY DEF Init, PlansAreCurrent, SlotsFit, NoJob, CycleSteps, OpenSteps, PlanSteps

CycleInv == RequestInv /\ PlansAreGrounded /\ LeaseHeld /\ PlansAreCurrent

LEMMA CycleInvStep ==
  ASSUME LeaseCoversCycle
  PROVE  CycleInv /\ [Next]_vars => CycleInv'
BY RequestInvStep, PlansGroundedStep, LeaseHeldStep, PlansCurrentStep
   DEF RequestInv, CycleInv

LEMMA CycleInvInit == Init => CycleInv
BY ReceiptInvInit, LeaseHeldInit, PlansCurrentInit DEF ReceiptInv, CycleInv

LEMMA PlansMoveOn ==
  ASSUME CycleInv, [Next]_vars, NEW p \in Plans, plans[p].version # 0
  PROVE  plans'[p].next >= plans[p].next
<1>. USE DEF CycleInv
<1>1. plans[p].next \in Nat
  BY DEF RequestInv, Types, StoresOK, Plan
<1>2. CASE plans'[p].next = plans[p].next
  BY <1>1, <1>2
<1>3. CASE plans'[p].next # plans[p].next
  <2>1. PICK w \in Workers :
          /\ Move(w) /\ job[w].key[1] = p
          /\ \/ job[w].todo = "defer" /\ plans'[p].next = job[w].until
             \/ /\ job[w].todo = "advance"
                /\ plans'[p].next = NextSlot(Slot(job[w].key), job[w].now)
    BY <1>3, SlotMoves DEF RequestInv
  <2>. DEFINE k == job[w].key
  <2>2. /\ k \in PlanKeys /\ plans[p].next = Slot(k)
        /\ job[w].todo = "defer" => job[w].until >= Slot(k)
        /\ job[w].todo = "advance" => NextSlot(Slot(k), job[w].now) > Slot(k)
    BY <2>1, MoversAreCurrent DEF RequestInv
  <2>3. Slot(k) \in Nat /\ plans'[p].next \in Nat
    <3>1. Types'
      BY TypesStep DEF RequestInv
    <3>. QED
      BY <2>2, <3>1, KeyParts, AcquisitionConstants DEF Slot, Types, StoresOK, Plan
  <2>. QED
    BY <2>1, <2>2, <2>3
<1>. QED
  BY <1>2, <1>3

\* When the lease outlasts the cycle, the slot that a worker writes, computed
\* from a plan that due_plans returned some steps earlier, is not before the
\* one it overwrites: nobody else has moved the plan in between.
THEOREM SlotsStayAhead ==
  ASSUME LeaseCoversCycle
  PROVE  Spec => SlotsNeverRegress
<1>1. CycleInv /\ [Next]_vars => CycleInv'
  BY CycleInvStep
<1>2. Init => CycleInv
  BY CycleInvInit
<1>3. CycleInv /\ [Next]_vars =>
        [\A p \in Plans : plans[p].version # 0
           => plans'[p].next >= plans[p].next]_vars
  BY PlansMoveOn
<1>. QED
  BY <1>1, <1>2, <1>3, PTL DEF Spec, SlotsNeverRegress
----------------------------------------------------------------------------
(* Failed runs.                                                            *)

\* The plan has moved on: nobody who reads it comes back to this slot.
Past(k) ==
  k \in PlanKeys /\ PlanVersion(k) # 0 /\ plans[k[1]].next > Slot(k)

\* A failure advances its plan, and is logged once the plan is advanced.
FailureFits(step, j) ==
  j.status = "failed" =>
    /\ step = "move" => j.todo = "advance"
    /\ step = "log" => Past(j.key)

FailuresArePast ==
  /\ \A w \in Workers : FailureFits(pc[w], job[w])
  /\ \A r \in runs : r.status = "failed" => Past(r.key)

LEMMA PastStays ==
  ASSUME CycleInv, CycleInv', [Next]_vars, NEW k, Past(k)
  PROVE  Past(k)'
<1>1. k \in PlanKeys /\ k[1] \in Plans /\ Slot(k) \in Nat
  BY KeyParts, AcquisitionConstants DEF Past, Slot
<1>2. plans'[k[1]].next >= plans[k[1]].next
  BY <1>1, PlansMoveOn DEF Past, PlanVersion
<1>3. PlanVersion(k)' # 0
  BY <1>1, VersionsStay DEF Past, PlanVersion, CycleInv, RequestInv
<1>4. plans[k[1]].next \in Nat /\ plans'[k[1]].next \in Nat
  BY <1>1 DEF CycleInv, RequestInv, Types, StoresOK, Plan
<1>. QED
  BY <1>1, <1>2, <1>3, <1>4 DEF Past, Slot

\* Only a run that failed is decided as a failure, and its plan is advanced.
LEMMA FailuresAdvance ==
  ASSUME Types, NEW w \in Workers, WorkerStep(w) \/ Crash(w) \/ Restart(w),
         pc'[w] = "move", job'[w].status = "failed"
  PROVE  job'[w].todo = "advance" \/ (pc[w] = "move" /\ job'[w] = job[w])
<1>0. /\ pc \in [Workers -> Steps] /\ job \in [Workers -> Job] /\ job[w] \in Job
  BY DEF Types, CyclesOK
<1>d. ASSUME NEW todo, NEW status, Decide(w, todo, status)
      PROVE  job'[w].todo = todo /\ job'[w].status = status
  <2>1. job' = [job EXCEPT ![w] = [job[w] EXCEPT !.todo = todo, !.status = status]]
    BY <1>d DEF Decide
  <2>. QED
    BY <1>0, <2>1 DEF Job
<1>1. CASE \/ StartCycle(w) \/ AcquireLease(w) \/ InsertConflicts(w)
           \/ Standby(w) \/ ContendFails(w) \/ SelectDue(w) \/ ReleaseLease(w)
           \/ Lookup(w) \/ Send(w) \/ Store(w) \/ WriteReceipt(w) \/ Move(w)
           \/ Log(w) \/ Crash(w) \/ Restart(w)
  BY <1>0, <1>1
     DEF StartCycle, AcquireLease, InsertConflicts, Standby, ContendFails,
         SelectDue, ReleaseLease, Lookup, Send, Store, WriteReceipt, Conclude,
         Move, Log, NextPlan, Crash, Restart, Goto
<1>2. CASE Authorize(w)
  <2>1. PICK k \in job[w].batch :
          \/ pc'[w] = "policy"
          \/ job' = [job EXCEPT ![w].batch = @ \ {k}, ![w].key = k,
                       ![w].todo = "disable", ![w].status = "policy_blocked"]
    BY <1>0, <1>2 DEF Authorize, Goto
  <2>. QED
    BY <1>0, <2>1 DEF Job
<1>3. CASE CheckPolicy(w)
  BY <1>0, <1>d, <1>3 DEF CheckPolicy, Goto
<1>4. CASE Reserve(w)
  <2>1. CASE \E b \in 0..job[w].now :
               job' = [job EXCEPT ![w].todo = "defer", ![w].status = "deferred",
                         ![w].until = Reopens(b)]
    <3>1. PICK b \in 0..job[w].now :
            job' = [job EXCEPT ![w] = [job[w] EXCEPT !.todo = "defer",
                      !.status = "deferred", !.until = Reopens(b)]]
      BY <2>1
    <3>. QED
      BY <1>0, <3>1 DEF Job
  <2>. QED
    BY <1>0, <1>d, <1>4, <2>1 DEF Reserve, Goto
<1>5. CASE Recover(w)
  <2>1. \A status : Recovery(status)[2] = "failed" => Recovery(status)[1] = "advance"
    BY DEF Recovery
  <2>. QED
    BY <1>0, <1>d, <1>5, <2>1 DEF Recover, Goto
<1>6. CASE Validate(w) \/ Claim(w) \/ FenceRefuses(w) \/ ExecuteRaises(w)
  BY <1>0, <1>d, <1>6 DEF Validate, Claim, FenceRefuses, ExecuteRaises, Goto
<1>7. CASE Finish(w)
  BY <1>d, <1>7 DEF Finish
<1>8. CASE FencePasses(w)
  BY <1>8 DEF FencePasses
<1>. QED
  BY <1>1, <1>2, <1>3, <1>4, <1>5, <1>6, <1>7, <1>8 DEF WorkerStep

LEMMA LogsComeFromMoves ==
  ASSUME Types, NEW w \in Workers, WorkerStep(w) \/ Crash(w) \/ Restart(w),
         pc'[w] = "log"
  PROVE  job'[w] = job[w] /\ (pc[w] = "log" \/ Move(w))
<1>0. pc \in [Workers -> Steps] /\ job \in [Workers -> Job]
  BY DEF Types, CyclesOK
<1>1. CASE \/ StartCycle(w) \/ AcquireLease(w) \/ InsertConflicts(w)
           \/ Standby(w) \/ ContendFails(w) \/ SelectDue(w) \/ ReleaseLease(w)
           \/ Lookup(w) \/ Send(w) \/ Store(w) \/ WriteReceipt(w)
           \/ Log(w) \/ Crash(w) \/ Restart(w)
  BY <1>0, <1>1
     DEF StartCycle, AcquireLease, InsertConflicts, Standby, ContendFails,
         SelectDue, ReleaseLease, Lookup, Send, Store, WriteReceipt, Conclude,
         Log, NextPlan, Crash, Restart, Goto
<1>2. CASE \/ Authorize(w) \/ CheckPolicy(w) \/ Reserve(w) \/ Recover(w)
           \/ Validate(w) \/ Claim(w) \/ FenceRefuses(w) \/ ExecuteRaises(w)
           \/ Finish(w)
  BY <1>0, <1>2
     DEF Authorize, CheckPolicy, Reserve, Recover, Validate, Claim, Finish,
         FenceRefuses, ExecuteRaises, Decide, Goto
<1>3. CASE Move(w) \/ FencePasses(w)
  BY <1>3 DEF Move, FencePasses
<1>. QED
  BY <1>1, <1>2, <1>3 DEF WorkerStep

LEMMA FailuresArePastStep ==
  ASSUME CycleInv, CycleInv', FailuresArePast, [Next]_vars
  PROVE  FailuresArePast'
<1>0. Types /\ pc \in [Workers -> Steps] /\ job \in [Workers -> Job]
  BY DEF CycleInv, RequestInv, Types, CyclesOK
<1>1. \A k : Past(k) => Past(k)'
  BY PastStays
<1>2. ASSUME NEW w \in Workers, WorkerStep(w) \/ Crash(w) \/ Restart(w)
      PROVE  FailureFits(pc[w], job[w])'
  <2>. SUFFICES ASSUME job'[w].status = "failed", pc'[w] \in {"move", "log"}
                PROVE  /\ pc'[w] = "move" => job'[w].todo = "advance"
                       /\ pc'[w] = "log" => Past(job[w].key)'
    BY DEF FailureFits
  <2>1. CASE pc'[w] = "move"
    BY <1>0, <1>2, <2>1, FailuresAdvance DEF FailuresArePast, FailureFits
  <2>2. CASE pc'[w] = "log"
    <3>1. job'[w] = job[w] /\ (pc[w] = "log" \/ Move(w))
      BY <1>0, <1>2, <2>2, LogsComeFromMoves
    <3>2. CASE pc[w] = "log"
      BY <1>1, <2>2, <3>1, <3>2 DEF FailuresArePast, FailureFits
    <3>3. CASE Move(w)
      <4>0. PICK k : k = job[w].key
        OBVIOUS
      <4>1. /\ pc[w] = "move" /\ k \in PlanKeys
            /\ job[w].todo = "advance" => NextSlot(Slot(k), job[w].now) > Slot(k)
        BY <3>3, <4>0, MoversAreCurrent DEF CycleInv, RequestInv
      <4>2. job[w].todo = "advance"
        BY <3>1, <4>1 DEF FailuresArePast, FailureFits
      <4>3. k[1] \in Plans
        BY <4>1, KeyParts
      <4>4. plans'[k[1]].next = NextSlot(Slot(k), job[w].now)
        <5>1. plans' = [plans EXCEPT ![k[1]].next = NextSlot(Slot(k), job[w].now)]
          BY <3>3, <4>0, <4>2 DEF Move
        <5>2. plans[k[1]] \in Plan /\ plans \in [Plans -> Plan]
          BY <1>0, <4>3 DEF Types, StoresOK
        <5>. QED
          BY <4>3, <5>1, <5>2 DEF Plan
      <4>5. PlanVersion(k)' # 0
        <5>1. PlanVersion(k) # 0
          BY <4>0, <4>1 DEF CycleInv, RequestInv, PlansKnown, KnownPlan, PlanSteps
        <5>. QED
          BY <4>3, <5>1, VersionsStay DEF PlanVersion, CycleInv, RequestInv
      <4>6. Past(k)'
        BY <4>1, <4>2, <4>4, <4>5 DEF Past, Slot
      <4>. QED
        BY <2>2, <3>1, <4>0, <4>6
    <3>. QED
      BY <3>1, <3>2, <3>3
  <2>. QED
    BY <2>1, <2>2
<1>3. ASSUME NEW w \in Workers, pc'[w] = pc[w], job'[w] = job[w]
      PROVE  FailureFits(pc[w], job[w])'
  BY <1>1, <1>3 DEF FailuresArePast, FailureFits
<1>4. \A w \in Workers : FailureFits(pc[w], job[w])'
  BY <1>2, <1>3, WorkerBatches, OthersLeaveWorkers DEF Next, CycleInv, RequestInv
<1>5. ASSUME NEW r \in runs', r.status = "failed" PROVE Past(r.key)'
  <2>1. CASE r \in runs
    BY <1>1, <1>5, <2>1 DEF FailuresArePast
  <2>2. CASE r \notin runs
    <3>1. PICK w \in Workers : Log(w) /\ r = Pending(w)
      BY <2>2, LoggedRuns DEF CycleInv, RequestInv
    <3>2. pc[w] = "log" /\ r.key = job[w].key /\ job[w].status = "failed"
      BY <1>5, <3>1 DEF Log, Enter, Pending
    <3>. QED
      BY <1>1, <3>2 DEF FailuresArePast, FailureFits
  <2>. QED
    BY <2>1, <2>2
<1>. QED
  BY <1>4, <1>5 DEF FailuresArePast

Untouched(k) ==
  /\ executions'[k] = executions[k]
  /\ sends'[k] = sends[k]
  /\ k \in objects' => k \in objects
  /\ receipts'[k] = receipts[k]

\* Only a worker that has the request as its current one touches its ledgers.
LEMMA OthersLeaveLedgers ==
  ASSUME Types, [Next]_vars, NEW k \in Keys,
         \A w \in Workers : pc[w] \in OpenSteps => job[w].key # k
  PROVE  Untouched(k)
<1>. USE DEF Untouched
<1>0. /\ executions \in [Keys -> FinalStatus \cup {"none", "claimed"}]
      /\ sends \in [Keys -> Nat] /\ receipts \in [Keys -> Seq(Nat)]
  BY DEF Types, StoresOK
<1>1. ASSUME NEW w \in Workers,
             \/ Claim(w) \/ Send(w) \/ Store(w) \/ WriteReceipt(w) \/ Finish(w)
      PROVE  Untouched(k)
  <2>1. job[w].key # k
    BY <1>1 DEF Claim, Send, Store, WriteReceipt, Finish, Enter, OpenSteps, PlanSteps
  <2>2. CASE Claim(w)
    BY <1>0, <2>1, <2>2 DEF Claim
  <2>3. CASE Send(w)
    BY <1>0, <2>1, <2>3 DEF Send
  <2>4. CASE Store(w)
    BY <1>0, <2>1, <2>4 DEF Store
  <2>5. CASE WriteReceipt(w)
    BY <1>0, <2>1, <2>5 DEF WriteReceipt
  <2>6. CASE Finish(w)
    BY <1>0, <2>1, <2>6 DEF Finish
  <2>. QED
    BY <1>1, <2>2, <2>3, <2>4, <2>5, <2>6
<1>2. ASSUME NEW w \in Workers, WorkerStep(w),
             ~(Claim(w) \/ Send(w) \/ Store(w) \/ WriteReceipt(w) \/ Finish(w))
      PROVE  UNCHANGED <<executions, sends, objects, receipts>>
  BY <1>2
     DEF WorkerStep, StartCycle, AcquireLease, InsertConflicts, Standby,
         ContendFails, SelectDue, ReleaseLease, Authorize, CheckPolicy, Lookup,
         Reserve, Recover, Validate, Move, Log, FencePasses, FenceRefuses,
         ExecuteRaises, requestVars
<1>3. \A w \in Workers : Crash(w) \/ Restart(w) =>
        UNCHANGED <<executions, sends, objects, receipts>>
  BY DEF Crash, Restart, requestVars
<1>4. Expire \/ Tick \/ Govern \/ Api \/ UNCHANGED vars =>
        UNCHANGED <<executions, sends, objects, receipts>>
  BY DEF Expire, Tick, Govern, Api, ApiCheckCreate, ApiCheckResume,
         ApiCheckReserve, ApiCheck, ApiCreate, ApiResume, ApiReserve, Pause,
         vars, requestVars
<1>. QED
  BY <1>1, <1>2, <1>3, <1>4 DEF Next

\* When the lease outlasts the cycle, a request whose run was logged as failed
\* is over: whatever execute() left behind, its plan is past the slot, and every
\* worker works on the slot at which it finds the plan.
THEOREM FailedRunsStayOver ==
  ASSUME LeaseCoversCycle
  PROVE  Spec => FailedRunsAreOver
<1>. DEFINE Inv == CycleInv /\ FailuresArePast
<1>1. Inv /\ [Next]_vars => Inv'
  BY CycleInvStep, FailuresArePastStep
<1>2. Init => Inv
  BY CycleInvInit DEF Init, FailuresArePast, FailureFits, NoJob
<1>3. ASSUME Inv, [Next]_vars, NEW r \in runs, r.status = "failed"
      PROVE  Untouched(r.key)
  <2>1. Past(r.key)
    BY <1>3 DEF FailuresArePast
  <2>2. plans[r.key[1]].next # Slot(r.key)
    <3>1. plans[r.key[1]].next \in Nat /\ Slot(r.key) \in Nat
      BY <1>3, <2>1, KeyParts, AcquisitionConstants
         DEF Past, Slot, CycleInv, RequestInv, Types, StoresOK, Plan
    <3>. QED
      BY <2>1, <3>1 DEF Past
  <2>3. \A w \in Workers : pc[w] \in OpenSteps => job[w].key # r.key
    BY <1>3, <2>2 DEF CycleInv, PlansAreCurrent, SlotsFit
  <2>4. r.key \in Keys
    BY <2>1, PlanKeysAreKeys DEF Past
  <2>. QED
    BY <1>3, <2>3, <2>4, OthersLeaveLedgers DEF CycleInv, RequestInv
<1>4. Inv /\ [Next]_vars =>
        [\A r \in runs : r.status = "failed" => Untouched(r.key)]_vars
  BY <1>3
<1>. QED
  BY <1>1, <1>2, <1>4, PTL DEF Spec, FailedRunsAreOver, Untouched
----------------------------------------------------------------------------
(* The rate gate.                                                          *)

Reserved == {k \in Keys : reservations[k] # NoReservation}

\* With one worker the reservations of its cycles are in the order of time.
RateFits ==
  /\ api.op # "reserve"
  /\ IsFiniteSet(Reserved)
  /\ \A k \in Reserved : reservations[k].at <= clock
  /\ \A w \in Workers :
       /\ job[w].now <= clock
       /\ pc[w] \notin {"idle", "down"} =>
            \A k \in Reserved : reservations[k].at <= job[w].now
  /\ \A s \in Sources, now \in Nat : Cardinality(InWindow(s, now)) <= RatePerWindow

\* How the time of a cycle, the clock and the API request change.
LEMMA TimeMoves ==
  ASSUME Types, [Next]_vars, ApiKeys = {}
  PROVE  /\ clock <= clock'
         /\ api'.op = "reserve" => api.op = "reserve"
         /\ \A w \in Workers :
              \/ pc'[w] = "acquire" /\ job'[w].now = clock /\ reservations' = reservations
              \/ pc'[w] \in {"idle", "down"} /\ job'[w].now \in {0, job[w].now}
              \/ pc[w] \notin {"idle", "down"} /\ job'[w].now = job[w].now
<1>0. /\ pc \in [Workers -> Steps] /\ job \in [Workers -> Job] /\ clock \in Nat
  BY DEF Types, CyclesOK, StoresOK
<1>1. clock <= clock' /\ (api'.op = "reserve" => api.op = "reserve")
  <2>1. ASSUME NEW w \in Workers, WorkerStep(w) \/ Crash(w) \/ Restart(w)
        PROVE  clock' = clock /\ api' = api
    BY <2>1
       DEF WorkerStep, StartCycle, AcquireLease, InsertConflicts, Standby,
           ContendFails, SelectDue, ReleaseLease, Authorize, CheckPolicy,
           Lookup, Reserve, Recover, Validate, Claim, Send, Store, WriteReceipt,
           Finish, Move, Log, FencePasses, FenceRefuses, ExecuteRaises, Crash,
           Restart, environmentVars
  <2>2. Expire \/ Govern \/ UNCHANGED vars => clock' = clock /\ api' = api
    BY DEF Expire, Govern, vars, environmentVars
  <2>3. Tick => clock <= clock' /\ api' = api
    BY <1>0 DEF Tick
  <2>4. ASSUME Api
        PROVE  clock' = clock /\ (api'.op = "reserve" => api.op = "reserve")
    <3>1. CASE \E p \in Plans : ApiCheckCreate(p) \/ ApiCheckResume(p)
      <4>1. PICK op \in {"create", "resume"}, k \in Plans \X {0} : ApiCheck(op, k)
        BY <3>1 DEF ApiCheckCreate, ApiCheckResume
      <4>2. api'.op = op
        BY <4>1 DEF ApiCheck
      <4>. QED
        BY <4>1, <4>2 DEF ApiCheck
    <3>2. CASE \E p \in Plans : Pause(p)
      BY <3>2 DEF Pause, environmentVars
    <3>3. CASE ApiCreate \/ ApiResume \/ ApiReserve
      BY <3>3 DEF ApiCreate, ApiResume, ApiReserve, ApiWrite, NoRequest
    <3>. QED
      BY <2>4, <3>1, <3>2, <3>3 DEF Api
  <2>. QED
    BY <1>0, <2>1, <2>2, <2>3, <2>4 DEF Next
<1>2. ASSUME NEW w \in Workers, WorkerStep(w) \/ Crash(w) \/ Restart(w)
      PROVE  \/ pc'[w] = "acquire" /\ job'[w].now = clock /\ reservations' = reservations
             \/ pc'[w] \in {"idle", "down"} /\ job'[w].now \in {0, job[w].now}
             \/ pc[w] \notin {"idle", "down"} /\ job'[w].now = job[w].now
  <2>. USE DEF Goto, Enter, Decide, Conclude, NextPlan, Job
  <2>0. job[w] \in Job
    BY <1>0
  <2>1. CASE StartCycle(w)
    BY <1>0, <2>1 DEF StartCycle, NoJob, requestVars
  <2>2. CASE \/ Standby(w) \/ ContendFails(w) \/ ReleaseLease(w) \/ Crash(w)
             \/ Restart(w)
    BY <1>0, <2>2 DEF Standby, ContendFails, ReleaseLease, Crash, Restart, NoJob
  <2>3. CASE \/ AcquireLease(w) \/ InsertConflicts(w) \/ SelectDue(w)
             \/ Lookup(w) \/ Move(w) \/ FencePasses(w)
    BY <1>0, <2>0, <2>3
       DEF AcquireLease, InsertConflicts, SelectDue, Lookup, Move, FencePasses,
           GuardedSteps
  <2>4. CASE Authorize(w)
    BY <1>0, <2>0, <2>4 DEF Authorize
  <2>5. CASE CheckPolicy(w) \/ Recover(w) \/ Validate(w) \/ Claim(w) \/ Finish(w)
             \/ FenceRefuses(w) \/ ExecuteRaises(w)
    BY <1>0, <2>0, <2>5
       DEF CheckPolicy, Recover, Validate, Claim, Finish, FenceRefuses,
           ExecuteRaises, GuardedSteps
  <2>6. CASE Send(w) \/ Store(w) \/ WriteReceipt(w)
    BY <1>0, <2>0, <2>6 DEF Send, Store, WriteReceipt
  <2>7. CASE Reserve(w)
    BY <1>0, <2>0, <2>7 DEF Reserve
  <2>8. CASE Log(w)
    BY <1>0, <2>0, <2>8 DEF Log, NoJob
  <2>. QED
    BY <1>2, <2>1, <2>2, <2>3, <2>4, <2>5, <2>6, <2>7, <2>8 DEF WorkerStep
<1>3. \A w \in Workers : pc'[w] = pc[w] /\ job'[w] = job[w] =>
        \/ pc'[w] \in {"idle", "down"} /\ job'[w].now \in {0, job[w].now}
        \/ pc[w] \notin {"idle", "down"} /\ job'[w].now = job[w].now
  OBVIOUS
<1>. QED
  BY <1>1, <1>2, <1>3, WorkerBatches, OthersLeaveWorkers DEF Next

\* A request is let in by a gate that has seen every reservation before it.
LEMMA Booked ==
  ASSUME Types, RateFits, NEW k \in Keys, NEW version \in Nat, NEW now \in Nat,
         reservations[k] = NoReservation, InsertReservation(k, version, now),
         \A j \in Reserved : reservations[j].at <= now,
         ~RateLimited(Source(k), now)
  PROVE  /\ IsFiniteSet(Reserved')
         /\ Reserved' \subseteq Reserved \cup {k}
         /\ \A s \in Sources, m \in Nat :
              Cardinality(InWindow(s, m)') <= RatePerWindow
<1>0. /\ reservations \in [Keys -> Reservation]
      /\ Window \in Nat /\ RatePerWindow \in Nat
  BY AcquisitionConstants DEF Types, StoresOK
<1>1. /\ reservations'[k] = [version |-> version, at |-> now]
      /\ \A j \in Keys \ {k} : reservations'[j] = reservations[j]
  BY <1>0 DEF InsertReservation
<1>2. Reserved' \subseteq Reserved \cup {k} /\ IsFiniteSet(Reserved')
  <2>1. Reserved' \in SUBSET (Reserved \cup {k})
    BY <1>1 DEF Reserved
  <2>2. IsFiniteSet(Reserved \cup {k})
    BY FS_AddElement DEF RateFits
  <2>. QED
    BY <2>1, <2>2, FS_Subset
<1>3. \A s \in Sources, m \in Nat :
        InWindow(s, m) \subseteq Reserved /\ IsFiniteSet(InWindow(s, m))
  <2>. SUFFICES ASSUME NEW s \in Sources, NEW m \in Nat
                PROVE  InWindow(s, m) \in SUBSET Reserved /\ IsFiniteSet(InWindow(s, m))
    OBVIOUS
  <2>1. InWindow(s, m) \in SUBSET Reserved
    BY DEF InWindow, Reserved
  <2>. QED
    BY <2>1, FS_Subset DEF RateFits
<1>4. ASSUME NEW s \in Sources, NEW m \in Nat
      PROVE  Cardinality(InWindow(s, m)') <= RatePerWindow
  <2>1. CASE s # Source(k) \/ m < now
    <3>1. InWindow(s, m)' \in SUBSET InWindow(s, m)
      BY <1>0, <1>1, <2>1 DEF InWindow, Source
    <3>2. /\ Cardinality(InWindow(s, m)') <= Cardinality(InWindow(s, m))
          /\ Cardinality(InWindow(s, m)') \in Nat
          /\ Cardinality(InWindow(s, m)) \in Nat
      BY <1>3, <1>4, <3>1, FS_Subset, FS_CardinalityType
    <3>3. Cardinality(InWindow(s, m)) <= RatePerWindow
      BY <1>4 DEF RateFits
    <3>. QED
      BY <1>0, <3>2, <3>3
  <2>2. CASE s = Source(k) /\ now <= m
    <3>. DEFINE seen == InWindow(s, now)
    <3>1. InWindow(s, m)' \in SUBSET (seen \cup {k})
      <4>1. SUFFICES ASSUME NEW j \in InWindow(s, m)', j # k PROVE j \in seen
        OBVIOUS
      <4>2. /\ j \in Keys /\ reservations[j] # NoReservation /\ Source(j) = s
            /\ reservations[j].at + Window > m
        BY <1>1, <4>1 DEF InWindow, Source
      <4>3. reservations[j].at <= now /\ reservations[j].at \in Nat
        BY <1>0, <4>2 DEF Reserved, Reservation
      <4>. QED
        BY <1>0, <1>4, <2>2, <4>2, <4>3 DEF InWindow
    <3>2. IsFiniteSet(seen) /\ Cardinality(seen) \in Nat
      BY <1>3, <1>4, FS_CardinalityType
    <3>3. Cardinality(seen) + 1 <= RatePerWindow
      <4>1. ~(Cardinality(seen) >= RatePerWindow)
        BY <2>2 DEF RateLimited
      <4>. HIDE DEF seen
      <4>. QED
        BY <1>0, <3>2, <4>1
    <3>. HIDE DEF seen
    <3>4. /\ IsFiniteSet(seen \cup {k})
          /\ Cardinality(seen \cup {k}) \in Nat
          /\ Cardinality(seen \cup {k}) <= Cardinality(seen) + 1
      <4>1. /\ IsFiniteSet(seen \cup {k})
            /\ Cardinality(seen \cup {k}) =
                 IF k \in seen THEN Cardinality(seen) ELSE Cardinality(seen) + 1
        BY <3>2, FS_AddElement
      <4>. QED
        BY <3>2, <4>1
    <3>5. /\ Cardinality(InWindow(s, m)') <= Cardinality(seen \cup {k})
          /\ Cardinality(InWindow(s, m)') \in Nat
      BY <3>1, <3>4, FS_Subset, FS_CardinalityType
    <3>. QED
      BY <1>0, <3>2, <3>3, <3>4, <3>5
  <2>. QED
    BY <1>4, <2>1, <2>2
<1>. QED
  BY <1>2, <1>4

LEMMA RateFitsStep ==
  ASSUME \A v, w \in Workers : v = w, ApiKeys = {},
         RequestInv, RateFits, [Next]_vars
  PROVE  RateFits'
<1>. DEFINE Bounded == \A s \in Sources, m \in Nat :
                         Cardinality(InWindow(s, m)') <= RatePerWindow
<1>0. /\ pc \in [Workers -> Steps] /\ job \in [Workers -> Job] /\ clock \in Nat
      /\ plans \in [Plans -> Plan] /\ reservations \in [Keys -> Reservation]
  BY DEF RequestInv, Types, CyclesOK, StoresOK
<1>1. \/ reservations' = reservations
      \/ \E w \in Workers :
           /\ pc[w] = "reserve" /\ job[w].key \in Keys
           /\ reservations[job[w].key] = NoReservation
           /\ ~RateLimited(Source(job[w].key), job[w].now)
           /\ InsertReservation(job[w].key, PlanVersion(job[w].key), job[w].now)
  <2>1. ASSUME NEW w \in Workers, Reserve(w), reservations' # reservations
        PROVE  /\ pc[w] = "reserve" /\ job[w].key \in Keys
               /\ reservations[job[w].key] = NoReservation
               /\ ~RateLimited(Source(job[w].key), job[w].now)
               /\ InsertReservation(job[w].key, PlanVersion(job[w].key), job[w].now)
    BY <2>1, PlanKeysAreKeys
       DEF Reserve, Enter, RequestInv, Types, CyclesOK, JobFits, PlanSteps
  <2>2. ~ApiReserve
    BY DEF ApiReserve, ApiWrite, RateFits
  <2>. QED
    BY <2>1, <2>2, ReservationMoves
<1>2. /\ IsFiniteSet(Reserved') /\ Bounded
      /\ \/ reservations' = reservations
         \/ \E w \in Workers, k \in Keys :
              /\ pc[w] = "reserve"
              /\ reservations'[k].at = job[w].now
              /\ \A j \in Reserved' \ {k} :
                   j \in Reserved /\ reservations'[j].at = reservations[j].at
  <2>1. CASE reservations' = reservations
    <3>1. Reserved' = Reserved /\ \A s, m : InWindow(s, m)' = InWindow(s, m)
      BY <2>1 DEF Reserved, InWindow, Source
    <3>. QED
      BY <2>1, <3>1 DEF RateFits
  <2>2. ASSUME NEW w \in Workers, pc[w] = "reserve", NEW k \in Keys,
               k = job[w].key, reservations[k] = NoReservation,
               ~RateLimited(Source(k), job[w].now),
               InsertReservation(k, PlanVersion(k), job[w].now)
        PROVE  /\ IsFiniteSet(Reserved') /\ Bounded
               /\ reservations'[k].at = job[w].now
               /\ \A j \in Reserved' \ {k} :
                    j \in Reserved /\ reservations'[j].at = reservations[j].at
    <3>1. job[w].now \in Nat /\ PlanVersion(k) \in Nat
      <4>1. k \in PlanKeys
        BY <2>2 DEF RequestInv, Types, CyclesOK, JobFits, PlanSteps
      <4>. QED
        BY <1>0, <4>1, KeyParts DEF PlanVersion, Plan, Job
    <3>2. \A j \in Reserved : reservations[j].at <= job[w].now
      BY <2>2 DEF RateFits
    <3>3. /\ IsFiniteSet(Reserved') /\ Bounded
          /\ Reserved' \subseteq Reserved \cup {k}
      BY <2>2, <3>1, <3>2, Booked DEF RequestInv
    <3>4. /\ reservations'[k].at = job[w].now
          /\ \A j \in Keys \ {k} : reservations'[j] = reservations[j]
      BY <1>0, <2>2 DEF InsertReservation
    <3>. QED
      BY <3>3, <3>4 DEF Reserved
  <2>. QED
    BY <1>1, <2>1, <2>2
<1>3. \A w \in Workers : job[w].now \in Nat
  BY <1>0 DEF Job
<1>4. \A k \in Reserved' : reservations'[k].at \in Nat
  BY <1>0, <1>2, <1>3 DEF Reserved, Reservation
<1>5. clock' \in Nat /\ clock <= clock'
  BY TypesStep, TimeMoves DEF RequestInv, Types, StoresOK
<1>6. \A w \in Workers :
        \/ pc'[w] = "acquire" /\ job'[w].now = clock /\ reservations' = reservations
        \/ pc'[w] \in {"idle", "down"} /\ job'[w].now \in {0, job[w].now}
        \/ pc[w] \notin {"idle", "down"} /\ job'[w].now = job[w].now
  BY TimeMoves DEF RequestInv
<1>7. api'.op # "reserve"
  BY TimeMoves DEF RequestInv, RateFits
<1>8. \A w \in Workers : job'[w].now <= clock'
  BY <1>0, <1>3, <1>5, <1>6 DEF RateFits
<1>9. CASE reservations' = reservations
  <2>1. Reserved' = Reserved
    BY <1>9 DEF Reserved
  <2>2. \A k \in Reserved : reservations[k].at <= clock /\ reservations[k].at \in Nat
    BY <1>0 DEF RateFits, Reserved, Reservation
  <2>3. \A k \in Reserved' : reservations'[k].at <= clock'
    BY <1>0, <1>5, <1>9, <2>1, <2>2
  <2>4. \A w \in Workers : pc'[w] \notin {"idle", "down"} =>
          \A k \in Reserved' : reservations'[k].at <= job'[w].now
    BY <1>6, <1>9, <2>1, <2>2 DEF RateFits
  <2>. QED
    BY <1>2, <1>7, <1>8, <2>3, <2>4 DEF RateFits
<1>10. ASSUME NEW w \in Workers, NEW k \in Keys, pc[w] = "reserve",
              reservations' # reservations,
              reservations'[k].at = job[w].now,
              \A j \in Reserved' \ {k} :
                j \in Reserved /\ reservations'[j].at = reservations[j].at
       PROVE  RateFits'
  <2>1. \A j \in Reserved' : reservations'[j].at <= job[w].now
    BY <1>3, <1>10 DEF RateFits
  <2>2. \A j \in Reserved' : reservations'[j].at \in Nat
    BY <1>0, <1>3, <1>10 DEF Reserved, Reservation
  <2>3. \A j \in Reserved' : reservations'[j].at <= clock'
    BY <1>0, <1>3, <1>5, <2>1, <2>2 DEF RateFits
  <2>4. \A v \in Workers : pc'[v] \notin {"idle", "down"} =>
          \A j \in Reserved' : reservations'[j].at <= job'[v].now
    BY <1>6, <1>10, <2>1
  <2>. QED
    BY <1>2, <1>7, <1>8, <2>3, <2>4 DEF RateFits
<1>. QED
  BY <1>2, <1>9, <1>10

LEMMA RateFitsInit == Init => RateFits
<1>. SUFFICES ASSUME Init PROVE RateFits
  OBVIOUS
<1>1. Reserved = {} /\ \A s, now : InWindow(s, now) = {}
  BY DEF Init, Reserved, InWindow
<1>2. IsFiniteSet({}) /\ Cardinality({}) = 0 /\ RatePerWindow \in Nat
  BY FS_EmptySet, AcquisitionConstants
<1>3. Init => api.op = "none" /\ clock = 0 /\ \A w \in Workers : job[w].now = 0
  BY DEF Init, NoRequest, NoJob
<1>. QED
  BY <1>1, <1>2, <1>3 DEF RateFits

\* One worker that reserves for itself keeps the rate, whatever the clock does
\* in the middle of its cycles.  It needs the hypotheses: a second worker, or
\* the reservation endpoint, brings its own, older, idea of the time (see
\* acq_rate_race).
THEOREM RateStaysWithinWindow ==
  ASSUME \A v, w \in Workers : v = w, ApiKeys = {}
  PROVE  Spec => []RateWindow
<1>. DEFINE Inv == RequestInv /\ RateFits
<1>1. Inv /\ [Next]_vars => Inv'
  BY RequestInvStep, RateFitsStep
<1>2. Init => Inv
  BY RequestInvInit, RateFitsInit
<1>3. Inv => RateWindow
  <2>1. 0..MaxTime \subseteq Nat
    BY AcquisitionConstants
  <2>. QED
    BY <2>1 DEF RateFits, RateWindow
<1>. QED
  BY <1>1, <1>2, <1>3, PTL DEF Spec
----------------------------------------------------------------------------
(* Withdrawn authority.  Two checks stand before a request, the approval's *)
(* (Authorize) and the policy's (CheckPolicy), and each may fail while the *)
(* other would pass.  What carries over from the first to the second is    *)
(* that a superseded or disapproved snapshot never becomes current again.  *)

\* Steps that a plan's request reaches once both checks have been passed.
VettedSteps == {"lookup", "reserve", "recover", "validate", "claim", "send"}

Current(k) == IsCurrentApproved(Source(k), PlanVersion(k))

\* w has not got past the checks for k; between them, it will fail the second.
Barred(w, k) ==
  job[w].key = k =>
    /\ pc[w] \notin VettedSteps
    /\ pc[w] = "policy" => ~Current(k)

LEMMA WithdrawnStays ==
  ASSUME Types, Types', PlansAreGrounded, [Next]_vars, NEW k \in PlanKeys,
         PlanVersion(k) # 0, ~Current(k)
  PROVE  ~Current(k)'
<1>. DEFINE s == Source(k)
            v == PlanVersion(k)
<1>1. v' = v /\ s' = s
  BY PlanVersionStays DEF Source
<1>2. s \in Sources
  BY KeyParts, PlanKeysAreKeys
<1>3. Grounded(s, v)
  BY KeyParts DEF PlansAreGrounded, Source, PlanVersion
<1>4. v \in 1..LatestVersion(s)
  BY <1>3 DEF Grounded
<1>5. LatestVersion(s) \in Nat /\ LatestVersion(s)' \in Nat
  BY <1>2 DEF Types, StoresOK, GovernanceTypeOK, LatestVersion
<1>6. LatestVersion(s) <= LatestVersion(s)' /\ policies'[s][v] = policies[s][v]
  BY <1>2, <1>4, LedgersGrow
<1>. HIDE DEF s, v
<1>7. IsCurrentApproved(s, v)' => IsCurrentApproved(s, v)
  BY <1>1, <1>4, <1>5, <1>6 DEF IsCurrentApproved, LatestVersion
<1>. QED
  BY <1>7 DEF Current, s, v

\* How a worker gets past a check.
LEMMA ChecksComeFirst ==
  ASSUME RequestInv, NEW w \in Workers, WorkerStep(w),
         pc'[w] \in VettedSteps \cup {"policy"}
  PROVE  \/ job'[w].key = job[w].key /\ pc[w] \in VettedSteps
         \/ /\ job'[w].key = job[w].key /\ pc[w] = "policy"
            /\ Current(job[w].key) /\ pc'[w] # "policy"
         \/ pc'[w] = "policy" /\ ~ApprovalMissing(job'[w].key)
<1>0. pc \in [Workers -> Steps] /\ job \in [Workers -> Job]
  BY DEF RequestInv, Types, CyclesOK
<1>1. CASE Authorize(w)
  <2>1. PICK k \in job[w].batch :
          IF ApprovalMissing(k)
            THEN Goto(w, "move")
            ELSE job' = [job EXCEPT ![w].batch = @ \ {k}, ![w].key = k]
    BY <1>1 DEF Authorize
  <2>2. pc'[w] = "policy"
    BY <1>0, <1>1 DEF Authorize, Goto, VettedSteps
  <2>3. ~ApprovalMissing(k)
    BY <1>0, <2>1, <2>2 DEF Goto
  <2>4. job'[w].key = k
    BY <1>0, <2>1, <2>3 DEF Job
  <2>. QED
    BY <2>2, <2>3, <2>4
<1>2. CASE CheckPolicy(w)
  BY <1>0, <1>2 DEF CheckPolicy, Decide, Goto, VettedSteps, Current
<1>3. CASE ~Authorize(w) /\ ~CheckPolicy(w)
  <2>1. CASE \/ StartCycle(w) \/ AcquireLease(w) \/ InsertConflicts(w)
             \/ Standby(w) \/ ContendFails(w) \/ SelectDue(w) \/ ReleaseLease(w)
             \/ Store(w) \/ WriteReceipt(w) \/ Finish(w) \/ Move(w) \/ Log(w)
    BY <1>0, <2>1
       DEF StartCycle, AcquireLease, InsertConflicts, Standby, ContendFails,
           SelectDue, ReleaseLease, Store, Conclude, WriteReceipt, Finish, Move,
           Log, Goto, Decide, NextPlan, VettedSteps
  <2>2. CASE Lookup(w) \/ Reserve(w) \/ Recover(w)
    BY <1>0, <2>2 DEF Lookup, Reserve, Recover, Enter, Goto, Decide, VettedSteps
  <2>3. CASE Validate(w) \/ Claim(w) \/ Send(w)
    BY <1>0, <2>3
       DEF Validate, Claim, Send, Conclude, Enter, Goto, Decide, VettedSteps
  <2>4. CASE FencePasses(w) \/ FenceRefuses(w) \/ ExecuteRaises(w)
    BY <1>0, <2>4
       DEF FencePasses, FenceRefuses, ExecuteRaises, Goto, Decide, VettedSteps,
           GuardedSteps
  <2>. QED
    BY <1>3, <2>1, <2>2, <2>3, <2>4 DEF WorkerStep
<1>. QED
  BY <1>1, <1>2, <1>3

LEMMA WorkersLeavePolicies ==
  ASSUME NEW w \in Workers, WorkerStep(w)
  PROVE  UNCHANGED policies /\ (Move(w) \/ UNCHANGED plans)
<1>. USE DEF environmentVars, governanceVars
<1>1. CASE \/ StartCycle(w) \/ AcquireLease(w) \/ InsertConflicts(w) \/ Standby(w)
           \/ ContendFails(w) \/ SelectDue(w) \/ ReleaseLease(w)
  BY <1>1 DEF StartCycle, AcquireLease, InsertConflicts, Standby, ContendFails,
              SelectDue, ReleaseLease
<1>2. CASE \/ Authorize(w) \/ CheckPolicy(w) \/ Lookup(w) \/ Reserve(w)
           \/ Recover(w) \/ Validate(w)
  <2>1. CASE Authorize(w)
    BY <2>1 DEF Authorize
  <2>2. CASE CheckPolicy(w) \/ Lookup(w)
    BY <2>2 DEF CheckPolicy, Lookup
  <2>3. CASE Reserve(w) \/ Recover(w) \/ Validate(w)
    BY <2>3 DEF Reserve, Recover, Validate
  <2>. QED
    BY <1>2, <2>1, <2>2, <2>3
<1>3. CASE Claim(w) \/ Send(w) \/ Store(w) \/ WriteReceipt(w) \/ Finish(w)
  BY <1>3 DEF Claim, Send, Store, WriteReceipt, Finish
<1>4. CASE \/ Move(w) \/ Log(w) \/ FencePasses(w) \/ FenceRefuses(w)
           \/ ExecuteRaises(w)
  BY <1>4 DEF Move, Log, FencePasses, FenceRefuses, ExecuteRaises
<1>. QED
  BY <1>1, <1>2, <1>3, <1>4 DEF WorkerStep

\* As long as k may not be sent, nobody who is not past the checks gets there.
LEMMA BarredStep ==
  ASSUME ReceiptInv, ReceiptInv', [Next]_vars, NEW w \in Workers,
         NEW k \in PlanKeys, ~Allowed(k), Barred(w, k)
  PROVE  Barred(w, k)'
<1>. SUFFICES ASSUME job'[w].key = k, pc'[w] \in VettedSteps \cup {"policy"}
              PROVE  pc'[w] = "policy" /\ ~Current(k)'
  BY DEF Barred, VettedSteps
<1>1. pc[w] = "policy" /\ job[w].key = k => PlanVersion(k) # 0
  BY DEF ReceiptInv, RequestInv, PlansKnown, KnownPlan, PlanSteps
<1>2. CASE pc'[w] = pc[w] /\ job'[w] = job[w]
  <2>1. pc'[w] = "policy" /\ ~Current(k)
    BY <1>2 DEF Barred
  <2>. QED
    BY <1>1, <1>2, <2>1, WithdrawnStays DEF ReceiptInv, RequestInv
<1>3. CASE WorkerStep(w)
  <2>1. pc'[w] = "policy" /\ ~ApprovalMissing(k)
    BY <1>3, ChecksComeFirst DEF Barred, ReceiptInv
  <2>2. ~Current(k)
    BY <2>1 DEF ApprovalMissing, Current, Allowed
  <2>3. PlanVersion(k)' # 0
    BY <2>1 DEF ReceiptInv, RequestInv, PlansKnown, KnownPlan, PlanSteps
  <2>4. UNCHANGED <<plans, policies>>
    <3>1. ~Move(w)
      <4>1. pc \in [Workers -> Steps]
        BY DEF ReceiptInv, RequestInv, Types, CyclesOK
      <4>. QED
        BY <2>1, <4>1 DEF Move, Goto
    <3>. QED
      BY <1>3, <3>1, WorkersLeavePolicies
  <2>. QED
    BY <2>1, <2>2, <2>3, <2>4
       DEF Current, IsCurrentApproved, LatestVersion, PlanVersion, Source
<1>4. ~Crash(w) /\ ~Restart(w)
  <2>1. pc \in [Workers -> Steps]
    BY DEF ReceiptInv, RequestInv, Types, CyclesOK
  <2>. QED
    BY <2>1 DEF Crash, Restart, Goto, VettedSteps
<1>. QED
  BY <1>2, <1>3, <1>4, WorkerBatches, OthersLeaveWorkers
     DEF Next, ReceiptInv, RequestInv

\* Whatever a worker has read before: a cycle that begins after a source's
\* snapshot was superseded, or its approval withdrawn, for good sends nothing
\* under it.
THEOREM WithdrawnStopsSending == Spec => WithdrawnAuthorityStopsSending
<1>. SUFFICES ASSUME NEW w \in Workers, NEW k \in Plans \X (0..MaxTime)
              PROVE  Spec => [](pc[w] = "idle" /\ plans[k[1]] # NoPlan /\ []~Allowed(k)
                                  => []~(pc[w] = "send" /\ job[w].key = k))
  BY DEF WithdrawnAuthorityStopsSending
<1>0. k \in PlanKeys
  BY DEF PlanKeys
<1>1. ReceiptInv /\ [Next]_vars => ReceiptInv'
  BY ReceiptInvStep
<1>2. ReceiptInv /\ ReceiptInv' /\ [Next]_vars /\ ~Allowed(k) /\ Barred(w, k) => Barred(w, k)'
  BY <1>0, BarredStep
<1>3. pc[w] = "idle" => Barred(w, k)
  BY DEF Barred, VettedSteps
<1>4. Barred(w, k) => ~(pc[w] = "send" /\ job[w].key = k)
  BY DEF Barred, VettedSteps
<1>. QED
  BY <1>1, <1>2, <1>3, <1>4, ReceiptInvInit, PTL DEF Spec
============================================================================
