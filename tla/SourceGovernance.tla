-------------------------- MODULE SourceGovernance --------------------------
(***************************************************************************)
(* The two append-only ledgers that govern acquisition, per source: policy *)
(* snapshots (SourcePolicyStore) and signed approval events                *)
(* (EnrolledSourceApprovalStore, whose trust is resolved against the       *)
(* approver keys of AuthStore).  A snapshot is identified by its version,  *)
(* which determines its hash; every append is one transaction that reads   *)
(* the chain head and extends it, so an append is one step.                *)
(***************************************************************************)
EXTENDS Naturals, Sequences

CONSTANTS
  Sources,      \* source identifiers
  Approvers,    \* approver public keys, each bound to one reviewer
  MaxVersions,  \* bound on the policy snapshots of a source
  MaxEvents     \* bound on the approval events of a source

ASSUME GovernanceConstants ==
  /\ MaxVersions \in Nat
  /\ MaxEvents \in Nat

VARIABLES
  policies,   \* [Sources -> Seq of access statuses], version = position
  approvals,  \* [Sources -> Seq of approval events]
  keyState    \* [Approvers -> {"new", "active", "revoked"}]

governanceVars == <<policies, approvals, keyState>>

AccessStatus == {"approved", "review_required", "prohibited"}
Decision     == {"approve", "revoke"}
ApprovalEvent ==
  [version : Nat \ {0}, decision : Decision, signer : Approvers]

GovernanceTypeOK ==
  /\ policies \in [Sources -> Seq(AccessStatus)]
  /\ approvals \in [Sources -> Seq(ApprovalEvent)]
  /\ keyState \in [Approvers -> {"new", "active", "revoked"}]

GovernanceInit ==
  /\ policies = [s \in Sources |-> <<>>]
  /\ approvals = [s \in Sources |-> <<>>]
  /\ keyState = [a \in Approvers |-> "new"]

----------------------------------------------------------------------------
\* Version of the latest snapshot, 0 when the source has none.
LatestVersion(s) == Len(policies[s])

\* The snapshot `version' is the latest one of s, and it is approved.
IsCurrentApproved(s, version) ==
  /\ version # 0
  /\ version = LatestVersion(s)
  /\ policies[s][version] = "approved"

\* Event i is the latest approval event about snapshot `version'.
IsLatestEvent(s, version, i) ==
  /\ approvals[s][i].version = version
  /\ \A j \in DOMAIN approvals[s] : j > i => approvals[s][j].version # version

\* authorization(snapshot).authorized: its latest event approves it and was
\* signed with a key that is still active.
Authorized(s, version) ==
  /\ policies[s][version] = "approved"
  /\ \E i \in DOMAIN approvals[s] :
        /\ IsLatestEvent(s, version, i)
        /\ approvals[s][i].decision = "approve"
        /\ keyState[approvals[s][i].signer] = "active"

----------------------------------------------------------------------------
AppendPolicy(s, status) ==
  /\ LatestVersion(s) < MaxVersions
  /\ policies' = [policies EXCEPT ![s] = Append(@, status)]
  /\ UNCHANGED <<approvals, keyState>>

\* append(event): active signer, an approved bound snapshot, an event that
\* extends the chain head, and a revocation only of an approved snapshot.
AppendApproval(s, version, decision, signer) ==
  /\ Len(approvals[s]) < MaxEvents
  /\ keyState[signer] = "active"
  /\ version \in 1..LatestVersion(s)
  /\ policies[s][version] = "approved"
  /\ decision = "revoke" =>
       \E i \in DOMAIN approvals[s] :
          IsLatestEvent(s, version, i) /\ approvals[s][i].decision = "approve"
  /\ approvals' = [approvals EXCEPT ![s] =
       Append(@, [version |-> version, decision |-> decision, signer |-> signer])]
  /\ UNCHANGED <<policies, keyState>>

\* A public key is enrolled once (UNIQUE) and, once revoked, stays revoked.
EnrollKey(a) ==
  /\ keyState[a] = "new"
  /\ keyState' = [keyState EXCEPT ![a] = "active"]
  /\ UNCHANGED <<policies, approvals>>

RevokeKey(a) ==
  /\ keyState[a] = "active"
  /\ keyState' = [keyState EXCEPT ![a] = "revoked"]
  /\ UNCHANGED <<policies, approvals>>
============================================================================
