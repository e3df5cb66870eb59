--------------------------- MODULE OneShotRequest ---------------------------
(***************************************************************************)
(* What the ledgers of acquisition promise of one request to a public      *)
(* source: it is reserved, consumed and sent at most once; its bytes are   *)
(* stored before a receipt speaks of them; it is completed only with that  *)
(* receipt; and its outcome is final.                                      *)
(***************************************************************************)
EXTENDS Naturals

CONSTANT Requests

VARIABLES
  phase,    \* how far each request has come
  sent,     \* how often it was sent
  stored,   \* requests whose bytes are kept
  receipted \* how many receipts it has

vars == <<phase, sent, stored, receipted>>

Init ==
  /\ phase = [r \in Requests |-> "open"]
  /\ sent = [r \in Requests |-> 0]
  /\ stored = {}
  /\ receipted = [r \in Requests |-> 0]

Advance(r, from, to) ==
  /\ phase[r] = from
  /\ phase' = [phase EXCEPT ![r] = to]
  /\ UNCHANGED <<sent, stored, receipted>>

Reserve(r) == Advance(r, "open", "reserved")

Consume(r) == Advance(r, "reserved", "claimed")

Transmit(r) ==
  /\ phase[r] = "claimed"
  /\ sent[r] = 0
  /\ sent' = [sent EXCEPT ![r] = 1]
  /\ UNCHANGED <<phase, stored, receipted>>

Keep(r) ==
  /\ phase[r] = "claimed"
  /\ sent[r] = 1
  /\ r \notin stored
  /\ stored' = stored \cup {r}
  /\ UNCHANGED <<phase, sent, receipted>>

Certify(r) ==
  /\ phase[r] = "claimed"
  /\ r \in stored
  /\ receipted[r] = 0
  /\ receipted' = [receipted EXCEPT ![r] = 1]
  /\ UNCHANGED <<phase, sent, stored>>

Complete(r) == receipted[r] = 1 /\ Advance(r, "claimed", "completed")

\* A request that was sent may fail before its bytes are kept, or after it but
\* without a receipt.
Fail(r) ==
  /\ sent[r] = 1
  /\ receipted[r] = 0
  /\ \/ r \notin stored /\ Advance(r, "claimed", "transport_error")
     \/ Advance(r, "claimed", "capture_error")

Next == \E r \in Requests :
  Reserve(r) \/ Consume(r) \/ Transmit(r) \/ Keep(r) \/ Certify(r)
    \/ Complete(r) \/ Fail(r)

Spec == Init /\ [][Next]_vars
============================================================================
