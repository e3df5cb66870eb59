---------------------------- MODULE ObjectStorage ----------------------------
(***************************************************************************)
(* Immutable objects on replicated backends: directories that link a new   *)
(* file into place, or S3 buckets under Object Lock with a conditional     *)
(* PUT.  Both put an object only where there is none; putting the same     *)
(* bytes again succeeds, putting other bytes is a conflict.  A backend may *)
(* fail before or after it has stored an object, and its caller sees the   *)
(* same error; S3's retry after a 409 and its look at the object after a   *)
(* 412 end in one of these cases.  Retention does not run out here.        *)
(***************************************************************************)
EXTENDS Naturals, FiniteSets

CONSTANTS
  Replicas,
  MinimumReplicas,  \* how many must confirm a write, and answer a read
  NoObject

ASSUME ReplicaThreshold ==
  /\ IsFiniteSet(Replicas)
  /\ MinimumReplicas \in 1..Cardinality(Replicas)

VARIABLE objects    \* on each replica: a set of <<path, data>>

ObjectsInit == objects = [r \in Replicas |-> {}]

HeldAt(r, path) == {o[2] : o \in {q \in objects[r] : q[1] = path}}

\* The object is there with other bytes.
Conflicts(r, path, data) == HeldAt(r, path) \ {data} # {}

PutOver(r, path, data) ==  \* mutant of PutIfAbsent: no If-None-Match
  {o \in objects[r] : o[1] # path} \cup {<<path, data>>}
PutIfAbsent(r, path, data) ==
  IF HeldAt(r, path) = {} THEN objects[r] \cup {<<path, data>>}
  ELSE objects[r]

\* put_bytes on all replicas: `reached' of them store the object or find it,
\* `answered' of these say so.
Put(path, data, reached) ==
  objects' = [r \in Replicas |-> IF r \in reached THEN PutIfAbsent(r, path, data)
                                 ELSE objects[r]]
PutConfirmed(path, data, answered) ==
  Cardinality({r \in answered : ~Conflicts(r, path, data)}) >= MinimumReplicas

\* Whatever was answered, the object can be read when the write is over.
PutReadable(path, data, reached) ==
  LET holders == {r \in Replicas : r \in reached \/ HeldAt(r, path) # {}}
  IN  Cardinality({r \in holders : ~Conflicts(r, path, data)}) >= MinimumReplicas

\* read_bytes when every replica is up.
Read(path) ==
  LET holders == {r \in Replicas : HeldAt(r, path) # {}}
      values == UNION {HeldAt(r, path) : r \in holders}
  IN  IF Cardinality(holders) >= MinimumReplicas /\ Cardinality(values) = 1
      THEN CHOOSE v \in values : TRUE
      ELSE NoObject
=============================================================================
