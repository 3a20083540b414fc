------------------------------ MODULE Creation ------------------------------
(***************************************************************************)
(* create_simulation with an Idempotency-Key                               *)
(* (app/services/generation_service.py, app/api/authoring.py).  The key is *)
(* looked up among the jobs of the tenant, and simulation and job are      *)
(* committed later; jobs.idempotency_key is indexed, not unique            *)
(* (app/models/__init__.py:268-269).  created_at is the beginning of the   *)
(* transaction, which is the order of the calls.  A client may repeat a     *)
(* call whether or not the server is done with it.                         *)
(***************************************************************************)
EXTENDS Requests

CONSTANT Keys

VARIABLES sims,     \* simulations, each with its generation job
          create,   \* the calls' progress
          raced     \* the keys two calls were about to insert at once

creationVars == <<sims, create, raced>>

NoCreation == [at |-> "idle", tenant |-> {}, key |-> {}, answer |-> {}]

\* The server starts on the database of an earlier one.
CreationInit(earlier) ==
    /\ sims = earlier
    /\ create = [c \in Calls |-> NoCreation]
    /\ raced = {}

\* A mutant of WithKey: the lookup is not limited to the tenant.
WithKeyAnywhere(t, k) == {s \in sims : s.key = k}

\* The simulations of a tenant whose job has the key; without one, {}.
WithKey(t, k) == {s \in sims : s.tenant = t /\ s.key = k /\ k # {}}

\* A call that is about to insert a simulation with the key.
Creating(t, k) == \E c \in Calls : /\ create[c].at = "insert" /\ k # {}
                                   /\ create[c].tenant = {t} /\ create[c].key = k

Looked(c, t, k, stage, told) ==
    create' = [create EXCEPT ![c] = [at |-> stage, tenant |-> {t}, key |-> k, answer |-> told]]

\* The payload is valid (422 and 409 change nothing), and the key, a set of at
\* most one, is looked up.  The oldest simulation with it is the answer.
CheckKey(c, t, k) ==
    /\ create[c].at = "idle"
    /\ \/ /\ WithKey(t, k) = {}
          /\ Looked(c, t, k, "insert", {})
          /\ raced' = raced \union {x \in {<<{t}, k>>} : Creating(t, k)}
       \/ /\ \E s \in WithKey(t, k) :
                /\ \A x \in WithKey(t, k) : s.id <= x.id
                /\ Looked(c, t, k, "done", {s.id})
          /\ UNCHANGED raced
    /\ UNCHANGED sims

\* The simulation and its job, under the id of the call.
Inserted(c) == {[id |-> c, tenant |-> t, key |-> create[c].key] : t \in create[c].tenant}

CommitSim(c) ==
    /\ create[c].at = "insert"
    /\ sims' = sims \union Inserted(c)
    /\ create' = [create EXCEPT ![c].at = "done", ![c].answer = {c}]
    /\ UNCHANGED raced

\* The call ends early; its commit may have reached the database all the same.
CutCreation(c) ==
    /\ create[c].at = "insert"
    /\ sims' \in {sims, sims \union Inserted(c)}
    /\ create' = [create EXCEPT ![c].at = "failed"]
    /\ UNCHANGED raced

CutAllCreations ==
    /\ create' = [c \in Calls |-> IF create[c].at = "insert"
                                  THEN [create[c] EXCEPT !.at = "failed"] ELSE create[c]]
    /\ UNCHANGED <<sims, raced>>

-----------------------------------------------------------------------------
\* Calls that repeat a key get the same answer, one that was lost included,
\* and whatever they are told is a simulation of the tenant with that key
\* (generation_service.py:50-51); they differ only if, some time, two calls
\* were about to insert the key at once.  Two tenants may use the same key.
RepeatsAgree ==
    /\ \A c, d \in Calls :
          /\ create[c].tenant = create[d].tenant /\ create[c].key = create[d].key
          /\ create[c].key # {} /\ create[c].at = "done" /\ create[d].at = "done"
          /\ <<create[c].tenant, create[c].key>> \notin raced
          => create[c].answer = create[d].answer
    /\ \A c \in Calls : \A s \in create[c].answer :
          \E x \in sims : x.id = s /\ {x.tenant} = create[c].tenant /\ x.key = create[c].key

\* What the model says of the column: the key is "unique per (tenant via
\* simulation) create request" (models/__init__.py:268).
KeysAreUnique ==
    \A s, x \in sims : s.tenant = x.tenant /\ s.key = x.key /\ s.key # {} => s = x
=============================================================================
