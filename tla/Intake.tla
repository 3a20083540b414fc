------------------------------- MODULE Intake -------------------------------
(***************************************************************************)
(* Intake normalisation and the scope of a revision: what an authored      *)
(* input says must be generated, what each generated node is made from,    *)
(* and which stored nodes a revised input leaves usable                    *)
(* (app/pipeline/normalize.py, app/services/generation_service.py).        *)
(*                                                                         *)
(* An input is a record: "frame" stands for every field that all nodes     *)
(* depend on (_FULL_REGEN_FIELDS without the rounds), "roles" is the pool  *)
(* dealt round-robin to the participants, "count" the number of            *)
(* participants, "size" and "names" the team size and the number of team   *)
(* names of the group round (names = 0: no group round).                   *)
(***************************************************************************)
EXTENDS Integers, Sequences

CONSTANTS Inputs,     \* the inputs a facilitator may author
          Frames,     \* values of the spec-level fields
          Roles       \* role identities with their brief and KPIs

InputRecords == [frame : Frames, roles : Seq(Roles), count : Nat \ {0},
                 size : Nat \ {0}, names : Nat]

ASSUME InputsAssumption ==
    Inputs \subseteq {i \in InputRecords : Len(i.roles) > 0}

-----------------------------------------------------------------------------
(* The canonical specification of an input.                                *)

Roster(i) == 1..i.count

\* The generation context of participant p: role p-1 modulo the pool.
Context(i, p) == i.roles[((p - 1) % Len(i.roles)) + 1]

\* Team k takes the k-th slice of the roster; an empty slice makes no team.
TeamMembers(i, k) == {p \in Roster(i) : (k - 1) * i.size < p /\ p <= k * i.size}

Teams(i) == {k \in 1..i.names : TeamMembers(i, k) # {}}

-----------------------------------------------------------------------------
(* Checkpoint nodes.  The frame node stands for the Tier-1 nodes (bible,   *)
(* common, reflection_spec, type_set, archetypes, focus:...), which depend *)
(* on the frame only and reach the database in the same transaction.       *)

FrameNode == <<"frame", 0>>
ParticipantNode(p) == <<"participant", p>>
TeamNode(k) == <<"team", k>>

Nodes(i) == {FrameNode} \union {ParticipantNode(p) : p \in Roster(i)}
                        \union {TeamNode(k) : k \in Teams(i)}

\* The participants whose contexts go into node n.
Subjects(i, n) ==
    {p \in Roster(i) : \/ n = ParticipantNode(p)
                       \/ \E k \in Teams(i) : n = TeamNode(k) /\ p \in TeamMembers(i, k)}

\* What node n is made from, besides the frame.
Uses(i, n) == [p \in Subjects(i, n) |-> Context(i, p)]

-----------------------------------------------------------------------------
(* The scope of a revision from input i to input j.                        *)

\* Some spec-level field differs: everything is regenerated.
FullScope(i, j) == <<i.frame, i.size, i.names>> # <<j.frame, j.size, j.names>>

\* Participants of the new roster whose context is new or different.
Changed(i, j) == {p \in Roster(j) : p \in Roster(i) => Context(i, p) # Context(j, p)}

\* Teams of the new input with a changed member.
ChangedTeams(i, j) == {k \in Teams(j) : TeamMembers(j, k) \intersect Changed(i, j) # {}}

\* The nodes whose checkpoints revise_simulation deletes in the partial scope.
StaleNodes(i, j) == {ParticipantNode(p) : p \in Changed(i, j)}
                       \union {TeamNode(k) : k \in ChangedTeams(i, j)}

\* No team of the new input has lost a member it had under the old one.
Aligned(i, j) == \A k \in Teams(j) : TeamMembers(i, k) \subseteq TeamMembers(j, k)

\* A node of the new input that the revision does not invalidate was a node of
\* the old input, made from the same contexts.
ReuseIsExact(i, j) ==
    \A n \in Nodes(j) \ StaleNodes(i, j) : n \in Nodes(i) /\ Uses(i, n) = Uses(j, n)
=============================================================================
