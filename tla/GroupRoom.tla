------------------------------ MODULE GroupRoom ------------------------------
(***************************************************************************)
(* Reconciling a team: a facilitator enters the split the team agreed on,  *)
(* the service takes the members' own sessions as the baseline and stores  *)
(* how far apart they were and how far each has moved                      *)
(* (app/api/groups.py, app/services/scoring_service.py,                    *)
(* app/scoring/group.py, frontend/src/pages/GroupRoom.tsx).                *)
(*                                                                         *)
(* Every run of the generator inserts its own rows for the participants    *)
(* and the teams (app/jobs/runner.py _persist_normalized): a participant   *)
(* row is <<ref, run>>, a team row lists participant rows of its own run.  *)
(* Shares are units out of 100, as stored; the code divides them by 100,   *)
(* and what it stores of them is in ten-thousandths.                       *)
(***************************************************************************)
EXTENDS Integers, Sequences, FiniteSetsExt

CONSTANTS Refs,          \* participants, in the order of their refs
          Teams,         \* the members of each team of the group round
          Decisions,     \* decision numbers
          Schemes,       \* the posture keys a version may declare, in order
          Canonical,     \* POSTURES, the keys where no version declares any
          Posted,        \* the schemes teams' allocations are posted with
          Splits,        \* distributions of 100 units over four keys
          Rooms,         \* facilitators' pages
          MaxRuns, MaxSessions, MaxReconciles   \* bounds

ASSUME GroupRoomAssumption ==
    /\ Refs \subseteq Nat /\ IsFiniteSet(Refs) /\ Teams \subseteq SUBSET Refs
    /\ IsFiniteSet(Decisions)
    /\ \A x \in Splits : x \in [1..4 -> 0..100] /\ x[1] + x[2] + x[3] + x[4] = 100
    /\ \A k \in Schemes \union Posted \union {Canonical} : \A i, j \in 1..4 : k[i] = k[j] => i = j
    /\ MaxRuns \in Nat /\ MaxSessions \in Nat /\ MaxReconciles \in Nat

VARIABLES runs,       \* runs that have inserted their participants and teams
          versions,   \* the scheme of each version
          sessions,   \* sessions with their individual allocations
          room,       \* what each facilitator's page is at
          stored,     \* group_analytics rows
          reconciles

groupVars == <<runs, versions, sessions, room, stored, reconciles>>

NoShares == <<>>
Idle == [at |-> "idle"]

Range4(f) == {f[i] : i \in 1..4}

\* Units on posture keys.
Share(scheme, split) ==
    [k \in Range4(scheme) |-> split[CHOOSE i \in 1..4 : scheme[i] = k]]

TeamRows == {[members |-> t, run |-> n] : t \in Teams, n \in 1..runs}

-----------------------------------------------------------------------------
(***************************************************************************)
(* compute_group_analytics.                                                *)
(***************************************************************************)

Abs(n) == IF n < 0 THEN -n ELSE n

\* _tv: half the sum of the differences.
Distance(p, q, keys) == SumFunction([k \in keys |-> Abs(p[k] - q[k])]) \div 2

\* A mutant of Pairs: every pair is counted in both orders, and with itself.
OrderedPairs(S) == S \X S

\* combinations(vecs, 2).
Pairs(S) == {x \in S \X S : x[1] < x[2]}

NumberOfPairs(S) == (Cardinality(S) * (Cardinality(S) - 1)) \div 2

\* Means are kept as a sum and a number of terms, until they are stored.
MeanApart(base, d, keys) ==
    LET S == DOMAIN base
    IN IF Cardinality(S) < 2 THEN [sum |-> 0, n |-> 1]
       ELSE [sum |-> SumFunction([x \in Pairs(S) |-> Distance(base[x[1]][d], base[x[2]][d], keys)]),
             n |-> NumberOfPairs(S)]

MeanMoved(base, team, d, keys) ==
    [sum |-> SumFunction([p \in DOMAIN base |-> Distance(base[p][d], team[d], keys)]),
     n |-> Cardinality(DOMAIN base)]

\* What _round may store of a mean: the nearest ten-thousandth, and either of
\* two that are as near, as the float falls.
Rounded(mean) ==
    LET low == (100 * mean.sum) \div mean.n
    IN {v \in {low, low + 1} : 2 * Abs(v * mean.n - 100 * mean.sum) <= mean.n}

\* The values of one result's dispersion and movement of a decision.
Dispersion(base, d, keys) == Rounded(MeanApart(base, d, keys))

Movement(base, team, d, keys) == Rounded(MeanMoved(base, team, d, keys))

\* How far one member has moved, over the reconciled decisions.
Moved(base, team, p, keys) ==
    [sum |-> SumFunction([d \in DOMAIN team |-> Distance(base[p][d], team[d], keys)]),
     n |-> Cardinality(DOMAIN team)]

MeanLess(a, b) == a.sum * b.n < b.sum * a.n

\* A mutant of Biggest: ties go to the first ref, as they do for the anchor.
BiggestFirst(base, team, keys) ==
    LET M(p) == Moved(base, team, p, keys)
    IN CHOOSE p \in DOMAIN base : \A o \in DOMAIN base \ {p} :
          MeanLess(M(o), M(p)) \/ (~MeanLess(M(p), M(o)) /\ p < o)

\* min and max over (mean, ref).
Anchor(base, team, keys) ==
    LET M(p) == Moved(base, team, p, keys)
    IN CHOOSE p \in DOMAIN base : \A o \in DOMAIN base \ {p} :
          MeanLess(M(p), M(o)) \/ (~MeanLess(M(o), M(p)) /\ p < o)

Biggest(base, team, keys) ==
    LET M(p) == Moved(base, team, p, keys)
    IN CHOOSE p \in DOMAIN base : \A o \in DOMAIN base \ {p} :
          MeanLess(M(o), M(p)) \/ (~MeanLess(M(p), M(o)) /\ o < p)

Nobody == 0

\* The ways to take one value out of each set of a function of sets.
Values(V) == {f \in [DOMAIN V -> UNION {V[d] : d \in DOMAIN V}] : \A d \in DOMAIN V : f[d] \in V[d]}

\* What compute_group_analytics may return.
Analytics(base, team, keys) ==
    LET moved == DOMAIN base # {} /\ DOMAIN team # {}
        spreads == [d \in IF DOMAIN base = {} THEN {} ELSE Decisions |-> Dispersion(base, d, keys)]
        moves == [d \in IF moved THEN DOMAIN team ELSE {} |-> Movement(base, team, d, keys)]
    IN {[members    |-> DOMAIN base,
         dispersion |-> s,
         movement   |-> m,
         anchor     |-> IF moved THEN Anchor(base, team, keys) ELSE Nobody,
         biggest    |-> IF moved THEN Biggest(base, team, keys) ELSE Nobody] :
           s \in Values(spreads), m \in Values(moves)}

-----------------------------------------------------------------------------
GroupInit ==
    /\ runs = 0
    /\ versions = <<>>
    /\ sessions = <<>>
    /\ room = [r \in Rooms |-> Idle]
    /\ stored = {}
    /\ reconciles = 0

(***************************************************************************)
(* Runs and sessions, as far as teams depend on them.                      *)
(***************************************************************************)

\* A run inserts its participants and teams, whether or not it succeeds.
Enrol ==
    /\ runs < MaxRuns
    /\ runs' = runs + 1
    /\ UNCHANGED <<versions, sessions, room, stored, reconciles>>

Publish(scheme) ==
    /\ Len(versions) < runs
    /\ versions' = Append(versions, scheme)
    /\ UNCHANGED <<runs, sessions, room, stored, reconciles>>

\* POST /sessions: the latest version, and the first of the rows that have
\* the ref, in no order.
OpenSession(p, n) ==
    /\ versions # <<>> /\ Len(sessions) < MaxSessions
    /\ n \in 1..runs
    /\ sessions' = Append(sessions, [person |-> <<p, n>>, version |-> Len(versions),
                                     shares |-> NoShares])
    /\ UNCHANGED <<runs, versions, room, stored, reconciles>>

\* A submission answers every decision, in the postures of its version.
Submit(s, split) ==
    /\ s \in DOMAIN sessions
    /\ sessions' = [sessions EXCEPT ![s].shares =
                       [d \in Decisions |-> Share(versions[sessions[s].version], split[d])]]
    /\ UNCHANGED <<runs, versions, room, stored, reconciles>>

-----------------------------------------------------------------------------
(***************************************************************************)
(* Reconciling.                                                            *)
(***************************************************************************)

\* The sessions of a participant row.
SessionsOf(p, n) == {s \in DOMAIN sessions : sessions[s].person = <<p, n>>}

Answered(S) == {s \in S : sessions[s].shares # NoShares}

Joined(t) == {p \in t.members : SessionsOf(p, t.run) # {}}
Heard(t) == {p \in t.members : Answered(SessionsOf(p, t.run)) # {}}

\* The session of each member that is read last, in the order rows come in.
LastReads(t) == {f \in [Joined(t) -> DOMAIN sessions] :
                    \A p \in Joined(t) : f[p] \in SessionsOf(p, t.run)}

\* A later allocation replaces an earlier one of the same member and decision.
Bases(t, last) ==
    {b \in [Heard(t) -> DOMAIN sessions] :
        \A p \in Heard(t) :
           /\ b[p] \in Answered(SessionsOf(p, t.run))
           /\ sessions[last[p]].shares # NoShares => b[p] = last[p]}

\* The keys are those of the version of the session read last of all, or the
\* canonical ones.
KeysOf(t, last) ==
    IF Joined(t) = {} THEN Range4(Canonical)
    ELSE Range4(versions[sessions[last[Max(Joined(t))]].version])

\* _vec looks every key up in every allocation, of every session read.
Readable(t, keys, team) ==
    /\ \A p \in t.members : \A s \in Answered(SessionsOf(p, t.run)) :
          \A d \in Decisions : keys \subseteq DOMAIN sessions[s].shares[d]
    /\ \A d \in DOMAIN team : keys \subseteq DOMAIN team[d]

\* The page's buttons are off only while a request of its own is under way.
Busy(r) == room[r].at = "storing"

\* POST /teams/{id}/reconcile up to its DELETE; team is what the facilitator
\* entered.
Reconcile(r, t, team) ==
    /\ ~Busy(r)
    /\ reconciles < MaxReconciles
    /\ reconciles' = reconciles + 1
    /\ t \in TeamRows
    /\ \E last \in LastReads(t) : \E b \in Bases(t, last) :
          /\ Readable(t, KeysOf(t, last), team)
          /\ \E x \in Analytics([p \in Heard(t) |-> sessions[b[p]].shares], team, KeysOf(t, last)) :
                room' = [room EXCEPT ![r] = [at |-> "storing", team |-> t, result |-> x,
                                             scan |-> {y \in stored : y.team = t}]]
    /\ UNCHANGED <<runs, versions, sessions, stored>>

\* The same, where a key is missing: an internal error, with nothing stored.
ReconcileFails(r, t, team) ==
    /\ ~Busy(r)
    /\ reconciles < MaxReconciles
    /\ reconciles' = reconciles + 1
    /\ t \in TeamRows
    /\ \E last \in LastReads(t) : ~Readable(t, KeysOf(t, last), team)
    /\ room' = [room EXCEPT ![r] = [at |-> "failed"]]
    /\ UNCHANGED <<runs, versions, sessions, stored>>

\* The rows of the team that the DELETE has found.
Replaced(r) == room[r].scan

\* The rows are replaced by one commit, and the page has its answer.
Store(r) ==
    /\ room[r].at = "storing"
    /\ stored' = (stored \ Replaced(r)) \union
                    {[team |-> room[r].team, by |-> r, number |-> reconciles,
                      result |-> room[r].result]}
    /\ room' = [room EXCEPT ![r] = [at |-> "answered", team |-> room[r].team,
                                    result |-> room[r].result]]
    /\ UNCHANGED <<runs, versions, sessions, reconciles>>

\* GET /teams/{id}/analytics shows the first of the team's rows.
LoadSaved(r, x) ==
    /\ ~Busy(r)
    /\ x \in stored
    /\ room' = [room EXCEPT ![r] = [at |-> "loaded", team |-> x.team, result |-> x.result]]
    /\ UNCHANGED <<runs, versions, sessions, stored, reconciles>>

Entered == UNION {[D -> {Share(k, x) : x \in Splits}] : D \in SUBSET Decisions, k \in Posted}

GroupNext ==
    \/ Enrol
    \/ \E k \in Schemes : Publish(k)
    \/ \E p \in Refs, n \in 1..MaxRuns : OpenSession(p, n)
    \/ \E s \in 1..MaxSessions, split \in [Decisions -> Splits] : Submit(s, split)
    \/ \E r \in Rooms :
          \/ \E t \in TeamRows, team \in Entered :
                Reconcile(r, t, team) \/ ReconcileFails(r, t, team)
          \/ Store(r)
          \/ \E x \in stored : LoadSaved(r, x)

GroupSpec == GroupInit /\ [][GroupNext]_groupVars

-----------------------------------------------------------------------------
(***************************************************************************)
(* Properties.                                                             *)
(***************************************************************************)

\* Everybody on the team who has answered counts: "Members' pre-discussion
\* allocations come from their individual sessions" (groups.py:3-4).
BaselineIsComplete ==
    [][\A r \in Rooms : room[r].at # "storing" /\ room'[r].at = "storing" =>
          room'[r].result.members =
             {p \in room'[r].team.members :
                 \E s \in DOMAIN sessions : /\ sessions[s].person[1] = p
                                            /\ sessions[s].shares # NoShares}]_groupVars

\* Where at least two members have moved, the anchor and the biggest mover
\* are two of them, whatever the ties (group.py:79-80).
AnchorIsNotMover ==
    \A x \in stored : x.result.anchor # Nobody =>
       /\ {x.result.anchor, x.result.biggest} \subseteq x.result.members
       /\ Cardinality(x.result.members) > 1 => x.result.anchor # x.result.biggest

\* Members apart on a decision cannot all be near the team's split: their
\* mean distance is at most twice their mean movement (group.py:56-74).  As
\* stored it may exceed that by one ten-thousandth, for both are rounded.
SpreadNeedsMovement ==
    \A x \in stored : \A d \in DOMAIN x.result.movement :
       x.result.dispersion[d] <= 2 * x.result.movement[d] + 1

\* A split a facilitator submits is reconciled: "Group analytics are computed
\* and stored on submit" (groups.py:5).
SubmitsAreStored == \A r \in Rooms : room[r].at # "failed"
=============================================================================
