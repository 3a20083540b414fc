--------------------------- MODULE GenerationProofs ---------------------------
(***************************************************************************)
(* The steps inside a generation, for any number of participants, teams,   *)
(* runs, attempts, revisions and builds at a time: what a failed run and   *)
(* the builds it has left behind do to the next one.  The inductive        *)
(* invariant is GenInv.                                                    *)
(***************************************************************************)
EXTENDS Generation, TLAPS

BossStages == {"absent", "foundation", "focus", "fanout", "gather", "audit", "reaudit",
               "completed", "raised"}

BuildStages == {"absent", "waiting", "open", "forge", "judge", "revise", "close", "done",
                "raised"}

\* A build that has its focuses.
Making == {"forge", "judge", "revise", "close"}

\* A build that goes on, whatever has become of its run.
Active == CallStages \union {"waiting"}

TaskLike(x) ==
    /\ x = [at |-> x.at, call |-> x.call, attempt |-> x.attempt, focus |-> x.focus,
            flagged |-> x.flagged, revision |-> x.revision]
    /\ x.call # "none" => x.at \in CallStages

NodesLike(c) ==
    c = [foundation |-> c.foundation, focus |-> [k \in Kinds |-> c.focus[k]],
         built |-> [i \in Builds |-> c.built[i]]]

Shapes ==
    /\ runs \in 0..MaxRuns
    /\ unit \in [Runs -> 1..(Units + 1)]
    /\ task = [t \in Tasks |-> task[t]] /\ \A t \in Tasks : TaskLike(task[t])
    /\ cache = [r \in Runs |-> cache[r]] /\ \A r \in Runs : NodesLike(cache[r])
    /\ review = [r \in Runs |-> review[r]]
    /\ NodesLike(rows)

\* Everything a build is made from is there.
Founded(c) == c.foundation.saved /\ \A k \in Kinds : c.focus[k].saved

Comparable(c) ==
    \A i \in Builds : c.built[i].saved =>
       c.focus[KindOf(i)].saved /\ c.built[i].focus = c.focus[KindOf(i)].by

Stage(r) == task[Boss(r)].at

\* Runs follow each other, the next one when the last has raised.
RunsFollow ==
    \A r \in Runs : /\ r < runs => Stage(r) = "raised"
                    /\ r > runs => /\ unit[r] = 1
                                   /\ \A i \in Builds \union {Main} : task[<<r, i>>].at = "absent"

\* The main coroutine of run r.
BossInv(r) ==
    /\ Stage(r) \in BossStages
    /\ Stage(r) \in {"fanout", "gather", "audit", "reaudit", "completed"} => Founded(cache[r])
    /\ Stage(r) = "focus" => cache[r].foundation.saved /\ MissingFocus(cache[r]) # {}
    /\ Stage(r) \in {"absent", "foundation", "focus"} => unit[r] = 1
    /\ Stage(r) \in {"fanout", "gather"} => unit[r] <= Units
    /\ Stage(r) \in {"audit", "reaudit"} => unit[r] = Units + 1

\* Build i of run r, also when the run has left it behind.
BuildInv(r, i) ==
    LET t == task[<<r, i>>]
    IN /\ t.at \in BuildStages
       /\ t.at # "absent" => Founded(cache[r])
       /\ t.at \in Making => t.focus = cache[r].focus[KindOf(i)].by
       /\ t.at \in CallStages => ~cache[r].built[i].saved
       /\ t.at = "done" => cache[r].built[i].saved
       /\ t.at \in Active /\ Stage(r) # "raised" => Stage(r) = "gather" /\ i \in Unit(unit[r])

\* The checkpoints c of the current run are those in the database and, while a
\* wave is under way, those of the wave.
Continues(d, c, stage, wave) ==
    \A i \in Builds :
       /\ d.built[i].saved => c.built[i].saved
       /\ c.built[i].saved /\ stage # "raised" =>
             d.built[i].saved \/ (stage = "gather" /\ i \in wave)

CurrentInv == \A r \in Runs : r = runs => Continues(rows, cache[r], Stage(r), Unit(unit[r]))

\* The first u waves and teams are in the database.
WholeUpTo(u) ==
    /\ {i \in Builds : rows.built[i].saved} = UNION {Unit(v) : v \in 1..u}
    /\ u > 0 => Founded(rows)

StoredInv ==
    \E u \in 0..Units : /\ WholeUpTo(u)
                        /\ \A r \in Runs : r = runs /\ Stage(r) # "raised" => unit[r] <= u + 1

GenInv ==
    /\ Shapes
    /\ RunsFollow
    /\ \A r \in Runs : BossInv(r) /\ Comparable(cache[r])
    /\ \A r \in Runs, i \in Builds : BuildInv(r, i)
    /\ CurrentInv
    /\ StoredInv
    /\ Comparable(rows)
    /\ ReviewIsAsked

-----------------------------------------------------------------------------
LEMMA UnitsNat == Waves \in Nat /\ Units \in Nat /\ Units > 0
<1>1. BatchSize \in Nat /\ BatchSize > 0 /\ Participants \in Nat /\ Teams \in Nat
      /\ Participants + Teams > 0
  BY GenerationAssumption
<1>2. \A a, b \in Nat : b > 0 => a \div b \in Nat /\ (a >= b => a \div b > 0)
  OBVIOUS
<1>3. Waves \in Nat
  BY <1>1, <1>2 DEF Waves
<1>4. Participants > 0 => Waves > 0
  BY <1>1, <1>2 DEF Waves
<1> QED
  BY <1>1, <1>3, <1>4 DEF Units

LEMMA UnitsOfBuilds == \A u \in 1..Units : Unit(u) \subseteq Builds
<1> SUFFICES ASSUME NEW u \in 1..Units PROVE Unit(u) \subseteq Builds
  OBVIOUS
<1>1. Participants \in Nat /\ Teams \in Nat /\ Waves \in Nat /\ Units = Waves + Teams
  BY GenerationAssumption, UnitsNat DEF Units
<1>2. CASE u <= Waves
  BY <1>1, <1>2 DEF Unit, Builds
<1>3. CASE u > Waves
  BY <1>1, <1>3 DEF Unit, Builds
<1> QED
  BY <1>1, <1>2, <1>3

LEMMA KindsOfBuilds == \A i \in Builds : KindOf(i) \in Kinds
  BY GenerationAssumption DEF Builds, KindOf, Kinds, IsTeam

LEMMA TaskIds ==
    /\ \A r \in Runs : Boss(r) \in Tasks
    /\ \A r \in Runs, i \in Builds : <<r, i>> \in Tasks
    /\ \A r, s \in Runs, i \in Builds : <<r, i>> # Boss(s)
    /\ \A r, s \in Runs : Boss(r) = Boss(s) => r = s
    /\ \A t \in Tasks : \E r \in Runs : t = Boss(r) \/ \E i \in Builds : t = <<r, i>>
  BY DEF Tasks, Boss, Main, Builds

LEMMA AtLike ==
    ASSUME NEW stage PROVE TaskLike(At(stage)) /\ At(stage).at = stage /\ At(stage).call = "none"
  BY DEF TaskLike, At

\* A coroutine that goes on to its next stage keeps its focuses.
LEMMA NextLike ==
    ASSUME NEW t, TaskLike(task[t]), NEW stage
    PROVE  /\ TaskLike(Next(t, stage)) /\ Next(t, stage).at = stage
           /\ Next(t, stage).call = "none" /\ Next(t, stage).focus = task[t].focus
<1>1. PICK x : x = task[t]
  OBVIOUS
<1>2. x = [at |-> x.at, call |-> x.call, attempt |-> x.attempt, focus |-> x.focus,
           flagged |-> x.flagged, revision |-> x.revision]
  BY <1>1 DEF TaskLike
<1>3. Next(t, stage) = [[[x EXCEPT !.at = stage] EXCEPT !.call = "none"] EXCEPT !.attempt = 0]
  BY <1>1 DEF Next
<1>4. [x EXCEPT !.at = stage] = [at |-> stage, call |-> x.call, attempt |-> x.attempt,
                                 focus |-> x.focus, flagged |-> x.flagged, revision |-> x.revision]
  BY <1>2
<1>5. Next(t, stage) = [at |-> stage, call |-> "none", attempt |-> 0,
                        focus |-> x.focus, flagged |-> x.flagged, revision |-> x.revision]
  BY <1>3, <1>4
<1> QED
  BY <1>1, <1>5 DEF TaskLike

\* One field of a coroutine's record changes.
LEMMA CallChanges ==
    ASSUME NEW x, TaskLike(x), NEW v, v # "none" => x.at \in CallStages, NEW y, y = [x EXCEPT !.call = v]
    PROVE  TaskLike(y) /\ y.at = x.at /\ y.call = v /\ y.focus = x.focus
<1>1. y = [at |-> x.at, call |-> v, attempt |-> x.attempt, focus |-> x.focus,
          flagged |-> x.flagged, revision |-> x.revision]
  BY DEF TaskLike
<1>2. x.call # "none" => x.at \in CallStages
  BY DEF TaskLike
<1> QED
  BY <1>1, <1>2 DEF TaskLike

LEMMA AttemptChanges ==
    ASSUME NEW x, TaskLike(x), NEW v, NEW y, y = [x EXCEPT !.attempt = v]
    PROVE  TaskLike(y) /\ y.at = x.at /\ y.call = x.call /\ y.focus = x.focus
<1>1. y = [at |-> x.at, call |-> x.call, attempt |-> v, focus |-> x.focus,
          flagged |-> x.flagged, revision |-> x.revision]
  BY DEF TaskLike
<1>2. x.call # "none" => x.at \in CallStages
  BY DEF TaskLike
<1> QED
  BY <1>1, <1>2 DEF TaskLike

LEMMA FocusChanges ==
    ASSUME NEW x, TaskLike(x), NEW v, NEW y, y = [x EXCEPT !.focus = v]
    PROVE  TaskLike(y) /\ y.at = x.at /\ y.call = x.call /\ y.focus = v
<1>1. y = [at |-> x.at, call |-> x.call, attempt |-> x.attempt, focus |-> v,
          flagged |-> x.flagged, revision |-> x.revision]
  BY DEF TaskLike
<1>2. x.call # "none" => x.at \in CallStages
  BY DEF TaskLike
<1> QED
  BY <1>1, <1>2 DEF TaskLike

LEMMA FlaggedChanges ==
    ASSUME NEW x, TaskLike(x), NEW v, NEW y, y = [x EXCEPT !.flagged = v]
    PROVE  TaskLike(y) /\ y.at = x.at /\ y.call = x.call /\ y.focus = x.focus
<1>1. y = [at |-> x.at, call |-> x.call, attempt |-> x.attempt, focus |-> x.focus,
          flagged |-> v, revision |-> x.revision]
  BY DEF TaskLike
<1>2. x.call # "none" => x.at \in CallStages
  BY DEF TaskLike
<1> QED
  BY <1>1, <1>2 DEF TaskLike

LEMMA RevisionChanges ==
    ASSUME NEW x, TaskLike(x), NEW v, NEW y, y = [x EXCEPT !.revision = v]
    PROVE  TaskLike(y) /\ y.at = x.at /\ y.call = x.call /\ y.focus = x.focus
<1>1. y = [at |-> x.at, call |-> x.call, attempt |-> x.attempt, focus |-> x.focus,
          flagged |-> x.flagged, revision |-> v]
  BY DEF TaskLike
<1>2. x.call # "none" => x.at \in CallStages
  BY DEF TaskLike
<1> QED
  BY <1>1, <1>2 DEF TaskLike

LEMMA GenInvInit == Init => GenInv
<1> SUFFICES ASSUME Init PROVE GenInv
  OBVIOUS
<1>1. TaskLike(At("absent")) /\ At("absent").at = "absent"
  BY AtLike
<1>2. \A t \in Tasks : task[t] = At("absent")
  BY DEF Init
<1>3. Shapes
  <2>1. NodesLike(NoNodes)
    BY DEF NodesLike, NoNodes
  <2>2. runs \in 0..MaxRuns /\ unit \in [Runs -> 1..(Units + 1)]
    BY UnitsNat, GenerationAssumption DEF Init
  <2> QED
    BY <1>1, <1>2, <2>1, <2>2 DEF Init, Shapes
<1>4. \A r \in Runs : Stage(r) = "absent"
  BY <1>1, <1>2, TaskIds DEF Stage
<1>5. \A r \in Runs, i \in Builds \union {Main} : task[<<r, i>>].at = "absent"
  BY <1>1, <1>2 DEF Tasks
<1>6. /\ \A i \in Builds : ~NoNodes.built[i].saved
      /\ rows = NoNodes /\ \A r \in Runs : cache[r] = NoNodes /\ unit[r] = 1
      /\ runs = 0
  BY DEF Init, NoNodes, NoNode
<1>7. RunsFollow
  BY <1>5, <1>6 DEF RunsFollow, Runs
<1>8. \A r \in Runs : BossInv(r)
  BY <1>4, <1>6 DEF BossInv, BossStages
<1>9. Comparable(rows) /\ \A r \in Runs : Comparable(cache[r])
  BY <1>6 DEF Comparable
<1>10. \A r \in Runs, i \in Builds : BuildInv(r, i)
  BY <1>5, <1>6 DEF BuildInv, BuildStages, Making, CallStages, Active
<1>11. CurrentInv
  BY <1>6 DEF CurrentInv, Runs
<1>12. StoredInv
  <2>1. WholeUpTo(0)
    BY <1>6 DEF WholeUpTo
  <2> QED
    BY <1>6, <2>1, UnitsNat DEF StoredInv
<1>13. ReviewIsAsked
  BY <1>4 DEF ReviewIsAsked, Stage
<1> QED
  BY <1>3, <1>7, <1>8, <1>9, <1>10, <1>11, <1>12, <1>13 DEF GenInv

\* One build makes a step: what it has to keep to.
LEMMA BuildStep ==
    ASSUME GenInv, NEW r \in Runs, NEW i \in Builds, NEW x, NEW c,
           task[<<r, i>>].at \in Active,
           task' = [task EXCEPT ![<<r, i>>] = x], cache' = [cache EXCEPT ![r] = c],
           UNCHANGED <<runs, unit, rows, review>>,
           TaskLike(x), NodesLike(c),
           c.foundation = cache[r].foundation, c.focus = cache[r].focus,
           \A j \in Builds : j # i => c.built[j] = cache[r].built[j],
           cache[r].built[i].saved => c.built[i].saved,
           c.built[i].saved => c.built[i].focus = c.focus[KindOf(i)].by,
           x.at \in BuildStages \ {"absent"},
           x.at \in Making => x.focus = cache[r].focus[KindOf(i)].by,
           x.at \in CallStages => ~c.built[i].saved,
           x.at = "done" => c.built[i].saved
    PROVE  GenInv'
<1>1. /\ task'[<<r, i>>] = x /\ \A t \in Tasks : t # <<r, i>> => task'[t] = task[t]
      /\ task' = [t \in Tasks |-> task'[t]]
  BY TaskIds DEF GenInv, Shapes
<1>2. /\ cache'[r] = c /\ \A s \in Runs : s # r => cache'[s] = cache[s]
      /\ cache' = [s \in Runs |-> cache'[s]]
  BY DEF GenInv, Shapes
<1>3. \A s \in Runs : Stage(s)' = Stage(s)
  BY <1>1, TaskIds DEF Stage, Boss
<1>4. Shapes'
  BY <1>1, <1>2 DEF GenInv, Shapes
<1>5. Founded(cache[r]) /\ Founded(c)
  BY DEF GenInv, BuildInv, Active, Founded, CallStages
<1>6. RunsFollow'
  <2>1. ~(r > runs)
    BY DEF GenInv, RunsFollow, Active, CallStages
  <2>2. \A s \in Runs, j \in Builds \union {Main} : s # r => task'[<<s, j>>] = task[<<s, j>>]
    BY <1>1 DEF Tasks
  <2> QED
    BY <1>3, <2>1, <2>2 DEF GenInv, RunsFollow
<1>7. ASSUME NEW s \in Runs PROVE BossInv(s)' /\ Comparable(cache[s])'
  <2>1. BossInv(s) /\ Comparable(cache[s])
    BY DEF GenInv
  <2>2. CASE s = r
    <3>1. MissingFocus(c) = MissingFocus(cache[r])
      BY DEF MissingFocus
    <3>2. BossInv(s)'
      BY <1>2, <1>3, <1>5, <2>1, <2>2, <3>1 DEF BossInv, Founded, MissingFocus
    <3>3. Comparable(c)
      BY <1>5, <2>1, <2>2, KindsOfBuilds DEF Comparable, Founded
    <3> QED
      BY <1>2, <2>2, <3>2, <3>3
  <2>3. CASE s # r
    BY <1>2, <1>3, <2>1, <2>3 DEF BossInv
  <2> QED
    BY <2>2, <2>3
<1>8. ASSUME NEW s \in Runs, NEW j \in Builds PROVE BuildInv(s, j)'
  <2>1. BuildInv(s, j) /\ <<s, j>> \in Tasks
    BY TaskIds DEF GenInv
  <2>2. CASE s = r /\ j = i
    <3>1. Stage(r) # "raised" => Stage(r) = "gather" /\ i \in Unit(unit[r])
      BY <2>1, <2>2 DEF BuildInv
    <3> QED
      BY <1>1, <1>2, <1>3, <1>5, <2>2, <3>1 DEF BuildInv
  <2>3. CASE s = r /\ j # i
    <3>1. task'[<<s, j>>] = task[<<s, j>>]
      BY <1>1, <2>1, <2>3
    <3> QED
      BY <1>2, <1>3, <1>5, <2>1, <2>3, <3>1 DEF BuildInv
  <2>4. CASE s # r
    <3>1. task'[<<s, j>>] = task[<<s, j>>]
      BY <1>1, <2>1, <2>4
    <3> QED
      BY <1>2, <1>3, <2>1, <2>4, <3>1 DEF BuildInv
  <2> QED
    BY <2>2, <2>3, <2>4
<1>9. CurrentInv'
  <2> SUFFICES ASSUME NEW s \in Runs, s = runs
               PROVE  Continues(rows, cache'[s], Stage(s), Unit(unit[s]))
    BY <1>3 DEF CurrentInv, Unit
  <2>1. Continues(rows, cache[s], Stage(s), Unit(unit[s]))
    BY DEF GenInv, CurrentInv
  <2>2. CASE s = r
    <3>1. Stage(r) # "raised" => Stage(r) = "gather" /\ i \in Unit(unit[r])
      BY DEF GenInv, BuildInv
    <3> QED
      BY <1>2, <2>1, <2>2, <3>1 DEF Continues
  <2>3. CASE s # r
    BY <1>2, <2>1, <2>3
  <2> QED
    BY <2>2, <2>3
<1>10. StoredInv'
  BY <1>3 DEF GenInv, StoredInv, WholeUpTo, Runs, Shapes
<1>11. ReviewIsAsked'
  <2>1. Stage(r) # "completed"
    BY DEF GenInv, BuildInv
  <2> QED
    BY <1>2, <1>3, <2>1 DEF GenInv, ReviewIsAsked, Stage
<1>12. Comparable(rows)'
  BY DEF GenInv, Comparable
<1> QED
  BY <1>4, <1>6, <1>7, <1>8, <1>9, <1>10, <1>11, <1>12 DEF GenInv

\* The main coroutine of run r, in a step that leaves the wave as it is, may
\* become x, with the checkpoints c and asking for a review or not.
BossMay(r, x, c, asks) ==
    /\ Stage(r) \in {"foundation", "focus", "gather", "audit", "reaudit"}
    /\ TaskLike(x) /\ NodesLike(c) /\ c.built = cache[r].built
    /\ cache[r].foundation.saved => c.foundation.saved
    /\ \A k \in Kinds : cache[r].focus[k].saved => c.focus[k] = cache[r].focus[k]
    /\ x.at \in BossStages \ {"absent"}
    /\ x.at \in {"fanout", "audit", "reaudit", "completed"} => Founded(c)
    /\ x.at = "focus" => c.foundation.saved /\ MissingFocus(c) # {}
    /\ x.at \in {"foundation", "focus", "fanout"} => Stage(r) \in {"foundation", "focus"}
    /\ x.at = "gather" => Stage(r) = "gather"
    /\ x.at \in {"audit", "reaudit"} => Stage(r) \in {"audit", "reaudit"}
    /\ Stage(r) = "gather" => x.at \in {"gather", "raised"}
    /\ x.at = "completed" /\ ~asks =>
          \A i \in Builds : \A d \in 1..BoardSize : ~c.built[i].flagged[d]

LEMMA BossStep ==
    ASSUME GenInv, NEW r \in Runs, NEW x, NEW c, NEW asks, BossMay(r, x, c, asks),
           task' = [task EXCEPT ![Boss(r)] = x], cache' = [cache EXCEPT ![r] = c],
           review' = [review EXCEPT ![r] = asks], UNCHANGED <<runs, unit, rows>>
    PROVE  GenInv'
<1> USE DEF BossMay
<1>1. /\ task'[Boss(r)] = x /\ \A t \in Tasks : t # Boss(r) => task'[t] = task[t]
      /\ task' = [t \in Tasks |-> task'[t]]
  BY TaskIds DEF GenInv, Shapes
<1>2. /\ cache'[r] = c /\ \A s \in Runs : s # r => cache'[s] = cache[s]
      /\ cache' = [s \in Runs |-> cache'[s]]
      /\ review'[r] = asks /\ \A s \in Runs : s # r => review'[s] = review[s]
      /\ review' = [s \in Runs |-> review'[s]]
  BY DEF GenInv, Shapes
<1>3. /\ task'[Boss(r)].at = x.at /\ \A s \in Runs : s # r => task'[Boss(s)] = task[Boss(s)]
      /\ \A s \in Runs, i \in Builds : task'[<<s, i>>] = task[<<s, i>>]
  BY <1>1, TaskIds
<1>4. Shapes'
  BY <1>1, <1>2 DEF GenInv, Shapes
<1>5. Founded(cache[r]) => Founded(c)
  BY DEF Founded
<1>6. r = runs
  <2>1. ~(r < runs)
    BY DEF GenInv, RunsFollow
  <2>2. ~(r > runs)
    BY DEF GenInv, RunsFollow, Stage, Boss
  <2> QED
    BY <2>1, <2>2 DEF GenInv, Shapes, Runs
<1>7. RunsFollow'
  <2>1. \A s \in Runs : s < runs => s # r
    BY <1>6 DEF Runs
  <2>2. \A s \in Runs, j \in Builds \union {Main} : s # r => task'[<<s, j>>] = task[<<s, j>>]
    BY <1>1 DEF Tasks, Boss
  <2> QED
    BY <1>3, <1>6, <2>1, <2>2 DEF GenInv, RunsFollow, Stage, Runs
<1>8. ASSUME NEW s \in Runs PROVE BossInv(s)' /\ Comparable(cache[s])'
  <2>1. BossInv(s) /\ Comparable(cache[s])
    BY DEF GenInv
  <2>2. CASE s = r
    <3>1. BossInv(r)'
      <4>1. x.at = "gather" => Founded(c)
        BY <1>5, <2>1, <2>2 DEF BossInv
      <4>2. Stage(r) \in {"foundation", "focus"} => unit[r] = 1 /\ unit[r] <= Units
        BY <2>1, <2>2, UnitsNat DEF BossInv
      <4>3. Stage(r) = "gather" => unit[r] <= Units
        BY <2>1, <2>2 DEF BossInv
      <4>4. Stage(r) \in {"audit", "reaudit"} => unit[r] = Units + 1
        BY <2>1, <2>2 DEF BossInv
      <4>5. /\ x.at \in {"absent", "foundation", "focus"} => unit[r] = 1
            /\ x.at \in {"fanout", "gather"} => unit[r] <= Units
            /\ x.at \in {"audit", "reaudit"} => unit[r] = Units + 1
        BY <4>2, <4>3, <4>4
      <4>6. x.at \in {"fanout", "gather", "audit", "reaudit", "completed"} => Founded(c)
        BY <4>1
      <4>7. Stage(r)' = x.at /\ unit' = unit /\ cache'[r] = c /\ x.at \in BossStages
        BY <1>2, <1>3 DEF Stage
      <4>8. x.at = "focus" => c.foundation.saved /\ MissingFocus(c) # {}
        OBVIOUS
      <4> QED
        BY <4>5, <4>6, <4>7, <4>8 DEF BossInv, MissingFocus, Founded
    <3>2. Comparable(c)
      BY <2>1, <2>2, KindsOfBuilds DEF Comparable
    <3> QED
      BY <1>2, <2>2, <3>1, <3>2
  <2>3. CASE s # r
    BY <1>2, <1>3, <2>1, <2>3 DEF BossInv, Stage
  <2> QED
    BY <2>2, <2>3
<1>9. ASSUME NEW s \in Runs, NEW j \in Builds PROVE BuildInv(s, j)'
  <2>1. BuildInv(s, j) /\ task'[<<s, j>>] = task[<<s, j>>]
    BY <1>3 DEF GenInv
  <2>2. CASE s = r
    <3>1. task[<<r, j>>].at \in Making => c.focus[KindOf(j)] = cache[r].focus[KindOf(j)]
      BY <2>1, <2>2, KindsOfBuilds DEF BuildInv, Making, Founded
    <3>2. task[<<r, j>>].at \in Active /\ x.at # "raised" => x.at = "gather" /\ j \in Unit(unit[r])
      BY <2>1, <2>2 DEF BuildInv
    <3> QED
      BY <1>2, <1>3, <1>5, <2>1, <2>2, <3>1, <3>2 DEF BuildInv, Stage
  <2>3. CASE s # r
    BY <1>2, <1>3, <2>1, <2>3 DEF BuildInv, Stage
  <2> QED
    BY <2>2, <2>3
<1>10. CurrentInv'
  <2>1. Continues(rows, cache[r], Stage(r), Unit(unit[r]))
    BY <1>6 DEF GenInv, CurrentInv
  <2>2. Continues(rows, c, x.at, Unit(unit[r]))
    BY <2>1 DEF Continues
  <2> QED
    BY <1>2, <1>3, <1>6, <2>2 DEF CurrentInv, Stage, Unit
<1>11. StoredInv'
  <2>1. PICK u \in 0..Units : /\ WholeUpTo(u) /\ (Stage(r) # "raised" => unit[r] <= u + 1)
    BY <1>6 DEF GenInv, StoredInv
  <2>2. WholeUpTo(u)' /\ Stage(r) # "raised"
    BY <2>1 DEF WholeUpTo
  <2> QED
    BY <1>6, <2>1, <2>2 DEF StoredInv
<1>12. ReviewIsAsked'
  BY <1>2, <1>3 DEF GenInv, ReviewIsAsked
<1>13. Comparable(rows)'
  BY DEF GenInv, Comparable
<1> QED
  BY <1>4, <1>7, <1>8, <1>9, <1>10, <1>11, <1>12, <1>13 DEF GenInv

-----------------------------------------------------------------------------
(* The steps of the main coroutine that begin and end something.           *)

LEMMA GatherStep ==
    ASSUME GenInv, NEW r \in Runs, Gather(r) PROVE GenInv'
<1>1. /\ Stage(r) = "fanout" /\ UNCHANGED <<runs, unit, cache, rows, review>>
      /\ task' = [t \in Tasks |->
                    IF t = Boss(r) THEN At("gather")
                    ELSE IF t[1] = r /\ t[2] \in Unit(unit[r]) THEN At("waiting") ELSE task[t]]
  BY DEF Gather, Stage
<1>2. /\ TaskLike(At("gather")) /\ At("gather").at = "gather"
      /\ TaskLike(At("waiting")) /\ At("waiting").at = "waiting"
  BY AtLike
<1>3. /\ task'[Boss(r)].at = "gather"
      /\ \A s \in Runs : s # r => task'[Boss(s)] = task[Boss(s)]
      /\ \A i \in Builds : i \in Unit(unit[r]) => task'[<<r, i>>].at = "waiting"
      /\ \A i \in Builds : i \notin Unit(unit[r]) => task'[<<r, i>>] = task[<<r, i>>]
      /\ \A s \in Runs, i \in Builds : s # r => task'[<<s, i>>] = task[<<s, i>>]
  <2>1. \A s \in Runs : Boss(s)[1] = s
    BY DEF Boss
  <2> QED
    BY <1>1, <1>2, <2>1, TaskIds
<1>4. BossInv(r) /\ Founded(cache[r]) /\ unit[r] <= Units
  BY <1>1 DEF GenInv, BossInv
<1>5. \A i \in Builds : task[<<r, i>>].at \notin Active
  BY <1>1 DEF GenInv, BuildInv
<1>6. r = runs
  <2>1. ~(r < runs)
    BY <1>1 DEF GenInv, RunsFollow
  <2>2. ~(r > runs)
    BY <1>1 DEF GenInv, RunsFollow, Stage, Boss
  <2> QED
    BY <2>1, <2>2 DEF GenInv, Shapes, Runs
<1>7. Shapes'
  BY <1>1, <1>2 DEF GenInv, Shapes
<1>8. RunsFollow'
  <2>1. \A s \in Runs, j \in Builds \union {Main} : s # r => task'[<<s, j>>] = task[<<s, j>>]
    BY <1>3 DEF Boss
  <2> QED
    BY <1>1, <1>3, <1>6, <2>1 DEF GenInv, RunsFollow, Stage, Runs
<1>9. ASSUME NEW s \in Runs PROVE BossInv(s)' /\ Comparable(cache[s])'
  <2>1. BossInv(s) /\ Comparable(cache[s]) /\ cache' = cache /\ unit' = unit
    BY <1>1 DEF GenInv
  <2>2. CASE s = r
    <3>1. Stage(r)' = "gather"
      BY <1>1, <1>3 DEF Stage
    <3> QED
      BY <1>4, <2>1, <2>2, <3>1 DEF BossInv, Founded, Comparable, BossStages
  <2>3. CASE s # r
    <3>1. Stage(s)' = Stage(s)
      BY <1>3, <2>3 DEF Stage
    <3> QED
      BY <2>1, <3>1 DEF BossInv, MissingFocus, Founded, Comparable
  <2> QED
    BY <2>2, <2>3
<1>10. ASSUME NEW s \in Runs, NEW j \in Builds PROVE BuildInv(s, j)'
  <2>1. BuildInv(s, j)
    BY DEF GenInv
  <2>2. CASE s = r /\ j \in Unit(unit[r])
    BY <1>1, <1>3, <1>4, <2>2
       DEF BuildInv, Stage, Founded, BuildStages, Making, CallStages, Active
  <2>3. CASE s = r /\ j \notin Unit(unit[r])
    BY <1>1, <1>3, <1>5, <2>1, <2>3 DEF BuildInv, Stage, Founded
  <2>4. CASE s # r
    BY <1>1, <1>3, <2>1, <2>4 DEF BuildInv, Stage, Founded
  <2> QED
    BY <2>2, <2>3, <2>4
<1>11. CurrentInv'
  <2>1. Continues(rows, cache[r], Stage(r), Unit(unit[r]))
    BY <1>6 DEF GenInv, CurrentInv
  <2>2. Continues(rows, cache[r], "gather", Unit(unit[r]))
    BY <1>1, <2>1 DEF Continues
  <2> QED
    BY <1>1, <1>3, <1>6, <2>2 DEF CurrentInv, Stage
<1>12. StoredInv'
  <2>1. PICK u \in 0..Units : /\ WholeUpTo(u) /\ (Stage(r) # "raised" => unit[r] <= u + 1)
    BY <1>6 DEF GenInv, StoredInv
  <2>2. WholeUpTo(u)' /\ Stage(r) # "raised"
    BY <1>1, <2>1 DEF WholeUpTo
  <2> QED
    BY <1>1, <1>6, <2>1, <2>2 DEF StoredInv
<1>13. ReviewIsAsked'
  BY <1>1, <1>3 DEF GenInv, ReviewIsAsked
<1>14. Comparable(rows)'
  BY <1>1 DEF GenInv, Comparable
<1> QED
  BY <1>7, <1>8, <1>9, <1>10, <1>11, <1>12, <1>13, <1>14 DEF GenInv

\* A wave that is done is the next in the database, or was there already.
LEMMA UnitDoneStep ==
    ASSUME GenInv, NEW r \in Runs, UnitDone(r) PROVE GenInv'
<1> DEFINE stage == IF unit[r] = Units THEN "audit" ELSE "fanout"
<1>1. /\ Stage(r) = "gather" /\ rows' = cache[r] /\ unit' = [unit EXCEPT ![r] = unit[r] + 1]
      /\ \A i \in Unit(unit[r]) : task[<<r, i>>].at = "done"
      /\ task' = [task EXCEPT ![Boss(r)] = At(stage)] /\ UNCHANGED <<runs, cache, review>>
  BY DEF UnitDone, Stage, Set
<1>2. TaskLike(At(stage)) /\ At(stage).at = stage
  BY AtLike
<1>3. stage \in {"audit", "fanout"} /\ (stage = "fanout" => unit[r] # Units)
  OBVIOUS
<1> HIDE DEF stage
<1>4. /\ task'[Boss(r)].at = stage
      /\ \A s \in Runs : s # r => task'[Boss(s)] = task[Boss(s)]
      /\ \A s \in Runs, i \in Builds : task'[<<s, i>>] = task[<<s, i>>]
      /\ task' = [t \in Tasks |-> task'[t]]
      /\ \A t \in Tasks : t # Boss(r) => task'[t] = task[t]
  BY <1>1, <1>2, TaskIds DEF GenInv, Shapes
<1>5. BossInv(r) /\ Founded(cache[r]) /\ unit[r] <= Units /\ unit[r] \in 1..(Units + 1)
  BY <1>1 DEF GenInv, BossInv, Shapes
<1>6. /\ unit'[r] = unit[r] + 1 /\ \A s \in Runs : s # r => unit'[s] = unit[s]
      /\ unit' \in [Runs -> 1..(Units + 1)]
  BY <1>1, <1>5, UnitsNat DEF GenInv, Shapes
<1>7. \A i \in Builds : task[<<r, i>>].at \notin Active
  BY <1>1 DEF GenInv, BuildInv, Active, CallStages
<1>8. r = runs
  <2>1. ~(r < runs)
    BY <1>1 DEF GenInv, RunsFollow
  <2>2. ~(r > runs)
    BY <1>1 DEF GenInv, RunsFollow, Stage, Boss
  <2> QED
    BY <2>1, <2>2 DEF GenInv, Shapes, Runs
<1>9. Shapes'
  <2>1. NodesLike(cache[r]) /\ \A t \in Tasks : TaskLike(task'[t])
    BY <1>1, <1>2, <1>4, TaskIds DEF GenInv, Shapes
  <2> QED
    BY <1>1, <1>4, <1>6, <2>1 DEF GenInv, Shapes
<1>10. RunsFollow'
  <2>1. \A s \in Runs, j \in Builds \union {Main} : s # r => task'[<<s, j>>] = task[<<s, j>>]
    BY <1>4 DEF Tasks, Boss
  <2> QED
    BY <1>1, <1>4, <1>6, <1>8, <2>1 DEF GenInv, RunsFollow, Stage, Runs
<1>11. ASSUME NEW s \in Runs PROVE BossInv(s)' /\ Comparable(cache[s])'
  <2>1. BossInv(s) /\ Comparable(cache[s])
    BY DEF GenInv
  <2>2. CASE s = r
    <3>1. Stage(r)' = stage /\ cache' = cache /\ unit'[r] = unit[r] + 1
      BY <1>1, <1>4, <1>6 DEF Stage
    <3>2. /\ stage = "fanout" => unit[r] + 1 <= Units
          /\ stage = "audit" => unit[r] + 1 = Units + 1
      BY <1>3, <1>5, UnitsNat DEF stage
    <3>3. BossInv(r)'
      BY <1>3, <1>5, <3>1, <3>2 DEF BossInv, Founded, BossStages
    <3> QED
      BY <1>1, <2>1, <2>2, <3>3 DEF Comparable
  <2>3. CASE s # r
    BY <1>1, <1>4, <1>6, <2>1, <2>3 DEF BossInv, Stage, MissingFocus, Founded, Comparable
  <2> QED
    BY <2>2, <2>3
<1>12. ASSUME NEW s \in Runs, NEW j \in Builds PROVE BuildInv(s, j)'
  <2>1. BuildInv(s, j)
    BY DEF GenInv
  <2>2. CASE s = r
    BY <1>1, <1>4, <1>7, <2>1, <2>2 DEF BuildInv, Stage, Founded
  <2>3. CASE s # r
    BY <1>1, <1>4, <1>6, <2>1, <2>3 DEF BuildInv, Stage, Founded, Unit
  <2> QED
    BY <2>2, <2>3
<1>13. CurrentInv'
  BY <1>1, <1>8 DEF CurrentInv, Continues
<1>14. StoredInv'
  <2>1. PICK u \in 0..Units : /\ WholeUpTo(u) /\ unit[r] <= u + 1
    BY <1>1, <1>8 DEF GenInv, StoredInv
  <2>2. \A i \in Builds : cache[r].built[i].saved <=> rows.built[i].saved \/ i \in Unit(unit[r])
    <3>1. Continues(rows, cache[r], "gather", Unit(unit[r]))
      BY <1>1, <1>8 DEF GenInv, CurrentInv
    <3>2. \A i \in Builds : i \in Unit(unit[r]) => cache[r].built[i].saved
      BY <1>1 DEF GenInv, BuildInv
    <3> QED
      BY <3>1, <3>2 DEF Continues
  <2>3. Unit(unit[r]) \subseteq Builds
    BY <1>5, UnitsOfBuilds, UnitsNat
  <2> DEFINE Saved(c) == {i \in Builds : c.built[i].saved}
             UpTo(v) == UNION {Unit(w) : w \in 1..v}
  <2>4. Saved(cache[r]) = UpTo(u) \union Unit(unit[r])
    BY <2>1, <2>2, <2>3 DEF WholeUpTo
  <2>5. CASE unit[r] <= u
    <3>1. Saved(cache[r]) = UpTo(u)
      BY <1>5, <2>1, <2>4, <2>5
    <3>2. WholeUpTo(u)'
      BY <1>1, <1>5, <3>1 DEF WholeUpTo, Founded, Unit
    <3> QED
      BY <1>5, <1>6, <1>8, <1>1, <2>5, <3>2 DEF StoredInv
  <2>6. CASE unit[r] = u + 1
    <3>1. u + 1 \in 0..Units /\ 1..(u + 1) = (1..u) \union {u + 1}
      BY <1>5, <2>6, UnitsNat
    <3>2. UpTo(u + 1) = UpTo(u) \union Unit(u + 1)
      BY <3>1
    <3>3. Saved(cache[r]) = UpTo(u + 1)
      BY <2>4, <2>6, <3>2
    <3>4. WholeUpTo(u + 1)'
      BY <1>1, <1>5, <3>3 DEF WholeUpTo, Founded, Unit
    <3>5. unit'[r] <= (u + 1) + 1
      BY <1>6, <2>6
    <3> QED
      BY <1>8, <1>1, <3>1, <3>4, <3>5 DEF StoredInv
  <2> QED
    BY <1>5, <2>1, <2>5, <2>6, UnitsNat
<1>15. ReviewIsAsked'
  BY <1>1, <1>3, <1>4 DEF GenInv, ReviewIsAsked
<1>16. Comparable(rows)'
  BY <1>1 DEF GenInv, Comparable
<1> QED
  BY <1>9, <1>10, <1>11, <1>12, <1>13, <1>14, <1>15, <1>16 DEF GenInv

\* What the main coroutine does first depends on the checkpoints only.
LEMMA Tier1Stages ==
    ASSUME NEW c
    PROVE  /\ TaskLike(Tier1(c)) /\ Tier1(c).at \in {"foundation", "focus", "fanout"}
           /\ Tier1(c).at = "fanout" => Founded(c)
           /\ Tier1(c).at = "focus" => c.foundation.saved /\ MissingFocus(c) # {}
  BY AtLike DEF Tier1, Founded, MissingFocus

\* A run begins with what is in the database.
LEMMA StartRunStep ==
    ASSUME GenInv, NEW r \in Runs, StartRun(r) PROVE GenInv'
<1>1. /\ r = runs + 1 /\ runs' = r /\ cache' = [cache EXCEPT ![r] = rows]
      /\ task' = [task EXCEPT ![Boss(r)] = Tier1(rows)]
      /\ UNCHANGED <<unit, rows, review>> /\ (runs > 0 => Stage(runs) = "raised")
  BY DEF StartRun, Hydrated, Set, Stage
<1>2. PICK x : x = Tier1(rows)
  OBVIOUS
<1>3. /\ TaskLike(x) /\ x.at \in {"foundation", "focus", "fanout"}
      /\ x.at = "fanout" => Founded(rows)
      /\ x.at = "focus" => rows.foundation.saved /\ MissingFocus(rows) # {}
  BY <1>2, Tier1Stages
<1>4. /\ task'[Boss(r)].at = x.at /\ \A t \in Tasks : t # Boss(r) => task'[t] = task[t]
      /\ task' = [t \in Tasks |-> task'[t]] /\ \A t \in Tasks : TaskLike(task'[t])
      /\ \A s \in Runs : s # r => task'[Boss(s)] = task[Boss(s)]
      /\ \A s \in Runs, i \in Builds : task'[<<s, i>>] = task[<<s, i>>]
  BY <1>1, <1>2, <1>3, TaskIds, SMTT(30) DEF GenInv, Shapes
<1>5. /\ cache'[r] = rows /\ \A s \in Runs : s # r => cache'[s] = cache[s]
      /\ cache' = [s \in Runs |-> cache'[s]]
  BY <1>1 DEF GenInv, Shapes
<1>6. /\ unit[r] = 1 /\ runs \in 0..MaxRuns /\ r > runs
      /\ \A i \in Builds : task[<<r, i>>].at = "absent"
  BY <1>1 DEF GenInv, RunsFollow, Shapes
<1>7. Shapes'
  BY <1>1, <1>4, <1>5 DEF GenInv, Shapes, Runs
<1>8. RunsFollow'
  <2>1. \A s \in Runs, j \in Builds \union {Main} : s # r => task'[<<s, j>>] = task[<<s, j>>]
    BY <1>4 DEF Tasks, Boss
  <2>2. ASSUME NEW s \in Runs, s < r PROVE Stage(s) = "raised" /\ s # r
    <3>1. s < runs \/ s = runs
      BY <1>1, <1>6, <2>2 DEF Runs
    <3> QED
      BY <1>1, <2>2, <3>1 DEF GenInv, RunsFollow, Runs
  <2>3. \A s \in Runs : s > r => s > runs /\ s # r
    BY <1>1, <1>6 DEF Runs
  <2> QED
    BY <1>1, <1>4, <2>1, <2>2, <2>3 DEF GenInv, RunsFollow, Stage
<1>9. ASSUME NEW s \in Runs PROVE BossInv(s)' /\ Comparable(cache[s])'
  <2>1. BossInv(s) /\ Comparable(cache[s]) /\ Comparable(rows)
    BY DEF GenInv
  <2>2. CASE s = r
    <3>1. BossInv(r)'
      BY <1>1, <1>3, <1>4, <1>5, <1>6, UnitsNat DEF BossInv, Stage, Founded, BossStages, MissingFocus
    <3> QED
      BY <1>5, <2>1, <2>2, <3>1 DEF Comparable
  <2>3. CASE s # r
    BY <1>1, <1>4, <1>5, <2>1, <2>3 DEF BossInv, Stage, MissingFocus, Founded, Comparable
  <2> QED
    BY <2>2, <2>3
<1>10. ASSUME NEW s \in Runs, NEW j \in Builds PROVE BuildInv(s, j)'
  <2>1. BuildInv(s, j)
    BY DEF GenInv
  <2>2. CASE s = r
    BY <1>4, <1>6, <2>2 DEF BuildInv, BuildStages, Making, CallStages, Active
  <2>3. CASE s # r
    BY <1>1, <1>4, <1>5, <2>1, <2>3 DEF BuildInv, Stage, Founded, Unit
  <2> QED
    BY <2>2, <2>3
<1>11. CurrentInv'
  BY <1>1, <1>5 DEF CurrentInv, Continues
<1>12. StoredInv'
  <2>1. PICK u \in 0..Units : WholeUpTo(u)
    BY DEF GenInv, StoredInv
  <2>2. WholeUpTo(u)' /\ unit'[r] <= u + 1
    BY <1>1, <1>6, <2>1, UnitsNat DEF WholeUpTo
  <2> QED
    BY <1>1, <2>1, <2>2 DEF StoredInv
<1>13. ReviewIsAsked'
  BY <1>1, <1>3, <1>4, <1>5 DEF GenInv, ReviewIsAsked
<1>14. Comparable(rows)'
  BY <1>1 DEF GenInv, Comparable
<1> QED
  BY <1>7, <1>8, <1>9, <1>10, <1>11, <1>12, <1>13, <1>14 DEF GenInv

-----------------------------------------------------------------------------
(* A call, which every coroutine makes alike.                              *)

LEMMA AsItIs ==
    ASSUME GenInv, NEW r \in Runs
    PROVE  /\ cache = [cache EXCEPT ![r] = cache[r]] /\ review = [review EXCEPT ![r] = review[r]]
           /\ NodesLike(cache[r]) /\ BossInv(r) /\ Comparable(cache[r])
           /\ \A i \in Builds : BuildInv(r, i)
           /\ \A t \in Tasks : TaskLike(task[t])
  BY DEF GenInv, Shapes

\* A coroutine that makes a call stays at its stage, or raises.
LEMMA StaysOrRaises ==
    ASSUME GenInv, NEW t \in Tasks, NEW x, TaskLike(x), task[t].at \in CallStages,
           task' = [task EXCEPT ![t] = x], UNCHANGED <<runs, unit, cache, rows, review>>,
           (x.at = task[t].at /\ x.focus = task[t].focus) \/ x.at = "raised"
    PROVE  GenInv'
<1>1. ASSUME NEW r \in Runs, t = Boss(r) PROVE GenInv'
  <2>1. BossInv(r) /\ Stage(r) = task[t].at
    BY <1>1, AsItIs DEF Stage
  <2>2. Stage(r) \in {"foundation", "focus", "audit", "reaudit"}
    BY <2>1 DEF BossInv, BossStages, CallStages
  <2>3. /\ x.at \in {"fanout", "audit", "reaudit", "completed"} => Founded(cache[r])
        /\ x.at = "focus" => cache[r].foundation.saved /\ MissingFocus(cache[r]) # {}
        /\ x.at \in {"foundation", "focus", "audit", "reaudit", "raised"}
        /\ x.at \in {"foundation", "focus", "fanout"} => Stage(r) \in {"foundation", "focus"}
    BY <2>1, <2>2 DEF BossInv
  <2>4. PICK c : c = cache[r]
    OBVIOUS
  <2>5. PICK asks : asks = review[r]
    OBVIOUS
  <2>6. /\ cache' = [cache EXCEPT ![r] = c] /\ review' = [review EXCEPT ![r] = asks]
        /\ task' = [task EXCEPT ![Boss(r)] = x] /\ UNCHANGED <<runs, unit, rows>>
        /\ NodesLike(c)
    BY <1>1, <2>4, <2>5, AsItIs
  <2>7. /\ x.at \in BossStages \ {"absent"} /\ x.at # "gather" /\ Stage(r) # "gather"
        /\ x.at # "completed" /\ x.at # "fanout"
        /\ x.at \in {"audit", "reaudit"} => Stage(r) \in {"audit", "reaudit"}
    BY <2>1, <2>2, <2>3 DEF BossStages
  <2>8. /\ c.built = cache[r].built /\ (cache[r].foundation.saved => c.foundation.saved)
        /\ \A k \in Kinds : cache[r].focus[k].saved => c.focus[k] = cache[r].focus[k]
        /\ x.at \in {"fanout", "audit", "reaudit", "completed"} => Founded(c)
        /\ x.at = "focus" => c.foundation.saved /\ MissingFocus(c) # {}
    BY <2>3, <2>4
  <2>9. BossMay(r, x, c, asks)
    BY <2>2, <2>3, <2>6, <2>7, <2>8 DEF BossMay
  <2> QED
    BY <2>6, <2>9, BossStep
<1>2. ASSUME NEW r \in Runs, NEW i \in Builds, t = <<r, i>> PROVE GenInv'
  <2>1. BuildInv(r, i) /\ NodesLike(cache[r]) /\ Comparable(cache[r])
    BY AsItIs
  <2>2. /\ x.at \in BuildStages \ {"absent"}
        /\ x.at \in Making => x.focus = cache[r].focus[KindOf(i)].by
        /\ x.at \in CallStages => ~cache[r].built[i].saved
        /\ x.at # "done"
        /\ cache[r].built[i].saved => cache[r].built[i].focus = cache[r].focus[KindOf(i)].by
    BY <1>2, <2>1 DEF BuildInv, BuildStages, Making, CallStages, Comparable
  <2> QED
    BY <1>2, <2>1, <2>2, BuildStep, AsItIs DEF Active
<1> QED
  BY <1>1, <1>2, TaskIds

LEMMA CallStep == ASSUME GenInv, NEW t \in Tasks, CallNext(t) PROVE GenInv'
<1>1. TaskLike(task[t])
  BY DEF GenInv, Shapes
<1>2. PICK x : x = task[t]
  OBVIOUS
<1>3. x.call # "none" => x.at \in CallStages
  BY <1>1, <1>2 DEF TaskLike
<1>4. CASE Acquire(t)
  <2>1. PICK y : y = [x EXCEPT !.call = "parse"]
    OBVIOUS
  <2>2. PICK z : z = [y EXCEPT !.attempt = 1]
    OBVIOUS
  <2>3. x.at \in CallStages /\ task' = [task EXCEPT ![t] = [x EXCEPT !.call = "parse", !.attempt = 1]]
    BY <1>2, <1>4 DEF Acquire, Set
  <2>4. TaskLike(y) /\ y.at = x.at /\ y.focus = x.focus
    BY <1>1, <1>2, <2>1, <2>3, CallChanges
  <2>5. TaskLike(z) /\ z.at = x.at /\ z.focus = x.focus
    BY <2>2, <2>4, AttemptChanges
  <2>6. z = [x EXCEPT !.call = "parse", !.attempt = 1]
    BY <2>1, <2>2
  <2> QED
    BY <1>2, <1>4, <2>3, <2>5, <2>6, StaysOrRaises DEF Acquire
<1>5. CASE BackOff(t)
  <2>1. PICK y : y = [x EXCEPT !.call = "backoff"]
    OBVIOUS
  <2>2. x.at \in CallStages /\ task' = [task EXCEPT ![t] = y]
    BY <1>2, <1>3, <1>5, <2>1 DEF BackOff, Set
  <2>3. TaskLike(y) /\ y.at = x.at /\ y.focus = x.focus
    BY <1>1, <1>2, <2>1, <2>2, CallChanges
  <2> QED
    BY <1>2, <1>5, <2>2, <2>3, StaysOrRaises DEF BackOff
<1>6. CASE Retry(t)
  <2>1. PICK y : y = [x EXCEPT !.call = "parse"]
    OBVIOUS
  <2>2. PICK z : z = [y EXCEPT !.attempt = @ + 1]
    OBVIOUS
  <2>3. x.at \in CallStages
        /\ task' = [task EXCEPT ![t] = [x EXCEPT !.call = "parse", !.attempt = @ + 1]]
    BY <1>2, <1>3, <1>6 DEF Retry, Set
  <2>4. TaskLike(y) /\ y.at = x.at /\ y.focus = x.focus
    BY <1>1, <1>2, <2>1, <2>3, CallChanges
  <2>5. TaskLike(z) /\ z.at = x.at /\ z.focus = x.focus
    BY <2>2, <2>4, AttemptChanges
  <2>6. z = [x EXCEPT !.call = "parse", !.attempt = @ + 1]
    BY <2>1, <2>2
  <2> QED
    BY <1>2, <1>6, <2>3, <2>5, <2>6, StaysOrRaises DEF Retry
<1>7. CASE Raise(t)
  <2>1. x.at \in CallStages /\ task' = [task EXCEPT ![t] = At("raised")]
    BY <1>2, <1>3, <1>7 DEF Raise, Set
  <2> QED
    BY <1>2, <1>7, <2>1, AtLike, StaysOrRaises DEF Raise
<1> QED
  BY <1>4, <1>5, <1>6, <1>7 DEF CallNext

-----------------------------------------------------------------------------
(* The steps of a build.                                                   *)

\* A build makes a step that saves nothing.
LEMMA BuildGoesOn ==
    ASSUME GenInv, NEW r \in Runs, NEW i \in Builds, NEW x, TaskLike(x),
           task[<<r, i>>].at \in Active, task' = [task EXCEPT ![<<r, i>>] = x],
           UNCHANGED <<runs, unit, cache, rows, review>>,
           x.at \in BuildStages \ {"absent"},
           x.at \in Making => x.focus = cache[r].focus[KindOf(i)].by,
           x.at \in CallStages => ~cache[r].built[i].saved,
           x.at = "done" => cache[r].built[i].saved
    PROVE  GenInv'
<1>1. PICK c : c = cache[r]
  OBVIOUS
<1>2. cache' = [cache EXCEPT ![r] = c] /\ NodesLike(c)
  BY <1>1, AsItIs
<1>3. c.built[i].saved => c.built[i].focus = c.focus[KindOf(i)].by
  BY <1>1, AsItIs DEF Comparable
<1>4. /\ c.foundation = cache[r].foundation /\ c.focus = cache[r].focus
      /\ \A j \in Builds : j # i => c.built[j] = cache[r].built[j]
      /\ cache[r].built[i].saved => c.built[i].saved
      /\ x.at \in CallStages => ~c.built[i].saved
      /\ x.at = "done" => c.built[i].saved
  BY <1>1
<1> QED
  BY <1>2, <1>3, <1>4, BuildStep

\* A build is saved with the focuses it was made for.
LEMMA BuildEnds ==
    ASSUME GenInv, NEW r \in Runs, NEW i \in Builds, NEW flagged,
           task[<<r, i>>].at \in {"judge", "close"}, Built(r, i, flagged),
           UNCHANGED <<runs, unit, rows, review>>
    PROVE  GenInv'
<1>1. PICK old : old = cache[r]
  OBVIOUS
<1>2. PICK node : node = [saved |-> TRUE, by |-> <<r, i>>, focus |-> task[<<r, i>>].focus,
                          flagged |-> flagged]
  OBVIOUS
<1>3. PICK c : c = [old EXCEPT !.built[i] = node]
  OBVIOUS
<1>4. old = [foundation |-> old.foundation, focus |-> [k \in Kinds |-> old.focus[k]],
             built |-> [j \in Builds |-> old.built[j]]]
  BY <1>1, AsItIs DEF NodesLike
<1>5. c = [foundation |-> old.foundation, focus |-> [k \in Kinds |-> old.focus[k]],
           built |-> [[j \in Builds |-> old.built[j]] EXCEPT ![i] = node]]
  BY <1>3, <1>4
<1>6. /\ NodesLike(c) /\ c.foundation = old.foundation /\ c.focus = old.focus
      /\ \A j \in Builds : j # i => c.built[j] = old.built[j]
      /\ c.built[i] = node
  BY <1>4, <1>5 DEF NodesLike
<1>7. cache' = [cache EXCEPT ![r] = c]
  <2>1. cache' = [cache EXCEPT ![r].built[i] = node]
    BY <1>2 DEF Built
  <2> QED
    BY <1>1, <1>3, <2>1 DEF GenInv, Shapes
<1>8. task' = [task EXCEPT ![<<r, i>>] = At("done")]
  BY DEF Built, Set
<1>9. PICK x : x = At("done")
  OBVIOUS
<1>10. TaskLike(x) /\ x.at = "done"
  BY <1>9, AtLike
<1>11. node.saved /\ node.focus = old.focus[KindOf(i)].by /\ task[<<r, i>>].at \in Active
  BY <1>1, <1>2, AsItIs DEF BuildInv, Making, Active, CallStages
<1>12. x.at \in BuildStages \ {"absent"} /\ x.at \notin Making /\ x.at \notin CallStages
  BY <1>10 DEF BuildStages, Making, CallStages
<1> QED
  BY <1>1, <1>6, <1>7, <1>8, <1>9, <1>10, <1>11, <1>12, BuildStep, ZenonT(40)

\* A build that has made a call goes on to the next stage of its making with
\* the focuses it has.
LEMMA BuildAdvances ==
    ASSUME GenInv, NEW r \in Runs, NEW i \in Builds, NEW x, TaskLike(x),
           task[<<r, i>>].at \in Making, x.at \in Making, x.focus = task[<<r, i>>].focus,
           task' = [task EXCEPT ![<<r, i>>] = x], UNCHANGED <<runs, unit, cache, rows, review>>
    PROVE  GenInv'
<1>1. /\ x.at \in BuildStages \ {"absent"} /\ x.at # "done"
      /\ x.focus = cache[r].focus[KindOf(i)].by /\ ~cache[r].built[i].saved
      /\ task[<<r, i>>].at \in Active
  BY AsItIs DEF BuildInv, Making, BuildStages, CallStages, Active
<1> QED
  BY <1>1, BuildGoesOn

LEMMA EnterStep ==
    ASSUME GenInv, NEW r \in Runs, NEW i \in Builds, Enter(r, i) PROVE GenInv'
<1>1. PICK stage : stage = IF cache[r].built[i].saved THEN "done" ELSE "open"
  OBVIOUS
<1>2. PICK x : x = At(stage)
  OBVIOUS
<1>3. /\ task[<<r, i>>].at \in Active /\ task' = [task EXCEPT ![<<r, i>>] = x]
      /\ UNCHANGED <<runs, unit, cache, rows, review>>
  BY <1>1, <1>2 DEF Enter, Set, Active
<1>4. TaskLike(x) /\ x.at = stage
  BY <1>2, AtLike
<1>5. /\ x.at \in BuildStages \ {"absent"} /\ x.at \notin Making
      /\ x.at \in CallStages => ~cache[r].built[i].saved
      /\ x.at = "done" => cache[r].built[i].saved
  BY <1>1, <1>4 DEF BuildStages, Making, CallStages
<1> QED
  BY <1>3, <1>4, <1>5, BuildGoesOn

\* A build that has its page takes the focuses of its round, which are there.
LEMMA OpenedStep ==
    ASSUME GenInv, NEW r \in Runs, NEW i \in Builds, Opened(r, i) PROVE GenInv'
<1>1. TaskLike(task[<<r, i>>]) /\ BuildInv(r, i) /\ task[<<r, i>>].at = "open"
  BY AsItIs, TaskIds DEF Opened, Answered
<1>2. cache[r].focus[KindOf(i)].saved
  BY <1>1, KindsOfBuilds DEF BuildInv, Founded
<1>3. PICK y : y = Next(<<r, i>>, "forge")
  OBVIOUS
<1>4. PICK by : by = cache[r].focus[KindOf(i)].by
  OBVIOUS
<1>5. PICK x : x = [y EXCEPT !.focus = by]
  OBVIOUS
<1>6. TaskLike(y) /\ y.at = "forge"
  BY <1>1, <1>3, NextLike
<1>7. TaskLike(x) /\ x.at = "forge" /\ x.focus = by
  BY <1>5, <1>6, FocusChanges
<1>8. task' = [task EXCEPT ![<<r, i>>] = x] /\ UNCHANGED <<runs, unit, cache, rows, review>>
  BY <1>2, <1>3, <1>4, <1>5 DEF Opened, Set
<1>9. /\ x.at \in BuildStages \ {"absent"} /\ x.at # "done" /\ ~cache[r].built[i].saved
      /\ task[<<r, i>>].at \in Active
  BY <1>1, <1>7 DEF BuildStages, BuildInv, CallStages, Active
<1> QED
  BY <1>4, <1>7, <1>8, <1>9, BuildGoesOn

LEMMA ForgedStep ==
    ASSUME GenInv, NEW r \in Runs, NEW i \in Builds, Forged(r, i) PROVE GenInv'
<1>1. PICK x : x = Next(<<r, i>>, "judge")
  OBVIOUS
<1>2. TaskLike(task[<<r, i>>]) /\ task[<<r, i>>].at \in Making
  BY AsItIs, TaskIds DEF Forged, Answered, Making
<1>3. TaskLike(x) /\ x.at \in Making /\ x.focus = task[<<r, i>>].focus
  BY <1>1, <1>2, NextLike DEF Making
<1>4. task' = [task EXCEPT ![<<r, i>>] = x] /\ UNCHANGED <<runs, unit, cache, rows, review>>
  BY <1>1 DEF Forged, Set
<1> QED
  BY <1>2, <1>3, <1>4, BuildAdvances

LEMMA RevisedStep ==
    ASSUME GenInv, NEW r \in Runs, NEW i \in Builds, Revised(r, i) PROVE GenInv'
<1>1. PICK y : y = Next(<<r, i>>, "judge")
  OBVIOUS
<1>2. PICK x : x = [y EXCEPT !.revision = @ + 1]
  OBVIOUS
<1>3. TaskLike(task[<<r, i>>]) /\ task[<<r, i>>].at \in Making
  BY AsItIs, TaskIds DEF Revised, Answered, Making
<1>4. TaskLike(y) /\ y.at = "judge" /\ y.focus = task[<<r, i>>].focus
  BY <1>1, <1>3, NextLike
<1>5. TaskLike(x) /\ x.at \in Making /\ x.focus = task[<<r, i>>].focus
  BY <1>2, <1>4, RevisionChanges DEF Making
<1>6. task' = [task EXCEPT ![<<r, i>>] = x] /\ UNCHANGED <<runs, unit, cache, rows, review>>
  BY <1>1, <1>2 DEF Revised, Set
<1> QED
  BY <1>3, <1>5, <1>6, BuildAdvances

\* A decision is judged: it is revised, or the next one is, or the board ends.
LEMMA JudgedStep ==
    ASSUME GenInv, NEW r \in Runs, NEW i \in Builds, NEW passed \in BOOLEAN, Judged(r, i, passed)
    PROVE  GenInv'
<1>1. /\ TaskLike(task[<<r, i>>]) /\ task[<<r, i>>].at = "judge"
      /\ task[<<r, i>>].at \in Making /\ UNCHANGED <<runs, unit, rows, review>>
  BY AsItIs, TaskIds DEF Judged, Answered, Making
<1>2. PICK flagged : flagged = Append(task[<<r, i>>].flagged, ~passed)
  OBVIOUS
<1>3. \/ Set(<<r, i>>, Next(<<r, i>>, "revise")) /\ UNCHANGED cache
      \/ /\ Set(<<r, i>>, [Next(<<r, i>>, "judge") EXCEPT !.flagged = flagged, !.revision = 0])
         /\ UNCHANGED cache
      \/ Set(<<r, i>>, [Next(<<r, i>>, "close") EXCEPT !.flagged = flagged]) /\ UNCHANGED cache
      \/ Built(r, i, flagged)
  BY <1>2 DEF Judged
<1>4. ASSUME NEW x, Set(<<r, i>>, x), UNCHANGED cache, TaskLike(x), x.at \in Making,
             x.focus = task[<<r, i>>].focus
      PROVE  GenInv'
  BY <1>1, <1>4, BuildAdvances DEF Set
<1>5. CASE Set(<<r, i>>, Next(<<r, i>>, "revise")) /\ UNCHANGED cache
  BY <1>1, <1>4, <1>5, NextLike DEF Making
<1>6. CASE /\ Set(<<r, i>>, [Next(<<r, i>>, "judge") EXCEPT !.flagged = flagged, !.revision = 0])
           /\ UNCHANGED cache
  <2>1. PICK y : y = Next(<<r, i>>, "judge")
    OBVIOUS
  <2>2. PICK z : z = [y EXCEPT !.flagged = flagged]
    OBVIOUS
  <2>3. PICK x : x = [z EXCEPT !.revision = 0]
    OBVIOUS
  <2>4. TaskLike(y) /\ y.at = "judge" /\ y.focus = task[<<r, i>>].focus
    BY <1>1, <2>1, NextLike
  <2>5. TaskLike(z) /\ z.at = "judge" /\ z.focus = task[<<r, i>>].focus
    BY <2>2, <2>4, FlaggedChanges
  <2>6. TaskLike(x) /\ x.at \in Making /\ x.focus = task[<<r, i>>].focus
    BY <2>3, <2>5, RevisionChanges DEF Making
  <2> QED
    BY <1>4, <1>6, <2>1, <2>2, <2>3, <2>6
<1>7. CASE Set(<<r, i>>, [Next(<<r, i>>, "close") EXCEPT !.flagged = flagged]) /\ UNCHANGED cache
  <2>1. PICK y : y = Next(<<r, i>>, "close")
    OBVIOUS
  <2>2. PICK x : x = [y EXCEPT !.flagged = flagged]
    OBVIOUS
  <2>3. TaskLike(y) /\ y.at = "close" /\ y.focus = task[<<r, i>>].focus
    BY <1>1, <2>1, NextLike
  <2>4. TaskLike(x) /\ x.at \in Making /\ x.focus = task[<<r, i>>].focus
    BY <2>2, <2>3, FlaggedChanges DEF Making
  <2> QED
    BY <1>4, <1>7, <2>1, <2>2, <2>4
<1>8. CASE Built(r, i, flagged)
  BY <1>1, <1>8, BuildEnds
<1> QED
  BY <1>3, <1>5, <1>6, <1>7, <1>8

LEMMA ClosedStep ==
    ASSUME GenInv, NEW r \in Runs, NEW i \in Builds, Closed(r, i) PROVE GenInv'
  BY BuildEnds DEF Closed, Answered

\* No build resolves focuses: its run has done so for every round.
LEMMA NoBuildResolves ==
    ASSUME GenInv, NEW r \in Runs, NEW i \in Builds PROVE ~ResolveFocus(r, i)
  BY AsItIs DEF ResolveFocus, Answered, BuildInv, BuildStages

LEMMA BuildNextStep ==
    ASSUME GenInv, NEW r \in Runs, NEW i \in Builds, BuildNext(r, i) PROVE GenInv'
  BY EnterStep, OpenedStep, NoBuildResolves, ForgedStep, JudgedStep, RevisedStep, ClosedStep
     DEF BuildNext

-----------------------------------------------------------------------------
(* The other steps of the main coroutine.                                  *)

LEMMA FoundationStep ==
    ASSUME GenInv, NEW r \in Runs, Foundation(r) PROVE GenInv'
<1>1. PICK old : old = cache[r]
  OBVIOUS
<1>2. PICK node : node = [saved |-> TRUE, by |-> Boss(r)]
  OBVIOUS
<1>3. PICK c : c = [old EXCEPT !.foundation = node]
  OBVIOUS
<1>4. NodesLike(old) /\ Stage(r) = "foundation"
  BY <1>1, AsItIs DEF Foundation, Answered, Stage
<1>5. c = [foundation |-> node, focus |-> [k \in Kinds |-> old.focus[k]],
           built |-> [j \in Builds |-> old.built[j]]]
  BY <1>3, <1>4 DEF NodesLike
<1>6. c.focus = old.focus /\ c.built = old.built /\ c.foundation = node /\ NodesLike(c)
  BY <1>4, <1>5 DEF NodesLike
<1>7. cache' = [cache EXCEPT ![r] = c] /\ cache'[r] = c
  BY <1>1, <1>2, <1>3 DEF Foundation, GenInv, Shapes
<1>8. PICK x : x = Tier1(c)
  OBVIOUS
<1>9. task' = [task EXCEPT ![Boss(r)] = x] /\ UNCHANGED <<runs, unit, rows, review>>
  BY <1>7, <1>8 DEF Foundation, Set
<1>10. PICK asks : asks = review[r]
  OBVIOUS
<1>11. BossMay(r, x, c, asks)
  BY <1>1, <1>2, <1>4, <1>6, <1>8, Tier1Stages DEF BossMay, BossStages
<1>12. review' = [review EXCEPT ![r] = asks]
  BY <1>9, <1>10, AsItIs
<1> QED
  BY <1>7, <1>9, <1>11, <1>12, BossStep

\* The focuses of a round are resolved only while the round has none.
LEMMA FocusStep ==
    ASSUME GenInv, NEW r \in Runs, ResolveFocus(r, Main) PROVE GenInv'
<1>1. PICK old : old = cache[r]
  OBVIOUS
<1>2. PICK k : k = IF "ind" \in MissingFocus(old) THEN "ind" ELSE "team"
  OBVIOUS
<1>3. PICK node : node = [saved |-> TRUE, by |-> <<r, Main>>]
  OBVIOUS
<1>4. PICK c : c = [old EXCEPT !.focus[k] = node]
  OBVIOUS
<1>5. NodesLike(old) /\ Stage(r) = "focus" /\ MissingFocus(old) # {} /\ old.foundation.saved
  BY <1>1, AsItIs DEF ResolveFocus, Answered, Stage, Boss, BossInv
<1>6. k \in Kinds /\ ~old.focus[k].saved
  BY <1>2, <1>5 DEF MissingFocus, Kinds
<1>7. c = [foundation |-> old.foundation,
           focus |-> [[j \in Kinds |-> old.focus[j]] EXCEPT ![k] = node],
           built |-> [j \in Builds |-> old.built[j]]]
  BY <1>4, <1>5 DEF NodesLike
<1>8. /\ c.built = old.built /\ c.foundation = old.foundation /\ NodesLike(c)
      /\ \A j \in Kinds : j # k => c.focus[j] = old.focus[j]
  BY <1>5, <1>6, <1>7 DEF NodesLike
<1>9. \A j \in Kinds : old.focus[j].saved => c.focus[j] = old.focus[j]
  BY <1>6, <1>8
<1>10. cache' = [cache EXCEPT ![r] = c] /\ cache'[r] = c
  <2>1. cache' = [cache EXCEPT ![r].focus[k] = node]
    BY <1>1, <1>2, <1>3 DEF ResolveFocus
  <2> QED
    BY <1>1, <1>4, <2>1 DEF GenInv, Shapes
<1>11. PICK x : x = Tier1(c)
  OBVIOUS
<1>12. task' = [task EXCEPT ![Boss(r)] = x] /\ UNCHANGED <<runs, unit, rows, review>>
  BY <1>10, <1>11 DEF ResolveFocus, Set, Boss
<1>13. PICK asks : asks = review[r]
  OBVIOUS
<1>14. BossMay(r, x, c, asks)
  BY <1>1, <1>5, <1>8, <1>9, <1>11, Tier1Stages DEF BossMay, BossStages
<1>15. review' = [review EXCEPT ![r] = asks]
  BY <1>12, <1>13, AsItIs
<1> QED
  BY <1>10, <1>12, <1>14, <1>15, BossStep

\* The main coroutine changes no checkpoint, and is audited or ends.
LEMMA BossGoesOn ==
    ASSUME GenInv, NEW r \in Runs, NEW x, NEW asks, TaskLike(x),
           \/ Stage(r) \in {"gather", "audit", "reaudit"} /\ x.at = "raised"
           \/ /\ Stage(r) \in {"audit", "reaudit"} /\ x.at \in {"reaudit", "completed"}
              /\ x.at = "completed" /\ ~asks =>
                   \A i \in Builds : \A d \in 1..BoardSize : ~cache[r].built[i].flagged[d],
           task' = [task EXCEPT ![Boss(r)] = x], review' = [review EXCEPT ![r] = asks],
           UNCHANGED <<runs, unit, cache, rows>>
    PROVE  GenInv'
<1>1. PICK c : c = cache[r]
  OBVIOUS
<1>2. cache' = [cache EXCEPT ![r] = c] /\ NodesLike(c) /\ BossInv(r)
  BY <1>1, AsItIs
<1>3. BossMay(r, x, c, asks)
  BY <1>1, <1>2 DEF BossMay, BossInv, BossStages
<1> QED
  BY <1>2, <1>3, BossStep

LEMMA UnitRaisesStep ==
    ASSUME GenInv, NEW r \in Runs, UnitRaises(r) PROVE GenInv'
<1>1. PICK x : x = At("raised")
  OBVIOUS
<1>2. PICK asks : asks = review[r]
  OBVIOUS
<1>3. /\ Stage(r) = "gather" /\ task' = [task EXCEPT ![Boss(r)] = x]
      /\ UNCHANGED <<runs, unit, cache, rows, review>> /\ TaskLike(x) /\ x.at = "raised"
  BY <1>1, AtLike DEF UnitRaises, Set, Stage, LeftBehind
<1>4. review' = [review EXCEPT ![r] = asks]
  BY <1>2, <1>3, AsItIs
<1> QED
  BY <1>3, <1>4, BossGoesOn

\* A run that completes asks for a review of any flag in its checkpoints.
LEMMA ReduceStep ==
    ASSUME GenInv, NEW r \in Runs, NEW contradictions \in BOOLEAN, Reduce(r, contradictions),
           Stage(r) \in {"audit", "reaudit"}, UNCHANGED <<runs, unit, cache, rows>>
    PROVE  GenInv'
<1>1. CASE /\ Set(Boss(r), At("completed"))
           /\ \E editorial \in BOOLEAN :
                 review' = [review EXCEPT ![r] = Flags(r) # {} \/ contradictions \/ editorial]
  <2>1. PICK editorial \in BOOLEAN :
           review' = [review EXCEPT ![r] = Flags(r) # {} \/ contradictions \/ editorial]
    BY <1>1
  <2>2. PICK asks : asks = (Flags(r) # {} \/ contradictions \/ editorial)
    OBVIOUS
  <2>3. ~asks => \A i \in Builds : \A d \in 1..BoardSize : ~cache[r].built[i].flagged[d]
    BY <2>2 DEF Flags
  <2>4. PICK x : x = At("completed")
    OBVIOUS
  <2>5. TaskLike(x) /\ x.at = "completed" /\ task' = [task EXCEPT ![Boss(r)] = x]
    BY <1>1, <2>4, AtLike DEF Set
  <2>6. review' = [review EXCEPT ![r] = asks]
    BY <2>1, <2>2
  <2> QED
    BY <2>3, <2>5, <2>6, BossGoesOn
<1>2. CASE Set(Boss(r), At("raised")) /\ UNCHANGED review
  <2>1. PICK x : x = At("raised")
    OBVIOUS
  <2>2. PICK asks : asks = review[r]
    OBVIOUS
  <2>3. /\ TaskLike(x) /\ x.at = "raised" /\ task' = [task EXCEPT ![Boss(r)] = x]
        /\ review' = [review EXCEPT ![r] = asks]
    BY <1>2, <2>1, <2>2, AtLike, AsItIs DEF Set
  <2> QED
    BY <2>3, BossGoesOn
<1> QED
  BY <1>1, <1>2 DEF Reduce

LEMMA AuditedStep ==
    ASSUME GenInv, NEW r \in Runs, NEW contradictions \in BOOLEAN, Audited(r, contradictions)
    PROVE  GenInv'
<1>1. Stage(r) \in {"audit", "reaudit"} /\ UNCHANGED <<runs, unit, cache, rows>>
  BY DEF Audited, Answered, Stage
<1>2. CASE Set(Boss(r), At("reaudit")) /\ UNCHANGED review
  <2>1. PICK x : x = At("reaudit")
    OBVIOUS
  <2>2. PICK asks : asks = review[r]
    OBVIOUS
  <2>3. /\ TaskLike(x) /\ x.at = "reaudit" /\ task' = [task EXCEPT ![Boss(r)] = x]
        /\ review' = [review EXCEPT ![r] = asks]
    BY <1>2, <2>1, <2>2, AtLike, AsItIs DEF Set
  <2> QED
    BY <1>1, <2>3, BossGoesOn
<1>3. CASE \E again \in BOOLEAN : Reduce(r, again)
  BY <1>1, <1>3, ReduceStep
<1> QED
  BY <1>2, <1>3 DEF Audited

LEMMA GenInvNext == GenInv /\ [GenNext]_vars => GenInv'
<1> SUFFICES ASSUME GenInv, [GenNext]_vars PROVE GenInv'
  OBVIOUS
<1>1. CASE \E t \in Tasks : CallNext(t)
  BY <1>1, CallStep
<1>2. CASE \E r \in Runs : MainNext(r)
  BY <1>2, FoundationStep, FocusStep, GatherStep, UnitDoneStep, UnitRaisesStep, AuditedStep
     DEF MainNext
<1>3. CASE \E r \in Runs : \E i \in Builds : BuildNext(r, i)
  BY <1>3, BuildNextStep
<1>4. CASE \E r \in Runs : StartRun(r)
  BY <1>4, StartRunStep
<1>5. CASE UNCHANGED vars
  <2>1. \A r \in Runs : Stage(r)' = Stage(r)
    BY <1>5 DEF vars, Stage
  <2>2. Shapes' /\ RunsFollow'
    BY <1>5, <2>1 DEF vars, GenInv, Shapes, RunsFollow
  <2>3. ASSUME NEW r \in Runs PROVE BossInv(r)' /\ Comparable(cache[r])'
    BY <1>5, <2>1, AsItIs DEF vars, BossInv, Comparable, Founded, MissingFocus
  <2>4. ASSUME NEW r \in Runs, NEW i \in Builds PROVE BuildInv(r, i)'
    BY <1>5, <2>1, AsItIs DEF vars, BuildInv, Founded, Unit
  <2>5. CurrentInv'
    BY <1>5, <2>1 DEF vars, GenInv, CurrentInv, Continues, Unit
  <2>6. StoredInv'
    <3>1. PICK u \in 0..Units :
             /\ WholeUpTo(u)
             /\ \A r \in Runs : r = runs /\ Stage(r) # "raised" => unit[r] <= u + 1
      BY DEF GenInv, StoredInv
    <3>2. WholeUpTo(u)'
      BY <1>5, <3>1 DEF vars, WholeUpTo
    <3> QED
      BY <1>5, <2>1, <3>1, <3>2 DEF vars, StoredInv
  <2>7. Comparable(rows)' /\ ReviewIsAsked'
    BY <1>5 DEF vars, GenInv, Comparable, ReviewIsAsked
  <2> QED
    BY <2>2, <2>3, <2>4, <2>5, <2>6, <2>7 DEF GenInv
<1> QED
  BY <1>1, <1>2, <1>3, <1>4, <1>5 DEF GenNext, Work

LEMMA GenInvAlways == GenSpec => []GenInv
<1> QED
  BY GenInvInit, GenInvNext, PTL DEF GenSpec

-----------------------------------------------------------------------------
(* What the invariant says of a run and of what it leaves to the next.     *)

\* All boards of a round are made for the same focuses: resolve_focuses runs
\* in the main coroutine before the fan-out, and a build left behind by a
\* failed run writes to the checkpointer of that run only.
THEOREM BoardsStayComparable == GenSpec => []BoardsAreComparable
<1>1. GenInv => BoardsAreComparable
  BY DEF GenInv, Comparable, BoardsAreComparable
<1> QED
  BY <1>1, GenInvAlways, PTL

\* The rows are written when a wave is done and at no other time, so what a
\* run resumes from is a number of whole waves and teams, and what they were
\* made from: no build of a wave that failed is among them.
THEOREM WavesStayWhole == GenSpec => []WavesAreWhole
<1>1. GenInv => WavesAreWhole
  BY DEF GenInv, StoredInv, WholeUpTo, Founded, WavesAreWhole
<1> QED
  BY <1>1, GenInvAlways, PTL

\* A run that completes without asking for a review has no decision that was
\* saved unpassed, whichever run saved it: the flags are read from the
\* checkpoints, and no build changes those of a run that has completed.
THEOREM ReviewsAreAsked == GenSpec => []ReviewIsAsked
<1>1. GenInv => ReviewIsAsked
  BY DEF GenInv
<1> QED
  BY <1>1, GenInvAlways, PTL

\* The current run makes no call for a build it has found in the database: it
\* begins with every row, and a build looks for its checkpoint once it is let
\* in.
THEOREM NothingIsTwice == GenSpec => []NothingTwice
<1>1. GenInv => NothingTwice
  <2> SUFFICES ASSUME GenInv, NEW i \in Builds, runs > 0, task[<<runs, i>>].at \in CallStages
               PROVE  ~rows.built[i].saved
    BY DEF NothingTwice
  <2>1. runs \in Runs
    BY GenerationAssumption DEF GenInv, Shapes, Runs
  <2>2. Continues(rows, cache[runs], Stage(runs), Unit(unit[runs])) /\ BuildInv(runs, i)
    BY <2>1 DEF GenInv, CurrentInv
  <2> QED
    BY <2>2 DEF Continues, BuildInv
<1> QED
  BY <1>1, GenInvAlways, PTL
-----------------------------------------------------------------------------
(* A generation is a stream of waves and teams.                            *)

StreamNext == Stream!Begin \/ Stream!Commit \/ Stream!Fail \/ Stream!Finish

LEMMA CurrentRun ==
    ASSUME GenInv, NEW r \in Runs, Stage(r) \notin {"absent", "raised"} PROVE r = runs
<1>1. ~(r < runs)
  BY DEF GenInv, RunsFollow
<1>2. ~(r > runs)
  BY DEF GenInv, RunsFollow, Stage, Boss
<1> QED
  BY <1>1, <1>2 DEF GenInv, Shapes, Runs

\* A step that leaves the rows and the phase alone is none of the stream.
LEMMA NoneOfTheStream ==
    ASSUME UNCHANGED <<runs, unit, rows>>, Phase' = Phase PROVE UNCHANGED Stream!streamVars
<1>1. runs' = runs /\ unit' = unit /\ rows' = rows
  OBVIOUS
<1> QED
  BY <1>1 DEF Stream!streamVars

\* What the main coroutine of the current run comes to.
LEMMA PhaseFollows ==
    ASSUME GenInv, NEW r \in Runs, NEW x, Stage(r) \notin {"absent", "raised", "completed"},
           task' = [task EXCEPT ![Boss(r)] = x], UNCHANGED runs
    PROVE  /\ r = runs /\ runs # 0 /\ Phase = "running"
           /\ Phase' = IF x.at = "raised" THEN "failed"
                       ELSE IF x.at = "completed" THEN "completed" ELSE "running"
<1>1. r = runs /\ r # 0 /\ Boss(r) \in Tasks
  BY CurrentRun, TaskIds DEF Runs
<1>2. task'[Boss(r)] = x
  BY <1>1 DEF GenInv, Shapes
<1> QED
  BY <1>1, <1>2 DEF Phase, Stage

\* A run that raises fails the stream, and one that goes on is none of it.
LEMMA FailsOrGoesOn ==
    ASSUME GenInv, NEW r \in Runs, NEW x, Stage(r) \notin {"absent", "raised", "completed"},
           x.at # "completed", task' = [task EXCEPT ![Boss(r)] = x], UNCHANGED <<runs, unit, rows>>
    PROVE  [StreamNext]_Stream!streamVars
<1>1. runs' = runs /\ unit' = unit /\ rows' = rows
  OBVIOUS
<1>2. /\ Phase = "running"
      /\ Phase' = IF x.at = "raised" THEN "failed"
                  ELSE IF x.at = "completed" THEN "completed" ELSE "running"
  BY <1>1, PhaseFollows
<1>3. CASE x.at = "raised"
  <2>1. Phase' = "failed"
    BY <1>2, <1>3
  <2>2. Stream!Fail
    BY <1>1, <1>2, <2>1 DEF Stream!Fail
  <2> QED
    BY <2>2 DEF StreamNext
<1>4. CASE x.at # "raised"
  BY <1>1, <1>2, <1>4, NoneOfTheStream
<1> QED
  BY <1>3, <1>4

\* The builds are none of the stream, whichever run they belong to.
LEMMA BuildsAreSilent ==
    ASSUME GenInv, NEW r \in Runs, NEW i \in Builds, NEW x,
           task' = [task EXCEPT ![<<r, i>>] = x], UNCHANGED <<runs, unit, rows>>
    PROVE  [StreamNext]_Stream!streamVars
<1>1. runs' = runs /\ unit' = unit /\ rows' = rows
  OBVIOUS
<1>2. runs # 0 => Boss(runs) \in Tasks /\ Boss(runs) # <<r, i>>
  <2>1. runs # 0 => runs \in Runs
    BY GenerationAssumption DEF GenInv, Shapes, Runs
  <2> QED
    BY <2>1, TaskIds
<1>3. runs # 0 => task'[Boss(runs)] = task[Boss(runs)]
  BY <1>2 DEF GenInv, Shapes
<1>4. Phase' = Phase
  BY <1>1, <1>3 DEF Phase
<1> QED
  BY <1>1, <1>4, NoneOfTheStream

LEMMA CallIsSilent ==
    ASSUME GenInv, NEW t \in Tasks, CallNext(t) PROVE [StreamNext]_Stream!streamVars
<1>1. TaskLike(task[t])
  BY DEF GenInv, Shapes
<1>2. PICK x : x = task[t]
  OBVIOUS
<1>3. x.call # "none" => x.at \in CallStages
  BY <1>1, <1>2 DEF TaskLike
<1>4. x = [at |-> x.at, call |-> x.call, attempt |-> x.attempt, focus |-> x.focus,
           flagged |-> x.flagged, revision |-> x.revision]
  BY <1>1, <1>2 DEF TaskLike
<1>5. PICK y : /\ task' = [task EXCEPT ![t] = y] /\ UNCHANGED <<runs, unit, rows>>
               /\ x.at \in CallStages /\ (y.at = x.at \/ y.at = "raised")
  <2>1. CASE Acquire(t)
    <3>1. [x EXCEPT !.call = "parse", !.attempt = 1].at = x.at
      BY <1>4
    <3> QED
      BY <1>2, <2>1, <3>1 DEF Acquire, Set
  <2>2. CASE BackOff(t)
    <3>1. [x EXCEPT !.call = "backoff"].at = x.at
      BY <1>4
    <3> QED
      BY <1>2, <1>3, <2>2, <3>1 DEF BackOff, Set
  <2>3. CASE Retry(t)
    <3>1. [x EXCEPT !.call = "parse", !.attempt = @ + 1].at = x.at
      BY <1>4
    <3> QED
      BY <1>2, <1>3, <2>3, <3>1 DEF Retry, Set
  <2>4. CASE Raise(t)
    <3>1. At("raised").at = "raised"
      BY AtLike
    <3> QED
      BY <1>2, <1>3, <2>4, <3>1 DEF Raise, Set
  <2> QED
    BY <2>1, <2>2, <2>3, <2>4 DEF CallNext
<1>6. ASSUME NEW r \in Runs, t = Boss(r) PROVE [StreamNext]_Stream!streamVars
  BY <1>2, <1>5, <1>6, FailsOrGoesOn DEF Stage, CallStages
<1>7. ASSUME NEW r \in Runs, NEW i \in Builds, t = <<r, i>> PROVE [StreamNext]_Stream!streamVars
  BY <1>5, <1>7, BuildsAreSilent
<1> QED
  BY <1>6, <1>7, TaskIds

LEMMA BuildIsSilent ==
    ASSUME GenInv, NEW r \in Runs, NEW i \in Builds, BuildNext(r, i)
    PROVE  [StreamNext]_Stream!streamVars
<1>1. PICK x : task' = [task EXCEPT ![<<r, i>>] = x] /\ UNCHANGED <<runs, unit, rows>>
  <2>1. CASE Enter(r, i) \/ Opened(r, i) \/ ResolveFocus(r, i) \/ Forged(r, i)
    BY <2>1 DEF Enter, Opened, ResolveFocus, Forged, Set
  <2>2. CASE \E passed \in BOOLEAN : Judged(r, i, passed)
    BY <2>2 DEF Judged, Built, Set
  <2>3. CASE Revised(r, i) \/ Closed(r, i)
    BY <2>3 DEF Revised, Closed, Built, Set
  <2> QED
    BY <2>1, <2>2, <2>3 DEF BuildNext
<1> QED
  BY <1>1, BuildsAreSilent

\* A wave that is done is committed.
LEMMA UnitDoneCommits ==
    ASSUME GenInv, NEW r \in Runs, UnitDone(r) PROVE Stream!Commit
<1>1. /\ Stage(r) = "gather" /\ rows' = cache[r] /\ unit' = [unit EXCEPT ![r] = unit[r] + 1]
      /\ \A i \in Unit(unit[r]) : task[<<r, i>>].at = "done"
      /\ UNCHANGED runs
  BY DEF UnitDone, Stage
<1>2. PICK x : x = At(IF unit[r] = Units THEN "audit" ELSE "fanout")
  OBVIOUS
<1>3. task' = [task EXCEPT ![Boss(r)] = x] /\ x.at \in {"audit", "fanout"}
  BY <1>2, AtLike DEF UnitDone, Set
<1>4. r = runs /\ runs # 0 /\ Phase = "running" /\ Phase' = "running"
  BY <1>1, <1>3, PhaseFollows
<1>5. unit[r] \in 1..Units
  <2>1. BossInv(r) /\ unit[r] \in 1..(Units + 1)
    BY DEF GenInv, Shapes
  <2> QED
    BY <1>1, <2>1, UnitsNat DEF BossInv
<1>6. unit'[runs'] = unit[r] + 1 /\ runs' # 0
  BY <1>1, <1>4 DEF GenInv, Shapes
<1>7. \A i \in Builds : cache[r].built[i].saved <=> rows.built[i].saved \/ i \in Unit(unit[r])
  <2>1. Continues(rows, cache[r], "gather", Unit(unit[r]))
    BY <1>1, <1>4 DEF GenInv, CurrentInv
  <2>2. \A i \in Builds : i \in Unit(unit[r]) => cache[r].built[i].saved
    BY <1>1 DEF GenInv, BuildInv
  <2> QED
    BY <2>1, <2>2 DEF Continues
<1>8. Unit(unit[r]) \subseteq Builds
  BY <1>5, UnitsOfBuilds
<1>9. {i \in Builds : rows'.built[i].saved}
        = {i \in Builds : rows.built[i].saved} \union Unit(unit[r])
  BY <1>1, <1>7, <1>8
<1>10. [u \in 1..Units |-> Unit(u)][unit[r] - 1 + 1] = Unit(unit[r])
  BY <1>5
<1> QED
  BY <1>4, <1>5, <1>6, <1>9, <1>10, UnitsNat DEF Stream!Commit

\* A run begins the stream again, with what is stored.
LEMMA StartRunBegins ==
    ASSUME GenInv, NEW r \in Runs, StartRun(r) PROVE Stream!Begin
<1>1. /\ r = runs + 1 /\ runs' = r /\ task' = [task EXCEPT ![Boss(r)] = Tier1(rows)]
      /\ unit' = unit /\ rows' = rows /\ (runs > 0 => Stage(runs) = "raised")
  BY DEF StartRun, Hydrated, Set, Stage
<1>2. runs \in 0..MaxRuns /\ r \in Nat /\ r # 0 /\ r > runs /\ Boss(r) \in Tasks
  <2>1. MaxRuns \in Nat /\ runs \in 0..MaxRuns
    BY GenerationAssumption DEF GenInv, Shapes
  <2>2. r \in Nat /\ r # 0 /\ r > runs
    BY <1>1, <2>1
  <2> QED
    BY <2>1, <2>2, TaskIds
<1>3. Phase \in {"idle", "failed"}
  BY <1>1, <1>2 DEF Phase, Stage
<1>4. unit[r] = 1
  BY <1>2 DEF GenInv, RunsFollow
<1>5. task'[Boss(r)].at \in {"foundation", "focus", "fanout"}
  BY <1>1, <1>2, Tier1Stages DEF GenInv, Shapes
<1>6. Phase' = "running"
  BY <1>1, <1>2, <1>5 DEF Phase
<1>7. (IF runs' = 0 THEN 0 ELSE unit'[runs'] - 1) = 0
  BY <1>1, <1>2, <1>4
<1> QED
  BY <1>1, <1>3, <1>6, <1>7 DEF Stream!Begin

\* A run ends well with every wave and team behind it.
LEMMA ReduceFinishes ==
    ASSUME GenInv, NEW r \in Runs, NEW contradictions, Reduce(r, contradictions),
           Stage(r) \in {"audit", "reaudit"}, UNCHANGED <<runs, unit, cache, rows>>
    PROVE  [StreamNext]_Stream!streamVars
<1>1. CASE Set(Boss(r), At("completed"))
  <2>1. PICK x : x = At("completed")
    OBVIOUS
  <2>2. x.at = "completed" /\ task' = [task EXCEPT ![Boss(r)] = x]
    BY <1>1, <2>1, AtLike DEF Set
  <2>3. r = runs /\ runs # 0 /\ Phase = "running" /\ Phase' = "completed"
    BY <2>2, PhaseFollows
  <2>4. unit[r] = Units + 1
    BY DEF GenInv, BossInv
  <2>5. runs' = runs /\ unit' = unit /\ rows' = rows
    OBVIOUS
  <2>6. Stream!Finish
    BY <2>3, <2>4, <2>5, UnitsNat DEF Stream!Finish
  <2> QED
    BY <2>6 DEF StreamNext
<1>2. CASE Set(Boss(r), At("raised"))
  <2>1. PICK x : x = At("raised")
    OBVIOUS
  <2>2. x.at = "raised" /\ task' = [task EXCEPT ![Boss(r)] = x]
    BY <1>2, <2>1, AtLike DEF Set
  <2> QED
    BY <2>2, FailsOrGoesOn
<1> QED
  BY <1>1, <1>2 DEF Reduce

LEMMA MainStreams ==
    ASSUME GenInv, NEW r \in Runs, MainNext(r) PROVE [StreamNext]_Stream!streamVars
<1>1. CASE Foundation(r) \/ ResolveFocus(r, Main)
  <2>1. PICK x : x = Tier1(cache'[r])
    OBVIOUS
  <2>2. x.at # "completed"
    BY <2>1, Tier1Stages
  <2>3. /\ Stage(r) \in {"foundation", "focus"} /\ task' = [task EXCEPT ![Boss(r)] = x]
        /\ UNCHANGED <<runs, unit, rows>>
    BY <1>1, <2>1 DEF Foundation, ResolveFocus, Answered, Set, Stage, Boss
  <2> QED
    BY <2>2, <2>3, FailsOrGoesOn
<1>2. CASE Gather(r)
  <2>1. /\ Stage(r) = "fanout" /\ runs' = runs /\ unit' = unit /\ rows' = rows
        /\ task'[Boss(r)] = At("gather")
    BY <1>2, TaskIds DEF Gather, Stage
  <2>2. task'[Boss(r)].at = "gather"
    BY <2>1, AtLike
  <2>3. r = runs
    BY <2>1, CurrentRun
  <2>4. Phase' = Phase
    BY <2>1, <2>2, <2>3 DEF Phase, Stage
  <2> QED
    BY <2>1, <2>4, NoneOfTheStream
<1>3. CASE UnitDone(r)
  BY <1>3, UnitDoneCommits DEF StreamNext
<1>4. CASE UnitRaises(r)
  <2>1. PICK x : x = At("raised")
    OBVIOUS
  <2>2. x.at = "raised" /\ Stage(r) = "gather" /\ task' = [task EXCEPT ![Boss(r)] = x]
        /\ UNCHANGED <<runs, unit, rows>>
    BY <1>4, <2>1, AtLike DEF UnitRaises, Set, Stage, LeftBehind
  <2> QED
    BY <2>2, FailsOrGoesOn
<1>5. ASSUME NEW contradictions \in BOOLEAN, Audited(r, contradictions)
      PROVE  [StreamNext]_Stream!streamVars
  <2>1. Stage(r) \in {"audit", "reaudit"} /\ UNCHANGED <<runs, unit, cache, rows>>
    BY <1>5 DEF Audited, Answered, Stage
  <2>2. CASE Set(Boss(r), At("reaudit"))
    <3>1. PICK x : x = At("reaudit")
      OBVIOUS
    <3>2. x.at = "reaudit" /\ task' = [task EXCEPT ![Boss(r)] = x]
      BY <2>2, <3>1, AtLike DEF Set
    <3> QED
      BY <2>1, <3>2, FailsOrGoesOn
  <2>3. CASE \E again \in BOOLEAN : Reduce(r, again)
    BY <2>1, <2>3, ReduceFinishes
  <2> QED
    BY <1>5, <2>2, <2>3 DEF Audited
<1> QED
  BY <1>1, <1>2, <1>3, <1>4, <1>5 DEF MainNext

\* A generation is the stream of waves and teams that the runner takes it for:
\* a run begins it again with what is stored, the rows grow by one wave or
\* team when gather returns and at no other step, a failure leaves them as they
\* are, and a run completes with all of them behind it.  What the builds do in
\* between, those of the run and those a failed run has left, is none of it.
THEOREM WavesAreStreamed == GenSpec => KeepsStream
<1>1. Init => Stream!StreamInit
  BY DEF Init, NoNodes, NoNode, Phase, Stream!StreamInit
<1>2. GenInv /\ [GenNext]_vars => [StreamNext]_Stream!streamVars
  <2> SUFFICES ASSUME GenInv, [GenNext]_vars PROVE [StreamNext]_Stream!streamVars
    OBVIOUS
  <2>1. CASE \E t \in Tasks : CallNext(t)
    BY <2>1, CallIsSilent
  <2>2. CASE \E r \in Runs : MainNext(r)
    BY <2>2, MainStreams
  <2>3. CASE \E r \in Runs : \E i \in Builds : BuildNext(r, i)
    BY <2>3, BuildIsSilent
  <2>4. CASE \E r \in Runs : StartRun(r)
    BY <2>4, StartRunBegins DEF StreamNext
  <2>5. CASE UNCHANGED vars
    <3>1. UNCHANGED <<runs, unit, rows>> /\ Phase' = Phase
      BY <2>5 DEF vars, Phase
    <3> QED
      BY <3>1, NoneOfTheStream
  <2> QED
    BY <2>1, <2>2, <2>3, <2>4, <2>5 DEF GenNext, Work
<1> QED
  BY <1>1, <1>2, GenInvAlways, PTL DEF GenSpec, KeepsStream, Stream!StreamSpec, StreamNext
=============================================================================
