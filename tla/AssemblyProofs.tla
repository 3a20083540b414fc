---------------------------- MODULE AssemblyProofs ----------------------------
(***************************************************************************)
(* What the document of a version has, for every set of inputs and seeds,  *)
(* every size of a board, and any number of runs, failures and revisions.  *)
(***************************************************************************)
EXTENDS Assembly, TLAPS

-----------------------------------------------------------------------------
(* Inputs and revisions.                                                   *)

\* The fields of an input have their types, and its pool of roles is not empty.
LEMMA InputTypes ==
    ASSUME NEW i \in Inputs
    PROVE  /\ i \in InputRecords
           /\ i.frame \in Frames /\ i.roles \in Seq(Roles) /\ Len(i.roles) \in Nat \ {0}
           /\ i.count \in Nat \ {0} /\ i.size \in Nat \ {0} /\ i.names \in Nat
<1>1. i \in InputRecords /\ Len(i.roles) > 0
  BY InputsAssumption
<1>2. i.roles \in Seq(Roles)
  BY <1>1 DEF InputRecords
<1> QED
  BY <1>1, <1>2 DEF InputRecords

\* A team of the new input with no changed member was a team of the old one
\* with exactly the same members.
LEMMA SameTeam ==
    ASSUME NEW i \in Inputs, NEW j \in Inputs, ~FullScope(i, j), Aligned(i, j),
           NEW k \in Teams(j), k \notin ChangedTeams(i, j)
    PROVE  k \in Teams(i) /\ TeamMembers(i, k) = TeamMembers(j, k)
<1>1. i.size = j.size /\ i.names = j.names
  BY DEF FullScope
<1>2. ASSUME NEW p \in TeamMembers(j, k)
      PROVE  p \in Roster(i)
  <2>1. p \in Roster(j) /\ p \notin Changed(i, j)
    BY <1>2 DEF ChangedTeams, TeamMembers
  <2> QED
    BY <2>1 DEF Changed
<1>3. TeamMembers(j, k) \subseteq TeamMembers(i, k)
  BY <1>1, <1>2 DEF TeamMembers
<1>4. TeamMembers(i, k) \subseteq TeamMembers(j, k)
  BY DEF Aligned
<1> QED
  BY <1>1, <1>3, <1>4 DEF Teams

\* The scope of a revision is exact whenever no team loses a member: the theorem of
\* JobRunnerProofs, from the same definitions of Intake.
LEMMA RevisionScopeIsExact ==
    ASSUME NEW i \in Inputs, NEW j \in Inputs, ~FullScope(i, j), Aligned(i, j)
    PROVE  ReuseIsExact(i, j)
<1> SUFFICES ASSUME NEW n \in Nodes(j) \ StaleNodes(i, j)
             PROVE  n \in Nodes(i) /\ Uses(i, n) = Uses(j, n)
  BY DEF ReuseIsExact
<1>1. CASE n = FrameNode
  <2>1. Subjects(i, n) = {} /\ Subjects(j, n) = {}
    BY <1>1 DEF Subjects, FrameNode, ParticipantNode, TeamNode
  <2> QED
    BY <1>1, <2>1 DEF Nodes, Uses
<1>2. ASSUME NEW p \in Roster(j), n = ParticipantNode(p)
      PROVE  n \in Nodes(i) /\ Uses(i, n) = Uses(j, n)
  <2>1. p \notin Changed(i, j)
    BY <1>2 DEF StaleNodes
  <2>2. p \in Roster(i) /\ Context(i, p) = Context(j, p)
    BY <2>1 DEF Changed
  <2>3. Subjects(i, n) = {p} /\ Subjects(j, n) = {p}
    BY <1>2, <2>2 DEF Subjects, ParticipantNode, TeamNode
  <2> QED
    BY <1>2, <2>2, <2>3 DEF Nodes, Uses
<1>3. ASSUME NEW k \in Teams(j), n = TeamNode(k)
      PROVE  n \in Nodes(i) /\ Uses(i, n) = Uses(j, n)
  <2>1. k \notin ChangedTeams(i, j)
    BY <1>3 DEF StaleNodes
  <2>2. k \in Teams(i) /\ TeamMembers(i, k) = TeamMembers(j, k)
    BY <2>1, SameTeam
  <2>3. TeamMembers(j, k) \subseteq Roster(i) /\ TeamMembers(j, k) \subseteq Roster(j)
    BY <2>2 DEF TeamMembers
  <2>4. Subjects(i, n) = TeamMembers(j, k) /\ Subjects(j, n) = TeamMembers(j, k)
    BY <1>3, <2>2, <2>3 DEF Subjects, ParticipantNode, TeamNode
  <2>5. ASSUME NEW p \in TeamMembers(j, k)
        PROVE  Context(i, p) = Context(j, p)
    <3>1. p \in Roster(j) /\ p \notin Changed(i, j)
      BY <2>1, <2>3 DEF ChangedTeams
    <3> QED
      BY <3>1 DEF Changed
  <2> QED
    BY <1>3, <2>2, <2>4, <2>5 DEF Nodes, Uses
<1> QED
  BY <1>1, <1>2, <1>3 DEF Nodes

-----------------------------------------------------------------------------
(* What a run has built.                                                   *)

\* The place participant p has at node n: its own, or in the slice of a team.
Sits(i, n, p) ==
    \/ n = ParticipantNode(p)
    \/ \E k \in Nat \ {0} : n = TeamNode(k) /\ (k - 1) * i.size < p /\ p <= k * i.size

\* Every build a run or a checkpoint has is of the participants that sit at
\* its node, under whichever input it was made.
BuildsSit(i, f) ==
    /\ f = [n \in DOMAIN f |-> f[n]]
    /\ \A n \in DOMAIN f :
          /\ f[n] = [owners |-> f[n].owners, answered |-> f[n].answered,
                     review |-> f[n].review, leak |-> f[n].leak, decoded |-> f[n].decoded]
          /\ \A p \in f[n].owners : p \in Nat /\ Sits(i, n, p)

\* For a node of the input they are exactly the participants of the node.
BuildsFit(i, f) == \A n \in DOMAIN f : n \in Builds(i) => f[n].owners = Subjects(i, n)

AssemblyInv ==
    /\ input \in Inputs /\ seed \in Nat
    /\ BuildsSit(input, cache) /\ BuildsSit(input, rows)

FitInv == BuildsFit(input, cache) /\ BuildsFit(input, rows)

\* A step in which no revision within the partial scope takes a member away
\* from a team that goes on.
InputKeepsMembers == FullScope(input, input') \/ Aligned(input, input')

-----------------------------------------------------------------------------
(* Lemmas.                                                                 *)

\* A slice has no number but its own.
LEMMA SliceIsUnique ==
    ASSUME NEW s \in Nat, NEW p \in Nat, NEW k \in Nat, NEW m \in Nat,
           (k - 1) * s < p, p <= k * s, (m - 1) * s < p, p <= m * s
    PROVE  k = m
<1>1. ASSUME NEW a \in Nat, NEW b \in Nat, a < b, p <= a * s, (b - 1) * s < p
      PROVE  FALSE
  <2>1. PICK d \in Nat : b - 1 = a + d
    <3>1. b - 1 - a \in Nat
      BY <1>1
    <3> QED
      BY <3>1
  <2>2. (b - 1) * s = a * s + d * s
    BY <2>1
  <2>3. d * s \in Nat /\ a * s \in Nat
    BY <2>1
  <2> QED
    BY <1>1, <2>2, <2>3
<1> QED
  BY <1>1

\* The participants of a node sit at it.
LEMMA SubjectsSit ==
    ASSUME NEW i \in Inputs, NEW n, NEW p \in Subjects(i, n)
    PROVE  p \in Nat /\ Sits(i, n, p)
<1>1. p \in Nat
  BY InputTypes DEF Subjects, Roster
<1>2. CASE n = ParticipantNode(p)
  BY <1>1, <1>2 DEF Sits
<1>3. ASSUME NEW k \in Teams(i), n = TeamNode(k), p \in TeamMembers(i, k)
      PROVE  Sits(i, n, p)
  <2>1. k \in Nat \ {0}
    BY InputTypes DEF Teams
  <2> QED
    BY <1>3, <2>1 DEF Sits, TeamMembers
<1> QED
  BY <1>1, <1>2, <1>3 DEF Subjects

\* Builds of one participant that have a round in common are one.
LEMMA OneSeat ==
    ASSUME NEW i \in Inputs, NEW p \in Nat, NEW n, NEW m, Sits(i, n, p), Sits(i, m, p),
           NEW r \in RoundsOf(n), r \in RoundsOf(m)
    PROVE  n = m
<1>1. \A q : RoundsOf(ParticipantNode(q)) = IndRounds
  BY DEF RoundsOf, ParticipantNode, TeamNode
<1>2. \A k : RoundsOf(TeamNode(k)) = {GroupRound}
  BY DEF RoundsOf, TeamNode
<1>3. GroupRound \notin IndRounds
  BY AssemblyAssumption
<1>4. CASE n = ParticipantNode(p) /\ m = ParticipantNode(p)
  BY <1>4
<1>5. ASSUME NEW k \in Nat \ {0}, NEW l \in Nat \ {0}, n = TeamNode(k), m = TeamNode(l),
             (k - 1) * i.size < p, p <= k * i.size, (l - 1) * i.size < p, p <= l * i.size
      PROVE  n = m
  <2>1. i.size \in Nat
    BY InputTypes
  <2>2. k = l
    BY <1>5, <2>1, SliceIsUnique
  <2> QED
    BY <1>5, <2>2
<1> QED
  BY <1>1, <1>2, <1>3, <1>4, <1>5 DEF Sits

\* The only participant that sits at the node of an individual round.
LEMMA SitsAlone ==
    ASSUME NEW i, NEW n, NEW p, NEW q, Sits(i, n, p), Sits(i, n, q), NEW r \in RoundsOf(n),
           r \in IndRounds
    PROVE  p = q
<1>1. \A k : RoundsOf(TeamNode(k)) = {GroupRound}
  BY DEF RoundsOf, TeamNode
<1>2. GroupRound \notin IndRounds
  BY AssemblyAssumption
<1>3. n = ParticipantNode(p) /\ n = ParticipantNode(q)
  BY <1>1, <1>2 DEF Sits
<1> QED
  BY <1>3 DEF ParticipantNode

\* Places do not move when the slices stay as long as they are.
LEMMA SameSlices ==
    ASSUME NEW i, NEW j, i.size = j.size, NEW f, BuildsSit(i, f)
    PROVE  BuildsSit(j, f)
  BY DEF BuildsSit, Sits

\* What is left of the checkpoints is as it was.
LEMMA SubsetSits ==
    ASSUME NEW i, NEW f, BuildsSit(i, f), NEW D \in SUBSET DOMAIN f
    PROVE  BuildsSit(i, [n \in D |-> f[n]])
<1> DEFINE g == [n \in D |-> f[n]]
<1>1. DOMAIN g = D /\ \A n \in D : g[n] = f[n] /\ n \in DOMAIN f
  OBVIOUS
<1> HIDE DEF g
<1>2. g = [n \in DOMAIN g |-> g[n]]
  BY <1>1 DEF g
<1>3. BuildsSit(i, g)
  BY <1>1, <1>2 DEF BuildsSit
<1> QED
  BY <1>3 DEF g

-----------------------------------------------------------------------------
(* The steps.                                                              *)

LEMMA AssemblyInvInit == AssemblyInit => AssemblyInv /\ FitInv
  BY AssemblyAssumption DEF AssemblyInit, AssemblyInv, FitInv, BuildsSit, BuildsFit

\* A build that is added is of the participants of its node.
LEMMA AddBuild ==
    ASSUME NEW i \in Inputs, NEW f, BuildsSit(i, f), NEW n \in Builds(i),
           NEW b \in {Plain(n)} \union Possible(n), i = input,
           NEW g, g = [m \in DOMAIN f \union {n} |-> IF m = n THEN b ELSE f[m]]
    PROVE  /\ BuildsSit(i, g)
           /\ BuildsFit(i, f) => BuildsFit(i, g)
<1>1. /\ b = [owners |-> b.owners, answered |-> b.answered, review |-> b.review,
              leak |-> b.leak, decoded |-> b.decoded]
      /\ b.owners = Subjects(i, n)
  BY DEF Plain, Possible, BuildOf
<1>2. \A p \in b.owners : p \in Nat /\ Sits(i, n, p)
  BY <1>1, SubjectsSit
<1>3. /\ DOMAIN g = DOMAIN f \union {n}
      /\ g[n] = b
      /\ \A m \in DOMAIN f : m # n => g[m] = f[m]
  OBVIOUS
<1>4. g = [m \in DOMAIN g |-> g[m]]
  OBVIOUS
<1>5. ASSUME NEW m \in DOMAIN g
      PROVE  /\ g[m] = [owners |-> g[m].owners, answered |-> g[m].answered,
                        review |-> g[m].review, leak |-> g[m].leak, decoded |-> g[m].decoded]
             /\ \A p \in g[m].owners : p \in Nat /\ Sits(i, m, p)
  <2>1. CASE m = n
    BY <1>1, <1>2, <1>3, <2>1
  <2>2. CASE m # n
    BY <1>3, <1>5, <2>2 DEF BuildsSit
  <2> QED
    BY <2>1, <2>2
<1>6. BuildsSit(i, g)
  BY <1>4, <1>5 DEF BuildsSit
<1>7. BuildsFit(i, f) => BuildsFit(i, g)
  BY <1>1, <1>3 DEF BuildsFit
<1> QED
  BY <1>6, <1>7

LEMMA BuildKeeps ==
    ASSUME AssemblyInv, NEW n \in Builds(input), BuildNode(n)
    PROVE  AssemblyInv' /\ (FitInv => FitInv')
<1>1. PICK b \in {Plain(n)} \union Possible(n) :
        /\ cache' = [m \in DOMAIN cache \union {n} |-> IF m = n THEN b ELSE cache[m]]
        /\ rows' = [m \in DOMAIN rows \union {n} |-> IF m = n THEN b ELSE rows[m]]
  BY DEF BuildNode
<1>2. BuildsSit(input, cache') /\ (BuildsFit(input, cache) => BuildsFit(input, cache'))
  BY <1>1, AddBuild DEF AssemblyInv
<1>3. BuildsSit(input, rows') /\ (BuildsFit(input, rows) => BuildsFit(input, rows'))
  BY <1>1, AddBuild DEF AssemblyInv
<1>4. input' = input /\ seed' = seed
  BY DEF BuildNode
<1> QED
  BY <1>2, <1>3, <1>4 DEF AssemblyInv, FitInv

LEMMA StartKeeps ==
    ASSUME AssemblyInv, StartRun
    PROVE  AssemblyInv' /\ (FitInv => FitInv')
<1>1. /\ cache' = [n \in DOMAIN rows |-> Decoded(rows[n])]
      /\ UNCHANGED <<input, seed, rows>>
  BY DEF StartRun
<1>2. DOMAIN cache' = DOMAIN rows /\ cache' = [n \in DOMAIN cache' |-> cache'[n]]
  BY <1>1
<1>3. ASSUME NEW n \in DOMAIN rows
      PROVE  cache'[n] = [owners |-> rows[n].owners, answered |-> rows[n].answered,
                          review |-> rows[n].review, leak |-> rows[n].leak, decoded |-> TRUE]
  <2>1. rows[n] = [owners |-> rows[n].owners, answered |-> rows[n].answered,
                   review |-> rows[n].review, leak |-> rows[n].leak,
                   decoded |-> rows[n].decoded]
    BY DEF AssemblyInv, BuildsSit
  <2>2. cache'[n] = [rows[n] EXCEPT !.decoded = TRUE]
    BY <1>1 DEF Decoded
  <2> QED
    BY <2>1, <2>2
<1>4. BuildsSit(input, cache')
  BY <1>2, <1>3 DEF AssemblyInv, BuildsSit
<1>5. BuildsFit(input, rows) => BuildsFit(input, cache')
  BY <1>2, <1>3 DEF BuildsFit
<1> QED
  BY <1>1, <1>4, <1>5 DEF AssemblyInv, FitInv

\* A revision leaves only checkpoints that fit the new input, unless a team
\* has lost a member and goes on.
LEMMA ReviseKeeps ==
    ASSUME AssemblyInv, NEW j \in Inputs, Revise(j)
    PROVE  AssemblyInv' /\ (FitInv /\ InputKeepsMembers => FitInv')
<1>1. /\ input' = j /\ cache' = <<>> /\ seed' \in Nat
  BY AssemblyAssumption DEF Revise, AssemblyInv
<1>2. BuildsSit(j, cache') /\ BuildsFit(j, cache')
  BY <1>1 DEF BuildsSit, BuildsFit
<1>3. PICK D \in SUBSET DOMAIN rows :
        /\ rows' = [n \in D |-> rows[n]]
        /\ FullScope(input, j) => D = {}
        /\ ~FullScope(input, j) => D = DOMAIN rows \ StaleNodes(input, j)
  BY DEF Revise
<1>4. BuildsSit(input, rows')
  BY <1>3, SubsetSits DEF AssemblyInv
<1>5. BuildsSit(j, rows')
  <2>1. CASE FullScope(input, j)
    BY <1>3, <2>1 DEF BuildsSit
  <2>2. CASE ~FullScope(input, j)
    BY <1>4, <2>2, SameSlices DEF FullScope
  <2> QED
    BY <2>1, <2>2
<1>6. ASSUME BuildsFit(input, rows), InputKeepsMembers
      PROVE  BuildsFit(j, rows')
  <2>1. CASE FullScope(input, j)
    BY <1>3, <2>1 DEF BuildsFit
  <2>2. CASE ~FullScope(input, j)
    <3>1. ReuseIsExact(input, j)
      BY <1>1, <1>6, <2>2, RevisionScopeIsExact DEF InputKeepsMembers, AssemblyInv
    <3>2. ASSUME NEW n \in DOMAIN rows', n \in Builds(j)
          PROVE  rows'[n].owners = Subjects(j, n)
      <4>1. n \in DOMAIN rows /\ n \notin StaleNodes(input, j) /\ rows'[n] = rows[n]
        BY <1>3, <2>2, <3>2
      <4>2. n \in Nodes(input) /\ Uses(input, n) = Uses(j, n)
        BY <3>1, <3>2, <4>1 DEF ReuseIsExact, Builds
      <4>3. n \in Builds(input)
        BY <3>2, <4>2 DEF Builds
      <4>4. Subjects(input, n) = Subjects(j, n)
        <5>1. DOMAIN Uses(input, n) = Subjects(input, n) /\ DOMAIN Uses(j, n) = Subjects(j, n)
          BY DEF Uses
        <5> QED
          BY <4>2, <5>1
      <4> QED
        BY <1>6, <4>1, <4>3, <4>4 DEF BuildsFit
    <3> QED
      BY <3>2 DEF BuildsFit
  <2> QED
    BY <2>1, <2>2
<1> QED
  BY <1>1, <1>2, <1>5, <1>6 DEF AssemblyInv, FitInv

LEMMA RestKeeps ==
    ASSUME AssemblyInv, Reduce \/ RunFails \/ UNCHANGED assemblyVars
    PROVE  AssemblyInv' /\ (FitInv => FitInv')
  BY DEF AssemblyInv, FitInv, Reduce, RunFails, assemblyVars

LEMMA AssemblyInvStep ==
    ASSUME AssemblyInv, [AssemblyNext]_assemblyVars
    PROVE  AssemblyInv' /\ (FitInv /\ InputKeepsMembers => FitInv')
<1>1. CASE StartRun
  BY <1>1, StartKeeps
<1>2. ASSUME NEW n \in Builds(input), BuildNode(n)
      PROVE  AssemblyInv' /\ (FitInv => FitInv')
  BY <1>2, BuildKeeps
<1>3. ASSUME NEW j \in Inputs, Revise(j)
      PROVE  AssemblyInv' /\ (FitInv /\ InputKeepsMembers => FitInv')
  BY <1>3, ReviseKeeps
<1> QED
  BY <1>1, <1>2, <1>3, RestKeeps DEF AssemblyNext

\* Only Reduce writes a document.
LEMMA DocumentStays ==
    ASSUME [AssemblyNext]_assemblyVars, ~Reduce
    PROVE  document' = document
  BY DEF AssemblyNext, assemblyVars, StartRun, RunFails, BuildNode, Revise

LEMMA AssemblyInvariant == AssemblySpec => []AssemblyInv
<1>1. AssemblyInv /\ [AssemblyNext]_assemblyVars => AssemblyInv'
  BY AssemblyInvStep
<1> QED
  BY <1>1, AssemblyInvInit, PTL DEF AssemblySpec

-----------------------------------------------------------------------------
(* The document.                                                           *)

\* By how much the rotations of a set of places turn a list.
Turned(S) == MapThenSumSet(LAMBDA q : Step(q.number), S)

\* The sum over one place is its own turn.
LEMMA TurnedOnce ==
    ASSUME NEW pl, Step(pl.number) \in Int
    PROVE  Turned({pl}) = Step(pl.number)
<1> DEFINE H(g) == [s \in SUBSET {pl} |->
              IF s = {} THEN 0
              ELSE Step((CHOOSE x \in s : TRUE).number) + g[s \ {CHOOSE x \in s : TRUE}]]
           g0 == [s \in SUBSET {pl} |-> IF s = {} THEN 0 ELSE Step(pl.number)]
           g1 == CHOOSE g : g = H(g)
<1>1. g0 = H(g0)
  <2>1. ASSUME NEW s \in SUBSET {pl}
        PROVE  g0[s] = H(g0)[s]
    <3>1. CASE s = {}
      BY <3>1
    <3>2. CASE s = {pl}
      <4>1. (CHOOSE x \in s : TRUE) = pl /\ s \ {pl} = {}
        BY <3>2
      <4> QED
        BY <3>2, <4>1
    <3> QED
      BY <3>1, <3>2
  <2> QED
    BY <2>1
<1>2. g1 = H(g1)
  BY <1>1
<1>3. Turned({pl}) = g1[{pl}]
  BY DEF Turned, MapThenSumSet, MapThenFoldSet
<1> HIDE DEF g1
<1>4. g1[{}] = 0
  BY <1>2
<1>5. (CHOOSE x \in {pl} : TRUE) = pl /\ {pl} \ {pl} = {}
  OBVIOUS
<1>6. g1[{pl}] = Step(pl.number) + g1[{}]
  BY <1>2, <1>5
<1> QED
  BY <1>3, <1>4, <1>6

LEMMA TurnIsTurned ==
    ASSUME NEW pl
    PROVE  Turn(pl) = Turned({q \in Places : Affects(q, pl)}) % 4
  BY DEF Turn, Turned, Visited

\* What a run has when it reduces.
Complete == AssemblyInv /\ Builds(input) \subseteq DOMAIN cache

LEMMA PlaceShape ==
    ASSUME Complete, NEW pl \in Places
    PROVE  /\ pl = [node |-> pl.node, owner |-> pl.owner, round |-> pl.round,
                    number |-> pl.number]
           /\ pl.node \in Builds(input) /\ pl.owner \in cache[pl.node].owners
           /\ pl.owner \in Nat /\ Sits(input, pl.node, pl.owner)
           /\ pl.round \in RoundsOf(pl.node)
           /\ pl.number \in Nat
<1>1. PICK n \in Builds(input) : pl \in PlacesOf(n)
  BY DEF Places, Results
<1>2. PICK o \in cache[n].owners, r \in RoundsOf(n), d \in Numbers :
        pl = [node |-> n, owner |-> o, round |-> r, number |-> d]
  BY <1>1 DEF PlacesOf, Forged
<1>3. o \in Nat /\ Sits(input, n, o)
  BY <1>1, <1>2 DEF Complete, AssemblyInv, BuildsSit
<1>4. d \in Nat
  BY <1>2, AssemblyAssumption DEF Numbers
<1> QED
  BY <1>1, <1>2, <1>3, <1>4

\* A place that shares its object with no other is turned once.
LEMMA TurnOfItsOwn ==
    ASSUME Complete, NEW pl \in Places,
           \A q \in Places : Affects(q, pl) => q = pl
    PROVE  Turn(pl) = (seed + pl.number) % 4
<1>1. {q \in Places : Affects(q, pl)} = {pl}
  BY DEF Affects
<1>2. pl.number \in Nat /\ seed \in Nat
  BY PlaceShape DEF Complete, AssemblyInv
<1>3. Step(pl.number) \in 0..3 /\ Step(pl.number) = (seed + pl.number) % 4
  BY <1>2 DEF Step
<1>4. Turned({pl}) = Step(pl.number)
  BY <1>3, TurnedOnce
<1>5. Turn(pl) = Step(pl.number) % 4
  BY <1>1, <1>4, TurnIsTurned
<1> QED
  BY <1>3, <1>5

\* The object of a place that was built in this run is that of its round and
\* number on the board; from a checkpoint it is the place's own.
LEMMA AffectsWhom ==
    ASSUME Complete, NEW pl \in Places, NEW q \in Places
    PROVE  /\ cache[pl.node].decoded => (Affects(q, pl) <=> q = pl)
           /\ ~cache[pl.node].decoded =>
                (Affects(q, pl) <=> <<q.node, q.round, q.number>> = <<pl.node, pl.round, pl.number>>)
<1>1. /\ pl = [node |-> pl.node, owner |-> pl.owner, round |-> pl.round, number |-> pl.number]
      /\ q = [node |-> q.node, owner |-> q.owner, round |-> q.round, number |-> q.number]
  BY PlaceShape
<1>2. /\ [pl EXCEPT !.owner = 0] = [node |-> pl.node, owner |-> 0, round |-> pl.round,
                                    number |-> pl.number]
      /\ [q EXCEPT !.owner = 0] = [node |-> q.node, owner |-> 0, round |-> q.round,
                                   number |-> q.number]
  BY <1>1
<1>3. /\ Object(pl) = IF cache[pl.node].decoded THEN pl
                      ELSE [node |-> pl.node, owner |-> 0, round |-> pl.round,
                            number |-> pl.number]
      /\ Object(q) = IF cache[q.node].decoded THEN q
                     ELSE [node |-> q.node, owner |-> 0, round |-> q.round,
                           number |-> q.number]
  BY <1>2 DEF Object
<1>4. Object(pl).node = pl.node /\ Object(q).node = q.node
  BY <1>1, <1>3
<1>5. CASE pl.node = q.node
  BY <1>1, <1>3, <1>5 DEF Affects
<1>6. CASE pl.node # q.node
  BY <1>4, <1>6 DEF Affects
<1> QED
  BY <1>5, <1>6

\* On an individual board every place has its object for itself.
LEMMA IndividualTurn ==
    ASSUME Complete, NEW pl \in Places, pl.round \in IndRounds
    PROVE  Turn(pl) = (seed + pl.number) % 4
<1>1. ASSUME NEW q \in Places, Affects(q, pl)
      PROVE  q = pl
  <2>1. CASE cache[pl.node].decoded
    BY <1>1, <2>1, AffectsWhom
  <2>2. CASE ~cache[pl.node].decoded
    <3>1. <<q.node, q.round, q.number>> = <<pl.node, pl.round, pl.number>>
      BY <1>1, <2>2, AffectsWhom
    <3>2. Sits(input, pl.node, pl.owner) /\ Sits(input, pl.node, q.owner)
      BY <3>1, PlaceShape
    <3>3. q.owner = pl.owner
      BY <3>2, PlaceShape, SitsAlone
    <3> QED
      BY <3>1, <3>3, PlaceShape
  <2> QED
    BY <2>1, <2>2
<1> QED
  BY <1>1, TurnOfItsOwn

\* Members of a team that see the same decision see it turned alike.
LEMMA TeamTurn ==
    ASSUME Complete, NEW pl \in Places, NEW q \in Places,
           <<q.node, q.round, q.number>> = <<pl.node, pl.round, pl.number>>
    PROVE  Turn(q) = Turn(pl)
<1>1. CASE cache[pl.node].decoded
  <2>1. Turn(pl) = (seed + pl.number) % 4
    BY <1>1, AffectsWhom, TurnOfItsOwn
  <2>2. Turn(q) = (seed + q.number) % 4
    BY <1>1, AffectsWhom, TurnOfItsOwn
  <2> QED
    BY <2>1, <2>2
<1>2. CASE ~cache[pl.node].decoded
  <2>1. {x \in Places : Affects(x, pl)} = {x \in Places : Affects(x, q)}
    <3>1. ASSUME NEW x \in Places
          PROVE  Affects(x, pl) <=> Affects(x, q)
      <4>1. Affects(x, pl) <=> <<x.node, x.round, x.number>> = <<pl.node, pl.round, pl.number>>
        BY <1>2, AffectsWhom
      <4>2. Affects(x, q) <=> <<x.node, x.round, x.number>> = <<q.node, q.round, q.number>>
        BY <1>2, AffectsWhom
      <4> QED
        BY <4>1, <4>2
    <3> QED
      BY <3>1
  <2> QED
    BY <2>1, TurnIsTurned
<1> QED
  BY <1>1, <1>2

\* The decisions that the rows flag are those whose titles are marked: no
\* other build in the cache has one of the same participant and round.
LEMMA ReportedIsMarked ==
    ASSUME Complete, NEW pl \in Places
    PROVE  Reported(pl) <=> Marked(pl)
<1>1. /\ pl.node \in DOMAIN cache /\ pl.owner \in cache[pl.node].owners
      /\ pl.round \in RoundsOf(pl.node)
  BY PlaceShape DEF Complete
<1>2. ASSUME NEW n \in DOMAIN cache, pl.owner \in cache[n].owners, pl.round \in RoundsOf(n)
      PROVE  n = pl.node
  <2>1. Sits(input, n, pl.owner)
    BY <1>2 DEF Complete, AssemblyInv, BuildsSit
  <2>2. Sits(input, pl.node, pl.owner) /\ pl.owner \in Nat /\ input \in Inputs
    BY PlaceShape DEF Complete, AssemblyInv
  <2> QED
    BY <1>1, <1>2, <2>1, <2>2, OneSeat
<1> QED
  BY <1>1, <1>2 DEF Reported, Marked

\* What Reduce stores.
LEMMA Reduced ==
    ASSUME AssemblyInv, Reduce, NEW v \in document'
    PROVE  /\ Complete
           /\ v.input = input /\ v.seed = seed /\ "read" \notin v.leaks
           /\ v.entries = {Entry(pl) : pl \in Places}
  BY DEF Reduce, Complete, Leaks

LEMMA EntryShape ==
    ASSUME NEW pl
    PROVE  /\ Entry(pl).place = pl /\ Entry(pl).turn = Turn(pl)
           /\ Entry(pl).text = Source(cache[pl.node], pl.number)
           /\ Entry(pl).marked = Marked(pl) /\ Entry(pl).flagged = Reported(pl)
  BY DEF Entry

-----------------------------------------------------------------------------
(* The theorems.                                                           *)

LEMMA WholeReduced == ASSUME AssemblyInv, FitInv, Reduce PROVE DocumentIsWhole'
<1> SUFFICES ASSUME NEW v \in document'
             PROVE  /\ {e.place : e \in v.entries} =
                          UNION {{[node |-> n, owner |-> o, round |-> r, number |-> d] :
                                    o \in Subjects(v.input, n), r \in RoundsOf(n), d \in Numbers} :
                                 n \in Builds(v.input)}
                    /\ "read" \notin v.leaks
  BY DEF DocumentIsWhole
<1>1. Complete /\ v.input = input /\ "read" \notin v.leaks /\ v.entries = {Entry(pl) : pl \in Places}
  BY Reduced
<1>2. {e.place : e \in v.entries} = Places
  <2>1. {e.place : e \in v.entries} = {Entry(pl).place : pl \in Places}
    BY <1>1
  <2>2. {Entry(pl).place : pl \in Places} = {pl : pl \in Places}
    BY EntryShape
  <2> QED
    BY <2>1, <2>2
<1>3. \A n \in Builds(input) : cache[n].owners = Subjects(input, n)
  BY <1>1 DEF Complete, FitInv, BuildsFit
<1>4. \A n \in Builds(input) : PlacesOf(n) =
        {[node |-> n, owner |-> o, round |-> r, number |-> d] :
            o \in Subjects(input, n), r \in RoundsOf(n), d \in Numbers}
  BY <1>3 DEF PlacesOf, Forged
<1>5. Places = UNION {{[node |-> n, owner |-> o, round |-> r, number |-> d] :
                         o \in Subjects(input, n), r \in RoundsOf(n), d \in Numbers} :
                      n \in Builds(input)}
  BY <1>4 DEF Places, Results
<1> QED
  BY <1>1, <1>2, <1>5

\* A version has a whole board for exactly the participants and teams of the
\* input it was made from, whatever checkpoints other inputs have left, for
\* any chain of runs, failures and revisions in which none within the partial
\* scope takes a member away from a team that goes on; and no text the
\* gate of an earlier run had failed for, among those that the gate reads
\* (assemble.py:86-127, reduce.py:105-129, orchestrator.py:355).
THEOREM DocumentsAreWhole ==
    AssemblySpec /\ [][InputKeepsMembers]_assemblyVars => []DocumentIsWhole
<1>1. AssemblyInit => DocumentIsWhole
  BY DEF AssemblyInit, DocumentIsWhole
<1>2. AssemblyInv /\ FitInv /\ [AssemblyNext]_assemblyVars /\ [InputKeepsMembers]_assemblyVars
        => FitInv'
  BY AssemblyInvStep, RestKeeps
<1>3. AssemblyInv /\ FitInv /\ DocumentIsWhole /\ [AssemblyNext]_assemblyVars
        => DocumentIsWhole'
  BY WholeReduced, DocumentStays DEF DocumentIsWhole
<1> QED
  BY <1>1, <1>2, <1>3, AssemblyInvariant, AssemblyInvInit, PTL DEF AssemblySpec

LEMMA OrderReduced == ASSUME AssemblyInv, Reduce PROVE OrderFollowsSeed'
<1> SUFFICES ASSUME NEW v \in document', NEW e \in v.entries, e.place.round \in IndRounds
             PROVE  e.turn = (v.seed + e.place.number) % 4
  BY DEF OrderFollowsSeed
<1>1. Complete /\ v.seed = seed /\ v.entries = {Entry(pl) : pl \in Places}
  BY Reduced
<1>2. PICK pl \in Places : e = Entry(pl)
  BY <1>1
<1> QED
  BY <1>1, <1>2, EntryShape, IndividualTurn

\* The decisions of an individual board are turned once, by the seed and their
\* number, whichever run made the board and however many of its decisions pad
\* it (assemble.py:147-150), for every seed and size of a board.
THEOREM OrdersFollowSeed == AssemblySpec => []OrderFollowsSeed
<1>1. AssemblyInit => OrderFollowsSeed
  BY DEF AssemblyInit, OrderFollowsSeed
<1>2. AssemblyInv /\ OrderFollowsSeed /\ [AssemblyNext]_assemblyVars => OrderFollowsSeed'
  BY OrderReduced, DocumentStays DEF OrderFollowsSeed
<1> QED
  BY <1>1, <1>2, AssemblyInvariant, PTL DEF AssemblySpec

LEMMA TeamsReduced == ASSUME AssemblyInv, Reduce PROVE TeamsShareOneBoard'
<1> SUFFICES ASSUME NEW v \in document', NEW e \in v.entries, NEW f \in v.entries,
                    e.place.node = f.place.node, e.place.round = f.place.round,
                    e.place.number = f.place.number
             PROVE  <<e.text, e.turn, e.marked>> = <<f.text, f.turn, f.marked>>
  BY DEF TeamsShareOneBoard
<1>1. Complete /\ v.entries = {Entry(pl) : pl \in Places}
  BY Reduced
<1>2. PICK p \in Places : e = Entry(p)
  BY <1>1
<1>3. PICK q \in Places : f = Entry(q)
  BY <1>1
<1>4. <<q.node, q.round, q.number>> = <<p.node, p.round, p.number>>
  BY <1>2, <1>3, EntryShape
<1>5. Turn(q) = Turn(p)
  BY <1>1, <1>4, TeamTurn
<1>6. Marked(q) = Marked(p) /\ Source(cache[q.node], q.number) = Source(cache[p.node], p.number)
  BY <1>4 DEF Marked
<1> QED
  BY <1>2, <1>3, <1>5, <1>6, EntryShape

\* The members of a team see one board, in one order, whether they share its
\* objects or each have their own (assemble.py:169-172), for any sizes of
\* teams and boards.
THEOREM TeamsSeeOneBoard == AssemblySpec => []TeamsShareOneBoard
<1>1. AssemblyInit => TeamsShareOneBoard
  BY DEF AssemblyInit, TeamsShareOneBoard
<1>2. AssemblyInv /\ TeamsShareOneBoard /\ [AssemblyNext]_assemblyVars => TeamsShareOneBoard'
  BY TeamsReduced, DocumentStays DEF TeamsShareOneBoard
<1> QED
  BY <1>1, <1>2, AssemblyInvariant, PTL DEF AssemblySpec

LEMMA FlagsReduced == ASSUME AssemblyInv, Reduce PROVE FlagsReachRows'
<1> SUFFICES ASSUME NEW v \in document', NEW e \in v.entries
             PROVE  e.flagged <=> e.marked
  BY DEF FlagsReachRows, FlaggedDecisions
<1>1. Complete /\ v.entries = {Entry(pl) : pl \in Places}
  BY Reduced
<1>2. PICK pl \in Places : e = Entry(pl)
  BY <1>1
<1> QED
  BY <1>1, <1>2, EntryShape, ReportedIsMarked

\* The decisions listed for review are exactly those whose titles say so, for
\* every input and every checkpoint that earlier inputs have left in the
\* cache (runner.py:116-131): no two builds have a participant and a round in
\* common, under whichever inputs they were made.
THEOREM FlagsAreListed == AssemblySpec => []FlagsReachRows
<1>1. AssemblyInit => FlagsReachRows
  BY DEF AssemblyInit, FlagsReachRows
<1>2. AssemblyInv /\ FlagsReachRows /\ [AssemblyNext]_assemblyVars => FlagsReachRows'
  BY FlagsReduced, DocumentStays DEF FlagsReachRows, FlaggedDecisions
<1> QED
  BY <1>1, <1>2, AssemblyInvariant, PTL DEF AssemblySpec
=============================================================================
