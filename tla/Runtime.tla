------------------------------- MODULE Runtime -------------------------------
(***************************************************************************)
(* Participants' sessions over the stored content: opening a session on    *)
(* the latest version, rendering its decisions as letters, submitting an   *)
(* allocation for every decision in one transaction, and the totals of the *)
(* Reflection Board (app/services/session_service.py, app/api/runtime.py,  *)
(* app/services/reflection_service.py,                                     *)
(* frontend/src/pages/ParticipantRuntime.tsx).                             *)
(*                                                                         *)
(* A submission is a transaction of several statements.  Each statement    *)
(* sees what was committed when it began; a DELETE waits for the row locks *)
(* of other transactions (PostgreSQL, READ COMMITTED), and on SQLite the   *)
(* first one holds the only write lock until its transaction ends.         *)
(***************************************************************************)
EXTENDS Content, FiniteSetsExt

CONSTANTS Clients,      \* participants' pages, one session each
          Owners,       \* participant refs
          Seeds,        \* display seeds
          Shuffle,      \* the seeded shuffle: [seed, number] -> permutation
          Fills,        \* the distributions of units over the letters
          MaxRequests,  \* bound on the submissions ever sent
          Serial,       \* TRUE on SQLite, FALSE on PostgreSQL
          Overlap       \* may a page submit again before the server is done?

Letters == 1..4
Requests == 1..MaxRequests

\* The orders in which four options can name the postures, each of them once.
Listings == {m \in [Letters -> Postures] : \A p \in Postures : \E l \in Letters : m[l] = p}

ASSUME RuntimeAssumption ==
    /\ IsFiniteSet(Postures) /\ Cardinality(Postures) = 4
    /\ \A s \in Seeds, k \in Keys :
          /\ <<s, k.number>> \in DOMAIN Shuffle
          /\ Shuffle[s, k.number] \in [Letters -> Letters]
          /\ \A i \in Letters : \E l \in Letters : Shuffle[s, k.number][l] = i
    /\ \A d \in Drafts : \A k \in DOMAIN d : d[k].order \in Listings
    /\ Fills \subseteq [Letters -> Nat]
    /\ MaxRequests \in Nat
    /\ Serial \in BOOLEAN /\ Overlap \in BOOLEAN

VARIABLES session,   \* sessions rows: version, owner, display seed
          phase,     \* what each participant's page shows
          shown,     \* the decisions on the page
          asked,     \* the request the page waits for
          board,     \* the totals on the page's Reflection Board
          req,       \* submissions in the server
          rows       \* allocations rows

runtimeVars == <<session, phase, shown, asked, board, req, rows>>
vars == <<contentVars, runtimeVars>>

NoSession == [open |-> FALSE]
NoRequest == [at |-> "none"]

-----------------------------------------------------------------------------
(* Rendering.                                                              *)

\* shuffle_options: the posture behind each letter.
Map(b, seed, number) == [l \in Letters |-> b.order[Shuffle[seed, number][l]]]

Served(s) ==
    {k \in DOMAIN records[s.version] : k.type = "participant" /\ k.owner = s.owner}

Before(k, l) == k.round < l.round \/ (k.round = l.round /\ k.number < l.number)

\* ORDER BY round_index, decision_number.
Sorted(K) ==
    CHOOSE q \in [1..Cardinality(K) -> K] :
       \A i, j \in 1..Cardinality(K) : i < j => Before(q[i], q[j])

Rendered(s) ==
    LET q == Sorted(Served(s))
    IN [i \in 1..Len(q) |->
          [round |-> q[i].round, number |-> q[i].number,
           map |-> Map(records[s.version][q[i]], s.seed, q[i].number)]]

\* Sums of units over a set of allocations, for each posture.
UnitsOn(A, p) == MapThenSumSet(LAMBDA a : a.units[p], A)

\* build_reflection: the units of each posture, round by round.
Totals(A) ==
    [n \in {a.round : a \in A} |->
        [p \in Postures |-> UnitsOn({a \in A : a.round = n}, p)]]

-----------------------------------------------------------------------------
Init ==
    /\ ContentInit
    /\ session = [c \in Clients |-> NoSession]
    /\ phase = [c \in Clients |-> "open"]
    /\ shown = [c \in Clients |-> <<>>]
    /\ asked = [c \in Clients |-> 0]
    /\ board = [c \in Clients |-> <<>>]
    /\ req = [q \in Requests |-> NoRequest]
    /\ rows = {}

(***************************************************************************)
(* Opening a session.                                                      *)
(***************************************************************************)

\* Everybody a version was ever generated for has participant rows.
Enrolled == {k.owner : k \in UNION {DOMAIN records[v] : v \in 1..Latest}}

\* POST /sessions pins the latest version.
CreateSession(c, p, seed) ==
    /\ phase[c] = "open"
    /\ Latest > 0 /\ p \in Enrolled
    /\ session' = [session EXCEPT ![c] =
                     [open |-> TRUE, version |-> Latest, owner |-> p, seed |-> seed]]
    /\ phase' = [phase EXCEPT ![c] = "created"]
    /\ UNCHANGED <<contentVars, shown, asked, board, req, rows>>

\* GET /sessions/{id} renders the version's rows as they are by now.
RenderSession(c) ==
    /\ phase[c] = "created"
    /\ shown' = [shown EXCEPT ![c] = Rendered(session[c])]
    /\ phase' = [phase EXCEPT ![c] = "allocate"]
    /\ UNCHANGED <<contentVars, session, asked, board, req, rows>>

(***************************************************************************)
(* Submitting allocations.                                                 *)
(***************************************************************************)

InFlight(q) == req[q].at \in {"ready", "deleting"}

NextRequest == {q \in Requests : /\ req[q] = NoRequest
                                 /\ \A u \in Requests : u < q => req[u] # NoRequest}

\* The page keeps units by decision number and sends one item for each
\* decision it shows.
Send(c, fill) ==
    /\ phase[c] = "allocate"
    /\ Overlap \/ \A q \in Requests : InFlight(q) => req[q].client # c
    /\ \E q \in NextRequest :
          /\ req' = [req EXCEPT ![q] =
                       [at |-> "ready", client |-> c, shown |-> shown[c], next |-> 1,
                        items |-> [i \in DOMAIN shown[c] |->
                                      [number |-> shown[c][i].number,
                                       units |-> fill[shown[c][i].number]]],
                        dels |-> {}, ins |-> {}, scan |-> {}]]
          /\ asked' = [asked EXCEPT ![c] = q]
    /\ phase' = [phase EXCEPT ![c] = "waiting"]
    /\ UNCHANGED <<contentVars, session, shown, board, rows>>

Item(q) == req[q].items[req[q].next]

SessionOf(q) == session[req[q].client]

\* A mutant of Candidates: decisions of the group rounds are taken, too.
CandidatesOfAnyType(q) ==
    {k \in DOMAIN records[SessionOf(q).version] :
        k.owner = SessionOf(q).owner /\ k.number = Item(q).number}

\* The rows a submission may take for its decision: by number, not by round.
Candidates(q) == {k \in Served(SessionOf(q)) : k.number = Item(q).number}

SumsTo100(f) == f[1] + f[2] + f[3] + f[4] = 100 /\ \A l \in Letters : f[l] <= 100

\* A mutant of Superseded: prior submissions are not looked for.
SupersededNone(q) == {}

\* The committed rows the DELETE of a submission finds.
Superseded(q) == {r \in rows : r.client = req[q].client /\ r.number = Item(q).number}

\* The units of the letters, by the postures of P behind them.
ByPosture(units, m, P) == [p \in P |-> units[CHOOSE l \in Letters : m[l] = p]]

\* A letter's units go to the posture behind it; the row carries the round of
\* the decision that was found.
Allocation(q, k) ==
    LET m == Map(records[SessionOf(q).version][k], SessionOf(q).seed, k.number)
    IN [client |-> req[q].client, round |-> k.round, number |-> k.number, by |-> q,
        units |-> ByPosture(Item(q).units, m, {m[l] : l \in Letters})]

\* The submission once its DELETE for the next item has begun: what it will
\* insert for the item supersedes what it was to insert for it so far.
Deleting(q, k) ==
    [req[q] EXCEPT !.at = "deleting", !.scan = Superseded(q),
                   !.ins = {r \in @ : r.number # Item(q).number} \union {Allocation(q, k)}]

\* The submission once it has the row locks, at its next item.
Replaced(q) ==
    [req[q] EXCEPT !.at = "ready", !.next = @ + 1,
                   !.dels = @ \union req[q].scan, !.scan = {}]

\* submit_allocation for the next item, up to its DELETE statement.
Resolve(q) ==
    /\ req[q].at = "ready" /\ req[q].next <= Len(req[q].items)
    /\ Serial => \A u \in Requests \ {q} : InFlight(u) => req[u].next = 1 /\ req[u].at = "ready"
    /\ SumsTo100(Item(q).units)
    /\ \E k \in Candidates(q) : req' = [req EXCEPT ![q] = Deleting(q, k)]
    /\ UNCHANGED <<contentVars, session, phase, shown, asked, board, rows>>

\* The DELETE gets its row locks, and the INSERT follows it.
Replace(q) ==
    /\ req[q].at = "deleting"
    /\ \A u \in Requests \ {q} : InFlight(u) => req[u].dels \intersect req[q].scan = {}
    /\ req' = [req EXCEPT ![q] = Replaced(q)]
    /\ UNCHANGED <<contentVars, session, phase, shown, asked, board, rows>>

\* A mutant of Complete: every allocation is committed on its own.
CompleteAtOnce(q) == req[q].at = "ready"

Complete(q) == req[q].at = "ready" /\ req[q].next > Len(req[q].items)

Commit(q) ==
    /\ Complete(q)
    /\ rows' = (rows \ req[q].dels) \union req[q].ins
    /\ req' = [req EXCEPT ![q].at = "committed"]
    /\ UNCHANGED <<contentVars, session, phase, shown, asked, board>>

\* An unknown decision, units that do not sum to 100, or a lost connection:
\* the transaction is rolled back, the page shows an error.
Fail(q) ==
    /\ InFlight(q)
    /\ req' = [req EXCEPT ![q].at = "failed"]
    /\ phase' = [c \in Clients |->
                   IF phase[c] = "waiting" /\ asked[c] = q THEN "allocate" ELSE phase[c]]
    /\ UNCHANGED <<contentVars, session, shown, asked, board, rows>>

\* The answer is lost or too late: the page shows an error and may submit
\* again, while the server may still be at work.
LoseAnswer(c) ==
    /\ phase[c] = "waiting"
    /\ phase' = [phase EXCEPT ![c] = "allocate"]
    /\ UNCHANGED <<contentVars, session, shown, asked, board, req, rows>>

\* The page has its answer and fetches the Reflection Board.
ReadBoard(c) ==
    /\ phase[c] = "waiting" /\ req[asked[c]].at = "committed"
    /\ board' = [board EXCEPT ![c] = Totals({r \in rows : r.client = c})]
    /\ phase' = [phase EXCEPT ![c] = "board"]
    /\ UNCHANGED <<contentVars, session, shown, asked, req, rows>>

RuntimeNext ==
    \/ \E c \in Clients, p \in Owners, seed \in Seeds : CreateSession(c, p, seed)
    \/ \E c \in Clients : RenderSession(c) \/ LoseAnswer(c) \/ ReadBoard(c)
    \/ \E c \in Clients, fill \in [{k.number : k \in Keys} -> Fills] : Send(c, fill)
    \/ \E q \in Requests : Resolve(q) \/ Replace(q) \/ Commit(q) \/ Fail(q)

Next == (ContentNext /\ UNCHANGED runtimeVars) \/ RuntimeNext

Spec == Init /\ [][Next]_vars

-----------------------------------------------------------------------------
(***************************************************************************)
(* Properties.                                                             *)
(***************************************************************************)

ShownLike(s) == \A i \in DOMAIN s : s[i] = [round |-> s[i].round, number |-> s[i].number,
                                            map |-> s[i].map]
                                    /\ s[i].map \in [Letters -> Postures]

RowLike(r) ==
    /\ r.client \in Clients /\ r.by \in Requests
    /\ r.units \in [Postures -> 0..100]
    /\ \E m \in Listings : r.units[m[1]] + r.units[m[2]] + r.units[m[3]] + r.units[m[4]] = 100

\* Sessions are pinned to versions that exist, every allocation row belongs
\* to a session and distributes 100 units over the four postures.
TypeOK ==
    /\ ContentTypeOK
    /\ \A c \in Clients :
          /\ phase[c] \in {"open", "created", "allocate", "waiting", "board"}
          /\ phase[c] # "open" => session[c].version \in 1..Latest /\ session[c].owner \in Owners
          /\ ShownLike(shown[c])
          /\ phase[c] = "waiting" => asked[c] \in Requests
    /\ \A q \in Requests :
          /\ req[q].at \in {"none", "ready", "deleting", "committed", "failed"}
          /\ req[q] # NoRequest => \A r \in req[q].ins \union req[q].dels : RowLike(r)
    /\ \A r \in rows : RowLike(r)

\* A decision of a session has one stored allocation, whatever is submitted
\* again: "Replace any prior submission for this decision (idempotent
\* re-submit)" (session_service.py:183).
OneRowPerDecision ==
    \A r, s \in rows : r.client = s.client /\ r.number = s.number => r = s

\* What the participant meant by a submission: on each decision shown, units
\* put on a letter belong to the posture the letter stood for on the page.
Meant(q) ==
    {[client |-> req[q].client, by |-> q,
      round |-> req[q].shown[i].round, number |-> req[q].shown[i].number,
      units |-> ByPosture(req[q].items[i].units, req[q].shown[i].map, Postures)] :
        i \in DOMAIN req[q].shown}

\* What a row says of a decision is what the participant meant by it: "The
\* same inputs always yield the same map, which is how submissions are
\* resolved later" (session_service.py:44-45).
StoredAsShown == \A r \in rows : r \in Meant(r.by)

\* The allocations of a session are one submission, all of it: nobody is
\* scored on half of an old and half of a new one, nor without a decision
\* that was answered.
SubmissionsAreWhole ==
    \A r \in rows :
       /\ req[r.by].at = "committed"
       /\ \A s \in rows : s.client = r.client => s.by = r.by
       /\ {<<s.round, s.number>> : s \in {t \in rows : t.client = r.client}}
             = {<<m.round, m.number>> : m \in Meant(r.by)}

\* The Reflection Board counts the submission the page got the answer to, as
\* the page showed it: 100 units for each decision of each round ("the raw
\* per-round unit totals", reflection_service.py:9).
BoardTellsSubmission ==
    \A c \in Clients : phase[c] = "board" => board[c] = Totals(Meant(asked[c]))
=============================================================================
