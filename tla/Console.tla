------------------------------- MODULE Console -------------------------------
(***************************************************************************)
(* The settings page of a simulation beside the job runner                 *)
(* (frontend/src/pages/detail/DetailsSettings.tsx, get_status of           *)
(* app/services/generation_service.py).  While the status it shows is not  *)
(* terminal the page asks again every two seconds, answered or not, and    *)
(* answers arrive in any order.  get_status reads the simulation, its job  *)
(* and its latest version in statements of their own; what it reads of the *)
(* job is only displayed and left out.                                     *)
(***************************************************************************)
EXTENDS JobRunner

CONSTANTS Shown,     \* the simulation of the page
          Polls,     \* questions that may be under way
          MaxLost    \* bound on questions that fail

ASSUME ConsoleAssumption == Shown \in Sims /\ Polls # {} /\ MaxLost \in Nat

VARIABLES page,    \* the answer that is shown
          poll,    \* the questions' progress: "idle", "reading" or "answered"
          lost

consoleVars == <<vars, page, poll, lost>>

Settled == {"ready", "needs_review", "failed"}

\* "least" is history: the latest version when the status was read.
Blank == [status |-> "none", version |-> 0, least |-> 0]

ConsoleInit ==
    /\ Init
    /\ page = Blank
    /\ poll = [q \in Polls |-> [at |-> "idle", answer |-> Blank]]
    /\ lost = 0

ReadStatus(a) ==
    [a EXCEPT !.status = simStatus[Shown], !.least = LatestNumber(Shown)]

ReadVersion(a) == [a EXCEPT !.version = LatestNumber(Shown)]

\* A mutant of Statement: the version is read before the simulation.
StatementSwapped(n, a) == IF n = 2 THEN ReadStatus(a) ELSE ReadVersion(a)

\* The n-th statement of get_status.
Statement(n, a) == IF n = 1 THEN ReadStatus(a) ELSE ReadVersion(a)

\* refresh: when the page is opened, after a review, and after POST /run.
Refresh(q) ==
    /\ poll[q].at = "idle" /\ simStatus[Shown] # "none"
    /\ poll' = [poll EXCEPT ![q] = [at |-> "reading", answer |-> Statement(1, Blank)]]
    /\ UNCHANGED <<vars, page, lost>>

\* A mutant of Asks: the page asks for as long as the job is queued.
AsksWhenQueued == page.status = "queued"

\* Whether the interval is set.
Asks == page.status # "none" /\ page.status \notin Settled

Interval(q) == Asks /\ Refresh(q)

Read(q) ==
    /\ poll[q].at = "reading"
    /\ poll' = [poll EXCEPT ![q] =
          [at |-> "answered", answer |-> Statement(2, poll[q].answer)]]
    /\ UNCHANGED <<vars, page, lost>>

\* setStatus, whatever was shown before.
Receive(q) ==
    /\ poll[q].at = "answered"
    /\ page' = poll[q].answer
    /\ poll' = [poll EXCEPT ![q] = [at |-> "idle", answer |-> Blank]]
    /\ UNCHANGED <<vars, lost>>

\* The question or its answer is lost; the page stays as it is.
Lose(q) ==
    /\ poll[q].at # "idle" /\ lost < MaxLost
    /\ lost' = lost + 1
    /\ poll' = [poll EXCEPT ![q] = [at |-> "idle", answer |-> Blank]]
    /\ UNCHANGED <<vars, page>>

ConsoleNext ==
    \/ Next /\ UNCHANGED <<page, poll, lost>>
    \/ \E q \in Polls : Refresh(q) \/ Read(q) \/ Receive(q) \/ Lose(q)

\* The runner's fairness; a timer that is set fires, and a call is answered
\* or lost.  Nobody has to open the page.
ConsoleFairness ==
    /\ WF_consoleVars(SelectJob(Loop) /\ UNCHANGED <<page, poll, lost>>)
    /\ \A w \in Workers : WF_consoleVars(Advance(w) /\ UNCHANGED <<page, poll, lost>>)
    /\ \A q \in Polls : /\ WF_consoleVars(Interval(q))
                        /\ WF_consoleVars(Read(q) \/ Receive(q))

ConsoleSpec == ConsoleInit /\ [][ConsoleNext]_consoleVars /\ ConsoleFairness

-----------------------------------------------------------------------------
\* A page that says how a generation ended shows at least the version of that
\* generation: no commit between the statements of get_status, and no late
\* answer, pairs a status with an older version (generation_service.py:133-167).
PageIsCoherent == page.status \in {"ready", "needs_review"} => page.version >= page.least

\* A page that shows a generation under way comes to show how it ended,
\* whichever answers are lost or overtake one another
\* (DetailsSettings.tsx:97-106).
PageSettles == Asks ~> page.status \in Settled
=============================================================================
