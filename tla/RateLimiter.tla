----------------------------- MODULE RateLimiter -----------------------------
(***************************************************************************)
(* RateLimitMiddleware (app/main.py): a fixed window per client, kept in   *)
(* the memory of the process.  dispatch awaits nothing between reading and *)
(* writing the table, so counting a request is one step.                   *)
(***************************************************************************)
EXTENDS Integers

CONSTANTS Hosts,      \* request.client.host
          Limit,      \* rate_limit_per_minute
          MaxMinute   \* bound on the clock

ASSUME LimiterAssumption == Limit \in Nat /\ MaxMinute \in Nat \ {0}

VARIABLES minute,   \* time.time() // 60
          window,   \* the table: the minute and the count of each client
          sent,     \* history: requests of this minute
          let       \* history: those of them that were let through

limiterVars == <<minute, window, sent, let>>

\* The default of the table.
NoWindow == [minute |-> 0, count |-> 0]

Nothing == [h \in Hosts |-> 0]

LimiterInit ==
    /\ minute = 1
    /\ window = [h \in Hosts |-> NoWindow]
    /\ sent = Nothing /\ let = Nothing

\* A mutant of Count: the count goes on into the next minute.
CountWithoutReset(h) == window[h].count + 1

\* The count with the request that is being dispatched.
Count(h) == IF window[h].minute = minute THEN window[h].count + 1 ELSE 1

Dispatch(h) ==
    /\ window' = [window EXCEPT ![h] = [minute |-> minute, count |-> Count(h)]]
    /\ sent' = [sent EXCEPT ![h] = @ + 1]
    /\ UNCHANGED minute

\* call_next ...
Admit(h) == Count(h) <= Limit /\ Dispatch(h) /\ let' = [let EXCEPT ![h] = @ + 1]

\* ... or 429.
Refuse(h) == Count(h) > Limit /\ Dispatch(h) /\ UNCHANGED let

Tick ==
    /\ minute < MaxMinute
    /\ minute' = minute + 1
    /\ sent' = Nothing /\ let' = Nothing
    /\ UNCHANGED window

\* A new process begins with an empty table.
ForgetWindows ==
    /\ window' = [h \in Hosts |-> NoWindow]
    /\ sent' = Nothing /\ let' = Nothing
    /\ UNCHANGED minute

LimiterNext == (\E h \in Hosts : Admit(h) \/ Refuse(h)) \/ Tick \/ ForgetWindows

LimiterSpec == LimiterInit /\ [][LimiterNext]_limiterVars

-----------------------------------------------------------------------------
\* Of the requests a client sends to a process in a minute exactly the first
\* Limit are let through, whatever the minutes before and the other clients
\* did (main.py:30-33).
FirstOnesPass ==
    \A h \in Hosts : let[h] = IF sent[h] <= Limit THEN sent[h] ELSE Limit
=============================================================================
