-------------------------------- MODULE Edge --------------------------------
(***************************************************************************)
(* The HTTP edge: every call passes the rate limiter, then a token decides *)
(* on the tenant, and the handler takes its steps interleaved with those   *)
(* of other calls (app/main.py, app/api/deps.py, app/api/auth.py,          *)
(* app/api/authoring.py).  The process may die and start again, on the     *)
(* same database and with an empty table of windows.                       *)
(***************************************************************************)
EXTENDS RateLimiter, Accounts, Creation, Images

CONSTANTS Names,        \* names of images
          Founder,      \* the account there is from the start
          Legacy,       \* the simulations there are from the start
          MaxRestarts   \* bound

\* What is there from the start is named after no call, and no key is there twice.
ASSUME EdgeAssumption ==
    /\ Founder = [email |-> Founder.email, tenant |-> Founder.tenant]
    /\ Founder.tenant \notin Calls
    /\ \A s \in Legacy : /\ s = [id |-> s.id, tenant |-> s.tenant, key |-> s.key]
                         /\ s.id \in Nat \ Calls
    /\ \A s, x \in Legacy : s.tenant = x.tenant /\ s.key = x.key /\ s.key # {} => s = x

VARIABLES arrived, restarts

edgeVars == <<limiterVars, accountVars, creationVars, imageVars, arrived, restarts>>

EdgeInit ==
    /\ LimiterInit
    /\ AccountsInit(Founder, minute)
    /\ CreationInit(Legacy)
    /\ ImagesInit
    /\ arrived = 0 /\ restarts = 0

-----------------------------------------------------------------------------
Registers(c) ==
    /\ \E e \in Emails : CheckEmail(c, e) \/ Login(c, e, minute)
    /\ UNCHANGED <<creationVars, imageVars>>

\* The tenants the tokens of clients lead to.
Tenants == {t.tenant : t \in {u \in tokens : Accepted(u, minute)}}

Creates(c) ==
    /\ \E t \in Tenants, k \in {{}} \union {{k} : k \in Keys} : CheckKey(c, t, k)
    /\ UNCHANGED <<accountVars, imageVars>>

\* get_simulation: the simulation is one of the tenant's.
Own(t) == {s.id : s \in {x \in sims : x.tenant = t}}

EditsImages(c) ==
    /\ \E t \in Tenants : \E s \in Own(t) \X Names : StartAdd(c, s) \/ StartDelete(c, s)
    /\ UNCHANGED <<accountVars, creationVars>>

\* The other calls read, or are rejected (400, 401, 404, 409, 422).
HasNoEffect == UNCHANGED <<accountVars, creationVars, imageVars>>

Handles(c) == Registers(c) \/ Creates(c) \/ EditsImages(c) \/ HasNoEffect

\* The next call arrives; one that is refused by the limiter has no effect.
Arrive(h) ==
    /\ arrived + 1 \in Calls
    /\ arrived' = arrived + 1
    /\ UNCHANGED restarts
    /\ \/ Admit(h) /\ Handles(arrived + 1)
       \/ Refuse(h) /\ HasNoEffect

\* The handlers' further steps.
Work(c) ==
    /\ UNCHANGED <<limiterVars, arrived, restarts>>
    /\ \/ /\ CommitUser(c, minute) \/ CutRegistration(c)
          /\ UNCHANGED <<creationVars, imageVars>>
       \/ /\ CommitSim(c) \/ CutCreation(c)
          /\ UNCHANGED <<accountVars, imageVars>>
       \/ /\ ImageWork(c)
          /\ UNCHANGED <<accountVars, creationVars>>

Restart ==
    /\ restarts < MaxRestarts
    /\ restarts' = restarts + 1
    /\ ForgetWindows
    /\ CutAllRegistrations /\ CutAllCreations /\ CutAll
    /\ UNCHANGED arrived

Clock == Tick /\ HasNoEffect /\ UNCHANGED <<arrived, restarts>>

EdgeNext == (\E h \in Hosts : Arrive(h)) \/ (\E c \in Calls : Work(c)) \/ Restart \/ Clock

EdgeSpec == EdgeInit /\ [][EdgeNext]_edgeVars
=============================================================================
