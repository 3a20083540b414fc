------------------------------ MODULE Accounts ------------------------------
(***************************************************************************)
(* Registration and login (app/api/auth.py).  A registration looks for the *)
(* address, and later inserts a tenant and a user in one transaction; only *)
(* the unique constraint on users.email (app/models/__init__.py:45)        *)
(* decides between two that overlap.                                       *)
(***************************************************************************)
EXTENDS Requests

VARIABLES tenants, users,   \* rows, each named after the call that inserted it
          tokens,           \* tokens that have been answered
          register          \* the registrations' progress

accountVars == <<tenants, users, tokens, register>>

NoRegistration == [at |-> "idle", email |-> {}]

\* The server starts on the database of an earlier one.
AccountsInit(account, now) ==
    /\ tenants = {account.tenant}
    /\ users = {account}
    /\ tokens = {Token(account.email, account.tenant, now)}
    /\ register = [c \in Calls |-> NoRegistration]

UsersOf(e) == {u \in users : u.email = e}

RegisterAt(c, stage) == register' = [register EXCEPT ![c].at = stage]

\* The check for the address: 409 if it is taken.
CheckEmail(c, e) ==
    /\ register[c].at = "idle"
    /\ register' = [register EXCEPT
          ![c] = [at |-> IF UsersOf(e) = {} THEN "insert" ELSE "failed", email |-> {e}]]
    /\ UNCHANGED <<tenants, users, tokens>>

\* A mutant of Taken: the column is not unique.
NeverTaken(c) == FALSE

\* The unique constraint, when the insert is executed.
Taken(c) == \E e \in register[c].email : UsersOf(e) # {}

NewUsers(c) == {[email |-> e, tenant |-> c] : e \in register[c].email}

\* A mutant of Stays: the tenant is committed where it is flushed.
TenantStays(c) == {c}

\* What an insert that is refused leaves behind: the tenant is rolled back.
Stays(c) == {}

CommitUser(c, now) ==
    /\ register[c].at = "insert"
    /\ \/ /\ ~Taken(c)
          /\ tenants' = tenants \union {c}
          /\ users' = users \union NewUsers(c)
          /\ tokens' = tokens \union {Token(u.email, c, now) : u \in NewUsers(c)}
          /\ RegisterAt(c, "done")
       \/ /\ Taken(c)
          /\ tenants' = tenants \union Stays(c)
          /\ RegisterAt(c, "failed")
          /\ UNCHANGED <<users, tokens>>

\* The call ends early; its commit may have reached the database all the same.
CutRegistration(c) ==
    /\ register[c].at = "insert"
    /\ RegisterAt(c, "failed")
    /\ UNCHANGED tokens
    /\ \/ UNCHANGED <<tenants, users>>
       \/ ~Taken(c) /\ tenants' = tenants \union {c} /\ users' = users \union NewUsers(c)

\* A login with the right password; any other is refused and changes nothing.
Login(c, e, now) ==
    /\ register[c].at = "idle"
    /\ \E u \in UsersOf(e) : tokens' = tokens \union {Token(e, u.tenant, now)}
    /\ RegisterAt(c, "done")
    /\ UNCHANGED <<tenants, users>>

CutAllRegistrations ==
    /\ register' = [c \in Calls |-> IF register[c].at = "insert"
                                    THEN [register[c] EXCEPT !.at = "failed"] ELSE register[c]]
    /\ UNCHANGED <<tenants, users, tokens>>

-----------------------------------------------------------------------------
\* An address has one account, a workspace has one owner, and a token leads
\* its user to the workspace of that account, however registrations overlap
\* or fail (api/auth.py:3-5).
AccountsAreWhole ==
    /\ \A u, v \in users : u.email = v.email \/ u.tenant = v.tenant => u = v
    /\ tenants = {u.tenant : u \in users}
    /\ \A t \in tokens : [email |-> t.sub, tenant |-> t.tenant] \in users
=============================================================================
