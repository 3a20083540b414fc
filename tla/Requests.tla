------------------------------ MODULE Requests ------------------------------
(***************************************************************************)
(* Requests and the bearer tokens they carry (app/auth.py,                 *)
(* app/api/deps.py).  Calls are numbered in the order they arrive.  A      *)
(* signature that verifies is one of a token that was issued, so a token   *)
(* is its payload; X-Tenant-Id is honoured in development only             *)
(* (config.py:69-80) and left out.                                         *)
(***************************************************************************)
EXTENDS Integers

CONSTANTS Calls,      \* the requests
          Emails,
          Lifetime    \* jwt_expire_minutes

ASSUME RequestsAssumption == Calls \subseteq Nat /\ Lifetime \in Nat

\* create_access_token.  A tenant is named after the call that made it.
Token(email, tenant, now) == [sub |-> email, tenant |-> tenant, exp |-> now + Lifetime]

\* decode_access_token: a token is good to the end of the minute it expires in.
Accepted(token, now) == token.exp >= now
=============================================================================
