------------------------------ MODULE ModelCall ------------------------------
(***************************************************************************)
(* One structured call to the model: parse_call over                       *)
(* AnthropicProvider.parse (app/llm/call.py, app/llm/anthropic_provider.py).*)
(* What a request comes to is a reply; its value is what the parsed JSON   *)
(* says of postures or keys.  The pauses and the semaphore are             *)
(* Generation's subject.                                                   *)
(***************************************************************************)
EXTENDS Integers, Sequences

CONSTANTS Replies,      \* to each kind of call: what a request may come to
          MaxAttempts   \* _MAX_ATTEMPTS

ASSUME ModelCallAssumption == MaxAttempts \in Nat \ {0}

VARIABLE call   \* the call under way, and what it is to return

Elements(s) == {s[i] : i \in DOMAIN s}

NoCall == [at |-> "idle", want |-> "none", attempt |-> 0, value |-> <<>>]

\* The status an AnthropicError carries, 0 for none: an answer that was cut
\* off or declined has none, one that cannot be read counts as unavailable.
StatusOf(reply) ==
    CASE reply.kind \in {"timeout", "unreachable", "no_text", "bad_json"} -> 503
      [] reply.kind \in {"refusal", "max_tokens"} -> 0
      [] OTHER -> reply.status

\* The postures in a payload that are not among the declared ones, if any are.
Invented(reply, allowed) == IF allowed = {} THEN {} ELSE Elements(reply.value) \ allowed

\* What parse raises, a set of at most one: the name of the exception and its
\* status.  fits is the verdict of the schema's validators on the value.
Raised(reply, allowed, fits) ==
    IF reply.kind # "value" THEN {[name |-> "AnthropicError", status |-> StatusOf(reply)]}
    ELSE IF Invented(reply, allowed) # {} THEN {[name |-> "AnthropicError", status |-> 503]}
    ELSE IF ~fits THEN {[name |-> "ValidationError", status |-> 0]}
    ELSE {}

\* _is_transient: another sample may mend it.
Transient(e) == \/ e.name = "ValidationError"
                \/ e.status \in {408, 409, 429, 500, 502, 503, 504, 529}

Ask(want) ==
    /\ call.at = "idle"
    /\ call' = [NoCall EXCEPT !.at = "parse", !.want = want, !.attempt = 1]

\* Transient errors are retried, up to the last attempt; LLMError is final.
Receive(reply, allowed, fits) ==
    LET raised == Raised(reply, allowed, fits)
        again == call.attempt < MaxAttempts /\ \A e \in raised : Transient(e)
    IN /\ call.at = "parse"
       /\ call' = IF raised = {} THEN [call EXCEPT !.at = "answered", !.value = reply.value]
                  ELSE [call EXCEPT !.at = IF again THEN "pause" ELSE "failed"]

Resume ==
    /\ call.at = "pause"
    /\ call' = [call EXCEPT !.at = "parse", !.attempt = @ + 1]

\* What the caller gets.
Returns(want) == call.at = "answered" /\ call.want = want /\ call' = NoCall
=============================================================================
