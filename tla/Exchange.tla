------------------------------ MODULE Exchange ------------------------------
(***************************************************************************)
(* What an upstream promises its callers, whatever its transport does: a   *)
(* call of query ends once, with an answer, an error or its caller giving  *)
(* up, and stays ended; the answer is the one to the caller's question.    *)
(*                                                                         *)
(* A transport that tells calls apart by ids promises the last only until  *)
(* it has used an id twice; it says so by `worn', and never takes it back. *)
(***************************************************************************)
CONSTANTS
    Query,   \* calls of query, each with a question of its own
    NoQuery  \* no answer

VARIABLES
    fate,    \* how each call ended, or "asking"
    got,     \* whose question the answer was to that it returned
    worn     \* ids come round

vars == <<fate, got, worn>>

Init ==
    /\ fate = [q \in Query |-> "asking"]
    /\ got = [q \in Query |-> NoQuery]
    /\ worn = FALSE

\* The call returns an answer.
Return(q) ==
    /\ fate[q] = "asking"
    /\ fate' = [fate EXCEPT ![q] = "ok"]
    /\ \E p \in Query : /\ p = q \/ worn
                        /\ got' = [got EXCEPT ![q] = p]
    /\ UNCHANGED worn

\* The call returns an error, or its future is dropped.
GiveUp(q) ==
    /\ fate[q] = "asking"
    /\ \E end \in {"failed", "cancelled"} : fate' = [fate EXCEPT ![q] = end]
    /\ UNCHANGED <<got, worn>>

WearOut == worn' = TRUE /\ UNCHANGED <<fate, got>>

Next == WearOut \/ \E q \in Query : Return(q) \/ GiveUp(q)

Spec == Init /\ [][Next]_vars
=============================================================================
