----------------------------- MODULE RemoteCall -----------------------------
(***************************************************************************)
(* What the callers of WsmanClient rely on, and all they rely on: a call   *)
(* is made, it comes to an end, and the way it ends says how often what it *)
(* asked for was done.  boot.py, client.py, redirection_service.py and the *)
(* role are modelled on top of this contract; Wsman implements it.         *)
(***************************************************************************)
EXTENDS Naturals

VARIABLES
    phase,     \* "idle" | "open" | "closed"
    mutating,  \* the call changes state at the endpoint
    effects,   \* how often that change was made
    answer     \* what the caller is told

vars == <<phase, mutating, effects, answer>>

\* done        it returned
\* not_sent    a timeout that is not marked indeterminate
\* unsure      every other error
Answers == {"none", "done", "not_sent", "unsure"}

TypeOK ==
    /\ phase \in {"idle", "open", "closed"}
    /\ mutating \in BOOLEAN
    /\ effects \in {0, 1}
    /\ answer \in Answers

Init ==
    /\ phase = "idle"
    /\ mutating = FALSE
    /\ effects = 0
    /\ answer = "none"

Begin ==
    /\ phase = "idle"
    /\ phase' = "open"
    /\ mutating' \in BOOLEAN
    /\ effects' = 0
    /\ answer' = "none"

\* A change is made at most once, by a call that asks for one; it has been made
\* when the call returns and has not when nothing was sent.
End ==
    /\ phase = "open"
    /\ phase' = "closed"
    /\ answer' \in {"done", "not_sent", "unsure"}
    /\ effects' \in {0, 1}
    /\ effects' = 1 => mutating
    /\ (mutating /\ answer' = "done") => effects' = 1
    /\ answer' = "not_sent" => effects' = 0
    /\ UNCHANGED mutating

\* The caller has taken the answer.
Release ==
    /\ phase = "closed"
    /\ phase' = "idle"
    /\ answer' = "none"
    /\ UNCHANGED <<mutating, effects>>

Next == Begin \/ End \/ Release

Spec == Init /\ [][Next]_vars
=============================================================================
