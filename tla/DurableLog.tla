------------------------------ MODULE DurableLog ------------------------------
(***************************************************************************)
(* What the trajectory log promises to whoever submits tickets: rows are   *)
(* only ever added, at most one of a request, and a request is answered    *)
(* only when its row is in the log for good - whatever threads, processes  *)
(* and crashes there are in between.                                       *)
(***************************************************************************)
CONSTANT Rows   \* what may be logged: records with a field request

VARIABLES
    log,        \* the rows that no crash can take away
    answered    \* the requests whose submitter has an outcome

logVars == <<log, answered>>

Init == log = {} /\ answered = {}

(* One commit may carry the rows of several requests.                      *)
Commit ==
    /\ log \subseteq log' /\ log' \subseteq Rows
    /\ \A a, b \in log' : a.request = b.request => a = b
    /\ UNCHANGED answered

Answer ==
    \E row \in log :
        /\ answered' = answered \cup {row.request}
        /\ UNCHANGED log

Next == Commit \/ Answer

Spec == Init /\ [][Next]_logVars
===============================================================================
