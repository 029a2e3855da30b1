---------------------------- MODULE MCTicketIntake ----------------------------
(* Small instances of TicketIntake for TLC. *)
EXTENDS TicketIntake

CONSTANTS api, ui, demo, a1, a2, u1, d1

\* Two request threads of the API, one session of the UI, the demo.
ThreadsOf ==
    [t \in Threads |-> CASE t \in {a1, a2} -> api [] t = u1 -> ui [] t = d1 -> demo]
Kinds == [p \in Processes |-> CASE p = api -> "api" [] p = ui -> "ui" [] p = demo -> "demo"]
===============================================================================
