--------------------------- MODULE MCTicketPipeline ---------------------------
(* Every kind of request and every answer of the LLM, for TLC. *)
EXTENDS TicketPipeline

MCAnswers == [clarify : BOOLEAN, to : Specialists \cup {"self", "unknown"}]

\* The LLM leaves the ticket to the planner and asks nothing.
MCWillingAnswers == [clarify : {FALSE}, to : {"self"}]
===============================================================================
