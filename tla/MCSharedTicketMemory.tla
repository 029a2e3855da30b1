------------------------ MODULE MCSharedTicketMemory ------------------------
(* Small instances of SharedTicketMemory for TLC. *)
EXTENDS SharedTicketMemory

CONSTANTS c1, c2, t1

MCFields == {"notes", "tool_results"}
MCFresh == [f \in MCFields |-> 0]
MCDeltas == {[notes |-> 1], [tool_results |-> 1]}
OneCreator == [t \in Tickets |-> {c1}]
MCVersions == 0 .. 2
=============================================================================
