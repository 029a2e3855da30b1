---------------------------- MODULE MCTicketNotes ----------------------------
(* Small instances of TicketNotes for TLC. *)
EXTENDS TicketNotes

CONSTANTS t1, t2, noter, delegate, other

MCFields == {"notes", "tool_results"}
MCValues == SUBSET (Writers \X Entries)
MCFresh == [f \in MCFields |-> {}]
MCDeltas == UNION {[{f} -> MCValues] : f \in MCFields}

\* A note writer and a result writer on t1, a note writer on t2.
Exclusive ==
    [w \in Writers |->
        CASE w = noter    -> [ticket |-> t1, field |-> "notes"]
          [] w = delegate -> [ticket |-> t1, field |-> "tool_results"]
          [] w = other    -> [ticket |-> t2, field |-> "notes"]]
==============================================================================
