---------------------------- MODULE VersionedTicket ----------------------------
(***************************************************************************)
(* What the shared ticket memory promises its callers, with the protocol   *)
(* that keeps the promise left out: one versioned record per ticket, which *)
(* is created once with version 0, on which an update lands as one atomic  *)
(* step that changes the fields of its delta and moves the version on by   *)
(* one, and which is deleted as a whole (memory/shared_memory.py:26-31,    *)
(* 72-75).  SharedTicketMemory is shown to implement this specification.   *)
(***************************************************************************)
EXTENDS Naturals

CONSTANTS
    Tickets,      \* ticket ids, the keys of the store
    Fields,       \* the fields of SharedTicketState that agents write
    Values,       \* what a field may hold
    Fresh,        \* the fields' defaults, as SharedTicketState(...) sets them
    Deltas,       \* the changes callers ask for
    Absent        \* there is no state under the ticket's key

ASSUME FreshAssumption == Fresh \in [Fields -> Values]
ASSUME DeltasAssumption == Deltas \subseteq UNION {[F -> Values] : F \in SUBSET Fields}

States == [version : Nat, data : [Fields -> Values]]

ASSUME AbsentAssumption == Absent \notin States

VARIABLE register

FreshState == [version |-> 0, data |-> Fresh]

(* updated_data.update(delta), then version + 1: a field the delta does    *)
(* not name keeps its value.                                               *)
Apply(state, delta) ==
    [version |-> state.version + 1,
     data    |-> [f \in Fields |-> IF f \in DOMAIN delta THEN delta[f]
                                                         ELSE state.data[f]]]

Init == register = [t \in Tickets |-> Absent]

Create(t) ==
    /\ register[t] = Absent
    /\ register' = [register EXCEPT ![t] = FreshState]

Commit(t, delta) ==
    /\ register[t] # Absent
    /\ register' = [register EXCEPT ![t] = Apply(register[t], delta)]

Delete(t) == register' = [register EXCEPT ![t] = Absent]

Next ==
    \E t \in Tickets :
        \/ Create(t)
        \/ \E delta \in Deltas : Commit(t, delta)
        \/ Delete(t)

Spec == Init /\ [][Next]_register
================================================================================
