------------------------------ MODULE TicketNotes ------------------------------
(***************************************************************************)
(* How agents grow the collections of a shared ticket: BaseAgent._log_note *)
(* appends to `notes` (agents/base_agent.py:91-97), A2AProtocol.delegate   *)
(* merges into `tool_results` (a2a/protocol.py:85-92).  Both read the      *)
(* state, compute the whole new collection from what they read, and give   *)
(* it to update_with_retry, which reads again and replaces the collection  *)
(* whatever that second read finds.                                        *)
(*                                                                         *)
(* The store is the abstract VersionedTicket: update_with_retry is its     *)
(* atomic Commit, or an exception, which SharedTicketMemory shows to be    *)
(* all that a caller can observe.  A collection is the set of its entries. *)
(***************************************************************************)
EXTENDS VersionedTicket

CONSTANTS
    Writers,      \* threads that log notes or hand back results
    Target,       \* the ticket and the field that each of them writes
    Entries,      \* entries a writer may add, each at most once
    Unread        \* a writer that holds no collection

ASSUME TargetAssumption == Target \in [Writers -> [ticket : Tickets, field : Fields]]
ASSUME EntriesAreValues == Values = SUBSET (Writers \X Entries)
ASSUME DeltasAreFieldUpdates == \A f \in Fields : [{f} -> Values] \subseteq Deltas

VARIABLES
    held,         \* the collection a writer read and has not written back yet
    adding,       \* the entries each writer has begun to add
    acknowledged  \* those whose update_with_retry returned

vars == <<register, held, adding, acknowledged>>

TypeOK ==
    /\ register \in [Tickets -> States \cup {Absent}]
    /\ held \in [Writers -> Values \cup {Unread}]
    /\ adding \in [Writers -> SUBSET Entries]
    /\ acknowledged \in [Writers -> SUBSET Entries]

NotesInit ==
    /\ Init
    /\ held = [w \in Writers |-> Unread]
    /\ adding = [w \in Writers |-> {}]
    /\ acknowledged = [w \in Writers |-> {}]

Collection(w) == register[Target[w].ticket].data[Target[w].field]

(* submit_ticket: the state is created before any agent sees the ticket.   *)
CreateTicket(t) ==
    /\ Create(t)
    /\ UNCHANGED <<held, adding, acknowledged>>

(* The read of _log_note or delegate; without a state they do nothing.     *)
ReadCollection(w) ==
    /\ held[w] = Unread
    /\ adding[w] # Entries
    /\ register[Target[w].ticket] # Absent
    /\ held' = [held EXCEPT ![w] = Collection(w)]
    /\ UNCHANGED <<register, adding, acknowledged>>

(* Mutant: the entry names its text as the agent and the agent as text.    *)
DeltaOfSwappedEntry(w, entry) ==
    [f \in {Target[w].field} |-> held[w] \cup {<<entry, w>>}]

(* Mutant: the new entry is written in the place of the collection.        *)
DeltaOfNewEntryOnly(w, entry) == [f \in {Target[w].field} |-> {<<w, entry>>}]

(* Mutant: the delta is the writer's dump of the whole state, so it also   *)
(* sets the other collections to what this writer last saw of them.        *)
DeltaOfWholeState(w, entry) ==
    [f \in Fields |-> IF f = Target[w].field THEN held[w] \cup {<<w, entry>>}
                                             ELSE Fresh[f]]

DeltaOf(w, entry) == [f \in {Target[w].field} |-> held[w] \cup {<<w, entry>>}]

(* update_with_retry: it lands and returns, it lands and the reply is      *)
(* lost, or it raises.                                                     *)
Add(w, entry) ==
    /\ held[w] # Unread
    /\ entry \notin adding[w]
    /\ Commit(Target[w].ticket, DeltaOf(w, entry))
    /\ adding' = [adding EXCEPT ![w] = @ \cup {entry}]
    /\ held' = [held EXCEPT ![w] = Unread]
    /\ acknowledged' \in {acknowledged,
                          [acknowledged EXCEPT ![w] = @ \cup {entry}]}

(* Mutant: the writer goes on with its own list instead of reading again.  *)
AddFailsKeepsEntry(w, entry) ==
    /\ held[w] # Unread
    /\ entry \notin adding[w]
    /\ adding' = [adding EXCEPT ![w] = @ \cup {entry}]
    /\ held' = [held EXCEPT ![w] = @ \cup {<<w, entry>>}]
    /\ UNCHANGED <<register, acknowledged>>

AddFails(w, entry) ==
    /\ held[w] # Unread
    /\ entry \notin adding[w]
    /\ adding' = [adding EXCEPT ![w] = @ \cup {entry}]
    /\ held' = [held EXCEPT ![w] = Unread]
    /\ UNCHANGED <<register, acknowledged>>

NotesNext ==
    \/ \E t \in Tickets : CreateTicket(t)
    \/ \E w \in Writers :
          \/ ReadCollection(w)
          \/ \E entry \in Entries : Add(w, entry) \/ AddFails(w, entry)

NotesSpec == NotesInit /\ [][NotesNext]_vars

--------------------------------------------------------------------------------
(* One thread at a time grows a field of a ticket, as when the one thread  *)
(* of a request runs planner and specialists in turn (api/main.py:101-153).*)
ExclusiveTargets ==
    \A v, w \in Writers : Target[v] = Target[w] => v = w

(* What a writer is told is stored stays stored, whoever else writes the   *)
(* ticket: versioning prevents race conditions (docs/architecture.md:52),  *)
(* update_with_retry is a read-modify-write (shared_memory.py:109).        *)
AcknowledgedEntriesStay ==
    \A w \in Writers :
        /\ acknowledged[w] # {} => register[Target[w].ticket] # Absent
        /\ \A e \in acknowledged[w] : <<w, e>> \in Collection(w)

(* The notes and results of a ticket are append-only.                      *)
NothingDropped ==
    \A w \in Writers :
        register[Target[w].ticket] # Absent => Collection(w) \subseteq Collection(w)'

CollectionsOnlyGrow == [][NothingDropped]_vars

(* The strengthening: between its read and its write a writer holds the    *)
(* stored collection, because no other writer has the same target.         *)
HeldIsCurrent ==
    \A w \in Writers :
        held[w] # Unread => /\ register[Target[w].ticket] # Absent
                            /\ held[w] = Collection(w)
================================================================================
