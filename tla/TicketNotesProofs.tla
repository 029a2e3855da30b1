--------------------------- MODULE TicketNotesProofs ---------------------------
(***************************************************************************)
(* Theorems about TicketNotes for every number of tickets, fields, writers *)
(* and entries: with one writer per collection nothing acknowledged is     *)
(* lost.  The inductive invariant is TypeOK, HeldIsCurrent (a writer's     *)
(* copy is the stored collection) and AcknowledgedEntriesStay.             *)
(***************************************************************************)
EXTENDS TicketNotes, TLAPS

IInv == TypeOK /\ HeldIsCurrent /\ AcknowledgedEntriesStay

LEMMA FreshIsState == FreshState \in States
BY FreshAssumption DEF FreshState, States

LEMMA ApplyIsState ==
    ASSUME NEW state \in States, NEW delta \in Deltas
    PROVE  Apply(state, delta) \in States
<1>1. PICK F \in SUBSET Fields : delta \in [F -> Values]
  BY DeltasAssumption
<1>2. QED
  BY <1>1 DEF Apply, States

(* A commit of one collection: that collection grows by the entry, every   *)
(* other collection of every ticket stays as it is.                        *)
LEMMA AddChangesOneCollection ==
    ASSUME TypeOK, HeldIsCurrent, NEW w \in Writers, NEW entry \in Entries, Add(w, entry)
    PROVE  /\ register' \in [Tickets -> States \cup {Absent}]
           /\ register[Target[w].ticket] # Absent
           /\ Collection(w)' = Collection(w) \cup {<<w, entry>>}
           /\ \A t \in Tickets : register[t] # Absent => register'[t] \in States
           /\ \A v \in Writers :
                 Target[v] # Target[w] /\ register[Target[v].ticket] # Absent =>
                     Collection(v)' = Collection(v)
<1> DEFINE T == Target[w].ticket
           F == Target[w].field
           D == DeltaOf(w, entry)
<1>1. T \in Tickets /\ F \in Fields
  BY TargetAssumption
<1>2. held[w] = Collection(w) /\ register[T] # Absent
  BY DEF HeldIsCurrent, Add
<1>3. held[w] \cup {<<w, entry>>} \in Values
  BY EntriesAreValues DEF TypeOK, Add
<1>4. D \in Deltas
  BY <1>1, <1>3, DeltasAreFieldUpdates DEF DeltaOf
<1>5. register[T] \in States
  BY <1>1, <1>2 DEF TypeOK
<1>6. Apply(register[T], D) \in States
  BY <1>4, <1>5, ApplyIsState
<1>7. register' = [register EXCEPT ![T] = Apply(register[T], D)]
  BY DEF Add, Commit
<1>8. \A f \in Fields : Apply(register[T], D).data[f] =
          IF f = F THEN held[w] \cup {<<w, entry>>} ELSE register[T].data[f]
  BY DEF Apply, DeltaOf
<1>9. register'[T] = Apply(register[T], D)
  BY <1>1, <1>7 DEF TypeOK
<1>10. Collection(w)' = Collection(w) \cup {<<w, entry>>}
  BY <1>1, <1>2, <1>8, <1>9 DEF Collection
<1>11. ASSUME NEW v \in Writers, Target[v] # Target[w], register[Target[v].ticket] # Absent
       PROVE  Collection(v)' = Collection(v)
  <2>1. Target[v] \in [ticket : Tickets, field : Fields]
    BY TargetAssumption
  <2>2. CASE Target[v].ticket # T
    BY <2>1, <2>2, <1>7 DEF Collection, TypeOK
  <2>3. CASE Target[v].ticket = T /\ Target[v].field # F
    BY <2>1, <2>3, <1>8, <1>9 DEF Collection
  <2>4. Target[v].ticket # T \/ Target[v].field # F
    BY <1>11, <2>1, TargetAssumption
  <2>5. QED
    BY <2>2, <2>3, <2>4
<1>12. \A t \in Tickets : register[t] # Absent => register'[t] \in States
  BY <1>6, <1>7 DEF TypeOK
<1>13. QED
  BY <1>2, <1>6, <1>7, <1>10, <1>11, <1>12 DEF TypeOK

LEMMA InitIInv == NotesInit => IInv
BY DEF NotesInit, Init, IInv, TypeOK, HeldIsCurrent, AcknowledgedEntriesStay

LEMMA CreateIInv ==
    ASSUME IInv, NEW t \in Tickets, CreateTicket(t)
    PROVE  IInv'
<1>1. TypeOK'
  BY FreshIsState DEF IInv, TypeOK, CreateTicket, Create
<1>2. \A w \in Writers : register[Target[w].ticket] # Absent =>
          register'[Target[w].ticket] = register[Target[w].ticket]
  BY DEF IInv, TypeOK, CreateTicket, Create
<1>3. HeldIsCurrent'
  BY <1>2 DEF IInv, HeldIsCurrent, CreateTicket, Collection
<1>4. AcknowledgedEntriesStay'
  BY <1>2 DEF IInv, AcknowledgedEntriesStay, CreateTicket, Collection
<1>5. QED
  BY <1>1, <1>3, <1>4 DEF IInv

LEMMA ReadIInv ==
    ASSUME IInv, NEW w \in Writers, ReadCollection(w)
    PROVE  IInv'
<1>1. Target[w].ticket \in Tickets /\ Target[w].field \in Fields
  BY TargetAssumption
<1>2. Collection(w) \in Values
  BY <1>1 DEF IInv, TypeOK, ReadCollection, Collection, States
<1>3. TypeOK'
  BY <1>2 DEF IInv, TypeOK, ReadCollection
<1>4. HeldIsCurrent'
  BY DEF IInv, TypeOK, HeldIsCurrent, ReadCollection, Collection
<1>5. AcknowledgedEntriesStay'
  BY DEF IInv, AcknowledgedEntriesStay, ReadCollection, Collection
<1>6. QED
  BY <1>3, <1>4, <1>5 DEF IInv

(* The one step that matters: a commit replaces a collection by what its   *)
(* writer held, which is the stored one plus the new entry; writers of     *)
(* other collections hold what is still stored.                            *)
LEMMA AddIInv ==
    ASSUME ExclusiveTargets, IInv, NEW w \in Writers, NEW entry \in Entries, Add(w, entry)
    PROVE  IInv'
<1>1. /\ register' \in [Tickets -> States \cup {Absent}]
      /\ register[Target[w].ticket] # Absent
      /\ Collection(w)' = Collection(w) \cup {<<w, entry>>}
      /\ \A v \in Writers :
            Target[v] # Target[w] /\ register[Target[v].ticket] # Absent =>
                Collection(v)' = Collection(v)
  BY AddChangesOneCollection DEF IInv
<1>2. /\ held' = [held EXCEPT ![w] = Unread]
      /\ adding' \in [Writers -> SUBSET Entries]
      /\ acknowledged' \in [Writers -> SUBSET Entries]
      /\ acknowledged'[w] \subseteq acknowledged[w] \cup {entry}
      /\ \A v \in Writers : v # w => acknowledged'[v] = acknowledged[v]
  BY DEF Add, IInv, TypeOK
<1>3. TypeOK'
  BY <1>1, <1>2 DEF IInv, TypeOK
<1>4. ASSUME NEW v \in Writers, v # w, register[Target[v].ticket] # Absent
      PROVE  Collection(v)' = Collection(v)
  BY <1>1, <1>4 DEF ExclusiveTargets
<1>5. \A t \in Tickets : register[t] # Absent => register'[t] # Absent
  BY AddChangesOneCollection, AbsentAssumption DEF IInv
<1>6. \A v \in Writers : Target[v].ticket \in Tickets
  BY TargetAssumption
<1>7. HeldIsCurrent'
  <2> SUFFICES ASSUME NEW v \in Writers, held'[v] # Unread
               PROVE  register'[Target[v].ticket] # Absent /\ held'[v] = Collection(v)'
    BY DEF HeldIsCurrent
  <2>1. v # w /\ held'[v] = held[v]
    BY <1>2 DEF IInv, TypeOK
  <2>2. register[Target[v].ticket] # Absent /\ held[v] = Collection(v)
    BY <2>1 DEF IInv, HeldIsCurrent
  <2>3. QED
    BY <2>1, <2>2, <1>4, <1>5, <1>6
<1>8. AcknowledgedEntriesStay'
  <2> SUFFICES ASSUME NEW v \in Writers
               PROVE  /\ acknowledged'[v] # {} => register'[Target[v].ticket] # Absent
                      /\ \A e \in acknowledged'[v] : <<v, e>> \in Collection(v)'
    BY DEF AcknowledgedEntriesStay
  <2>1. CASE v = w
    BY <2>1, <1>1, <1>2, <1>5, <1>6 DEF IInv, AcknowledgedEntriesStay
  <2>2. CASE v # w
    BY <2>2, <1>2, <1>4, <1>5, <1>6 DEF IInv, AcknowledgedEntriesStay
  <2>3. QED
    BY <2>1, <2>2
<1>9. QED
  BY <1>3, <1>7, <1>8 DEF IInv

LEMMA FailIInv ==
    ASSUME IInv, NEW w \in Writers, NEW entry \in Entries, AddFails(w, entry)
    PROVE  IInv'
<1>1. TypeOK'
  BY DEF IInv, TypeOK, AddFails
<1>2. HeldIsCurrent'
  BY DEF IInv, TypeOK, HeldIsCurrent, AddFails, Collection
<1>3. AcknowledgedEntriesStay'
  BY DEF IInv, AcknowledgedEntriesStay, AddFails, Collection
<1>4. QED
  BY <1>1, <1>2, <1>3 DEF IInv

--------------------------------------------------------------------------------
THEOREM Invariance ==
    ASSUME ExclusiveTargets
    PROVE  NotesSpec => []IInv
<1>1. IInv /\ [NotesNext]_vars => IInv'
  <2> SUFFICES ASSUME IInv, [NotesNext]_vars PROVE IInv'
    OBVIOUS
  <2>1. CASE UNCHANGED vars
    BY <2>1 DEF vars, IInv, TypeOK, HeldIsCurrent, AcknowledgedEntriesStay, Collection
  <2>2. CASE \E t \in Tickets : CreateTicket(t)
    BY <2>2, CreateIInv
  <2>3. CASE \E w \in Writers : ReadCollection(w)
    BY <2>3, ReadIInv
  <2>4. CASE \E w \in Writers, entry \in Entries : Add(w, entry)
    BY <2>4, AddIInv
  <2>5. CASE \E w \in Writers, entry \in Entries : AddFails(w, entry)
    BY <2>5, FailIInv
  <2>6. QED
    BY <2>1, <2>2, <2>3, <2>4, <2>5 DEF NotesNext
<1>2. QED
  BY InitIInv, <1>1, PTL DEF NotesSpec

(* The delta of a writer is one that callers of update may ask for.        *)
LEMMA DeltaIsDelta ==
    ASSUME TypeOK, NEW w \in Writers, NEW entry \in Entries, held[w] # Unread
    PROVE  DeltaOf(w, entry) \in Deltas
<1>1. Target[w].field \in Fields
  BY TargetAssumption
<1>2. held[w] \cup {<<w, entry>>} \in Values
  BY EntriesAreValues DEF TypeOK
<1>3. DeltaOf(w, entry) \in [{Target[w].field} -> Values]
  BY <1>2 DEF DeltaOf
<1>4. QED
  BY <1>1, <1>3, DeltasAreFieldUpdates

(* Collections hold entries of their writers only, and every ticket is a   *)
(* state of the store, however many writers a collection has.              *)
THEOREM TypeCorrect == NotesSpec => []TypeOK
<1>1. NotesInit => TypeOK
  BY DEF NotesInit, Init, TypeOK
<1>2. TypeOK /\ [NotesNext]_vars => TypeOK'
  <2> SUFFICES ASSUME TypeOK, [NotesNext]_vars PROVE TypeOK'
    OBVIOUS
  <2>1. CASE UNCHANGED vars
    BY <2>1 DEF vars, TypeOK
  <2>2. ASSUME NEW t \in Tickets, CreateTicket(t) PROVE TypeOK'
    BY <2>2, FreshIsState DEF CreateTicket, Create, TypeOK
  <2>3. ASSUME NEW w \in Writers, ReadCollection(w) PROVE TypeOK'
    <3>1. Target[w].ticket \in Tickets /\ Target[w].field \in Fields
      BY TargetAssumption
    <3>2. register[Target[w].ticket] \in States
      BY <2>3, <3>1 DEF ReadCollection, TypeOK
    <3>3. Collection(w) \in Values
      BY <3>1, <3>2 DEF Collection, States
    <3>4. QED
      BY <2>3, <3>3 DEF ReadCollection, TypeOK
  <2>4. ASSUME NEW w \in Writers, NEW entry \in Entries, Add(w, entry) PROVE TypeOK'
    <3>1. Target[w].ticket \in Tickets
      BY TargetAssumption
    <3>2. register[Target[w].ticket] \in States
      BY <2>4, <3>1 DEF Add, Commit, TypeOK
    <3>3. Apply(register[Target[w].ticket], DeltaOf(w, entry)) \in States
      BY <2>4, <3>2, DeltaIsDelta, ApplyIsState DEF Add
    <3>4. register' \in [Tickets -> States \cup {Absent}]
      BY <2>4, <3>3 DEF Add, Commit, TypeOK
    <3>5. QED
      BY <2>4, <3>4 DEF Add, TypeOK
  <2>5. ASSUME NEW w \in Writers, NEW entry \in Entries, AddFails(w, entry) PROVE TypeOK'
    BY <2>5 DEF AddFails, TypeOK
  <2>6. QED
    BY <2>1, <2>2, <2>3, <2>4, <2>5 DEF NotesNext
<1>3. QED
  BY <1>1, <1>2, PTL DEF NotesSpec

(* With one writer per collection, what _log_note and delegate write back  *)
(* is computed from what is stored at that moment, although they read it   *)
(* before update_with_retry does (base_agent.py:91-97).                    *)
THEOREM CopiesAreCurrent ==
    ASSUME ExclusiveTargets
    PROVE  NotesSpec => []HeldIsCurrent
<1>1. IInv => HeldIsCurrent
  BY DEF IInv
<1>2. QED
  BY <1>1, Invariance, PTL

(* With one writer per collection, an entry whose write was acknowledged   *)
(* is never lost, whatever the other writers of the ticket do.             *)
THEOREM NothingAcknowledgedIsLost ==
    ASSUME ExclusiveTargets
    PROVE  NotesSpec => []AcknowledgedEntriesStay
<1>1. IInv => AcknowledgedEntriesStay
  BY DEF IInv
<1>2. QED
  BY <1>1, Invariance, PTL

(* With one writer per collection, collections are append-only.            *)
THEOREM AppendOnly ==
    ASSUME ExclusiveTargets
    PROVE  NotesSpec => CollectionsOnlyGrow
<1>1. IInv /\ [NotesNext]_vars => NothingDropped
  <2> SUFFICES ASSUME IInv, [NotesNext]_vars, NEW v \in Writers,
                      register[Target[v].ticket] # Absent
               PROVE  Collection(v) \subseteq Collection(v)'
    BY DEF NothingDropped
  <2>1. CASE UNCHANGED register
    BY <2>1 DEF Collection
  <2>2. ASSUME NEW t \in Tickets, CreateTicket(t)
        PROVE  Collection(v) \subseteq Collection(v)'
    BY <2>2 DEF CreateTicket, Create, Collection, IInv, TypeOK
  <2>3. ASSUME NEW w \in Writers, NEW entry \in Entries, Add(w, entry)
        PROVE  Collection(v) \subseteq Collection(v)'
    <3>1. CASE v = w
      BY <2>3, <3>1, AddChangesOneCollection DEF IInv
    <3>2. CASE v # w
      BY <2>3, <3>2, AddChangesOneCollection DEF IInv, ExclusiveTargets
    <3>3. QED
      BY <3>1, <3>2
  <2>4. CASE \E w \in Writers : ReadCollection(w) \/ \E e \in Entries : AddFails(w, e)
    BY <2>4, <2>1 DEF ReadCollection, AddFails
  <2>5. QED
    BY <2>1, <2>2, <2>3, <2>4 DEF NotesNext, vars
<1>2. QED
  BY <1>1, Invariance, PTL DEF NotesSpec, CollectionsOnlyGrow
--------------------------------------------------------------------------------
(* Writers see and change the store through its promise only, so that what *)
(* TicketNotes shows holds of the SharedTicketMemory that implements it:   *)
(* each step is a creation or one commit of a delta that callers may ask   *)
(* for (base_agent.py:91-97, protocol.py:85-92).                           *)
THEOREM WritersUseThePromise == NotesSpec => Spec
<1>1. TypeOK /\ [NotesNext]_vars => [Next]_register
  <2> SUFFICES ASSUME TypeOK, NotesNext, register' # register PROVE Next
    BY DEF vars
  <2>1. CASE \E t \in Tickets : CreateTicket(t)
    BY <2>1 DEF CreateTicket, Next
  <2>2. ASSUME NEW w \in Writers, NEW entry \in Entries, Add(w, entry) PROVE Next
    <3>1. Target[w].ticket \in Tickets
      BY TargetAssumption
    <3>2. DeltaOf(w, entry) \in Deltas
      BY <2>2, DeltaIsDelta DEF Add
    <3>3. QED
      BY <2>2, <3>1, <3>2 DEF Add, Next
  <2>3. ~(\E w \in Writers : ReadCollection(w) \/ \E entry \in Entries : AddFails(w, entry))
    BY DEF ReadCollection, AddFails
  <2>4. QED
    BY <2>1, <2>2, <2>3 DEF NotesNext
<1>2. QED
  BY <1>1, TypeCorrect, PTL DEF NotesSpec, NotesInit, Spec
================================================================================
