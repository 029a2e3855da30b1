\* One writer per collection, on two tickets.
SPECIFICATION NotesSpec
CONSTANTS
    t1 = t1
    t2 = t2
    noter = noter
    delegate = delegate
    other = other
    Tickets = {t1, t2}
    Writers = {noter, delegate, other}
    Entries = {1, 2}
    Fields <- MCFields
    Values <- MCValues
    Fresh <- MCFresh
    Deltas <- MCDeltas
    Target <- Exclusive
    Absent = Absent
    Unread = Unread
INVARIANTS TypeOK AcknowledgedEntriesStay HeldIsCurrent
PROPERTIES CollectionsOnlyGrow
\* The writers stop when they have added their entries.
CHECK_DEADLOCK FALSE
