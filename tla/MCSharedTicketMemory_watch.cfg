\* Two threads that update one ticket over connections that work.
SPECIFICATION Spec
CONSTANTS
    c1 = c1
    c2 = c2
    t1 = t1
    Tickets = {t1}
    Clients = {c1, c2}
    Operations = {"create", "retry"}
    Fields <- MCFields
    Values = {0, 1}
    Fresh <- MCFresh
    Deltas <- MCDeltas
    Versions <- MCVersions
    Creators <- OneCreator
    Absent = Absent
    Malformed = Malformed
    MaxRetries = 2
    MaxVersion = 2
    Lossy = FALSE
INVARIANT StaleWritesAreVersionConflicts
