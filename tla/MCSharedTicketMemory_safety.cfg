\* Two threads, one of them the ticket's creator, every method, and
\* connections that break, for ever: only the bound on attempts ends a call.
SPECIFICATION FairSpec
CONSTANTS
    c1 = c1
    c2 = c2
    t1 = t1
    Tickets = {t1}
    Clients = {c1, c2}
    Operations = {"create", "init", "update", "retry", "delete"}
    Fields <- MCFields
    Values = {0, 1}
    Fresh <- MCFresh
    Deltas <- MCDeltas
    Versions <- MCVersions
    Creators <- OneCreator
    Absent = Absent
    Malformed = Malformed
    MaxRetries = 3
    MaxVersion = 2
    Lossy = TRUE
INVARIANTS TypeOK CleanSnapshotIsCurrent OutcomeTellsWhatWasWritten
PROPERTIES KeepsPromise RetriesOnlyOnContention CallsAreShort CallsReturn
