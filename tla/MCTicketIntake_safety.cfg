\* The API with two threads, one session of the UI, the demo and the training,
\* two requests, one crash.
SPECIFICATION FairSpec
CONSTANTS
    api = api ui = ui demo = demo
    a1 = a1 a2 = a2 u1 = u1 d1 = d1
    Processes = {api, ui, demo}
    Threads = {a1, a2, u1, d1}
    Requests = {r1, r2}
    ProcessOf <- ThreadsOf
    Kind <- Kinds
    MinTrajectories = 2
    MaxCrashes = 1
    None = None
    Synthetic = Synthetic
CHECK_DEADLOCK FALSE
INVARIANTS TypeOK RowsHaveTickets RewardsFollowOutcomes LoneThreadsNeverRace
PROPERTIES LogIsDurable LoggingEnds
