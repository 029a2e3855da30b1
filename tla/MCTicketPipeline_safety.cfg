\* Every request, every answer of the LLM, every failure.
SPECIFICATION FairSpec
CONSTANTS
    Requests <- RequestRecords
    Answers <- MCAnswers
    MaxAttempts = 3
    Unreliable = TRUE
INVARIANTS
    TypeOK
    UrgentTicketsAreNeverRefunded
    NoticesFollowTheWork
    ResolvedMeansDone
    AnswerIsDocumented
PROPERTIES
    EveryTicketIsAnswered
    WorkIsBounded
\* an answered ticket is the end of its request
CHECK_DEADLOCK FALSE
