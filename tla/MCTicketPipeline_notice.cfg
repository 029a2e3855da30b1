\* Nothing fails but the skills: a refused refund.
SPECIFICATION FairSpec
CONSTANTS
    Requests <- RequestRecords
    Answers <- MCAnswers
    MaxAttempts = 3
    Unreliable = FALSE
INVARIANT RefundNoticesAreTrue
CHECK_DEADLOCK FALSE
