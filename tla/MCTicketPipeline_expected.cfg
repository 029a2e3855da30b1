\* Nothing fails but the skills, and the LLM asks nothing: do tickets end as the
\* happy-path scenarios expect?
SPECIFICATION FairSpec
CONSTANTS
    Requests <- RequestRecords
    Answers <- MCWillingAnswers
    MaxAttempts = 3
    Unreliable = FALSE
INVARIANT HappyPathEndsAsExpected
CHECK_DEADLOCK FALSE
