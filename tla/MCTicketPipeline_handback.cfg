\* Writes, replies and clocks that fail after the refund.
SPECIFICATION FairSpec
CONSTANTS
    Requests <- RequestRecords
    Answers <- MCAnswers
    MaxAttempts = 3
    Unreliable = TRUE
INVARIANT RefundsAreHandedBack
CHECK_DEADLOCK FALSE
