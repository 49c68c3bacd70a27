\* What a start makes of the rows that accepted requests saved.
SPECIFICATION SavedSpec
INVARIANT AcknowledgedCommitsLoad
CHECK_DEADLOCK FALSE
