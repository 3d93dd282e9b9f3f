SPECIFICATION FairSpec
CONSTANT Plans <- MCPlans
INVARIANTS OutcomeIsReal NeverDark
PROPERTY OperationEnds
CHECK_DEADLOCK FALSE
