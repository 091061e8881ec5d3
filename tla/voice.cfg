SPECIFICATION FairSpec
CONSTANTS
  MaxPosts = 5
INVARIANTS TypeOK SomethingEndsTheWait LateAnswerDropped OwnAnswerUnlessNested
PROPERTY WaitEnds
CHECK_DEADLOCK FALSE
