CONSTANTS
  Orders = {o1}
  MaxAsks = 3
SPECIFICATION FairSpec
PROPERTY RejectedOrderEnds
CHECK_DEADLOCK FALSE
