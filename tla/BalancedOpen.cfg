CONSTANTS
  MaxRequests = 2
  MaxAccepts = 2
  PollTimes = 2
  SendTimes = 2
SPECIFICATION FairSpec
INVARIANTS
  TypeOK
  TransitAfterPending
  NoCrossedAcceptance
  AckMeansTaken
PROPERTIES
  JointSpec
  AcceptorRunEnds
  AcceptedRunEnds
CHECK_DEADLOCK FALSE
