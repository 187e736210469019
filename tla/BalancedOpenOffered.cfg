CONSTANTS
  MaxRequests = 2
  MaxAccepts = 2
  PollTimes = 2
  SendTimes = 2
SPECIFICATION Spec
INVARIANT AcceptedNotOffered
CHECK_DEADLOCK FALSE
