CONSTANTS
  alice = alice
  bob = bob
  carol = carol
  dave = dave
  c1 = c1
  c2 = c2
  c3 = c3
  Nodes <- MCNodes
  Channels <- MCChannels
  NodeOf <- MCNodeOf
  PeerOf <- MCLinkedPeerOf
  CheckTimes = 2
  PollTimes = 2
SPECIFICATION Spec
INVARIANT BroadcastSafe
CHECK_DEADLOCK FALSE
