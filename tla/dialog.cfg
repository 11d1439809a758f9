CONSTANTS
  Version = {1, 2, 3}
  ChannelOf <- MCChannelOf
  MajorOf <- MCMajorOf
  Guarded = {3}
  Destructive = {2, 3}
  Latest = Latest
  None = None
  Closed = Closed
  Idle = Idle
SPECIFICATION DialogSpec
PROPERTY MajorWasAnnounced
