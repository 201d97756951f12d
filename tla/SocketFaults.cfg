SPECIFICATION FairSpec
CONSTANTS
  s1 = s1
  s2 = s2
  NoSender = NoSender
  Senders = {s1, s2}
  FrameLen <- ShortAndLong
  PrefixLen = 2
  Capacity = 4
  Slow = {"read", "write"}
  MaxTimeouts = 2
  Exits = {"sender", "receiver"}
  GarbageLengths <- Garbage
CHECK_DEADLOCK FALSE
INVARIANTS
  TypeOK
  IntactUntilTimeout
  NoOvershoot
  FramesNotInterleaved
  AllBytesAccounted
PROPERTIES
  FramesArrive
