SPECIFICATION Spec
CONSTANTS
  s1 = s1
  s2 = s2
  NoSender = NoSender
  Senders = {s1, s2}
  FrameLen <- ShortAndLong
  PrefixLen = 2
  Capacity = 4
  Slow = {"read"}
  MaxTimeouts = 2
  Exits = {}
  GarbageLengths <- Garbage
CHECK_DEADLOCK FALSE
INVARIANT
  FramesIntact
