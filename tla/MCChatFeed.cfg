\* ReadBuf holds a long message alone or up to three short ones.
CONSTANTS
  p1 = p1
  p2 = p2
  i1 = i1
  i2 = i2
  short = short
  long = long
  NoId = NoId
  Pubkey = {p1, p2}
  MsgId = {i1, i2}
  Body = {short, long}
  Cap = 2
  SeenCap = 2
  MaxSeq = 4
  Copies = 2
  ReadBuf = 4
  Traffic <- MCTraffic
  GuestPush <- MCGuestPush
  BodySize <- MCBodySize
SPECIFICATION FeedSpec
INVARIANTS
  TranscriptInOrder
  RepeatOnlyAfterSeenCap
  OnlyVerified
  NoRetainedDuplicate
PROPERTIES
  HeardIsStored
  NothingSkipped
  ImplementsLog
  CatchesUp
