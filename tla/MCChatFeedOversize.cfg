\* A long message does not fit the reader's buffer.
CONSTANTS
  p1 = p1
  p2 = p2
  i1 = i1
  i2 = i2
  short = short
  long = long
  NoId = NoId
  Pubkey = {p1, p2}
  MsgId = {i1, i2}
  Body = {short, long}
  Cap = 2
  SeenCap = 2
  MaxSeq = 4
  Copies = 2
  ReadBuf = 3
  Traffic <- MCPair
  GuestPush <- MCGuestPush
  BodySize <- MCBodySize
SPECIFICATION FeedSpec
PROPERTY CatchesUp
