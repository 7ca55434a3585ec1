SPECIFICATION Spec
CONSTANTS
  FourGB = 6
  TwoGB = 6
  TwoBillion = 1
  ByteValues = 3
  HeaderSize = 2
  Word = 2
  MinCompress = 7
  Reordered <- MCReordered
  Sock = {s1, conn}
  Conn = conn
  MaxFd = 0
  Host <- MCOneHost
  LocalHost = "here"
  Family <- MCOneFamily
  NoIp = NoIp
  Value <- MCValue
  LevelAsked = {0, 4, 6}
  AnswerSize = {1}
  Garbled <- MCGarbled
  MaxRequests = 2
  MaxPushes = 1
  None = None
INVARIANTS TypeOK DescriptorsOwned Framed LevelRespected AnswerIsMine
PROPERTIES ChannelSpec CallEnds
CHECK_DEADLOCK FALSE
