SPECIFICATION Spec
CONSTANTS
  Byte <- MCByte
  Xor <- MCXor
  Payload <- MCPayload
  Bits = 3
  Slack = 7
  MaxRun = 5
  Stale = {0}
  FourGB = 256
  TwoGB = 128
  TwoBillion = 100
  ByteValues = 4
  HeaderSize = 8
  Word = 4
  MinCompress = 32
  Native = "little"
  Reordered <- MCReordered
  Lengths = {25, 30, 33, 36, 39}
  WordLength = 2
  Odd = {2, 6, 9, 13, 14, 24}
  LongLengths = {247, 248}
INVARIANTS TypeOK WithinBuffer Replays CacheMeansSeen MessageReadable
CHECK_DEADLOCK FALSE
