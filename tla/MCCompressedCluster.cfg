CONSTANTS
  Kind = {"deflate", "bzip2", "lzma"}
  Byte = {1, 2}
  Trailer = 0
  BufSize = 2
  ZBufSize = 2
  HalfSize = 2
  MaxLen = 6
  Junk <- MCJunk
  Other = {8, 9}
SPECIFICATION Spec
INVARIANTS BuffersSound ReadBack
PROPERTIES CallsReturn
CHECK_DEADLOCK FALSE
