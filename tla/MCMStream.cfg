CONSTANTS
  Word = {w1, w2}
  Byte = {1, 2}
  MinBuffersize = 1
  MaxBuffersize = 2
  DataSize = 3
  Chunk <- MCChunk
  MaxLen = 7
SPECIFICATION Spec
INVARIANTS RoomForEveryByte PagesLinkedOnce OnlyLastPagePartial
PROPERTIES FileAppendOnly ImplementsStore
SYMMETRY MCSymmetry
