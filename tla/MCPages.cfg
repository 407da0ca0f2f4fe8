CONSTANTS
  Byte <- MCByte
  File <- MCFile
  Name = {"1", "2", "3"}
  NoLayout = "0"
  MaxRecurse = 3
SPECIFICATION Spec
INVARIANTS ParsersSound PageRight
PROPERTY PagesEnd
