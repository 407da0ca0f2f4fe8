CONSTANTS
  Disk <- MCDisk
  MaxOpen = 2
  BufSize = 2
SPECIFICATION Spec
INVARIANTS DescriptorsSound
PROPERTIES ImplementsFlat ReadsReturn
