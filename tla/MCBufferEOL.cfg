SPECIFICATION Spec
VIEW Objects
CONSTANTS
  Buffers = {b1}
  ByteBase = 2
  EOL = 1
  CR = 0
  MaxLen = 2
  kCheapPrepend = 1
  kInitialSize = 2
  ExtraSize = 2
  MaxSize = 4
INVARIANT FoundEOLIsReadable
