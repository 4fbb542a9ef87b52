SPECIFICATION Spec
VIEW Objects
CONSTANTS
  Buffers = {b1}
  ByteBase = 2
  EOL = 1
  CR = 0
  MaxLen = 3
  kCheapPrepend = 2
  kInitialSize = 2
  ExtraSize = 2
  MaxSize = 7
INVARIANTS
  IndicesOK
  AssertsHold
  PrependIntThenReadInt
PROPERTIES
  ImplementsByteQueue
  GrowthIsProportional
