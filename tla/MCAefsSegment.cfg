SPECIFICATION Spec
CONSTANTS
  BitmapBytes = 1
  MaxIndex = 8
  BlockSize = 4
  Sizes = {1, 4}
  Word = 2048
  MaxUsed = 4
INVARIANT TypeOK
INVARIANT BytesMatchBitmap
INVARIANT PriorityOrdersSegments
PROPERTY OnlyDyingBlocksCountDead
CHECK_DEADLOCK FALSE
