CONSTANTS
  BlockSize = 2
  Bytes = {0, 2}
  MaxData = 4
  MaxSize = 6
SPECIFICATION Spec
INVARIANTS
  BytesAtPlace
  ReadsBack
