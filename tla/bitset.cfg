\* A bitset made with whole bytes or with a part of one, with memory of its
\* own or in a buffer of one byte.
SPECIFICATION Spec
CONSTANTS
  MaxBits = 9
  USizeRange = 32
  Counts <- WholeOrPart
  Buffers <- HeapOrByte
  Indices <- Edges
  Sources <- Masks
  PopsEmpty = FALSE
INVARIANTS TypeOK CountMissesNone
PROPERTIES BytesKept CallsImplement ErrorsKeepBits
