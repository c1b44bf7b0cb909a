\* A bitset made with a part of a byte, which has no room for it.
SPECIFICATION Spec
CONSTANTS
  MaxBits = 9
  USizeRange = 32
  Counts <- WholeOrPart
  Buffers <- HeapOrByte
  Indices <- Edges
  Sources <- Masks
  PopsEmpty = FALSE
INVARIANT BytesFit
