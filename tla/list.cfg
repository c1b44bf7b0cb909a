\* A list whose nodes come from an allocator that may refuse, or from a buffer.
SPECIFICATION Spec
CONSTANTS
  Element = {a, b}
  Undef = undef
  AllocatorFailures = "any"
  MaxSize = 3
  MaxNodes = 3
  Slots <- TwoOrThree
  Allocators <- Both
  Destructors <- On
INVARIANTS TypeOK WellLinked NodesAccounted
PROPERTIES NodesStay CallsImplement
