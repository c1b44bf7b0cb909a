\* A vector whose allocator may refuse a request for more memory, or that
\* lives in a buffer of the caller. CHECK_DEADLOCK is off: the model stops
\* after an access outside the block.
SPECIFICATION Spec
CONSTANTS
  Element = {a, b}
  Undef = undef
  AllocatorFailures = "growing"
  MaxSize = 3
  MaxCapacity = 3
  GrowthFactors <- Two
  ShrinkThresholds <- Four
  Capacities <- Zero
  BufferCapacities <- Two
  Destructors <- On
PROPERTIES CallsImplement ImplementsSequence
CHECK_DEADLOCK FALSE
