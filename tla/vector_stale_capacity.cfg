\* The capacity recorded after a reallocation that failed.
SPECIFICATION Spec
CONSTANTS
  Element = {a, b}
  Undef = undef
  AllocatorFailures = "growing"
  MaxSize = 3
  MaxCapacity = 3
  GrowthFactors <- Two
  ShrinkThresholds <- Four
  Capacities <- Zero
  BufferCapacities <- Nothing
  Destructors <- On
INVARIANTS CapacityAllocated
CHECK_DEADLOCK FALSE
