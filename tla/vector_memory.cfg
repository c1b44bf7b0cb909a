\* The memory of a vector whose allocator never fails, whatever calls are made
\* and in the example program, with three numbers to choose from.
\* CHECK_DEADLOCK is off: the program ends.
SPECIFICATION MemorySpec
CONSTANTS
  Keys = {1, 2, 3}
  Element <- TestStructs
  Undef = undef
  AllocatorFailures = "never"
  MaxSize = 20
  MaxCalled = 4
  MaxCapacity = 9
  GrowthFactors <- ZeroOrTwo
  ShrinkThresholds <- NoneFourFive
  Capacities <- ZeroOrThree
  BufferCapacities <- ZeroOrThree
  Destructors <- On
INVARIANTS TypeOK MemorySafe BuildsSorted
PROPERTIES NoThrashing WasteBounded ReservationKept
CHECK_DEADLOCK FALSE
