SPECIFICATION Spec
CONSTANTS
  DefaultSize = 1
  Texts <- SampleTexts
  MaxUnits = 2
  Gaps = {0, 1}
  Plain = {97}
  Escaped = {97}
  CodeUnits <- SampleUnits
  Numbers <- SampleNumbers
  Class <- SampleClass
  Bytes <- SampleBytes
  Value <- SampleValue
  Unit = 10
  Epsilon = 2
  IntMax = 3
  MinSlots = 2
  MaxSlots = 6
  MaxLeaks = 1
INVARIANTS
  TmpFits
  TmpFreed
  StackReserved

  
