SPECIFICATION FairSpec
CONSTANTS
  DefaultSize = 7
  Chars <- SampleChars
  Width <- SampleWidth
  Values <- SampleValues
  Nil = "nil"
  TypeOf <- SampleTypeOf
  Text <- SampleText
  Index <- SampleIndex
  Entries <- SampleEntriesOf
  Depths = {2}
  Ratios <- SampleRatios
  Safes <- SampleSafes
  NoValue = NoValue
INVARIANTS
  BufferFits
  OneBuffer
PROPERTIES
  EncodeEnds
  EncodeCorrect
