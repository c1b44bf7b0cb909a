CONSTANTS
  Undef = Undef
  NoPrefix = NoPrefix
  NoText = NoText
  MaxSize = 4
  MinimumCapacity = 1
  GrowthFactors = {0, 2}
  ShrinkThresholds = {4}
  Capacities = {0, 3}
  BufferCapacities = {0, 4}
  Sources <- Texts
  Letters <- LetterA
  DecValues <- DecSamples
  HexValues <- HexSamples
  Paddings = {0, 2}
  Prefixes <- NoneOrOne
  FormatTexts <- OfOne
  FormatFits = TRUE
SPECIFICATION Spec
INVARIANTS Terminated CallsImplement SearchesFind ComparisonsOrder
PROPERTIES Creates
