CONSTANTS
  Undef = Undef
  NoPrefix = NoPrefix
  NoText = NoText
  MaxSize = 4
  MinimumCapacity = 1
  GrowthFactors = {}
  ShrinkThresholds = {}
  Capacities = {}
  BufferCapacities = {3}
  Sources <- Texts
  Letters <- LetterA
  DecValues = {10}
  HexValues = {10}
  Paddings = {0}
  Prefixes <- NoneOrOne
  FormatTexts = {}
  FormatFits = FALSE
SPECIFICATION Spec
INVARIANTS ComparisonsExchange
