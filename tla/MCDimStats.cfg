CONSTANTS
  MaxRun = 3
  Val = {0, 1, 2}
  Enc = {"rle", "zlib", "sigbits"}
  MaxLen = 6
  Dims <- TwoDims
  SampleVal = {0, 1}
  MinSample = 5
  NULL = NULL
SPECIFICATION SharedSpec
INVARIANTS TypeOK ColumnAnswers
INVARIANTS RecommendationShrinks SampleBounded
PROPERTY OverrideSticks
