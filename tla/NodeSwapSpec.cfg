SPECIFICATION NodeSwapSpec
CONSTANTS
  Ki = 2
  Frac = 2
  Half = 16
  NoFile = NoFile
  MaxSwaps = 3
  Words = {"word"}
  MaxLen = 5
  SwapLists <- MCSwapLists
INVARIANTS ReturnsCreate SizesExact ParsesAsKeyValue
CHECK_DEADLOCK FALSE
