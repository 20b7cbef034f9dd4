SPECIFICATION NodeSwapSpec
CONSTANTS
  Ki = 2
  Frac = 2
  Half = 16
  NoFile = NoFile
  MaxSwaps = 3
  Words = {"word"}
  MaxLen = 0
  SwapLists <- MCSwapLists
INVARIANT SizesConverted
CHECK_DEADLOCK FALSE
