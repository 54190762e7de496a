SPECIFICATION Spec
CONSTANTS
  U64Max = 30
  U128Max = 930
  VirtualSols = {1, 6, 20}
  VirtualTokens = {0, 1, 9, 25, 30}
  RealSols = {0, 3, 10, 30}
  RealTokens = {0, 8, 25}
  MaxTrade = 30
CHECK_DEADLOCK FALSE
INVARIANTS BuyQuoteIsLeast SellQuoteIsLeast SplittingBuysNeverCheaper RoundTripBounded
PROPERTIES QuotesGrow
