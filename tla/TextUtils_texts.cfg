\* Short texts, and texts of up to three blocks to hash; an int of two digits.
CONSTANTS
  Calls <- MCCalls
  NoName = NoName
  IntMax = 99
  Endings <- MCEndings
  Salts <- MCSalts
  SecondTexts <- MCSecondTexts
  Fillers <- MCFillers
  HashedTexts <- MCHashedTexts
  OtherBytes = {0, 98, 255}
  VALID_ACTIONTYPE_VALUES = {1, 2, 3}
  UNKNOWN_ACTION = 0
SPECIFICATION FairSpec
INVARIANTS RendersTemplate MacrosFilled EncodedDecodes InterleavingSeparates
           SplitRejoins NumbersAreExact QuotedArgumentsSurvive EveryByteCounts
PROPERTY RealVariablesEnd
CHECK_DEADLOCK FALSE
