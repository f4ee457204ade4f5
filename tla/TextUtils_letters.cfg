\* A text that only begins with a number.
CONSTANTS
  Calls <- MCCalls
  NoName = NoName
  IntMax = 99
  Endings <- MCEndings
  Salts <- MCSalts
  SecondTexts <- MCSecondTexts
  Fillers <- MCFillers
  HashedTexts <- MCHashedTexts
  OtherBytes = {0, 98, 255}
  VALID_ACTIONTYPE_VALUES = {1, 2, 3}
  UNKNOWN_ACTION = 0
SPECIFICATION FairSpec
INVARIANT LettersAreUnknown
CHECK_DEADLOCK FALSE
