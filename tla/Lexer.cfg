SPECIFICATION LayoutSpec
CONSTANTS
  Characters <- MCCharacters
  Letters <- MCLetters
  Digits <- MCDigits
  Sources <- MCSources
  Keywords <- MCKeywords
  Length = 4
INVARIANTS
  LexerTypeOK
  TokensInOrder
  SignsBinary
  NothingLost
  LayoutFree
CHECK_DEADLOCK FALSE
