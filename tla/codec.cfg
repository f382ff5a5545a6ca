SPECIFICATION FairSpec
CONSTANTS
  Symbol <- MCSymbol
  KeyOrder <- MCKeyOrder
  MaxSafeInteger = 99
  Messages <- MCMessages
  Metadata <- MCMetadata
  Altered <- MCAltered
  Alphabet <- MCAlphabet
  ForeignLen = 4
INVARIANTS
  TypeOK
  DeliveredAsSent
  CutIsRefused
  ChangeStaysLocal
  HandshakeSurvives
PROPERTIES
  DecodeEnds
CHECK_DEADLOCK FALSE
