SPECIFICATION Spec
CONSTANTS
  NUL = "NUL"
  Bytes <- Symbols
  INITIAL_CAPACITY = 16
  HTTP_MAX_HEADERS = 2
  SIZE_TEXT_LIMIT = 4
  SIZE_VALUES = 1000
  Messages <- All
INVARIANTS
  TypeOK
  HeadersFit
  ReadInOrder
  ZeroBehindReceived
  ZeroBehindData
  CutsHarmless
  BodyNeverWrong
  BodyFromMessage
  MessageParsed
  FilesParsed
PROPERTIES
  RefinesText
  EveryAppendEnds
  EveryMessageAnswered
CHECK_DEADLOCK FALSE
