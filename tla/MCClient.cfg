SPECIFICATION FairSpec
CONSTANTS
  Escapes <- MCEscapes
  ParseText <- json_parse_ex
  MeasureText <- json_measure_ex
  WriteText <- json_serialize_ex
  IntMax = 7
  Values <- MCValues
  WorkerId = 2
  Token = "t"
  Docs <- MCDocs
  Texts <- MCTexts
  BufLen = 150
  Seen = {"running", "completed"}
  WriterOpts <- MCOpts
  MaxConns = 2
  MaxFails = 1
INVARIANT TypeOK
INVARIANT MemoryBalance
INVARIANT ErrorTellsEffect
INVARIANT AnswerFits
INVARIANT AnswerReadable
PROPERTY ImplementsExchange
PROPERTY ConnectionEnds
