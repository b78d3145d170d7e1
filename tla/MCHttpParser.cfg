SPECIFICATION Spec
CONSTANTS
  Byte <- MCByte
  CR = "CR"
  LF = "LF"
  SP = "SP"
  COLON = ":"
  NUL = "NUL"
  Wires <- MCWires
  ContentLengthKey <- MCKey
  ToLower <- MCToLower
  Atoi <- MCAtoi
  Requests <- MCRequests
  Queries <- MCQueries
  Post <- MCWord
  Version <- MCWord
  Accept <- MCWord
  UserAgent <- MCWord
  Host <- MCWord
  ContentType <- MCWord
  AuthToken <- MCWord
  ContentLength <- MCName
  AnyType <- MCWord
  Agent <- MCWord
  Decimal <- MCDecimal
INVARIANTS TypeOK HeadersDelimited SegmentationFree RequestRecovered PayloadIntact BuiltQueriesRejected
