SPECIFICATION Spec
CONSTANTS
  Byte <- Bytes
  TOKEN_ALPHA <- Letters
  SCHEME_TOKEN <- SchemeBytes
  tolower <- Small
  CONNECT <- ConnectName
  HeaderName <- Looked
  MethodLimit = 2
  UriLimit = 4
  StartLines <- FirstReads
  Pieces <- LaterReads
  MaxReads = 5
INVARIANTS TypeOK ParsersAgree ConnectIsSeen HostIsTheRequests ForwardsTheRequest BodyIsWhole
PROPERTY ImplementsRequest
CHECK_DEADLOCK FALSE
