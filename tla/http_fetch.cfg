\* Responses of up to seven bytes, cut anywhere, in a buffer that four of them fill.
CONSTANTS
  Buffer = 4
  MaxSize = 7
SPECIFICATION FetchSpec
INVARIANTS
  BodyKept
  HeaderLeftOut
  FileIsBody
