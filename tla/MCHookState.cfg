CONSTANTS
  Base = 2
  KeyLen = 2
  MaxTyped = 3
  Narrow = 1
  Wide = 2
  Payloads <- UnitFirst
  Paired = 2
  RawData <- MCRawData
  Closures <- MCClosures
  Own = own
  Spaces = {own, other}
  Reserve = 2
SPECIFICATION Spec
INVARIANTS LittleEndianReadsBack
PROPERTIES CasesIndependent UpdatesNeverClobber IsMap
