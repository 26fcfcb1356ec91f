CONSTANTS
  Base = 2
  KeyLen = 2
  MaxTyped = 3
  Narrow = 1
  Wide = 2
  Payloads <- TupleFirst
  Paired = 2
  RawData <- MCRawData
  Closures <- MCClosures
  Own = own
  Spaces = {own, other}
  Reserve = 2
SPECIFICATION Spec
\* Each of the three is violated: check one at a time, or all with -continue.
INVARIANTS ForeignTwinAgrees
PROPERTIES CasesIndependent BigEndianRoundTrips
