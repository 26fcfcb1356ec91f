SPECIFICATION SourceSpec
CONSTANTS
  MaxSize = 2
  GuardSize = 1
  Raws <- MCRaws
  Calls <- MCCalls
  Camel <- MCCamel
  Snake <- MCSnake
  Unraw <- MCUnraw
  Owned <- MCOwned
  BytesOf <- MCBytesOf
  ValuesOf <- MCValuesOf
  StringOf <- MCStringOf
  MantissaDigits = 2
  MinExponent <- MCMinExponent
  MaxExponent = 2
  MaxI64 = 99
  Radix = 3
  ByteSize = 4
  PayloadLen = 2
  ChecksumLen = 1
  Sha <- MCSha
INVARIANTS ShipsOnlyAccepted PairMatches StaleOnlyAfter DeclaredAsWritten EntriesReached MetadataSurvives LiteralsExact
