SPECIFICATION GenesisSpec
CONSTANTS
  Genesis = Genesis
  Table2 = Table2
  None = None
  Zero = Zero
  p1 = p1
  p2 = p2
  p3 = p3
  p4 = p4
  h1 = h1
  h2 = h2
  t1 = t1
  r0 = r0
  r1 = r1
  r2 = r2
  r3 = r3
  Person = {p1, p2, p3, p4}
  SeatCount = 4
  HookMax = 1
  Hash = {h1, h2}
  HashTail <- MCHashTail
  Installable = {h1}
  Rate = {r0, r1, r2, r3}
  InitialMembers <- MCMembers
  InitialReward <- MCReward
  Scripts <- MCScripts
  MaxInFlight = 2
  RateValue <- MCRateValue
  DefaultRate = r3
  DefaultDelay = r1
  DropsPerXah = 10
  Shares = 4
  Claimers = {p1}
  Balances = {7, 25}
  Fee = 3
  Interval = 1
  Reports <- MCReports
  U32Len = 2
  AmountLen = 2
  AccLen = 2
  HashLen = 2
  PubKeyLen = 2
  Positions = 10
  FeeOf <- MCFee
  Address <- MCAddress
  GenesisAccount = Genesis
INVARIANTS TableSound CountsAreMembersVotes HookSetsRead
PROPERTIES ActionedByQuorum TablesAreRoundTables PaysTheMean PaysSeatedValidators
CHECK_DEADLOCK FALSE
