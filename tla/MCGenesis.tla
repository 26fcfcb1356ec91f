----------------------------- MODULE MCGenesis -----------------------------
(* The genesis account with both Hooks, and an L2 table: four accounts,     *)
(* three seats of the L2 table taken and one free, two of the L1 table, one *)
(* of them the L2 table's.  The blobs are checked with short addresses,     *)
(* hashes, keys and amounts.                                                *)
EXTENDS Reward, Emitters

CONSTANTS p1, p2, p3, p4, h1, h2, t1, r0, r1, r2, r3

MCMembers == [t \in Table |-> IF t = Genesis THEN <<Table2, p1>> ELSE <<p1, p2, p3>>]
MCReward == [R |-> r0, D |-> r0]
\* h1 and h2 differ in their first four bytes only.
MCHashTail == [h \in Hash \cup {Zero} |-> IF h = Zero THEN Zero ELSE t1]
\* A rate may be one (r0) but not two (r1); a delay may be both but not a
\* half (r3); r2 disables rewards.
MCRateValue == [r \in Rate |-> CASE r = r0 -> <<1, 1>> [] r = r1 -> <<2, 1>>
                                 [] r = r2 -> <<0, 1>> [] r = r3 -> <<1, 2>>]
MCReports == {{p1, p2, p3}}

B(t, l, ty, n, x) == [table |-> t, layer |-> l, type |-> ty, id |-> n, value |-> x]
Votes(n, b) == [ballots |-> b, votes |-> n, ledgers |-> 0]
Claims(n, k, b) == [ballots |-> b, votes |-> n, ledgers |-> k]

\* Replacing, moving, adding and removing members of the L2 table.
SeatScripts ==
  {Votes(5, {B(Table2, 2, "S", 0, p4), B(Table2, 2, "S", 1, p1), B(Table2, 2, "S", 3, p3), B(Table2, 2, "S", 2, Zero)}),
   Votes(5, {B(Table2, 2, "S", 3, p4), B(Table2, 2, "S", 0, Zero), B(Table2, 2, "S", 0, p2)})}

\* L1 votes of the L2 table racing to L1, the members of either changing.
ForwardScripts ==
  {Votes(5, {B(Table2, 1, "S", 1, p2), B(Table2, 1, "S", 1, p3), B(Table2, 2, "S", 2, p4), B(Genesis, 1, "S", 1, p2)}),
   Votes(5, {B(Table2, 1, "R", RateId, r1), B(Genesis, 1, "R", RateId, r1), B(Table2, 2, "S", 0, p4)}),
   Votes(4, {B(Table2, 1, "R", DelayId, r1), B(Genesis, 1, "R", DelayId, r1), B(Genesis, 1, "S", 2, p2)})}

\* Hooks, and members who leave while a hook is voted on.
HookScripts ==
  {Votes(5, {B(Table2, 2, "H", 0, h1), B(Table2, 2, "H", 0, h2), B(Table2, 2, "S", 2, Zero)}),
   Votes(5, {B(Genesis, 1, "H", 0, h1), B(Genesis, 1, "H", 0, Zero), B(Genesis, 1, "H", 1, h1)}),
   Votes(5, {B(Table2, 2, "H", 1, h1), B(Table2, 2, "H", 0, h2), B(Table2, 2, "S", 1, p4)})}

\* Claims while the rate, the delay and the L1 seats are voted on.
ClaimScripts ==
  {Claims(2, 4, {B(Genesis, 1, "S", 2, p2)}),
   Claims(2, 4, {B(Genesis, 1, "R", RateId, r) : r \in {r1, r2, r3}}),
   Claims(2, 4, {B(Genesis, 1, "R", DelayId, r) : r \in {r1, r3}})}

MCScripts == SeatScripts \cup ForwardScripts \cup HookScripts \cup ClaimScripts

-----------------------------------------------------------------------------
(* The blobs of what is in flight *)

MCFee(n) == n
MCAddress == [a \in Account |->
  CASE a = Genesis -> <<225, 0>> [] a = Table2 -> <<241, 14>> [] a = p1 -> <<0, 1>>
    [] a = p2 -> <<20, 241>> [] a = p3 -> <<3, 225>> [] a = p4 -> <<4, 0>>]
HashBytes == [h \in Hash \cup {Zero} |-> IF h = Zero THEN << >> ELSE IF h = h1 THEN <<225, 0>> ELSE <<2, 241>>]
Details == FieldHeader(sfEmitDetails) \o FieldHeader(<<2, 46>>) \o BigEndian(1, U32Len) \o <<ObjectEnd>>

Value(b) == IF b.type = "S" /\ b.value # Zero THEN MCAddress[b.value] ELSE Zeros(AccLen)
Ids == [S |-> 83, H |-> 72, R |-> 82]

\* A HookSet that a vote emits is a transaction which overrides the voted
\* position with the voted hash, and says nothing of the other nine.
HookSetsRead ==
  \A e \in flight : e.kind = "HookSet" =>
    HookSetReads(e.table, e.slot, HashBytes[e.hash], Details, ledger)

\* 80_reward/README.md, "GenesisMint wire format", and 81_govern/README.md,
\* "Emitted transactions": what either Hook emits reads as documented.
EmittedReads ==
  \A e \in flight :
    /\ e.kind = "Mint" => MintReads(e.entries, Details, ledger)
    /\ e.kind = "Invoke" =>
         ForwardReads(Table2, Ids[e.ballot.type], e.ballot.id, Value(e.ballot), Details, ledger)
=============================================================================
