------------------------------- MODULE Reward -------------------------------
(***************************************************************************)
(* The reward Hook (examples/80_reward: lib.rs, raw.rs) on the genesis     *)
(* account, next to the governance Hook whose state it reads: the reward   *)
(* settings, and who sits at the L1 table.  A claim that the Hook accepts  *)
(* emits a GenesisMint; the protocol then starts the claimant's accounting *)
(* anew, and keeps it up to date whenever a balance changes.               *)
(*                                                                         *)
(* XFL numbers are exact fractions: sixteen decimal digits are more than   *)
(* the small numbers of an instance need.                                  *)
(***************************************************************************)
EXTENDS Govern, Sequences

CONSTANTS
  RateValue,      \* what a value of Rate is: <<numerator, denominator>>
  DefaultRate,    \* DEFAULT_REWARD_RATE
  DefaultDelay,   \* DEFAULT_REWARD_DELAY
  DropsPerXah,    \* 1_000_000
  Shares,         \* L1_SEATS, the divisor of a reward (20 in the code)
  Claimers,       \* accounts that claim rewards
  Balances,       \* their balances in drops, the protocol's doing
  Fee,            \* what a ClaimReward costs, in drops
  Interval,       \* seconds from one ledger to the next
  Reports         \* sets of active validators a UNLReport may list

ASSUME RewardConstants ==
  /\ Claimers \subseteq Person /\ Reports \subseteq SUBSET Person /\ Balances \subseteq Nat /\ Fee \in Nat
  /\ DropsPerXah \in Nat \ {0} /\ Shares \in Nat \ {0} /\ Interval \in Nat \ {0}
  /\ {DefaultRate, DefaultDelay} \subseteq Rate
  /\ DOMAIN RateValue = Rate
  /\ \A r \in Rate : RateValue[r][1] \in Int /\ RateValue[r][2] \in Nat \ {0}

VARIABLES
  ledger,    \* ledger_seq(), bounded by the script
  balance,   \* of each claimer, in drops
  acct,      \* RewardAccumulator, RewardLgrFirst, RewardLgrLast, RewardTime, or None
  unl,       \* ActiveValidators of the UNLReport, or None without a report
  owed,      \* ghost: whole XAH held at the closes since the last claim
  since      \* ghost: the ledger of that claim

accounting == <<balance, acct, owed, since>>
rewardVars == <<ledger, accounting, unl>>
genesisVars == <<governVars, rewardVars>>

Xah(drops) == drops \div DropsPerXah

\* ledger_last_time()
CloseTime == ledger * Interval

-----------------------------------------------------------------------------
(* The protocol *)

Lasts == ledger < script.ledgers

CloseLedger ==
  /\ Lasts /\ ledger' = ledger + 1
  /\ owed' = [c \in Claimers |-> IF acct[c] = None THEN 0 ELSE owed[c] + Xah(balance[c])]
  /\ UNCHANGED <<governVars, balance, acct, unl, since>>

\* Any payment: what was held so far is accounted for first.
Accrued(c) ==
  IF acct[c] = None THEN None
  ELSE [acct[c] EXCEPT !.accumulator = @ + Xah(balance[c]) * (ledger - acct[c].last), !.last = ledger]

ChangeBalance(c, b) ==
  /\ Lasts /\ b # balance[c]
  /\ balance' = [balance EXCEPT ![c] = b]
  /\ acct' = [acct EXCEPT ![c] = Accrued(c)]
  /\ UNCHANGED <<governVars, ledger, unl, owed, since>>

ReportValidators(s) ==
  /\ Lasts /\ s # unl /\ unl' = s
  /\ UNCHANGED <<governVars, ledger, accounting>>

\* What ClaimReward does to the account after the Hook has let it through.
StartAccounting(c) ==
  /\ acct' = [acct EXCEPT ![c] = [accumulator |-> 0, first |-> ledger, last |-> ledger, time |-> CloseTime]]
  /\ owed' = [owed EXCEPT ![c] = 0]
  /\ since' = [since EXCEPT ![c] = ledger]

\* Every transaction that is applied pays its fee.
PaysFee(c) == balance[c] >= Fee /\ balance' = [balance EXCEPT ![c] = @ - Fee]

-----------------------------------------------------------------------------
(* The Hook *)

\* get_state, or the default when governance has written nothing.
RewardRate == RateValue[IF reward.R = None THEN DefaultRate ELSE reward.R]
RewardDelay == RateValue[IF reward.D = None THEN DefaultDelay ELSE reward.D]

Positive(x) == x[1] > 0
\* The rate may not exceed one, the delay not be less.
Sane == RewardRate[1] <= RewardRate[2] /\ RewardDelay[1] >= RewardDelay[2]
RequiredDelay == RewardDelay[1] \div RewardDelay[2]

\* Rewards are neither disabled nor misconfigured.
Configured == Positive(RewardRate) /\ Positive(RewardDelay) /\ Sane

\* "Reward: Passing reward setup txn"
OptIn(c) ==
  /\ Lasts /\ Configured /\ acct[c] = None /\ PaysFee(c)
  /\ StartAccounting(c)
  /\ UNCHANGED <<governVars, ledger, unl>>

\* The accumulator with the ledgers since the balance last changed.
MutAccumulated(c) == acct[c].accumulator + Xah(balance[c]) * (ledger - acct[c].first)
Accumulated(c) ==
  LET since_last == ledger - acct[c].last
      bal == Xah(balance[c])
  IN  acct[c].accumulator + (IF bal > 0 /\ since_last > 0 THEN bal * since_last ELSE 0)

Elapsed(c) == ledger - acct[c].first

\* The checks before the reward is worked out; float_set of zero is zero.
MayClaim(c) ==
  /\ Configured /\ acct[c] # None
  /\ CloseTime - acct[c].time >= RequiredDelay
  /\ acct[c].first > 0 /\ acct[c].last > 0 /\ Elapsed(c) > 0
  /\ Accumulated(c) > 0

\* float_int(rate * (accumulator / elapsed), 6): XAH to drops.
BaseReward(c) ==
  (RewardRate[1] * Accumulated(c) * DropsPerXah) \div (RewardRate[2] * Elapsed(c))

\* can_reward: seats that the active validators' own entries name.
CanReward ==
  {n \in Seat : unl # None /\ \E v \in unl : reverse[Genesis][v] = n}

\* push_l1_seat_entries: the seats upwards, each paid to its occupant.
SeatAt(i) == CHOOSE n \in CanReward : Cardinality({m \in CanReward : m < n}) = i - 1
MutSeatEntries(drops) ==
  [i \in 1 .. Cardinality(CanReward) |-> [to |-> forward[Genesis][i-1], drops |-> drops]]
SeatEntries(drops) ==
  [i \in 1 .. Cardinality(CanReward) |->
     [to |-> forward[Genesis][SeatAt(i)], drops |-> drops]]

Entries(c) ==
  <<[to |-> c, drops |-> BaseReward(c) + Fee]>> \o SeatEntries(BaseReward(c) \div Shares)

ClaimReward(c) ==
  /\ Lasts /\ MayClaim(c) /\ PaysFee(c)
  /\ Emits({}, {[kind |-> "Mint", no |-> ledger, claimer |-> c, entries |-> Entries(c)]})
  /\ StartAccounting(c)
  /\ UNCHANGED <<script, tableVars, reward, hooks, cast, ledger, unl>>

-----------------------------------------------------------------------------
(* Both Hooks *)

GenesisInit ==
  /\ GovernInit
  /\ ledger = 1 /\ unl = None
  /\ balance \in [Claimers -> Balances]
  /\ acct = [c \in Claimers |-> None]
  /\ owed = [c \in Claimers |-> 0] /\ since = [c \in Claimers |-> 0]

GenesisNext ==
  \/ GovernNext /\ UNCHANGED rewardVars
  \/ CloseLedger
  \/ \E c \in Claimers : OptIn(c) \/ ClaimReward(c) \/ \E b \in Balances : ChangeBalance(c, b)
  \/ \E s \in Reports : ReportValidators(s)

GenesisSpec == GenesisInit /\ [][GenesisNext]_genesisVars

-----------------------------------------------------------------------------
(* Properties *)

Mints == {e \in flight' \ flight : e.kind = "Mint"}

\* A claim is paid the rate of what the account held on average since its last
\* claim, whatever order balance changes, closes and earlier claims came in:
\* no ledger is counted twice and none is left out.
PaysTheMean ==
  [][\A e \in Mints :
       e.entries[1] = [to |-> e.claimer,
         drops |-> Fee + (RewardRate[1] * owed[e.claimer] * DropsPerXah)
                           \div (RewardRate[2] * (ledger - since[e.claimer]))]]_genesisVars

\* The rest of a mint goes to the active validators that sit at the L1 table
\* at that moment, one share each, whatever votes and lost emissions the table
\* has been through.
PaysSeatedValidators ==
  [][\A e \in Mints :
       LET rest == Tail(e.entries)
           paid == {rest[i].to : i \in DOMAIN rest}
       IN  /\ paid = (IF unl = None THEN {} ELSE unl) \cap Members(Genesis)
           /\ Len(rest) = Cardinality(paid)
           /\ \A i \in DOMAIN rest :
                rest[i].drops = (e.entries[1].drops - Fee) \div Shares]_genesisVars
=============================================================================
