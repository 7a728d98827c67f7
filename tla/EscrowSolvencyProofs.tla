------------------------ MODULE EscrowSolvencyProofs ------------------------
(***************************************************************************)
(* A resolved market can pay everybody, and every winner at least the      *)
(* deposit.  Three facts make it so.  The two pools that the payout share  *)
(* splits the distributable total into do not exceed it together           *)
(* (PoolsSplitTotal); the parts that a side's positions take out of their  *)
(* pool are proportional to weights that add up to the weighted pool of    *)
(* the side (ProRata, with the ledger of ChubiEscrowProofs); and the       *)
(* safety floor keeps the winners' pool above what the winners put in.     *)
(* From then on each step takes out of the vault at most what it takes off *)
(* the obligations.                                                        *)
(*                                                                         *)
(* Nor does much stay behind: the two pools miss the total by a lamport at *)
(* most (PoolsLeaveOne), truncation costs each position less than one      *)
(* (ProRataLeaves), and the cap on a loser's payout cuts off only what the *)
(* floor of the weights allows (LoserGetsShare); FreshLeftover adds it up. *)
(***************************************************************************)
EXTENDS ChubiEscrowProofs

(* Entries proportional to weights take at most the money there is.        *)
LEMMA ProRata ==
    ASSUME NEW f \in [Nonces -> Nat], NEW g \in [Nonces -> Nat], NEW money \in Nat,
           NEW weighted \in Nat, weighted > 0, weighted = SumUpTo(g, MAX_POSITIONS),
           \A n \in Nonces : weighted * f[n] <= money * g[n]
    PROVE  SumUpTo(f, MAX_POSITIONS) \in Nat /\ SumUpTo(f, MAX_POSITIONS) <= money
<1>1. MAX_POSITIONS \in Nat /\ MAX_POSITIONS \in 0 .. MAX_POSITIONS
  BY EscrowAssumption
<1>2. /\ f \in [0 .. (MAX_POSITIONS - 1) -> Int] /\ g \in [0 .. (MAX_POSITIONS - 1) -> Int]
      /\ f \in [0 .. (MAX_POSITIONS - 1) -> Nat]
      /\ \A i \in 0 .. (MAX_POSITIONS - 1) : weighted * f[i] <= money * g[i]
      /\ weighted \in Int /\ money \in Int
  BY DEF Nonces
<1>3. weighted * SumUpTo(f, MAX_POSITIONS) <= money * SumUpTo(g, MAX_POSITIONS)
  <2>1. \A k \in 0 .. MAX_POSITIONS : weighted * SumUpTo(f, k) <= money * SumUpTo(g, k)
    BY <1>1, <1>2, SumScaleLe
  <2> QED
    BY <1>1, <2>1
<1>4. SumUpTo(f, MAX_POSITIONS) \in Nat
  BY <1>1, <1>2, SumUpToNat
<1>5. weighted * SumUpTo(f, MAX_POSITIONS) <= weighted * money
  BY <1>3
<1> DEFINE sum == SumUpTo(f, MAX_POSITIONS)
<1>6. sum <= money
  <2>1. SUFFICES ASSUME sum >= money + 1 PROVE FALSE
    BY <1>4
  <2>2. sum \in Nat /\ weighted * sum <= weighted * money
    BY <1>4, <1>5
  <2> HIDE DEF sum
  <2>3. weighted * (money + 1) <= weighted * sum
    BY <2>1, <2>2, ProductMonotone
  <2>4. weighted * (money + 1) = weighted * money + weighted /\ weighted * money \in Nat
    BY ProductNat
  <2> QED
    BY <2>2, <2>3, <2>4
<1> QED
  BY <1>4, <1>6

(* Entries that are truncated parts, less than one unit short each, use up *)
(* the money there is but for a unit for each of them.                     *)
LEMMA ProRataLeaves ==
    ASSUME NEW f \in [Nonces -> Nat], NEW g \in [Nonces -> Nat], NEW c \in [Nonces -> Nat],
           NEW money \in Nat, NEW weighted \in Nat, weighted > 0,
           weighted = SumUpTo(g, MAX_POSITIONS),
           \A n \in Nonces : money * g[n] <= weighted * (f[n] + c[n])
    PROVE  money <= SumUpTo(f, MAX_POSITIONS) + SumUpTo(c, MAX_POSITIONS)
<1> DEFINE h == [n \in Nonces |-> f[n] + c[n]]
           sum == SumUpTo(h, MAX_POSITIONS)
<1>1. h \in [Nonces -> Nat] /\ \A n \in Nonces : h[n] = f[n] + c[n]
  OBVIOUS
<1> HIDE DEF h
<1>2. sum = SumUpTo(f, MAX_POSITIONS) + SumUpTo(c, MAX_POSITIONS)
  BY <1>1, SumOfTwo
<1>3. MAX_POSITIONS \in Nat /\ MAX_POSITIONS \in 0 .. MAX_POSITIONS
  BY EscrowAssumption
<1>4. /\ h \in [0 .. (MAX_POSITIONS - 1) -> Int] /\ g \in [0 .. (MAX_POSITIONS - 1) -> Int]
      /\ h \in [0 .. (MAX_POSITIONS - 1) -> Nat]
      /\ \A i \in 0 .. (MAX_POSITIONS - 1) : money * g[i] <= weighted * h[i]
      /\ weighted \in Int /\ money \in Int
  BY <1>1 DEF Nonces
<1>5. money * SumUpTo(g, MAX_POSITIONS) <= weighted * sum
  <2>1. \A k \in 0 .. MAX_POSITIONS : money * SumUpTo(g, k) <= weighted * SumUpTo(h, k)
    BY <1>3, <1>4, SumScaleLe
  <2> QED
    BY <1>3, <2>1
<1>6. sum \in Nat
  BY <1>3, <1>4, SumUpToNat
<1> HIDE DEF sum
<1>7. money <= sum
  <2>1. SUFFICES ASSUME sum + 1 <= money PROVE FALSE
    BY <1>6
  <2>2. weighted * (sum + 1) <= weighted * money /\ weighted * (sum + 1) = weighted * sum + weighted
    BY <1>6, <2>1, ProductMonotone
  <2>3. weighted * money <= weighted * sum
    BY <1>5
  <2>4. weighted * money \in Nat /\ weighted * sum \in Nat
    BY <1>6, ProductNat
  <2> QED
    BY <2>2, <2>3, <2>4
<1> QED
  BY <1>2, <1>7

(* Sums of functions that are ordered, and of two functions.               *)
LEMMA SumOrder ==
    ASSUME NEW f \in [Nonces -> Nat], NEW g \in [Nonces -> Nat],
           \A n \in Nonces : f[n] <= g[n]
    PROVE  /\ SumUpTo(f, MAX_POSITIONS) \in Nat /\ SumUpTo(g, MAX_POSITIONS) \in Nat
           /\ SumUpTo(f, MAX_POSITIONS) <= SumUpTo(g, MAX_POSITIONS)
<1>1. MAX_POSITIONS \in Nat /\ MAX_POSITIONS \in 0 .. MAX_POSITIONS
  BY EscrowAssumption
<1>2. /\ f \in [0 .. (MAX_POSITIONS - 1) -> Int] /\ g \in [0 .. (MAX_POSITIONS - 1) -> Int]
      /\ f \in [0 .. (MAX_POSITIONS - 1) -> Nat] /\ g \in [0 .. (MAX_POSITIONS - 1) -> Nat]
      /\ \A i \in 0 .. (MAX_POSITIONS - 1) : f[i] <= g[i]
  BY DEF Nonces
<1> DEFINE one == 1
<1>3. one \in Int /\ \A x \in Int : one * x = x
  OBVIOUS
<1> HIDE DEF one
<1>4. SumUpTo(f, MAX_POSITIONS) \in Nat /\ SumUpTo(g, MAX_POSITIONS) \in Nat
  BY <1>1, <1>2, SumUpToNat
<1>5. \A i \in 0 .. (MAX_POSITIONS - 1) : one * f[i] <= one * g[i]
  BY <1>2, <1>3
<1>6. \A k \in 0 .. MAX_POSITIONS : one * SumUpTo(f, k) <= one * SumUpTo(g, k)
  BY <1>1, <1>2, <1>3, <1>5, SumScaleLe
<1>7. one * SumUpTo(f, MAX_POSITIONS) <= one * SumUpTo(g, MAX_POSITIONS)
  BY <1>1, <1>6
<1> QED
  BY <1>3, <1>4, <1>7

-----------------------------------------------------------------------------
(* What holds of a market that has just been resolved.                     *)
Winner == outcome.winner - 1

ResolvedFacts ==
    /\ TypeOK
    /\ Winner \in 0 .. (config.num_sides - 1)
    /\ config.num_sides > 2 => outcome.winner_payout_share = PRECISION
    /\ LET staked == SumUpTo(pools, config.num_sides)
       IN  /\ SumPools(pools, config.num_sides) = staked
           /\ staked > 0 => \/ outcome.winner_payout_share = PRECISION
                            \/ outcome.winner_payout_share
                                   > (pools[Winner] * PRECISION) \div staked
    /\ \A s \in Sides :
          /\ pools[s] = SumUpTo(StakeOn(positions, s), MAX_POSITIONS)
          /\ weighted_pools[s] = SumUpTo(WeightOn(positions, s), MAX_POSITIONS)
    /\ \A n \in Nonces : positions[n].live =>
          /\ positions[n].side < config.num_sides
          /\ positions[n].amount >= MIN_DEPOSIT_LAMPORTS
          /\ positions[n].entry_weight \in Weights

(* The types that the lemmas about it need.                                *)
LEMMA ResolvedTypes ==
    ASSUME ResolvedFacts
    PROVE  /\ Winner \in Sides /\ config.num_sides \in 2 .. MAX_SIDES
           /\ positions \in [Nonces -> PositionType]
           /\ outcome.winner_payout_share \in 0 .. PRECISION
           /\ TotalDistributable \in Nat /\ CreatorFeeBps \in {0, CREATOR_FEE_BPS}
           /\ WinnerPool(TotalDistributable, outcome.winner_payout_share) \in Nat
           /\ LoserPool(TotalDistributable, outcome.winner_payout_share) \in Nat
           /\ \A s \in Sides : pools[s] \in Nat /\ weighted_pools[s] \in Nat
           /\ \A n \in Nonces : /\ positions[n].amount \in Nat
                                /\ positions[n].entry_weight \in Nat
                                /\ positions[n].side \in Sides
                                /\ positions[n].amount * positions[n].entry_weight \in Nat
<1>1. TypeOK
  BY DEF ResolvedFacts
<1>2. config.num_sides \in 2 .. MAX_SIDES /\ outcome.winner_payout_share \in 0 .. PRECISION
  BY <1>1 DEF TypeOK
<1>3. Winner \in Sides
  BY <1>2, MathAssumption DEF ResolvedFacts, Sides
<1>4. TotalDistributable \in Nat /\ CreatorFeeBps \in {0, CREATOR_FEE_BPS}
  BY <1>1, DistributableType
<1>5. /\ WinnerPool(TotalDistributable, outcome.winner_payout_share) \in Nat
      /\ LoserPool(TotalDistributable, outcome.winner_payout_share) \in Nat
  BY <1>2, <1>4, PoolsSplitTotal
<1>6. ASSUME NEW n \in Nonces
      PROVE  /\ positions[n].amount \in Nat /\ positions[n].entry_weight \in Nat
             /\ positions[n].side \in Sides
             /\ positions[n].amount * positions[n].entry_weight \in Nat
  <2>1. positions[n] \in PositionType
    BY <1>1 DEF TypeOK
  <2>2. /\ positions[n].amount \in Nat /\ positions[n].entry_weight \in Nat
        /\ positions[n].side \in Sides
    BY <2>1, Scale DEF PositionType, Weights
  <2> QED
    BY <2>2, ProductNat
<1> QED
  BY <1>1, <1>2, <1>3, <1>4, <1>5, <1>6 DEF TypeOK

(* What an active position contributes to its weighted pool is positive,   *)
(* and part of that pool; so is its stake.                                 *)
LEMMA ActiveContributes ==
    ASSUME ResolvedFacts, NEW n \in Nonces, Active(positions[n])
    PROVE  LET p == positions[n]
           IN  /\ p.amount > 0 /\ p.amount <= pools[p.side]
               /\ p.amount * p.entry_weight <= weighted_pools[p.side]
               /\ weighted_pools[p.side] > 0 /\ pools[p.side] > 0
<1> DEFINE p == positions[n]
<1>1. /\ p.amount \in Nat /\ p.entry_weight \in Nat /\ p.side \in Sides
      /\ positions \in [Nonces -> PositionType] /\ p.amount * p.entry_weight \in Nat
      /\ pools[p.side] \in Nat /\ weighted_pools[p.side] \in Nat
  BY ResolvedTypes
<1>2. p.amount > 0 /\ p.entry_weight > 0
  <2>1. p.amount >= MIN_DEPOSIT_LAMPORTS /\ p.entry_weight \in Weights
    BY DEF ResolvedFacts, Active
  <2> QED
    BY <1>1, <2>1, Scale, EscrowAssumption DEF Weights
<1>3. p.amount * p.entry_weight > 0
  <2> HIDE DEF p
  <2>1. p.amount * 1 <= p.amount * p.entry_weight
    BY <1>1, <1>2, ProductMonotone
  <2> QED
    BY <1>1, <1>2, <2>1
<1>4. /\ StakeOf(p, p.side) <= SumUpTo(StakeOn(positions, p.side), MAX_POSITIONS)
      /\ WeightOf(p, p.side) <= SumUpTo(WeightOn(positions, p.side), MAX_POSITIONS)
  BY <1>1, SumsMove
<1>5. StakeOf(p, p.side) = p.amount /\ WeightOf(p, p.side) = p.amount * p.entry_weight
  BY DEF StakeOf, WeightOf, ActiveOn
<1>6. /\ pools[p.side] = SumUpTo(StakeOn(positions, p.side), MAX_POSITIONS)
      /\ weighted_pools[p.side] = SumUpTo(WeightOn(positions, p.side), MAX_POSITIONS)
  BY <1>1 DEF ResolvedFacts
<1> QED
  BY <1>1, <1>2, <1>3, <1>4, <1>5, <1>6

(* The safety floor: the winners' pool covers what the winners put in.     *)
LEMMA WinnersAreCovered ==
    ASSUME ResolvedFacts, pools[Winner] > 0
    PROVE  pools[Winner] <= WinnerPool(TotalDistributable, outcome.winner_payout_share)
<1> DEFINE staked == SumUpTo(pools, config.num_sides)
           pool == pools[Winner]
           total == TotalDistributable
           share == outcome.winner_payout_share
<1>1. /\ pool \in Nat /\ share \in 0 .. PRECISION /\ total \in Nat
      /\ config.num_sides \in 2 .. MAX_SIDES
  BY ResolvedTypes
<1>2. /\ MAX_SIDES \in Nat /\ pools \in [0 .. (MAX_SIDES - 1) -> Nat]
      /\ config.num_sides \in 0 .. MAX_SIDES /\ Winner \in 0 .. (config.num_sides - 1)
  <2>1. TypeOK /\ Winner \in 0 .. (config.num_sides - 1)
    BY DEF ResolvedFacts
  <2>2. pools \in [Sides -> Nat]
    BY <2>1 DEF TypeOK
  <2> QED
    BY <1>1, <2>1, <2>2, MathAssumption DEF Sides
<1>3. pool <= staked
  BY <1>2, SumUpToBoundsEntry
<1>4. staked \in Nat
  BY <1>2, SumUpToNat
<1>5. SumPools(pools, config.num_sides) = staked /\ penalty_pool \in Nat
  BY DEF ResolvedFacts, TypeOK
<1>6. total = staked + penalty_pool
  BY <1>5 DEF TotalDistributable
<1>7. staked > 0 /\ staked <= total
  BY <1>1, <1>3, <1>4, <1>5, <1>6
<1>8. share = PRECISION \/ share > (pool * PRECISION) \div staked
  BY <1>7 DEF ResolvedFacts
<1> HIDE DEF staked, pool, total, share
<1>9. pool <= WinnerPool(total, share)
  BY <1>1, <1>3, <1>4, <1>7, <1>8, WinnerPoolCoversStake
<1> QED
  BY <1>9 DEF pool, total, share

(* The part of the profit pool that falls to a position.                   *)
ProfitPool ==
    SatSub(WinnerPool(TotalDistributable, outcome.winner_payout_share), pools[Winner])
ProfitPart(p) == WeightedPart(ProfitPool, p.amount, p.entry_weight, weighted_pools[Winner])

(* What a winner takes out, fees included, is the deposit and a part of    *)
(* the profit; at least the deposit is paid out.                           *)
LEMMA WinnerTakes ==
    ASSUME ResolvedFacts, NEW n \in Nonces, Active(positions[n]), positions[n].side = Winner
    PROVE  LET p == positions[n]
               due == DueTo(p)
           IN  /\ due \in DueType
               /\ due.payout >= p.amount
               /\ due.payout + due.fee + due.creator_fee = p.amount + ProfitPart(p)
               /\ ProfitPart(p) \in Nat
               /\ weighted_pools[Winner] * ProfitPart(p)
                      <= ProfitPool * (p.amount * p.entry_weight)
<1> DEFINE amount == positions[n].amount
           weight == positions[n].entry_weight
           pool == pools[Winner]
           weighted == weighted_pools[Winner]
           share == outcome.winner_payout_share
           total == TotalDistributable
           bps == CreatorFeeBps
           due == ComputeWinnerPayout(amount, weight, pool, weighted, share, total, bps)
           profit == SatSub(WinnerPool(total, share), pool)
           part == WeightedPart(profit, amount, weight, weighted)
<1>1. DueTo(positions[n]) = due
  BY DEF DueTo, IsWinner, Winner
<1>2. /\ amount \in Nat /\ weight \in Nat /\ pool \in Nat /\ weighted \in Nat
      /\ share \in 0 .. PRECISION /\ total \in Nat /\ bps \in {0, CREATOR_FEE_BPS}
      /\ WinnerPool(total, share) \in Nat /\ amount * weight \in Nat
  BY ResolvedTypes
<1>3. amount > 0 /\ weighted > 0 /\ pool > 0
  BY ActiveContributes
<1>4. pool <= WinnerPool(total, share)
  BY <1>3, WinnersAreCovered
<1>5. ProfitPool = profit /\ ProfitPart(positions[n]) = part
  BY DEF ProfitPool, ProfitPart
<1> HIDE DEF amount, weight, pool, weighted, share, total, bps
<1>6. profit \in Nat /\ WinnerPool(total, share) = pool + profit
  BY <1>2, <1>4 DEF SatSub
<1>7. /\ due \in DueType
      /\ profit > 0 => /\ due.payout >= amount
                       /\ due.payout + due.fee + due.creator_fee = amount + part
      /\ profit = 0 => /\ due.fee = 0 /\ due.creator_fee = 0
                       /\ due.payout = (WinnerPool(total, share) * amount) \div pool
  <2>1. WinnerDue(due, amount, weight, pool, weighted, share, total)
    BY <1>2, WinnerPayout
  <2>2. /\ due \in DueType
        /\ weighted = 0 => due = NothingDue
        /\ weighted > 0 /\ profit > 0 =>
               /\ due.payout >= amount
               /\ due.payout + due.fee + due.creator_fee = amount + part
        /\ weighted > 0 /\ profit = 0 =>
               /\ due.fee = 0 /\ due.creator_fee = 0
               /\ due.payout = IF pool = 0 THEN 0
                              ELSE (WinnerPool(total, share) * amount) \div pool
    BY <2>1 DEF WinnerDue
  <2> HIDE DEF due, profit, part
  <2> QED
    BY <1>2, <1>3, <2>2
<1> HIDE DEF profit
<1>8. part \in Nat /\ weighted * part <= profit * (amount * weight)
  BY <1>2, <1>3, <1>6, WeightedPartBounds
<1> HIDE DEF part, due
<1>9. profit = 0 => part = 0 /\ due.payout = amount
  <2>1. SUFFICES ASSUME profit = 0 PROVE part = 0 /\ due.payout = amount
    OBVIOUS
  <2>2. part = 0
    <3>1. weighted * part <= 0
      BY <1>2, <1>8, <2>1
    <3>2. SUFFICES ASSUME part >= 1 PROVE FALSE
      BY <1>8
    <3>3. weighted * 1 <= weighted * part
      BY <1>2, <1>8, <3>2, ProductMonotone
    <3>4. weighted * part \in Nat /\ weighted * 1 = weighted
      BY <1>2, <1>8, ProductNat
    <3> QED
      BY <1>2, <1>3, <3>1, <3>3, <3>4
  <2>3. due.payout = (pool * amount) \div pool
    BY <1>2, <1>6, <1>7, <2>1
  <2>4. amount <= (pool * amount) \div pool /\ (pool * amount) \div pool <= amount
    <3>1. pool * amount \in Nat /\ amount * pool = pool * amount
      BY <1>2, ProductNat
    <3> QED
      BY <1>2, <1>3, <3>1, DivAtLeast, DivMonotone
  <2>5. due.payout \in Nat
    BY <1>7 DEF DueType
  <2> QED
    BY <1>2, <2>2, <2>3, <2>4, <2>5
<1>10. /\ due.payout >= amount
       /\ due.payout + due.fee + due.creator_fee = amount + part
  <2>1. due.payout \in Nat /\ due.fee \in Nat /\ due.creator_fee \in Nat
    BY <1>7 DEF DueType
  <2> QED
    BY <1>2, <1>6, <1>7, <1>8, <1>9, <2>1
<1> QED
  BY <1>1, <1>5, <1>7, <1>8, <1>10 DEF amount, weight, weighted

(* What a loser takes out is a part of the losers' pool.                   *)
LEMMA LoserTakes ==
    ASSUME ResolvedFacts, NEW n \in Nonces, Active(positions[n]), positions[n].side # Winner
    PROVE  LET p == positions[n]
               due == DueTo(p)
               money == LoserPool(TotalDistributable, outcome.winner_payout_share)
           IN  /\ due.payout \in Nat /\ due.fee = 0 /\ due.creator_fee = 0
               /\ weighted_pools[p.side] * due.payout <= money * (p.amount * p.entry_weight)
<1> DEFINE amount == positions[n].amount
           weight == positions[n].entry_weight
           weighted == weighted_pools[positions[n].side]
           share == outcome.winner_payout_share
           total == TotalDistributable
           money == LoserPool(total, share)
           lost == ComputeLoserPayout(amount, weight, weighted, share, total)
           part == WeightedPart(money, amount, weight, weighted)
<1>1. DueTo(positions[n]) = [NothingDue EXCEPT !.payout = lost]
  BY DEF DueTo, IsWinner, Winner
<1>2. /\ DueTo(positions[n]).payout = lost
      /\ DueTo(positions[n]).fee = 0 /\ DueTo(positions[n]).creator_fee = 0
  <2> HIDE DEF lost
  <2> QED
    BY <1>1 DEF NothingDue
<1>3. /\ amount \in Nat /\ weight \in Nat /\ weighted \in Nat /\ share \in 0 .. PRECISION
      /\ total \in Nat /\ money \in Nat /\ amount * weight \in Nat
  BY ResolvedTypes
<1>4. weighted > 0
  BY ActiveContributes
<1> HIDE DEF amount, weight, weighted, share, total
<1>5. lost \in Nat /\ lost <= part
  BY <1>3, <1>4, LoserPayout
<1> HIDE DEF money
<1>6. part \in Nat /\ weighted * part <= money * (amount * weight)
  BY <1>3, <1>4, WeightedPartBounds
<1> HIDE DEF lost, part
<1>7. weighted * lost <= money * (amount * weight)
  <2>1. weighted * lost <= weighted * part
    BY <1>3, <1>5, <1>6, ProductMonotone
  <2>2. /\ weighted * lost \in Nat /\ weighted * part \in Nat
        /\ money * (amount * weight) \in Nat
    BY <1>3, <1>5, <1>6, ProductNat
  <2> QED
    BY <1>6, <2>1, <2>2
<1> QED
  BY <1>2, <1>5, <1>7 DEF amount, weight, weighted, share, total, money

-----------------------------------------------------------------------------
(* The obligations, to winners and to losers.                              *)
OwedOf(p) == IF Active(p) THEN DueTo(p).payout + DueTo(p).fee + DueTo(p).creator_fee ELSE 0
WinnersOwed == [n \in Nonces |-> IF positions[n].side = Winner THEN OwedOf(positions[n]) ELSE 0]
LosersOwed  == [n \in Nonces |-> IF positions[n].side = Winner THEN 0 ELSE OwedOf(positions[n])]

LEMMA OwedType ==
    ASSUME TypeOK
    PROVE  /\ Owed \in [Nonces -> Nat] /\ \A n \in Nonces : Owed[n] = OwedOf(positions[n])
           /\ WinnersOwed \in [Nonces -> Nat] /\ LosersOwed \in [Nonces -> Nat]
<1>1. ASSUME NEW n \in Nonces
      PROVE  OwedOf(positions[n]) \in Nat
  <2>1. DueTo(positions[n]) \in DueType
    BY DueToType
  <2> QED
    BY <2>1 DEF OwedOf, DueType
<1>2. \A n \in Nonces : Owed[n] = OwedOf(positions[n])
  BY DEF Owed, OwedOf
<1>3. Owed = [n \in Nonces |-> OwedOf(positions[n])]
  BY DEF Owed, OwedOf
<1> QED
  BY <1>1, <1>2, <1>3 DEF WinnersOwed, LosersOwed

LEMMA OwedSplits ==
    ASSUME TypeOK
    PROVE  SumUpTo(Owed, MAX_POSITIONS)
               = SumUpTo(WinnersOwed, MAX_POSITIONS) + SumUpTo(LosersOwed, MAX_POSITIONS)
<1>1. /\ Owed \in [Nonces -> Nat] /\ WinnersOwed \in [Nonces -> Nat]
      /\ LosersOwed \in [Nonces -> Nat]
      /\ \A n \in Nonces : Owed[n] = OwedOf(positions[n])
  BY OwedType
<1>2. \A n \in Nonces : Owed[n] = WinnersOwed[n] + LosersOwed[n]
  <2> TAKE n \in Nonces
  <2>1. Owed[n] \in Nat /\ Owed[n] = OwedOf(positions[n])
    BY <1>1
  <2>2. \/ WinnersOwed[n] = OwedOf(positions[n]) /\ LosersOwed[n] = 0
        \/ WinnersOwed[n] = 0 /\ LosersOwed[n] = OwedOf(positions[n])
    BY DEF WinnersOwed, LosersOwed
  <2> QED
    BY <2>1, <2>2
<1> QED
  BY <1>1, <1>2, SumOfTwo

LEMMA WinnersWithinPool ==
    ASSUME ResolvedFacts
    PROVE  /\ SumUpTo(WinnersOwed, MAX_POSITIONS) \in Nat
           /\ SumUpTo(WinnersOwed, MAX_POSITIONS)
                  <= WinnerPool(TotalDistributable, outcome.winner_payout_share)
<1> DEFINE wp == WinnerPool(TotalDistributable, outcome.winner_payout_share)
           pool == pools[Winner]
           weighted == weighted_pools[Winner]
           IsActive(n) == Active(positions[n]) /\ positions[n].side = Winner
<1>1. /\ WinnersOwed \in [Nonces -> Nat]
      /\ \A n \in Nonces : WinnersOwed[n] =
             IF IsActive(n)
             THEN DueTo(positions[n]).payout + DueTo(positions[n]).fee
                      + DueTo(positions[n]).creator_fee
             ELSE 0
  BY OwedType DEF ResolvedFacts, WinnersOwed, OwedOf
<1>2. /\ wp \in Nat /\ pool \in Nat /\ weighted \in Nat /\ Winner \in Sides
      /\ positions \in [Nonces -> PositionType]
      /\ pool = SumUpTo(StakeOn(positions, Winner), MAX_POSITIONS)
      /\ weighted = SumUpTo(WeightOn(positions, Winner), MAX_POSITIONS)
  BY ResolvedTypes DEF ResolvedFacts
<1>3. CASE \A n \in Nonces : ~ IsActive(n)
  <2>1. SumUpTo(WinnersOwed, MAX_POSITIONS) = 0
    BY <1>1, <1>3, SumOfNothing
  <2> QED
    BY <1>2, <2>1
<1>4. CASE \E n \in Nonces : IsActive(n)
  <2> DEFINE part == [n \in Nonces |-> IF IsActive(n) THEN ProfitPart(positions[n]) ELSE 0]
  <2>1. pool > 0 /\ weighted > 0
    BY <1>4, ActiveContributes
  <2>2. pool <= wp
    BY <2>1, WinnersAreCovered
  <2>3. ProfitPool \in Nat /\ pool + ProfitPool = wp
    BY <1>2, <2>2 DEF ProfitPool, SatSub
  <2>4. /\ StakeOn(positions, Winner) \in [Nonces -> Nat]
        /\ WeightOn(positions, Winner) \in [Nonces -> Nat]
        /\ \A n \in Nonces :
              /\ StakeOn(positions, Winner)[n] =
                     IF IsActive(n) THEN positions[n].amount ELSE 0
              /\ WeightOn(positions, Winner)[n] =
                     IF IsActive(n) THEN positions[n].amount * positions[n].entry_weight ELSE 0
    <3>1. /\ StakeOn(positions, Winner) \in [Nonces -> Nat]
          /\ WeightOn(positions, Winner) \in [Nonces -> Nat]
      BY <1>2, SummandTypes
    <3> QED
      BY <3>1 DEF StakeOn, WeightOn, ActiveOn
  <2>5. \A n \in Nonces : IsActive(n) =>
            /\ WinnersOwed[n] = positions[n].amount + ProfitPart(positions[n])
            /\ ProfitPart(positions[n]) \in Nat
            /\ weighted * ProfitPart(positions[n])
                   <= ProfitPool * (positions[n].amount * positions[n].entry_weight)
    BY <1>1, WinnerTakes
  <2> HIDE DEF wp, pool, weighted, IsActive
  <2>6. part \in [Nonces -> Nat]
    BY <2>5
  <2>7. \A n \in Nonces : weighted * part[n] <= ProfitPool * WeightOn(positions, Winner)[n]
    <3> TAKE n \in Nonces
    <3>1. CASE IsActive(n)
      BY <2>4, <2>5, <3>1
    <3>2. CASE ~ IsActive(n)
      BY <1>2, <2>3, <2>4, <3>2
    <3> QED
      BY <3>1, <3>2
  <2>8. \A n \in Nonces : WinnersOwed[n] = StakeOn(positions, Winner)[n] + part[n]
    <3> TAKE n \in Nonces
    <3>1. CASE IsActive(n)
      BY <2>4, <2>5, <3>1
    <3>2. CASE ~ IsActive(n)
      BY <1>1, <2>4, <3>2
    <3> QED
      BY <3>1, <3>2
  <2> HIDE DEF part
  <2>9. SumUpTo(part, MAX_POSITIONS) \in Nat /\ SumUpTo(part, MAX_POSITIONS) <= ProfitPool
    BY <1>2, <2>1, <2>3, <2>4, <2>6, <2>7, ProRata
  <2>10. SumUpTo(WinnersOwed, MAX_POSITIONS) = pool + SumUpTo(part, MAX_POSITIONS)
    BY <1>1, <1>2, <2>4, <2>6, <2>8, SumOfTwo
  <2> QED
    BY <1>2, <2>3, <2>9, <2>10 DEF wp
<1> QED
  BY <1>3, <1>4

LEMMA LosersWithinPool ==
    ASSUME ResolvedFacts
    PROVE  /\ SumUpTo(LosersOwed, MAX_POSITIONS) \in Nat
           /\ SumUpTo(LosersOwed, MAX_POSITIONS)
                  <= LoserPool(TotalDistributable, outcome.winner_payout_share)
<1> DEFINE money == LoserPool(TotalDistributable, outcome.winner_payout_share)
           Loses(n) == Active(positions[n]) /\ positions[n].side # Winner
<1>1. /\ money \in Nat /\ Winner \in Sides /\ config.num_sides \in 2 .. MAX_SIDES
      /\ positions \in [Nonces -> PositionType]
      /\ \A n \in Nonces : positions[n].side \in Sides
      /\ \A s \in Sides : weighted_pools[s] \in Nat
  BY ResolvedTypes
<1>2. LosersOwed \in [Nonces -> Nat]
  BY OwedType DEF ResolvedFacts
<1>3. \A n \in Nonces : ~ Loses(n) => LosersOwed[n] = 0
  BY DEF LosersOwed, OwedOf
<1>4. \A n \in Nonces : Loses(n) =>
          /\ weighted_pools[positions[n].side] > 0
          /\ weighted_pools[positions[n].side] * LosersOwed[n]
                 <= money * (positions[n].amount * positions[n].entry_weight)
  <2> TAKE n \in Nonces
  <2>1. SUFFICES ASSUME Loses(n)
                 PROVE  /\ weighted_pools[positions[n].side] > 0
                        /\ weighted_pools[positions[n].side] * LosersOwed[n]
                               <= money * (positions[n].amount * positions[n].entry_weight)
    OBVIOUS
  <2>2. /\ DueTo(positions[n]).payout \in Nat
        /\ DueTo(positions[n]).fee = 0 /\ DueTo(positions[n]).creator_fee = 0
        /\ weighted_pools[positions[n].side] * DueTo(positions[n]).payout
               <= money * (positions[n].amount * positions[n].entry_weight)
    BY <2>1, LoserTakes
  <2>3. LosersOwed[n] = DueTo(positions[n]).payout
    BY <2>1, <2>2 DEF LosersOwed, OwedOf
  <2>4. weighted_pools[positions[n].side] > 0
    BY <2>1, ActiveContributes
  <2> QED
    BY <2>2, <2>3, <2>4
<1> HIDE DEF money
<1>5. CASE \A n \in Nonces : ~ Loses(n)
  <2>1. \A n \in Nonces : LosersOwed[n] = 0
    BY <1>3, <1>5
  <2>2. SumUpTo(LosersOwed, MAX_POSITIONS) = 0
    BY <1>2, <2>1, SumOfNothing
  <2> QED
    BY <1>1, <2>2 DEF money
<1>6. CASE config.num_sides > 2
  <2>1. money = 0
    BY <1>6, ResolvedTypes, PoolsSplitTotal DEF ResolvedFacts, money
  <2>2. ASSUME NEW n \in Nonces, Loses(n)
        PROVE  LosersOwed[n] = 0
    <3> DEFINE w == weighted_pools[positions[n].side]
               x == LosersOwed[n]
               y == positions[n].amount * positions[n].entry_weight
    <3>1. w \in Nat /\ x \in Nat /\ y \in Nat
      BY <1>1, <1>2, ResolvedTypes
    <3>2. w > 0 /\ w * x <= money * y
      BY <1>4, <2>2
    <3> HIDE DEF w, x, y
    <3>3. w * x <= 0
      BY <2>1, <3>1, <3>2
    <3>4. SUFFICES ASSUME x >= 1 PROVE FALSE
      BY <3>1 DEF x
    <3>5. w * 1 <= w * x
      BY <3>1, <3>4, ProductMonotone
    <3>6. w * x \in Nat /\ w * 1 = w
      BY <3>1, ProductNat
    <3> QED
      BY <3>1, <3>2, <3>3, <3>5, <3>6
  <2>3. \A n \in Nonces : LosersOwed[n] = 0
    BY <1>3, <2>2
  <2>4. SumUpTo(LosersOwed, MAX_POSITIONS) = 0
    BY <1>2, <2>3, SumOfNothing
  <2> QED
    BY <1>1, <2>4 DEF money
<1>7. CASE config.num_sides = 2 /\ \E n \in Nonces : Loses(n)
  <2> DEFINE other == 1 - Winner
             weighted == weighted_pools[other]
             weights == WeightOn(positions, other)
  <2>1. Winner \in 0 .. 1 /\ other \in 0 .. 1 /\ other # Winner
    BY <1>7 DEF ResolvedFacts
  <2>2. \A n \in Nonces : Loses(n) => positions[n].side = other
    <3> TAKE n \in Nonces
    <3>1. Loses(n) => positions[n].side < 2
      BY <1>7 DEF ResolvedFacts, Active
    <3> QED
      BY <1>1, <2>1, <3>1 DEF Sides
  <2>3. other \in Sides
    BY <2>1, MathAssumption DEF Sides
  <2>4. /\ weighted \in Nat /\ weighted > 0
        /\ weighted = SumUpTo(weights, MAX_POSITIONS)
    BY <1>1, <1>4, <1>7, <2>2, <2>3 DEF ResolvedFacts
  <2>5. /\ weights \in [Nonces -> Nat]
        /\ \A n \in Nonces :
              weights[n] = IF Active(positions[n]) /\ positions[n].side = other
                           THEN positions[n].amount * positions[n].entry_weight ELSE 0
    <3>1. weights \in [Nonces -> Nat]
      BY <1>1, <2>3, SummandTypes
    <3> QED
      BY <3>1 DEF WeightOn, ActiveOn
  <2> HIDE DEF weights
  <2>6. \A n \in Nonces : weighted * LosersOwed[n] <= money * weights[n]
    <3> TAKE n \in Nonces
    <3>1. CASE Loses(n)
      BY <1>4, <2>2, <2>5, <3>1
    <3>2. CASE ~ Loses(n)
      <4>1. LosersOwed[n] = 0 /\ weights[n] \in Nat
        BY <1>3, <2>5, <3>2
      <4>2. weighted * 0 = 0 /\ money * weights[n] \in Nat
        BY <1>1, <2>4, <4>1, ProductNat
      <4> QED
        BY <4>1, <4>2
    <3> QED
      BY <3>1, <3>2
  <2> HIDE DEF weighted
  <2>7. /\ SumUpTo(LosersOwed, MAX_POSITIONS) \in Nat
        /\ SumUpTo(LosersOwed, MAX_POSITIONS) <= money
    BY <1>1, <1>2, <2>4, <2>5, <2>6, ProRata
  <2> QED
    BY <2>7 DEF money
<1> QED
  BY <1>1, <1>5, <1>6, <1>7

(* Right after a resolution the distributable total covers everybody.      *)
Affordable ==
    /\ SumUpTo(Owed, MAX_POSITIONS) \in Nat
    /\ SumUpTo(Owed, MAX_POSITIONS) <= TotalDistributable
    /\ \A n \in Nonces : Active(positions[n]) /\ IsWinner(positions[n]) =>
           DueTo(positions[n]).payout >= positions[n].amount

LEMMA FreshlyResolved == ResolvedFacts => Affordable
<1> SUFFICES ASSUME ResolvedFacts PROVE Affordable
  OBVIOUS
<1> DEFINE winners == SumUpTo(WinnersOwed, MAX_POSITIONS)
           losers == SumUpTo(LosersOwed, MAX_POSITIONS)
           wp == WinnerPool(TotalDistributable, outcome.winner_payout_share)
           lp == LoserPool(TotalDistributable, outcome.winner_payout_share)
<1>1. /\ winners \in Nat /\ winners <= wp /\ losers \in Nat /\ losers <= lp
  BY WinnersWithinPool, LosersWithinPool
<1>2. /\ wp \in Nat /\ lp \in Nat /\ wp + lp <= TotalDistributable
      /\ TotalDistributable \in Nat
  BY ResolvedTypes, PoolsSplitTotal
<1>3. SumUpTo(Owed, MAX_POSITIONS) = winners + losers
  BY OwedSplits DEF ResolvedFacts
<1>4. ASSUME NEW n \in Nonces, Active(positions[n]), IsWinner(positions[n])
      PROVE  DueTo(positions[n]).payout >= positions[n].amount
  <2>1. positions[n].side = Winner
    BY <1>4 DEF IsWinner, Winner
  <2> QED
    BY <1>4, <2>1, WinnerTakes
<1> HIDE DEF winners, losers, wp, lp
<1>5. SumUpTo(Owed, MAX_POSITIONS) \in Nat /\ SumUpTo(Owed, MAX_POSITIONS) <= TotalDistributable
  BY <1>1, <1>2, <1>3
<1> QED
  BY <1>4, <1>5 DEF Affordable

-----------------------------------------------------------------------------
(* The bound on what the payouts leave over, and what it rests on.         *)
Lost == LoserPool(TotalDistributable, outcome.winner_payout_share)
LostStake == SumPools(pools, config.num_sides) - pools[Winner]
PaidBack == LesserOf(LostStake, (Lost * MIN_WEIGHT_FLOOR) \div PRECISION)
LeftoverBound == (Lost - PaidBack) + TotalPositions + 1

CountedFacts ==
    /\ ResolvedFacts
    /\ \A s \in Sides : side_position_counts[s] = SumUpTo(CountOn(positions, s), MAX_POSITIONS)

(* Counted positions, the winners and the others.                          *)
LEMMA CountsBound ==
    ASSUME CountedFacts
    PROVE  /\ \A s \in Sides : side_position_counts[s] \in Nat
           /\ TotalPositions \in Nat /\ side_position_counts[Winner] <= TotalPositions
           /\ config.num_sides = 2 =>
                  /\ 1 - Winner \in Sides /\ 1 - Winner # Winner
                  /\ side_position_counts[Winner] + side_position_counts[1 - Winner]
                         = TotalPositions
                  /\ pools[Winner] + pools[1 - Winner] = SumPools(pools, config.num_sides)
<1>1. /\ Winner \in Sides /\ config.num_sides \in 2 .. MAX_SIDES
      /\ Winner \in 0 .. (config.num_sides - 1) /\ MAX_SIDES \in Nat
      /\ side_position_counts \in [Sides -> Nat] /\ pools \in [Sides -> Nat]
  BY ResolvedTypes, MathAssumption DEF CountedFacts, ResolvedFacts, TypeOK
<1>2. /\ side_position_counts \in [0 .. (MAX_SIDES - 1) -> Nat]
      /\ pools \in [0 .. (MAX_SIDES - 1) -> Int]
      /\ side_position_counts \in [0 .. (MAX_SIDES - 1) -> Int]
      /\ config.num_sides \in 0 .. MAX_SIDES
  <2>1. \A f \in [Sides -> Nat] : /\ f \in [0 .. (MAX_SIDES - 1) -> Nat]
                                  /\ f \in [0 .. (MAX_SIDES - 1) -> Int]
    BY DEF Sides
  <2>2. config.num_sides \in 0 .. MAX_SIDES
    BY <1>1
  <2> QED
    BY <1>1, <2>1, <2>2
<1>3. TotalPositions \in Nat
  BY <1>1, <1>2, SumUpToNat DEF TotalPositions
<1>4. side_position_counts[Winner] <= TotalPositions
  <2> DEFINE winner == Winner
  <2>1. winner \in 0 .. (config.num_sides - 1)
    BY <1>1
  <2> HIDE DEF winner
  <2>2. side_position_counts[winner] <= SumUpTo(side_position_counts, config.num_sides)
    BY <1>1, <1>2, <2>1, SumUpToBoundsEntry
  <2> QED
    BY <2>2 DEF winner, TotalPositions
<1>5. ASSUME config.num_sides = 2
      PROVE  /\ 1 - Winner \in Sides /\ 1 - Winner # Winner
             /\ side_position_counts[Winner] + side_position_counts[1 - Winner]
                    = TotalPositions
             /\ pools[Winner] + pools[1 - Winner] = SumPools(pools, config.num_sides)
  <2>1. /\ 0 \in 0 .. (MAX_SIDES - 1) /\ 1 \in 0 .. (MAX_SIDES - 1)
        /\ Winner = 0 \/ Winner = 1
    BY <1>1, <1>5, MathAssumption
  <2>2. ASSUME NEW f \in [0 .. (MAX_SIDES - 1) -> Int]
        PROVE  SumUpTo(f, 2) = f[0] + f[1]
    <3>1. /\ SumUpTo(f, 0) = 0 /\ SumUpTo(f, 0 + 1) = SumUpTo(f, 0) + f[0]
          /\ SumUpTo(f, 1 + 1) = SumUpTo(f, 1) + f[1]
      BY <1>1, <2>1, SumUpToStep
    <3>2. f[0] \in Int /\ f[1] \in Int /\ 0 + 1 = 1 /\ 1 + 1 = 2
      BY <2>1
    <3> QED
      BY <3>1, <3>2
  <2>3. /\ TotalPositions = side_position_counts[0] + side_position_counts[1]
        /\ SumUpTo(pools, 2) = pools[0] + pools[1]
    BY <1>2, <1>5, <2>2 DEF TotalPositions
  <2>4. SumPools(pools, config.num_sides) = pools[0] + pools[1]
    BY <1>5, <2>3 DEF CountedFacts, ResolvedFacts
  <2>5. /\ side_position_counts[0] \in Nat /\ side_position_counts[1] \in Nat
        /\ pools[0] \in Nat /\ pools[1] \in Nat /\ 0 \in Sides /\ 1 \in Sides
    BY <1>1, <2>1 DEF Sides
  <2>6. CASE Winner = 0
    <3>1. 1 - Winner = 1
      BY <2>6
    <3> QED
      BY <2>3, <2>4, <2>5, <2>6, <3>1
  <2>7. CASE Winner = 1
    <3>1. 1 - Winner = 0
      BY <2>7
    <3> QED
      BY <2>3, <2>4, <2>5, <2>7, <3>1
  <2> QED
    BY <2>1, <2>6, <2>7
<1> QED
  BY <1>1, <1>3, <1>4, <1>5

(* The winners leave less than a lamport each of their pool.               *)
LEMMA WinnersTakeAll ==
    ASSUME CountedFacts, pools[Winner] > 0
    PROVE  WinnerPool(TotalDistributable, outcome.winner_payout_share)
               <= SumUpTo(WinnersOwed, MAX_POSITIONS) + side_position_counts[Winner]
<1> DEFINE wp == WinnerPool(TotalDistributable, outcome.winner_payout_share)
           pool == pools[Winner]
           weighted == weighted_pools[Winner]
           stakes == StakeOn(positions, Winner)
           weights == WeightOn(positions, Winner)
           counts == CountOn(positions, Winner)
           Wins(n) == Active(positions[n]) /\ positions[n].side = Winner
           part == [n \in Nonces |-> IF Wins(n) THEN ProfitPart(positions[n]) ELSE 0]
<1>1. ResolvedFacts
  BY DEF CountedFacts
<1>2. /\ wp \in Nat /\ pool \in Nat /\ weighted \in Nat /\ Winner \in Sides
      /\ positions \in [Nonces -> PositionType]
      /\ pool = SumUpTo(stakes, MAX_POSITIONS)
      /\ weighted = SumUpTo(weights, MAX_POSITIONS)
      /\ side_position_counts[Winner] = SumUpTo(counts, MAX_POSITIONS)
  BY <1>1, ResolvedTypes DEF CountedFacts, ResolvedFacts
<1>3. /\ stakes \in [Nonces -> Nat] /\ weights \in [Nonces -> Nat]
      /\ counts \in [Nonces -> Nat] /\ WinnersOwed \in [Nonces -> Nat]
      /\ \A n \in Nonces :
            /\ stakes[n] = IF Wins(n) THEN positions[n].amount ELSE 0
            /\ weights[n] = IF Wins(n) THEN positions[n].amount * positions[n].entry_weight
                            ELSE 0
            /\ counts[n] = IF Wins(n) THEN 1 ELSE 0
            /\ WinnersOwed[n] = IF Wins(n) THEN DueTo(positions[n]).payout
                                    + DueTo(positions[n]).fee + DueTo(positions[n]).creator_fee
                                ELSE 0
  <2>1. /\ stakes \in [Nonces -> Nat] /\ weights \in [Nonces -> Nat]
        /\ counts \in [Nonces -> Nat] /\ WinnersOwed \in [Nonces -> Nat]
    BY <1>1, <1>2, SummandTypes, OwedType DEF ResolvedFacts
  <2> QED
    BY <2>1 DEF StakeOn, WeightOn, CountOn, ActiveOn, WinnersOwed, OwedOf
<1>4. PICK first \in Nonces : Wins(first)
  <2>1. ASSUME \A n \in Nonces : ~ Wins(n)
        PROVE  FALSE
    <3>1. SumUpTo(stakes, MAX_POSITIONS) = 0
      BY <1>3, <2>1, SumOfNothing
    <3> QED
      BY <1>2, <3>1
  <2> QED
    BY <2>1
<1>5. weighted > 0 /\ pool <= wp
  BY <1>1, <1>4, ActiveContributes, WinnersAreCovered
<1>6. ProfitPool \in Nat /\ pool + ProfitPool = wp
  BY <1>2, <1>5 DEF ProfitPool, SatSub
<1>7. \A n \in Nonces : Wins(n) =>
          /\ WinnersOwed[n] = positions[n].amount + ProfitPart(positions[n])
          /\ ProfitPart(positions[n]) \in Nat
          /\ positions[n].amount \in Nat
          /\ ProfitPool * (positions[n].amount * positions[n].entry_weight)
                 <= weighted * (ProfitPart(positions[n]) + 1)
  <2> TAKE n \in Nonces
  <2>1. SUFFICES ASSUME Wins(n)
                 PROVE  /\ WinnersOwed[n] = positions[n].amount + ProfitPart(positions[n])
                        /\ ProfitPart(positions[n]) \in Nat
                        /\ positions[n].amount \in Nat
                        /\ ProfitPool * (positions[n].amount * positions[n].entry_weight)
                               <= weighted * (ProfitPart(positions[n]) + 1)
    OBVIOUS
  <2>2. positions[n].amount \in Nat /\ positions[n].entry_weight \in Nat
    BY <1>1, ResolvedTypes
  <2>3. /\ WinnersOwed[n] = positions[n].amount + ProfitPart(positions[n])
        /\ ProfitPart(positions[n]) \in Nat
    BY <1>1, <1>3, <2>1, WinnerTakes
  <2>4. ProfitPool * (positions[n].amount * positions[n].entry_weight)
            <= weighted * (ProfitPart(positions[n]) + 1)
    BY <1>2, <1>5, <1>6, <2>2, WeightedPartTruncates DEF ProfitPart
  <2> QED
    BY <2>2, <2>3, <2>4
<1> HIDE DEF wp, pool, weighted, stakes, weights, counts, Wins
<1>8. part \in [Nonces -> Nat]
  BY <1>7
<1>9. ASSUME NEW n \in Nonces
      PROVE  /\ ProfitPool * weights[n] <= weighted * (part[n] + counts[n])
             /\ WinnersOwed[n] = stakes[n] + part[n]
  <2>1. CASE Wins(n)
    BY <1>3, <1>7, <2>1
  <2>2. CASE ~ Wins(n)
    <3>1. /\ weights[n] = 0 /\ part[n] = 0 /\ counts[n] = 0 /\ stakes[n] = 0
          /\ WinnersOwed[n] = 0
      BY <1>3, <2>2
    <3> HIDE DEF part
    <3>2. ProfitPool * 0 = 0 /\ weighted * (0 + 0) = 0
      BY <1>2, <1>6
    <3> QED
      BY <3>1, <3>2
  <2> QED
    BY <2>1, <2>2
<1> HIDE DEF part
<1>10. ProfitPool <= SumUpTo(part, MAX_POSITIONS) + SumUpTo(counts, MAX_POSITIONS)
  BY <1>2, <1>3, <1>5, <1>6, <1>8, <1>9, ProRataLeaves
<1>11. SumUpTo(WinnersOwed, MAX_POSITIONS) = pool + SumUpTo(part, MAX_POSITIONS)
  <2>1. \A n \in Nonces : WinnersOwed[n] = stakes[n] + part[n]
    BY <1>9
  <2>2. SumUpTo(WinnersOwed, MAX_POSITIONS)
            = SumUpTo(stakes, MAX_POSITIONS) + SumUpTo(part, MAX_POSITIONS)
    BY <1>3, <1>8, <2>1, SumOfTwo
  <2> QED
    BY <1>2, <2>2
<1>12. SumUpTo(part, MAX_POSITIONS) \in Nat /\ SumUpTo(counts, MAX_POSITIONS) \in Nat
  BY <1>3, <1>8, SumOrder
<1>13. wp <= SumUpTo(WinnersOwed, MAX_POSITIONS) + SumUpTo(counts, MAX_POSITIONS)
  BY <1>2, <1>6, <1>10, <1>11, <1>12
<1> QED
  BY <1>2, <1>13 DEF wp

(* What the losers are paid back at least, whatever their weights.         *)
LEMMA PaidBackType ==
    ASSUME CountedFacts
    PROVE  /\ Lost \in Nat /\ PaidBack \in Nat /\ LostStake \in Nat
           /\ PaidBack <= LostStake /\ PaidBack <= Lost
           /\ PRECISION * PaidBack <= Lost * MIN_WEIGHT_FLOOR
           /\ config.num_sides > 2 => PaidBack = 0
<1> DEFINE back == (Lost * MIN_WEIGHT_FLOOR) \div PRECISION
<1>1. ResolvedFacts
  BY DEF CountedFacts
<1>2. Lost \in Nat
  BY <1>1, ResolvedTypes DEF Lost
<1>3. LostStake \in Nat
  <2> DEFINE winner == Winner
             staked == SumUpTo(pools, config.num_sides)
  <2>1. /\ MAX_SIDES \in Nat /\ pools \in [0 .. (MAX_SIDES - 1) -> Nat]
        /\ config.num_sides \in 0 .. MAX_SIDES /\ winner \in 0 .. (config.num_sides - 1)
        /\ pools[winner] \in Nat /\ SumPools(pools, config.num_sides) = staked
    <3>1. /\ config.num_sides \in 2 .. MAX_SIDES /\ Winner \in 0 .. (config.num_sides - 1)
          /\ pools \in [Sides -> Nat] /\ pools[Winner] \in Nat /\ MAX_SIDES \in Nat
          /\ SumPools(pools, config.num_sides) = staked
      BY <1>1, ResolvedTypes, MathAssumption DEF ResolvedFacts, TypeOK
    <3>2. config.num_sides \in 0 .. MAX_SIDES
      BY <3>1
    <3> QED
      BY <3>1, <3>2 DEF Sides
  <2> HIDE DEF winner
  <2>2. pools[winner] <= staked /\ staked \in Nat
    BY <2>1, SumUpToBoundsEntry, SumUpToNat
  <2> HIDE DEF staked
  <2>3. SumPools(pools, config.num_sides) - pools[winner] \in Nat
    BY <2>1, <2>2
  <2> QED
    BY <2>3 DEF winner, LostStake
<1>4. /\ back \in Nat /\ PRECISION * back <= Lost * MIN_WEIGHT_FLOOR /\ back <= Lost
  <2> DEFINE product == Lost * MIN_WEIGHT_FLOOR
  <2>1. product \in Nat /\ product <= Lost * PRECISION
    BY <1>2, Scale, ProductNat, ProductMonotone
  <2> HIDE DEF product
  <2>2. /\ product \div PRECISION \in Nat
        /\ PRECISION * (product \div PRECISION) <= product
        /\ product \div PRECISION <= Lost
    BY <1>2, <2>1, Scale, DivBounds, DivMonotone
  <2> QED
    BY <2>2 DEF product
<1>5. config.num_sides > 2 => back = 0
  <2>1. SUFFICES ASSUME config.num_sides > 2 PROVE back = 0
    OBVIOUS
  <2>2. Lost = 0
    BY <1>1, <2>1, ResolvedTypes, PoolsSplitTotal DEF ResolvedFacts, Lost
  <2> HIDE DEF back
  <2> QED
    BY <1>4, <2>2
<1>6. PaidBack = LesserOf(LostStake, back)
  BY DEF PaidBack
<1> HIDE DEF back
<1>7. CASE back < LostStake
  <2>1. PaidBack = back
    BY <1>3, <1>4, <1>6, <1>7 DEF LesserOf
  <2> QED
    BY <1>2, <1>3, <1>4, <1>5, <1>7, <2>1
<1>8. CASE LostStake <= back
  <2>1. PaidBack = LostStake
    BY <1>3, <1>4, <1>6, <1>8 DEF LesserOf
  <2>2. PRECISION * LostStake <= PRECISION * back
    BY <1>3, <1>4, <1>8, Scale, ProductMonotone
  <2>3. PRECISION * LostStake \in Nat /\ PRECISION * back \in Nat /\ Lost * MIN_WEIGHT_FLOOR \in Nat
    BY <1>2, <1>3, <1>4, Scale, ProductNat
  <2>4. PRECISION * PaidBack <= Lost * MIN_WEIGHT_FLOOR
    BY <1>4, <2>1, <2>2, <2>3
  <2> QED
    BY <1>2, <1>3, <1>4, <1>5, <1>8, <2>1, <2>4
<1> QED
  BY <1>3, <1>4, <1>7, <1>8

(* The losers of a binary market are paid back, less a lamport each.       *)
LEMMA LosersTakeBack ==
    ASSUME CountedFacts, config.num_sides = 2
    PROVE  PaidBack <= SumUpTo(LosersOwed, MAX_POSITIONS) + side_position_counts[1 - Winner]
<1> DEFINE other == 1 - Winner
           stake == pools[other]
           weighted == weighted_pools[other]
           share == outcome.winner_payout_share
           total == TotalDistributable
           stakes == StakeOn(positions, other)
           weights == WeightOn(positions, other)
           counts == CountOn(positions, other)
           Loses(n) == Active(positions[n]) /\ positions[n].side = other
           Lose(p) == ComputeLoserPayout(p.amount, p.entry_weight, weighted, share, total)
<1>1. /\ ResolvedFacts /\ other \in Sides /\ other # Winner
      /\ positions \in [Nonces -> PositionType]
      /\ share \in 0 .. PRECISION /\ total \in Nat
      /\ stake = SumUpTo(stakes, MAX_POSITIONS) /\ stake \in Nat
      /\ weighted = SumUpTo(weights, MAX_POSITIONS) /\ weighted \in Nat
      /\ side_position_counts[other] = SumUpTo(counts, MAX_POSITIONS)
  <2>1. ResolvedFacts /\ other \in Sides /\ other # Winner
    BY CountsBound DEF CountedFacts
  <2> QED
    BY <2>1, ResolvedTypes DEF CountedFacts, ResolvedFacts
<1>2. LostStake = stake
  <2>1. /\ pools[Winner] + pools[other] = SumPools(pools, config.num_sides)
        /\ pools[Winner] \in Nat /\ pools[other] \in Nat
    BY <1>1, CountsBound, ResolvedTypes
  <2> QED
    BY <2>1 DEF LostStake
<1>3. /\ PaidBack \in Nat /\ PaidBack <= stake
      /\ PRECISION * PaidBack <= LoserPool(total, share) * MIN_WEIGHT_FLOOR
  BY <1>2, PaidBackType DEF Lost
<1>4. /\ stakes \in [Nonces -> Nat] /\ weights \in [Nonces -> Nat]
      /\ counts \in [Nonces -> Nat] /\ LosersOwed \in [Nonces -> Nat]
      /\ \A n \in Nonces :
            /\ stakes[n] = IF Loses(n) THEN positions[n].amount ELSE 0
            /\ weights[n] = IF Loses(n) THEN positions[n].amount * positions[n].entry_weight
                            ELSE 0
            /\ counts[n] = IF Loses(n) THEN 1 ELSE 0
  <2>1. /\ stakes \in [Nonces -> Nat] /\ weights \in [Nonces -> Nat]
        /\ counts \in [Nonces -> Nat] /\ LosersOwed \in [Nonces -> Nat]
    BY <1>1, SummandTypes, OwedType DEF ResolvedFacts
  <2> QED
    BY <2>1 DEF StakeOn, WeightOn, CountOn, ActiveOn
<1>5. ASSUME NEW n \in Nonces, Loses(n)
      PROVE  /\ positions[n].amount \in Nat /\ positions[n].entry_weight \in Nat
             /\ MIN_WEIGHT_FLOOR <= positions[n].entry_weight
             /\ positions[n].entry_weight <= PRECISION
             /\ LosersOwed[n] = Lose(positions[n])
             /\ weighted > 0 /\ stake > 0
  <2>1. /\ positions[n].amount \in Nat /\ positions[n].entry_weight \in Nat
        /\ positions[n].entry_weight \in Weights
    BY <1>1, <1>5, ResolvedTypes DEF ResolvedFacts, Active
  <2>2. DueTo(positions[n]) = [NothingDue EXCEPT !.payout = Lose(positions[n])]
    BY <1>1, <1>5 DEF DueTo, IsWinner, Winner
  <2>3. /\ DueTo(positions[n]).payout = Lose(positions[n])
        /\ DueTo(positions[n]).fee = 0 /\ DueTo(positions[n]).creator_fee = 0
    <3> HIDE DEF Lose
    <3> QED
      BY <2>2 DEF NothingDue
  <2>4. Lose(positions[n]) \in Nat
    BY <1>1, <2>1, LoserPayout
  <2>5. LosersOwed[n] = DueTo(positions[n]).payout + DueTo(positions[n]).fee
                            + DueTo(positions[n]).creator_fee
    BY <1>1, <1>5 DEF LosersOwed, OwedOf
  <2>6. weighted > 0 /\ stake > 0
    BY <1>1, <1>5, ActiveContributes
  <2> HIDE DEF Lose
  <2> QED
    BY <2>1, <2>3, <2>4, <2>5, <2>6 DEF Weights
<1> HIDE DEF other, stake, weighted, share, total, stakes, weights, counts, Loses
<1>6. CASE \A n \in Nonces : ~ Loses(n)
  <2>1. \A n \in Nonces : stakes[n] = 0
    BY <1>4, <1>6
  <2>2. stake = 0
    BY <1>1, <1>4, <2>1, SumOfNothing
  <2>3. SumUpTo(LosersOwed, MAX_POSITIONS) \in Nat /\ SumUpTo(counts, MAX_POSITIONS) \in Nat
    BY <1>4, SumOrder
  <2> QED
    BY <1>1, <1>3, <2>2, <2>3 DEF other
<1>7. CASE \E n \in Nonces : Loses(n)
  <2>1. weighted > 0 /\ stake > 0
    BY <1>5, <1>7
  <2>2. weighted <= PRECISION * stake
    <3>1. \A n \in Nonces : 1 * weights[n] <= PRECISION * stakes[n]
      <4> TAKE n \in Nonces
      <4>1. CASE Loses(n)
        <5> DEFINE a == positions[n].amount  w == positions[n].entry_weight
        <5>1. a \in Nat /\ w \in Nat /\ w <= PRECISION /\ PRECISION \in Nat
          BY <1>5, <4>1, Scale
        <5>2. weights[n] = a * w /\ stakes[n] = a
          BY <1>4, <4>1
        <5> HIDE DEF a, w
        <5>3. a * w <= a * PRECISION /\ a * PRECISION = PRECISION * a /\ a * w \in Nat
          BY <5>1, ProductMonotone, ProductNat
        <5> QED
          BY <5>2, <5>3
      <4>2. CASE ~ Loses(n)
        <5>1. weights[n] = 0 /\ stakes[n] = 0
          BY <1>4, <4>2
        <5> QED
          BY <5>1, Scale
      <4> QED
        BY <4>1, <4>2
    <3>2. MAX_POSITIONS \in Nat /\ MAX_POSITIONS \in 0 .. MAX_POSITIONS
      BY EscrowAssumption
    <3>3. /\ weights \in [0 .. (MAX_POSITIONS - 1) -> Int]
          /\ stakes \in [0 .. (MAX_POSITIONS - 1) -> Int]
          /\ \A i \in 0 .. (MAX_POSITIONS - 1) : 1 * weights[i] <= PRECISION * stakes[i]
          /\ 1 \in Int /\ PRECISION \in Int
      BY <1>4, <3>1, Scale DEF Nonces
    <3>4. \A k \in 0 .. MAX_POSITIONS : 1 * SumUpTo(weights, k) <= PRECISION * SumUpTo(stakes, k)
      BY <3>2, <3>3, SumScaleLe
    <3>5. 1 * weighted <= PRECISION * stake
      BY <1>1, <3>2, <3>4
    <3> QED
      BY <1>1, <3>5
  <2>3. \A n \in Nonces : PaidBack * stakes[n] <= stake * (LosersOwed[n] + counts[n])
    <3> TAKE n \in Nonces
    <3>1. CASE Loses(n)
      <4>1. PaidBack * positions[n].amount <= stake * (Lose(positions[n]) + 1)
        BY <1>1, <1>3, <1>5, <2>1, <2>2, <3>1, LoserGetsShare
      <4> HIDE DEF Lose
      <4> QED
        BY <1>4, <1>5, <3>1, <4>1
    <3>2. CASE ~ Loses(n)
      <4>1. stakes[n] = 0 /\ LosersOwed[n] + counts[n] \in Nat
        BY <1>4, <3>2
      <4>2. stake * (LosersOwed[n] + counts[n]) \in Nat /\ PaidBack * 0 = 0
        BY <1>1, <1>3, <4>1, ProductNat
      <4> QED
        BY <4>1, <4>2
    <3> QED
      BY <3>1, <3>2
  <2>4. PaidBack <= SumUpTo(LosersOwed, MAX_POSITIONS) + SumUpTo(counts, MAX_POSITIONS)
    BY <1>1, <1>3, <1>4, <2>1, <2>3, ProRataLeaves
  <2> QED
    BY <1>1, <2>4 DEF other
<1> QED
  BY <1>6, <1>7

(* So a resolved market whose winning side holds stake owes its total, up  *)
(* to the bound.                                                           *)
LEMMA FreshLeftover ==
    ASSUME CountedFacts, pools[Winner] > 0
    PROVE  /\ LeftoverBound \in Nat
           /\ TotalDistributable - SumUpTo(Owed, MAX_POSITIONS) <= LeftoverBound
<1> DEFINE winners == SumUpTo(WinnersOwed, MAX_POSITIONS)
           losers == SumUpTo(LosersOwed, MAX_POSITIONS)
           owed == SumUpTo(Owed, MAX_POSITIONS)
           wp == WinnerPool(TotalDistributable, outcome.winner_payout_share)
           mine == side_position_counts[Winner]
<1>1. ResolvedFacts
  BY DEF CountedFacts
<1>2. /\ wp \in Nat /\ Lost \in Nat /\ TotalDistributable \in Nat
      /\ TotalDistributable <= wp + Lost + 1
  BY <1>1, ResolvedTypes, PoolsLeaveOne DEF Lost
<1>3. owed = winners + losers
  BY <1>1, OwedSplits DEF ResolvedFacts
<1>4. winners \in Nat /\ losers \in Nat /\ wp <= winners + mine
  BY <1>1, WinnersWithinPool, LosersWithinPool, WinnersTakeAll
<1>5. /\ mine \in Nat /\ TotalPositions \in Nat /\ mine <= TotalPositions
      /\ PaidBack \in Nat /\ PaidBack <= Lost
  BY <1>1, CountsBound, PaidBackType, ResolvedTypes
<1>6. mine + PaidBack <= losers + TotalPositions
  <2>1. CASE config.num_sides = 2
    <3> DEFINE theirs == side_position_counts[1 - Winner]
    <3>1. /\ theirs \in Nat /\ mine + theirs = TotalPositions /\ PaidBack <= losers + theirs
      BY <2>1, CountsBound, LosersTakeBack
    <3> HIDE DEF theirs, mine, losers
    <3> QED
      BY <1>4, <1>5, <3>1
  <2>2. CASE config.num_sides > 2
    <3>1. PaidBack = 0
      BY <2>2, PaidBackType
    <3> HIDE DEF mine, losers
    <3> QED
      BY <1>4, <1>5, <3>1
  <2>3. config.num_sides = 2 \/ config.num_sides > 2
    BY <1>1, ResolvedTypes
  <2> QED
    BY <2>1, <2>2, <2>3
<1> HIDE DEF winners, losers, owed, wp, mine
<1>7. LeftoverBound \in Nat /\ TotalDistributable - owed <= LeftoverBound
  BY <1>2, <1>3, <1>4, <1>5, <1>6 DEF LeftoverBound
<1> QED
  BY <1>7 DEF owed
=============================================================================
