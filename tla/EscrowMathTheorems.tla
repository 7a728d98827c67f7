------------------------ MODULE EscrowMathTheorems ------------------------
(***************************************************************************)
(* What the arithmetic of EscrowMath returns: types, bounds, and the facts *)
(* on which the solvency of a resolved market rests.                       *)
(***************************************************************************)
EXTENDS EscrowMath, FixedPointTheorems

(* The constants that are given as percentages.                            *)
LEMMA Scale ==
    /\ PRECISION \in Nat /\ PRECISION > 0
    /\ MIN_WEIGHT_FLOOR \in Nat /\ MIN_WEIGHT_FLOOR > 0 /\ MIN_WEIGHT_FLOOR < PRECISION
    /\ PRECISION \div 2 \in Nat /\ 2 * (PRECISION \div 2) = PRECISION
    /\ MIN_TRANSFER_BPS \in Nat /\ MIN_TRANSFER_BPS > 0
BY MathAssumption DEF PRECISION, MIN_WEIGHT_FLOOR, MIN_TRANSFER_BPS

-----------------------------------------------------------------------------
(* An entry weight lies between the floor and PRECISION.                   *)
LEMMA EntryWeightBounds ==
    ASSUME NEW fraction \in Nat, NEW duration \in Int
    PROVE  ComputeEntryWeight(fraction, duration) \in MIN_WEIGHT_FLOOR .. PRECISION
<1> DEFINE power == FractionPower(fraction, duration)
           range == PRECISION - MIN_WEIGHT_FLOOR
<1>1. power \in Nat
  <2>1. fraction * fraction \in Nat
    BY ProductNat
  <2>2. (fraction * fraction) \div PRECISION \in Nat
    BY <2>1, Scale, DivBounds
  <2> QED
    BY <2>2 DEF FractionPower
<1>2. range \in Nat
  BY Scale
<1>3. (range * power) \div PRECISION \in Nat
  <2> HIDE DEF range, power
  <2>1. range * power \in Nat
    BY <1>1, <1>2, ProductNat
  <2> QED
    BY <2>1, Scale, DivBounds
<1> QED
  BY <1>3, Scale DEF ComputeEntryWeight, LesserOf

(* An entry weight does not rise when less time remains.                   *)
LEMMA EntryWeightOrdered ==
    ASSUME NEW less \in Nat, NEW more \in Nat, NEW duration \in Int, less <= more
    PROVE  ComputeEntryWeight(less, duration) <= ComputeEntryWeight(more, duration)
<1> DEFINE Power(f) == FractionPower(f, duration)
           range == PRECISION - MIN_WEIGHT_FLOOR
           Bonus(f) == (range * Power(f)) \div PRECISION
<1>1. \A f \in Nat : f * f \in Nat /\ (f * f) \div PRECISION \in Nat
  BY ProductNat, Scale, DivBounds
<1>2. Power(less) \in Nat /\ Power(more) \in Nat
  BY <1>1 DEF FractionPower
<1>3. Power(less) <= Power(more)
  <2>1. less * less <= less * more /\ less * more <= more * more
    BY ProductMonotone
  <2>2. less * less \in Nat /\ less * more \in Nat /\ more * more \in Nat
    BY ProductNat
  <2>3. less * less <= more * more
    BY <2>1, <2>2
  <2>4. (less * less) \div PRECISION <= (more * more) \div PRECISION
    BY <2>2, <2>3, Scale, DivOrdered
  <2> QED
    BY <2>4 DEF FractionPower
<1>4. range \in Nat
  BY Scale
<1> HIDE DEF Power, range
<1>5. /\ range * Power(less) \in Nat /\ range * Power(more) \in Nat
      /\ range * Power(less) <= range * Power(more)
  BY <1>2, <1>3, <1>4, ProductNat, ProductMonotone
<1>6. Bonus(less) \in Nat /\ Bonus(more) \in Nat /\ Bonus(less) <= Bonus(more)
  BY <1>5, Scale, DivBounds, DivOrdered
<1>7. \A f \in Nat : ComputeEntryWeight(f, duration) =
          IF f = 0 THEN MIN_WEIGHT_FLOOR
          ELSE IF f >= PRECISION THEN PRECISION
          ELSE LesserOf(PRECISION, MIN_WEIGHT_FLOOR + Bonus(f))
  BY DEF ComputeEntryWeight, range, Power
<1> HIDE DEF Bonus
<1> QED
  BY <1>6, <1>7, Scale DEF LesserOf

(* The total of the pools is a natural and at most U64_MAX.                *)
LEMMA SumPoolsType ==
    ASSUME NEW pools \in [Sides -> Nat], NEW num_sides \in 0 .. MAX_SIDES
    PROVE  /\ SumPools(pools, num_sides) \in Nat
           /\ SumUpTo(pools, num_sides) \in Nat
           /\ SumPools(pools, num_sides) <= SumUpTo(pools, num_sides)
<1>1. MAX_SIDES \in Nat /\ U64_MAX \in Nat
  BY MathAssumption
<1>2. pools \in [0 .. (MAX_SIDES - 1) -> Nat]
  BY DEF Sides
<1>3. SumUpTo(pools, num_sides) \in Nat
  BY <1>1, <1>2, SumUpToNat
<1> QED
  BY <1>1, <1>3 DEF SumPools, LesserOf

TwdType == [cumulative_twd_0 : Nat, cumulative_time : Nat, last_snapshot_at : Nat,
            has_both_sides : BOOLEAN]

(* The tracker keeps its type.                                             *)
LEMMA UpdateTwdType ==
    ASSUME NEW t \in TwdType, NEW pools \in [Sides -> Nat],
           NEW num_sides \in 2 .. MAX_SIDES, NEW now \in Nat
    PROVE  UpdateTwd(t, pools, num_sides, now) \in TwdType
<1> DEFINE elapsed == now - t.last_snapshot_at
           total   == SumPools(pools, num_sides)
           tracked == elapsed > 0 /\ t.has_both_sides /\ total > 0
           more    == IF tracked THEN ((pools[0] * PRECISION) \div total) * elapsed ELSE 0
           longer  == IF tracked THEN elapsed ELSE 0
<1>1. total \in Nat /\ pools[0] \in Nat
  <2>1. num_sides \in 0 .. MAX_SIDES /\ 0 \in Sides
    BY MathAssumption DEF Sides
  <2> QED
    BY <2>1, SumPoolsType
<1>2. elapsed \in Int /\ t.cumulative_twd_0 \in Nat /\ t.cumulative_time \in Nat
  BY DEF TwdType
<1>3. longer \in Nat
  BY <1>2
<1>4. more \in Nat
  <2>1. CASE tracked
    <3>1. elapsed \in Nat /\ total > 0
      BY <1>2, <2>1
    <3> HIDE DEF elapsed, total
    <3>2. pools[0] * PRECISION \in Nat
      BY <1>1, Scale, ProductNat
    <3>3. (pools[0] * PRECISION) \div total \in Nat
      BY <1>1, <3>1, <3>2, DivBounds
    <3>4. ((pools[0] * PRECISION) \div total) * elapsed \in Nat
      BY <3>1, <3>3, ProductNat
    <3> QED
      BY <2>1, <3>4
  <2> QED
    BY <2>1
<1>5. UpdateTwd(t, pools, num_sides, now) =
          [cumulative_twd_0 |-> t.cumulative_twd_0 + more,
           cumulative_time  |-> t.cumulative_time + longer,
           last_snapshot_at |-> now,
           has_both_sides   |-> TwoSidesHold(pools, num_sides)]
  BY DEF UpdateTwd
<1>6. TwoSidesHold(pools, num_sides) \in BOOLEAN
  BY DEF TwoSidesHold
<1> HIDE DEF more, longer
<1> QED
  BY <1>2, <1>3, <1>4, <1>5, <1>6 DEF TwdType

(* The dominance a resolution settles on is a natural.                     *)
LEMMA FinalTwdType ==
    ASSUME NEW t \in TwdType
    PROVE  FinalTwd(t) \in Nat
<1>1. t.cumulative_twd_0 \in Nat /\ t.cumulative_time \in Nat
  BY DEF TwdType
<1> QED
  BY <1>1, Scale, DivBounds DEF FinalTwd

-----------------------------------------------------------------------------
(* There is a side with the largest pool, and a first one of them.         *)
LEMMA LargestPoolExists ==
    ASSUME NEW pools \in [Sides -> Nat], NEW num_sides \in 2 .. MAX_SIDES
    PROVE  /\ LargestPool(pools, num_sides) \in 0 .. (num_sides - 1)
           /\ \A j \in 0 .. (num_sides - 1) :
                  pools[LargestPool(pools, num_sides)] >= pools[j]
<1> DEFINE Ixs == 0 .. (num_sides - 1)
           Bounds == {b \in Nat : \A i \in Ixs : pools[i] <= b}
<1>1. /\ Ixs \subseteq Sides /\ Ixs \subseteq Nat /\ 0 \in Ixs /\ num_sides \in 0 .. MAX_SIDES
      /\ \A i \in Ixs : pools[i] \in Nat
  BY MathAssumption DEF Sides
<1>2. SumUpTo(pools, num_sides) \in Bounds
  <2>1. pools \in [0 .. (MAX_SIDES - 1) -> Nat] /\ MAX_SIDES \in Nat
    BY MathAssumption DEF Sides
  <2>2. \A i \in Ixs : pools[i] <= SumUpTo(pools, num_sides)
    BY <1>1, <2>1, SumUpToBoundsEntry
  <2> QED
    BY <1>1, <2>2, SumPoolsType
<1>3. PICK m \in Bounds : \A k \in Bounds : ~ (k < m)
  <2> Bounds \in SUBSET Nat /\ Bounds # {}
    BY <1>2
  <2> QED
    BY NaturalsLeast
<1> DEFINE Tops == {i \in Ixs : pools[i] = m}
<1>4. Tops # {}
  <2>1. SUFFICES ASSUME \A i \in Ixs : pools[i] # m
                 PROVE  FALSE
    OBVIOUS
  <2>2. m \in Nat /\ \A i \in Ixs : pools[i] <= m - 1
    <3>1. m \in Nat /\ \A i \in Ixs : pools[i] <= m
      BY <1>3
    <3>2. \A x \in Nat, y \in Nat : x <= y /\ x # y => x <= y - 1
      OBVIOUS
    <3> HIDE DEF Ixs, Bounds
    <3> QED
      BY <1>1, <2>1, <3>1, <3>2
  <2>3. m - 1 \in Nat
    BY <1>1, <2>2
  <2>4. m - 1 \in Bounds
    BY <2>2, <2>3
  <2>5. m - 1 < m
    BY <2>2
  <2> HIDE DEF Bounds
  <2> QED
    BY <1>3, <2>4, <2>5
<1>5. PICK first \in Tops : \A k \in Tops : ~ (k < first)
  <2>1. Tops \in SUBSET Nat
    BY <1>1
  <2> HIDE DEF Tops
  <2> QED
    BY <1>4, <2>1, NaturalsLeast
<1>6. /\ first \in Ixs
      /\ \A j \in Ixs : pools[first] >= pools[j]
      /\ \A j \in 0 .. (first - 1) : pools[j] < pools[first]
  <2>1. first \in Ixs /\ pools[first] = m /\ \A j \in Ixs : pools[first] >= pools[j]
    BY <1>1, <1>3
  <2>2. ASSUME NEW j \in 0 .. (first - 1)
        PROVE  pools[j] < pools[first]
    <3>1. j \in Ixs /\ j < first
      BY <1>1, <2>1
    <3>2. j \notin Tops
      <4> HIDE DEF Tops
      <4> QED
        BY <1>5, <3>1
    <3> QED
      BY <1>1, <2>1, <3>1, <3>2
  <2> QED
    BY <2>1, <2>2
<1> QED
  BY <1>6 DEF LargestPool

(* The winner is one of the market's sides.                                *)
LEMMA WinnerIsASide ==
    ASSUME NEW num_sides \in 2 .. MAX_SIDES, NEW t, NEW pools \in [Sides -> Nat],
           NEW weighted_pools, NEW first_deposit_at
    PROVE  DetermineWinner(num_sides, t, pools, weighted_pools, first_deposit_at)
               \in 0 .. (num_sides - 1)
<1>1. BinaryWinner(t, pools, weighted_pools, first_deposit_at) \in {0, 1}
  BY DEF BinaryWinner
<1> QED
  BY <1>1, LargestPoolExists, MathAssumption DEF DetermineWinner

-----------------------------------------------------------------------------
(* The winner payout share is at most the whole, and above the fraction of *)
(* the pool that the winners put in unless it is the whole.                *)
LEMMA TwcdBounds ==
    ASSUME NEW winner \in Sides, NEW twd_0 \in Nat, NEW pools \in [Sides -> Nat],
           NEW num_sides \in 2 .. MAX_SIDES
    PROVE  LET share == ComputeTwcd(winner, twd_0, pools, num_sides)
               total == SumPools(pools, num_sides)
           IN  /\ share \in 0 .. PRECISION
               /\ num_sides > 2 => share = PRECISION
               /\ total > 0 => \/ share = PRECISION
                               \/ share > (pools[winner] * PRECISION) \div total
<1> DEFINE total == SumPools(pools, num_sides)
           fraction == (pools[winner] * PRECISION) \div total
           twd_winner == IF winner = 0 THEN twd_0 ELSE SatSub(PRECISION, twd_0)
           swing == Distance(fraction, twd_winner)
           dominance == SatSub(PRECISION, (DOMINANCE_NUM * swing) \div DOMINANCE_DENOM)
           wps == PRECISION \div 2 + dominance \div 2
<1>1. total \in Nat /\ pools[winner] \in Nat
  BY SumPoolsType
<1>2. CASE num_sides > 2
  BY <1>2, Scale DEF ComputeTwcd, IsMultiOption
<1>3. CASE ~ (num_sides > 2) /\ total = 0
  <2>1. ComputeTwcd(winner, twd_0, pools, num_sides) = PRECISION \div 2
    BY <1>3 DEF ComputeTwcd, IsMultiOption
  <2> QED
    BY <1>3, <2>1, Scale
<1>4. CASE ~ (num_sides > 2) /\ total # 0
  <2>1. ComputeTwcd(winner, twd_0, pools, num_sides) = SafetyFloor(wps, fraction)
    BY <1>4 DEF ComputeTwcd, IsMultiOption
  <2>2. fraction \in Nat
    <3>1. pools[winner] * PRECISION \in Nat
      BY <1>1, Scale, ProductNat
    <3> HIDE DEF total
    <3> QED
      BY <1>1, <1>4, <3>1, DivBounds
  <2>3. swing \in Nat
    BY <2>2, Scale DEF Distance, SatSub
  <2>4. dominance \in 0 .. PRECISION
    <3> HIDE DEF swing
    <3>1. (DOMINANCE_NUM * swing) \div DOMINANCE_DENOM \in Nat
      BY <2>3 DEF DOMINANCE_NUM, DOMINANCE_DENOM
    <3> QED
      BY <3>1, Scale DEF SatSub
  <2>5. wps \in 0 .. PRECISION
    <3> HIDE DEF dominance
    <3> QED
      BY <2>4, Scale
  <2> HIDE DEF wps, fraction
  <2>6. /\ SafetyFloor(wps, fraction) \in 0 .. PRECISION
        /\ SafetyFloor(wps, fraction) = PRECISION \/ SafetyFloor(wps, fraction) > fraction
    BY <2>2, <2>5, Scale DEF SafetyFloor, LesserOf
  <2> QED
    BY <1>4, <2>1, <2>6 DEF fraction
<1> QED
  BY <1>1, <1>2, <1>3, <1>4

-----------------------------------------------------------------------------
(* The imbalance of funded pools and the lockout are natural numbers.      *)
LEMMA ImbalanceType ==
    ASSUME NEW pools \in [Sides -> Nat], NEW num_sides \in 2 .. MAX_SIDES,
           SumPools(pools, num_sides) # 0
    PROVE  Imbalance(pools, num_sides) \in Nat
<1> DEFINE Ixs == 0 .. (num_sides - 1)
           total == SumPools(pools, num_sides)
           largest == CHOOSE p \in {pools[i] : i \in Ixs} : \A i \in Ixs : p >= pools[i]
           diff == IF num_sides = 2 THEN Distance(pools[0], pools[1])
                   ELSE Distance(largest, SatSub(total, largest))
<1>1. /\ Ixs \subseteq Sides /\ 0 \in Sides /\ 1 \in Sides /\ num_sides \in 0 .. MAX_SIDES
      /\ \A i \in Ixs : pools[i] \in Nat
  BY MathAssumption DEF Sides
<1>2. total \in Nat /\ total > 0
  BY <1>1, SumPoolsType
<1>3. largest \in Nat
  <2>1. \E p \in {pools[i] : i \in Ixs} : \A i \in Ixs : p >= pools[i]
    BY LargestPoolExists
  <2>2. largest \in {pools[i] : i \in Ixs}
    BY <2>1
  <2> HIDE DEF largest
  <2> QED
    BY <1>1, <2>2
<1>4. diff \in Nat
  <2> HIDE DEF largest, total
  <2>1. Distance(pools[0], pools[1]) \in Nat
    BY <1>1 DEF Distance
  <2>2. Distance(largest, SatSub(total, largest)) \in Nat
    BY <1>2, <1>3 DEF Distance, SatSub
  <2> QED
    BY <2>1, <2>2
<1>5. Imbalance(pools, num_sides) = (diff * PRECISION) \div total
  BY DEF Imbalance
<1> HIDE DEF diff, total
<1>6. diff * PRECISION \in Nat
  BY <1>4, Scale, ProductNat
<1> QED
  BY <1>2, <1>5, <1>6, DivBounds

LEMMA LockoutType ==
    ASSUME NEW pools \in [Sides -> Nat], NEW num_sides \in 2 .. MAX_SIDES,
           NEW total_pos \in Nat
    PROVE  ComputeLockout(pools, num_sides, total_pos) \in Nat
<1>1. MIN_LOCKOUT \in Nat /\ MAX_LOCKOUT \in Nat /\ MAX_LOCKOUT - MIN_LOCKOUT \in Nat
  BY MathAssumption DEF MIN_LOCKOUT, MAX_LOCKOUT
<1>2. CASE SumPools(pools, num_sides) = 0
  BY <1>1, <1>2 DEF ComputeLockout
<1>3. CASE SumPools(pools, num_sides) # 0
  <2> DEFINE depth == LesserOf((total_pos * PRECISION) \div MIN_HEALTHY_POSITIONS, PRECISION)
             imbalance == Imbalance(pools, num_sides)
             scaled == (6 * imbalance + 4 * (PRECISION - depth)) \div 10
             more == ((MAX_LOCKOUT - MIN_LOCKOUT) * scaled) \div PRECISION
  <2>1. imbalance \in Nat
    BY <1>3, ImbalanceType
  <2>2. depth \in Nat /\ PRECISION - depth \in Nat
    <3>1. (total_pos * PRECISION) \div MIN_HEALTHY_POSITIONS \in Nat
      BY Scale, ProductNat, DivBounds, MathAssumption
    <3> QED
      BY <3>1, Scale DEF LesserOf
  <2>3. scaled \in Nat
    <3> HIDE DEF imbalance, depth
    <3>1. 6 * imbalance + 4 * (PRECISION - depth) \in Nat
      BY <2>1, <2>2
    <3> QED
      BY <3>1, DivBounds
  <2>4. more \in Nat
    <3> HIDE DEF scaled
    <3>1. (MAX_LOCKOUT - MIN_LOCKOUT) * scaled \in Nat
      BY <1>1, <2>3, ProductNat
    <3> QED
      BY <3>1, Scale, DivBounds
  <2>5. ComputeLockout(pools, num_sides, total_pos) = LesserOf(MAX_LOCKOUT, MIN_LOCKOUT + more)
    BY <1>3 DEF ComputeLockout
  <2> HIDE DEF more
  <2> QED
    BY <1>1, <2>4, <2>5 DEF LesserOf
<1> QED
  BY <1>2, <1>3

----------------------------------------------------------------------------------------------------------------------------------------------------
(* The two pools together never exceed the distributable total,            *)
LEMMA PoolsSplitTotal ==
    ASSUME NEW total \in Nat, NEW share \in 0 .. PRECISION
    PROVE  /\ WinnerPool(total, share) \in Nat /\ LoserPool(total, share) \in Nat
           /\ WinnerPool(total, share) + LoserPool(total, share) <= total
           /\ share = PRECISION => /\ WinnerPool(total, share) = total
                                  /\ LoserPool(total, share) = 0
<1> DEFINE rest == PRECISION - share
           w == (total * share) \div PRECISION
           l == (total * rest) \div PRECISION
<1>1. SatSub(PRECISION, share) = rest /\ rest \in Nat /\ share \in Nat
  BY Scale DEF SatSub
<1>2. total * share \in Nat /\ total * rest \in Nat
  BY <1>1, ProductNat
<1>3. /\ w \in Nat /\ PRECISION * w <= total * share
      /\ l \in Nat /\ PRECISION * l <= total * rest
  BY <1>2, Scale, DivBounds
<1>4. total * share + total * rest = total * PRECISION
  <2>1. \A x, y, z \in Int : z = x + y => total * x + total * y = total * z
    OBVIOUS
  <2> QED
    BY <1>1, <2>1, Scale
<1>5. PRECISION * (w + l) <= PRECISION * total
  <2> HIDE DEF w, l, rest
  <2>1. PRECISION * (w + l) = PRECISION * w + PRECISION * l
    BY <1>3, Scale
  <2>2. total * PRECISION = PRECISION * total
    BY Scale
  <2> QED
    BY <1>2, <1>3, <1>4, <2>1, <2>2, Scale
<1>6. w + l <= total
  <2> HIDE DEF w, l
  <2> QED
    BY <1>3, <1>5, Scale
<1>7. share = PRECISION => w = total /\ l = 0
  <2>1. \A p \in Nat : p > 0 => (total * p) \div p = total /\ (total * 0) \div p = 0
    OBVIOUS
  <2>2. share = PRECISION => rest = 0
    BY Scale
  <2> QED
    BY <2>1, <2>2, Scale
<1> QED
  BY <1>1, <1>3, <1>6, <1>7 DEF WinnerPool, LoserPool

(* nor leave more than a lamport of it.                                    *)
LEMMA PoolsLeaveOne ==
    ASSUME NEW total \in Nat, NEW share \in 0 .. PRECISION
    PROVE  total <= WinnerPool(total, share) + LoserPool(total, share) + 1
<1> DEFINE rest == PRECISION - share
           w == (total * share) \div PRECISION
           l == (total * rest) \div PRECISION
<1>1. SatSub(PRECISION, share) = rest /\ rest \in Nat /\ share \in Nat
  BY Scale DEF SatSub
<1>2. total * share \in Nat /\ total * rest \in Nat
  BY <1>1, ProductNat
<1>3. /\ w \in Nat /\ total * share < PRECISION * w + PRECISION
      /\ l \in Nat /\ total * rest < PRECISION * l + PRECISION
  BY <1>2, Scale, DivBounds
<1>4. total * share + total * rest = total * PRECISION
  <2>1. \A x, y, z \in Int : z = x + y => total * x + total * y = total * z
    OBVIOUS
  <2> QED
    BY <1>1, <2>1, Scale
<1>5. PRECISION * total < PRECISION * (w + l + 2)
  <2> HIDE DEF w, l, rest
  <2>1. PRECISION * (w + l + 2) = (PRECISION * w + PRECISION) + (PRECISION * l + PRECISION)
    BY <1>3, Scale
  <2>2. total * PRECISION = PRECISION * total
    BY Scale
  <2>3. PRECISION * w \in Nat /\ PRECISION * l \in Nat
    BY <1>3, Scale, ProductNat
  <2> QED
    BY <1>2, <1>3, <1>4, <2>1, <2>2, <2>3, Scale
<1>6. total <= w + l + 1
  <2> HIDE DEF w, l
  <2>1. SUFFICES ASSUME w + l + 2 <= total PROVE FALSE
    BY <1>3
  <2>2. w + l + 2 \in Nat
    BY <1>3
  <2>3. PRECISION * (w + l + 2) <= PRECISION * total
    BY <2>1, <2>2, Scale, ProductMonotone
  <2>4. PRECISION * (w + l + 2) \in Nat /\ PRECISION * total \in Nat
    BY <2>2, Scale, ProductNat
  <2> QED
    BY <1>5, <2>3, <2>4
<1> QED
  BY <1>1, <1>6 DEF WinnerPool, LoserPool

(* The reason for the safety floor: a share above the winners' fraction of *)
(* the pools, even by one unit and in spite of the truncation, gives the   *)
(* winners at least what they put in.                                      *)
LEMMA WinnerPoolCoversStake ==
    ASSUME NEW pool \in Nat, NEW staked \in Nat, NEW total \in Nat, NEW share \in 0 .. PRECISION,
           staked > 0, pool <= staked, staked <= total,
           share = PRECISION \/ share > (pool * PRECISION) \div staked
    PROVE  pool <= WinnerPool(total, share)
<1>1. CASE share = PRECISION
  BY <1>1, PoolsSplitTotal
<1>2. CASE share > (pool * PRECISION) \div staked
  <2> DEFINE q == (pool * PRECISION) \div staked
  <2>1. pool * PRECISION \in Nat /\ share \in Nat
    BY Scale, ProductNat
  <2>2. q \in Nat /\ pool * PRECISION < staked * q + staked
    BY <2>1, DivBounds
  <2>3. q + 1 <= share
    BY <1>2, <2>1, <2>2
  <2> HIDE DEF q
  <2>4. staked * q + staked = staked * (q + 1)
    BY <2>2
  <2>5. staked * (q + 1) <= staked * share
    BY <2>1, <2>2, <2>3, ProductMonotone
  <2>6. staked * share <= total * share
    BY <2>1, ProductMonotone
  <2>7. pool * PRECISION <= total * share
    <3>1. /\ staked * q + staked \in Nat /\ staked * (q + 1) \in Nat
          /\ staked * share \in Nat /\ total * share \in Nat
      BY <2>1, <2>2, <2>4, ProductNat
    <3> QED
      BY <2>1, <2>2, <2>4, <2>5, <2>6, <3>1
  <2>8. total * share \in Nat
    BY <2>1, ProductNat
  <2> QED
    BY <2>7, <2>8, Scale, DivAtLeast DEF WinnerPool
<1> QED
  BY <1>1, <1>2

(* A weighted part is a truncated fraction.                                *)
LEMMA WeightedPartBounds ==
    ASSUME NEW money \in Nat, NEW amount \in Nat, NEW weight \in Nat, NEW weighted \in Nat,
           weighted > 0
    PROVE  /\ WeightedPart(money, amount, weight, weighted) \in Nat
           /\ weighted * WeightedPart(money, amount, weight, weighted)
                  <= money * (amount * weight)
<1>1. money * (amount * weight) \in Nat
  <2>1. amount * weight \in Nat
    BY ProductNat
  <2> QED
    BY <2>1, ProductNat
<1> QED
  BY <1>1, DivBounds DEF WeightedPart

(* Truncation costs less than one unit.                                    *)
LEMMA WeightedPartTruncates ==
    ASSUME NEW money \in Nat, NEW amount \in Nat, NEW weight \in Nat, NEW weighted \in Nat,
           weighted > 0
    PROVE  money * (amount * weight)
               <= weighted * (WeightedPart(money, amount, weight, weighted) + 1)
<1> DEFINE product == money * (amount * weight)
           part == product \div weighted
<1>1. product \in Nat
  <2>1. amount * weight \in Nat
    BY ProductNat
  <2> QED
    BY <2>1, ProductNat
<1> HIDE DEF product
<1>2. part \in Nat /\ product < weighted * part + weighted
  BY <1>1, DivBounds
<1> HIDE DEF part
<1>3. weighted * (part + 1) = weighted * part + weighted /\ weighted * part \in Nat
  BY <1>2, ProductNat
<1>4. product <= weighted * (part + 1)
  BY <1>1, <1>2, <1>3
<1> QED
  BY <1>4 DEF WeightedPart, product, part

(* A larger weight takes a larger part.                                    *)
LEMMA WeightedPartOrdered ==
    ASSUME NEW money \in Nat, NEW amount \in Nat, NEW less \in Nat, NEW more \in Nat,
           NEW weighted \in Nat, weighted > 0, less <= more
    PROVE  WeightedPart(money, amount, less, weighted)
               <= WeightedPart(money, amount, more, weighted)
<1>1. /\ amount * less \in Nat /\ amount * more \in Nat
      /\ amount * less <= amount * more
  BY ProductNat, ProductMonotone
<1>2. /\ money * (amount * less) \in Nat /\ money * (amount * more) \in Nat
      /\ money * (amount * less) <= money * (amount * more)
  BY <1>1, ProductNat, ProductMonotone
<1> QED
  BY <1>2, DivOrdered DEF WeightedPart

DueType == [payout : Nat, fee : Nat, creator_fee : Nat]

(* The fees are taken out of the gross profit and never exceed it.         *)
LEMMA FeesWithinProfit ==
    ASSUME NEW gross \in Nat, NEW bps \in {0, CREATOR_FEE_BPS}
    PROVE  /\ (gross * PROTOCOL_FEE_BPS) \div BPS_SCALE \in Nat
           /\ (gross * bps) \div BPS_SCALE \in Nat
           /\ (gross * PROTOCOL_FEE_BPS) \div BPS_SCALE + (gross * bps) \div BPS_SCALE <= gross
<1>1. CASE bps = 0
  BY <1>1 DEF PROTOCOL_FEE_BPS, BPS_SCALE
<1>2. CASE bps = 50
  BY <1>2 DEF PROTOCOL_FEE_BPS, BPS_SCALE
<1> QED
  BY <1>1, <1>2 DEF CREATOR_FEE_BPS

(* A larger profit leaves at least as much after the fees, except that two *)
(* fees truncated separately may cost a lamport more.                      *)
LEMMA ProfitOrdered ==
    ASSUME NEW less \in Nat, NEW more \in Nat, NEW bps \in {0, CREATOR_FEE_BPS}, less <= more
    PROVE  less - (less * PROTOCOL_FEE_BPS) \div BPS_SCALE - (less * bps) \div BPS_SCALE
               <= more - (more * PROTOCOL_FEE_BPS) \div BPS_SCALE - (more * bps) \div BPS_SCALE
                      + (IF bps = 0 THEN 0 ELSE 1)
<1>1. CASE bps = 0
  BY <1>1 DEF PROTOCOL_FEE_BPS, BPS_SCALE
<1>2. CASE bps = 50
  BY <1>2 DEF PROTOCOL_FEE_BPS, BPS_SCALE
<1> QED
  BY <1>1, <1>2 DEF CREATOR_FEE_BPS

(* What a winner takes out, in payout and fees: with a profit pool, the    *)
(* deposit and a weighted part of that pool, of which at least the deposit *)
(* is paid out; without one, a part of the winner pool by amount.          *)
WinnerDue(due, amount, weight, pool, weighted, share, total) ==
    LET profit == SatSub(WinnerPool(total, share), pool)
    IN  /\ due \in DueType
        /\ weighted = 0 => due = NothingDue
        /\ weighted > 0 /\ profit > 0 =>
               /\ due.payout >= amount
               /\ due.payout + due.fee + due.creator_fee =
                      amount + WeightedPart(profit, amount, weight, weighted)
        /\ weighted > 0 /\ profit = 0 =>
               /\ due.fee = 0 /\ due.creator_fee = 0
               /\ due.payout = IF pool = 0 THEN 0
                               ELSE (WinnerPool(total, share) * amount) \div pool

LEMMA WinnerPayout ==
    ASSUME NEW amount \in Nat, NEW weight \in Nat, NEW pool \in Nat, NEW weighted \in Nat,
           NEW share \in 0 .. PRECISION, NEW total \in Nat, NEW bps \in {0, CREATOR_FEE_BPS}
    PROVE  WinnerDue(ComputeWinnerPayout(amount, weight, pool, weighted, share, total, bps),
                     amount, weight, pool, weighted, share, total)
<1> DEFINE profit == SatSub(WinnerPool(total, share), pool)
           gross == WeightedPart(profit, amount, weight, weighted)
           fee == (gross * PROTOCOL_FEE_BPS) \div BPS_SCALE
           creator_fee == (gross * bps) \div BPS_SCALE
           due == ComputeWinnerPayout(amount, weight, pool, weighted, share, total, bps)
<1>1. WinnerPool(total, share) \in Nat /\ profit \in Nat
  BY PoolsSplitTotal DEF SatSub
<1>2. NothingDue \in DueType
  BY DEF NothingDue, DueType
<1>3. CASE weighted = 0
  <2>1. due = NothingDue
    BY <1>3 DEF ComputeWinnerPayout
  <2> QED
    BY <1>2, <1>3, <2>1 DEF WinnerDue
<1>4. CASE weighted > 0 /\ profit > 0
  <2>1. due = [payout |-> amount + gross - fee - creator_fee, fee |-> fee,
               creator_fee |-> creator_fee]
    BY <1>4 DEF ComputeWinnerPayout
  <2>2. gross \in Nat
    BY <1>1, <1>4, WeightedPartBounds
  <2>3. fee \in Nat /\ creator_fee \in Nat /\ fee + creator_fee <= gross
    <3> HIDE DEF gross
    <3> QED
      BY <2>2, FeesWithinProfit
  <2> HIDE DEF gross, fee, creator_fee
  <2>4. due \in DueType
    BY <2>1, <2>2, <2>3 DEF DueType
  <2>5. due.payout >= amount /\ due.payout + due.fee + due.creator_fee = amount + gross
    BY <2>1, <2>2, <2>3
  <2> QED
    BY <1>4, <2>4, <2>5 DEF gross, WinnerDue
<1>5. CASE weighted > 0 /\ profit = 0
  <2> DEFINE scaled == (WinnerPool(total, share) * amount) \div pool
  <2>1. due = IF pool = 0 THEN NothingDue ELSE [NothingDue EXCEPT !.payout = scaled]
    BY <1>5 DEF ComputeWinnerPayout
  <2>2. pool # 0 => scaled \in Nat
    <3>1. WinnerPool(total, share) * amount \in Nat
      BY <1>1, ProductNat
    <3> QED
      BY <3>1, DivBounds
  <2> HIDE DEF scaled
  <2>3. due \in DueType
    BY <2>1, <2>2 DEF DueType, NothingDue
  <2>4. /\ due.fee = 0 /\ due.creator_fee = 0
        /\ due.payout = IF pool = 0 THEN 0 ELSE scaled
    BY <2>1 DEF NothingDue
  <2> QED
    BY <1>5, <2>3, <2>4 DEF scaled, WinnerDue
<1> QED
  BY <1>1, <1>3, <1>4, <1>5

(* What a loser takes out is a weighted part of the loser pool, and at     *)
(* most the deposit.                                                       *)
LEMMA LoserPayout ==
    ASSUME NEW amount \in Nat, NEW weight \in Nat, NEW weighted \in Nat,
           NEW share \in 0 .. PRECISION, NEW total \in Nat
    PROVE  LET payout == ComputeLoserPayout(amount, weight, weighted, share, total)
           IN  /\ payout \in Nat /\ payout <= amount
               /\ weighted = 0 => payout = 0
               /\ weighted > 0 =>
                      payout <= WeightedPart(LoserPool(total, share), amount, weight, weighted)
<1>1. LoserPool(total, share) \in Nat
  BY PoolsSplitTotal
<1>2. weighted > 0 =>
          WeightedPart(LoserPool(total, share), amount, weight, weighted) \in Nat
  BY <1>1, WeightedPartBounds
<1> QED
  BY <1>2 DEF ComputeLoserPayout, LesserOf

(* What a loser is due is a capped fraction: no smaller than the part      *)
(* amount / stake of what everyone is paid back, but for the truncation.   *)
LEMMA LoserGetsShare ==
    ASSUME NEW amount \in Nat, NEW weight \in Nat, NEW weighted \in Nat, NEW stake \in Nat,
           NEW share \in 0 .. PRECISION, NEW total \in Nat, NEW back \in Nat,
           weighted > 0, weighted <= PRECISION * stake, MIN_WEIGHT_FLOOR <= weight,
           back <= stake, PRECISION * back <= LoserPool(total, share) * MIN_WEIGHT_FLOOR
    PROVE  back * amount
               <= stake * (ComputeLoserPayout(amount, weight, weighted, share, total) + 1)
<1> DEFINE money == LoserPool(total, share)
           part == WeightedPart(money, amount, weight, weighted)
           paid == ComputeLoserPayout(amount, weight, weighted, share, total)
<1>1. money \in Nat
  BY PoolsSplitTotal
<1>2. paid = LesserOf(amount, part)
  BY DEF ComputeLoserPayout
<1> HIDE DEF money, paid
<1>3. part \in Nat /\ money * (amount * weight) <= weighted * (part + 1)
  BY <1>1, WeightedPartBounds, WeightedPartTruncates
<1> HIDE DEF part
<1>4. PRECISION * back <= money * MIN_WEIGHT_FLOOR
  BY DEF money
<1>5. CASE paid = amount
  <2>1. back * amount <= stake * amount /\ stake * amount <= stake * (amount + 1)
    BY ProductMonotone
  <2>2. back * amount \in Nat /\ stake * amount \in Nat /\ stake * (amount + 1) \in Nat
    BY ProductNat
  <2> QED
    BY <1>5, <2>1, <2>2 DEF paid
<1>6. CASE paid = part
  <2> DEFINE next == part + 1
             floor == MIN_WEIGHT_FLOOR
             unit == PRECISION
  <2>1. next \in Nat /\ floor \in Nat /\ unit \in Nat /\ unit > 0
    BY <1>3, Scale
  <2>2. (unit * back) * amount <= (money * floor) * amount
    <3>1. unit * back \in Nat /\ money * floor \in Nat
      BY <1>1, <2>1, ProductNat
    <3> QED
      BY <1>4, <3>1, ProductMonotone
  <2>3. (money * floor) * amount = money * (amount * floor)
    BY <1>1, <2>1
  <2>4. money * (amount * floor) <= money * (amount * weight)
    <3>1. amount * floor <= amount * weight /\ amount * floor \in Nat /\ amount * weight \in Nat
      BY <2>1, ProductMonotone, ProductNat
    <3> QED
      BY <1>1, <3>1, ProductMonotone
  <2>5. weighted * next <= (unit * stake) * next
    <3>1. unit * stake \in Nat
      BY <2>1, ProductNat
    <3> QED
      BY <2>1, <3>1, ProductMonotone
  <2> HIDE DEF next, floor, unit
  <2>6. /\ (unit * back) * amount = unit * (back * amount)
        /\ (unit * stake) * next = unit * (stake * next)
    BY <2>1
  <2>7. unit * (back * amount) <= unit * (stake * next)
    <3>1. /\ unit * (back * amount) \in Nat /\ unit * (stake * next) \in Nat
          /\ money * (amount * floor) \in Nat /\ money * (amount * weight) \in Nat
          /\ weighted * next \in Nat
      BY <1>1, <2>1, ProductNat
    <3>2. money * (amount * weight) <= weighted * next
      BY <1>3 DEF next
    <3> QED
      BY <2>2, <2>3, <2>4, <2>5, <2>6, <3>1, <3>2
  <2>8. back * amount <= stake * next
    <3> DEFINE x == back * amount
               y == stake * next
    <3>1. x \in Nat /\ y \in Nat /\ unit * x <= unit * y
      BY <2>1, <2>7, ProductNat
    <3> HIDE DEF x, y
    <3>2. SUFFICES ASSUME y + 1 <= x PROVE FALSE
      BY <3>1 DEF x, y
    <3>3. unit * (y + 1) <= unit * x /\ unit * (y + 1) = unit * y + unit
      BY <2>1, <3>1, <3>2, ProductMonotone
    <3>4. unit * x \in Nat /\ unit * y \in Nat
      BY <2>1, <3>1, ProductNat
    <3> QED
      BY <2>1, <3>1, <3>3, <3>4
  <2> QED
    BY <1>6, <2>8 DEF next, paid
<1> QED
  BY <1>2, <1>5, <1>6 DEF LesserOf

(* Of two equal deposits on a side the one of larger weight is due no less *)
(* (but for the lamport of ProfitOrdered).                                 *)
LEMMA WinnerPayoutOrdered ==
    ASSUME NEW amount \in Nat, NEW less \in Nat, NEW more \in Nat, less <= more,
           NEW pool \in Nat, NEW weighted \in Nat, NEW share \in 0 .. PRECISION,
           NEW total \in Nat, NEW bps \in {0, CREATOR_FEE_BPS}
    PROVE  LET x == ComputeWinnerPayout(amount, less, pool, weighted, share, total, bps).payout
               y == ComputeWinnerPayout(amount, more, pool, weighted, share, total, bps).payout
           IN  x <= y + 1 /\ (bps = 0 => x <= y)
<1> DEFINE profit == SatSub(WinnerPool(total, share), pool)
           Part(w) == WeightedPart(profit, amount, w, weighted)
           Kept(g) == g - (g * PROTOCOL_FEE_BPS) \div BPS_SCALE - (g * bps) \div BPS_SCALE
           Due(w) == ComputeWinnerPayout(amount, w, pool, weighted, share, total, bps)
<1>1. profit \in Nat
  BY PoolsSplitTotal DEF SatSub
<1>2. CASE weighted = 0 \/ ~ (profit > 0)
  <2>1. Due(less) = Due(more)
    BY <1>2 DEF ComputeWinnerPayout
  <2>2. Due(more).payout \in Nat
    <3>1. WinnerDue(Due(more), amount, more, pool, weighted, share, total)
      BY WinnerPayout
    <3> QED
      BY <3>1 DEF WinnerDue, DueType
  <2> HIDE DEF Due
  <2>3. Due(less).payout <= Due(more).payout + 1 /\ (bps = 0 => Due(less).payout <= Due(more).payout)
    BY <2>1, <2>2
  <2> QED
    BY <2>3 DEF Due
<1>3. CASE weighted > 0 /\ profit > 0
  <2>1. \A w \in Nat : Due(w).payout = amount + Part(w)
                          - (Part(w) * PROTOCOL_FEE_BPS) \div BPS_SCALE
                          - (Part(w) * bps) \div BPS_SCALE
    BY <1>3 DEF ComputeWinnerPayout
  <2>2. Part(less) \in Nat /\ Part(more) \in Nat /\ Part(less) <= Part(more)
    <3> HIDE DEF profit
    <3> QED
      BY <1>1, <1>3, WeightedPartBounds, WeightedPartOrdered
  <2> DEFINE x == Part(less)
             y == Part(more)
  <2>3. /\ Kept(x) <= Kept(y) + (IF bps = 0 THEN 0 ELSE 1)
        /\ (x * PROTOCOL_FEE_BPS) \div BPS_SCALE \in Nat /\ (x * bps) \div BPS_SCALE \in Nat
        /\ (y * PROTOCOL_FEE_BPS) \div BPS_SCALE \in Nat /\ (y * bps) \div BPS_SCALE \in Nat
    <3> HIDE DEF x, y
    <3>1. x \in Nat /\ y \in Nat /\ x <= y
      BY <2>2 DEF x, y
    <3>2. Kept(x) <= Kept(y) + (IF bps = 0 THEN 0 ELSE 1)
      BY <3>1, ProfitOrdered
    <3>3. /\ (x * PROTOCOL_FEE_BPS) \div BPS_SCALE \in Nat /\ (x * bps) \div BPS_SCALE \in Nat
          /\ (y * PROTOCOL_FEE_BPS) \div BPS_SCALE \in Nat /\ (y * bps) \div BPS_SCALE \in Nat
      BY <3>1, FeesWithinProfit
    <3> QED
      BY <3>2, <3>3
  <2>4. /\ Due(less).payout = amount + x - (x * PROTOCOL_FEE_BPS) \div BPS_SCALE
                                 - (x * bps) \div BPS_SCALE
        /\ Due(more).payout = amount + y - (y * PROTOCOL_FEE_BPS) \div BPS_SCALE
                                 - (y * bps) \div BPS_SCALE
    BY <2>1
  <2>5. x \in Nat /\ y \in Nat
    BY <2>2
  <2> HIDE DEF Due, x, y
  <2> DEFINE fx == (x * PROTOCOL_FEE_BPS) \div BPS_SCALE
             cx == (x * bps) \div BPS_SCALE
             fy == (y * PROTOCOL_FEE_BPS) \div BPS_SCALE
             cy == (y * bps) \div BPS_SCALE
             extra == IF bps = 0 THEN 0 ELSE 1
  <2>6. /\ x - fx - cx <= y - fy - cy + extra
        /\ fx \in Nat /\ cx \in Nat /\ fy \in Nat /\ cy \in Nat /\ extra \in Nat
        /\ Due(less).payout = amount + x - fx - cx
        /\ Due(more).payout = amount + y - fy - cy
    BY <2>3, <2>4
  <2> HIDE DEF fx, cx, fy, cy, extra
  <2>7. extra <= 1 /\ (bps = 0 => extra = 0)
    BY DEF extra
  <2>8. Due(less).payout <= Due(more).payout + extra
    BY <2>5, <2>6
  <2>9. /\ Due(less).payout <= Due(more).payout + 1
        /\ bps = 0 => Due(less).payout <= Due(more).payout
    <3>1. Due(less).payout \in Int /\ Due(more).payout \in Int
      BY <2>5, <2>6
    <3> QED
      BY <2>6, <2>7, <2>8, <3>1
  <2> QED
    BY <2>9 DEF Due
<1> QED
  BY <1>1, <1>2, <1>3

LEMMA LoserPayoutOrdered ==
    ASSUME NEW amount \in Nat, NEW less \in Nat, NEW more \in Nat, less <= more,
           NEW weighted \in Nat, NEW share \in 0 .. PRECISION, NEW total \in Nat
    PROVE  ComputeLoserPayout(amount, less, weighted, share, total)
               <= ComputeLoserPayout(amount, more, weighted, share, total)
<1> DEFINE money == LoserPool(total, share)
           x == WeightedPart(money, amount, less, weighted)
           y == WeightedPart(money, amount, more, weighted)
<1>1. money \in Nat
  BY PoolsSplitTotal
<1>2. weighted > 0 => x \in Nat /\ y \in Nat /\ x <= y
  <2> HIDE DEF money
  <2> QED
    BY <1>1, WeightedPartBounds, WeightedPartOrdered
<1>3. CASE weighted = 0
  BY <1>3 DEF ComputeLoserPayout
<1>4. CASE weighted > 0
  <2>1. /\ ComputeLoserPayout(amount, less, weighted, share, total) = LesserOf(amount, x)
        /\ ComputeLoserPayout(amount, more, weighted, share, total) = LesserOf(amount, y)
    BY <1>4 DEF ComputeLoserPayout
  <2>2. LesserOf(amount, x) <= LesserOf(amount, y)
    <3>1. x \in Nat /\ y \in Nat /\ x <= y
      BY <1>2, <1>4
    <3> HIDE DEF x, y
    <3> QED
      BY <3>1 DEF LesserOf
  <2> QED
    BY <2>1, <2>2
<1> QED
  BY <1>3, <1>4

(* The penalty is one of five rates, and so less than the amount.          *)
LEMMA PenaltyBounds ==
    ASSUME NEW amount \in Nat, NEW elapsed \in Int, NEW duration \in Int
    PROVE  LET penalty == (amount * ComputeWithdrawalPenalty(elapsed, duration)) \div BPS_SCALE
           IN  penalty \in Nat /\ penalty <= amount
<1>1. ComputeWithdrawalPenalty(elapsed, duration) \in {500, 1000, 1500, 2500, 3000}
  BY DEF ComputeWithdrawalPenalty
<1>2. ASSUME NEW bps \in {500, 1000, 1500, 2500, 3000}
      PROVE  (amount * bps) \div BPS_SCALE \in Nat /\ (amount * bps) \div BPS_SCALE <= amount
  BY DEF BPS_SCALE
<1> QED
  BY <1>1, <1>2
=============================================================================
