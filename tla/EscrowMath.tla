---------------------------- MODULE EscrowMath ----------------------------
(***************************************************************************)
(* The pure fixed-point arithmetic of the escrow program                   *)
(* (programs/chubi-escrow/src/math.rs and constants.rs).                   *)
(*                                                                         *)
(* Every fraction is an integer out of PRECISION and every division        *)
(* truncates, as in the code.  The program's PRECISION is 1_000_000; here  *)
(* it is a hundred times the constant PERCENT, so that each constant the   *)
(* code states as a percentage of PRECISION keeps its meaning at the       *)
(* smaller scale a model checker needs.                                    *)
(***************************************************************************)
EXTENDS Integers, FixedPoint

CONSTANTS
    PERCENT,                \* one percent of PRECISION (10_000 in the code)
    SHORT_DURATION_SECS,    \* markets shorter than this have linear weights
    MIN_HEALTHY_POSITIONS,  \* number of positions of a market of full depth
    MAX_SIDES,              \* length of the per-side arrays
    U64_MAX, U128_MAX       \* the widest u64 and u128

ASSUME MathAssumption ==
    /\ PERCENT \in Nat \ {0}
    /\ SHORT_DURATION_SECS \in Nat
    /\ MIN_HEALTHY_POSITIONS \in Nat \ {0}
    /\ MAX_SIDES \in Nat /\ MAX_SIDES >= 2
    /\ U64_MAX \in Nat /\ U128_MAX \in Nat

PRECISION        == 100 * PERCENT
MIN_WEIGHT_FLOOR == 30 * PERCENT
MIN_LOCKOUT      == 5 * PERCENT
MAX_LOCKOUT      == 25 * PERCENT
MIN_TRANSFER_BPS == PERCENT
DOMINANCE_NUM    == 3
DOMINANCE_DENOM  == 2
BPS_SCALE        == 10000
PROTOCOL_FEE_BPS == 200
CREATOR_FEE_BPS  == 50

Sides == 0 .. (MAX_SIDES - 1)

-----------------------------------------------------------------------------
(* Entry weight: from PRECISION at the start of the market down to         *)
(* MIN_WEIGHT_FLOOR at its end, linearly in short markets and with the     *)
(* square of the remaining time in the others.                             *)
FractionPower(fraction, duration) ==
    IF duration < SHORT_DURATION_SECS THEN fraction
    ELSE (fraction * fraction) \div PRECISION

(* Mutant: the floor is forgotten.                                         *)
EntryWeightWithoutFloor(fraction, duration) ==
    LesserOf(PRECISION, FractionPower(fraction, duration))

ComputeEntryWeight(fraction, duration) ==
    IF fraction = 0 THEN MIN_WEIGHT_FLOOR
    ELSE IF fraction >= PRECISION THEN PRECISION
    ELSE LesserOf(PRECISION,
                  MIN_WEIGHT_FLOOR
                    + ((PRECISION - MIN_WEIGHT_FLOOR) * FractionPower(fraction, duration))
                        \div PRECISION)

-----------------------------------------------------------------------------
(* Totals over the sides of the market.  Saturating after each addition    *)
(* and saturating once agree, as no pool is negative.                      *)
SumPools(pools, num_sides) == LesserOf(U64_MAX, SumUpTo(pools, num_sides))

(* Mutant: one funded side is enough.                                      *)
OneSideHolds(amounts, num_sides) == \E i \in 0 .. (num_sides - 1) : amounts[i] > 0

(* At least two sides hold a deposit (or, of the counts, a position).      *)
TwoSidesHold(amounts, num_sides) ==
    \E i, j \in 0 .. (num_sides - 1) : i # j /\ amounts[i] > 0 /\ amounts[j] > 0

(* Mutant: time in which one side is alone counts as well.                 *)
UpdateTwdAlone(twd, pools, num_sides, now) ==
    LET elapsed == now - twd.last_snapshot_at
        total   == SumPools(pools, num_sides)
    IN  [cumulative_twd_0 |-> twd.cumulative_twd_0
             + IF total > 0 THEN ((pools[0] * PRECISION) \div total) * elapsed ELSE 0,
         cumulative_time  |-> twd.cumulative_time + IF total > 0 THEN elapsed ELSE 0,
         last_snapshot_at |-> now,
         has_both_sides   |-> TwoSidesHold(pools, num_sides)]

(* Time-weighted dominance: the share of side 0 is accumulated over the    *)
(* time since the last snapshot, if two sides were funded throughout.      *)
UpdateTwd(twd, pools, num_sides, now) ==
    LET elapsed == now - twd.last_snapshot_at
        total   == SumPools(pools, num_sides)
        tracked == elapsed > 0 /\ twd.has_both_sides /\ total > 0
    IN  [cumulative_twd_0 |-> twd.cumulative_twd_0
             + IF tracked THEN ((pools[0] * PRECISION) \div total) * elapsed ELSE 0,
         cumulative_time  |-> twd.cumulative_time + IF tracked THEN elapsed ELSE 0,
         last_snapshot_at |-> now,
         has_both_sides   |-> TwoSidesHold(pools, num_sides)]

(* The dominance of side 0 that the tracker stands for; a half if no time  *)
(* was ever tracked.                                                       *)
FinalTwd(twd) ==
    IF twd.cumulative_time > 0 THEN twd.cumulative_twd_0 \div twd.cumulative_time
    ELSE PRECISION \div 2

-----------------------------------------------------------------------------
(* Dynamic lockout: the fraction of the market's end in which deposits and *)
(* withdrawals are refused, larger for lopsided and for shallow markets.   *)
Imbalance(pools, num_sides) ==
    LET total   == SumPools(pools, num_sides)
        largest == CHOOSE p \in {pools[i] : i \in 0 .. (num_sides - 1)} :
                       \A i \in 0 .. (num_sides - 1) : p >= pools[i]
        diff    == IF num_sides = 2 THEN Distance(pools[0], pools[1])
                   ELSE Distance(largest, SatSub(total, largest))
    IN  (diff * PRECISION) \div total

ComputeLockout(pools, num_sides, total_pos) ==
    IF SumPools(pools, num_sides) = 0 THEN MIN_LOCKOUT
    ELSE LET depth  == LesserOf((total_pos * PRECISION) \div MIN_HEALTHY_POSITIONS, PRECISION)
             scaled == (6 * Imbalance(pools, num_sides) + 4 * (PRECISION - depth)) \div 10
         IN  LesserOf(MAX_LOCKOUT,
                      MIN_LOCKOUT + ((MAX_LOCKOUT - MIN_LOCKOUT) * scaled) \div PRECISION)

-----------------------------------------------------------------------------
(* Mutant: markets of three sides are taken for binary ones.               *)
IsWideMultiOption(num_sides) == num_sides > 3

IsMultiOption(num_sides) == num_sides > 2

(* The winning side (0-indexed).  With more than two sides it is the first *)
(* with the largest pool.  With two it is decided by dominance, then by    *)
(* pool, then by weighted pool, then by the earlier first deposit (0 means *)
(* none), then it is side 0.                                               *)
LargestPool(pools, num_sides) ==
    CHOOSE i \in 0 .. (num_sides - 1) :
        /\ \A j \in 0 .. (num_sides - 1) : pools[i] >= pools[j]
        /\ \A j \in 0 .. (i - 1) : pools[j] < pools[i]

(* Mutant: the two outcomes of the comparison are swapped.                 *)
LaggardWins(twd, pools, weighted_pools, first_deposit_at) ==
    IF FinalTwd(twd) > PRECISION \div 2 THEN 1 ELSE 0

BinaryWinner(twd, pools, weighted_pools, first_deposit_at) ==
    LET twd_0  == FinalTwd(twd)
        half   == PRECISION \div 2
        t0     == first_deposit_at[0]
        t1     == first_deposit_at[1]
        oneIsFirst == t1 > 0 /\ (t0 = 0 \/ t1 < t0)
    IN  IF twd_0 # half THEN IF twd_0 > half THEN 0 ELSE 1
        ELSE IF pools[0] # pools[1] THEN IF pools[0] > pools[1] THEN 0 ELSE 1
        ELSE IF weighted_pools[0] # weighted_pools[1]
             THEN IF weighted_pools[0] > weighted_pools[1] THEN 0 ELSE 1
        ELSE IF oneIsFirst THEN 1 ELSE 0

DetermineWinner(num_sides, twd, pools, weighted_pools, first_deposit_at) ==
    IF IsMultiOption(num_sides) THEN LargestPool(pools, num_sides)
    ELSE BinaryWinner(twd, pools, weighted_pools, first_deposit_at)

(* Mutant: no safety floor.                                                *)
NoSafetyFloor(wps, winner_fraction) == wps

(* The share of the winners never falls to or below the share of the pool  *)
(* that they put in.                                                       *)
SafetyFloor(wps, winner_fraction) ==
    IF wps <= winner_fraction THEN LesserOf(PRECISION, winner_fraction + MIN_TRANSFER_BPS)
    ELSE wps

(* The share of the distributable total that goes to the winning side:     *)
(* time-weighted conviction dominance.                                     *)
ComputeTwcd(winner, twd_0, pools, num_sides) ==
    IF IsMultiOption(num_sides) THEN PRECISION
    ELSE IF SumPools(pools, num_sides) = 0 THEN PRECISION \div 2
    ELSE LET winner_fraction == (pools[winner] * PRECISION) \div SumPools(pools, num_sides)
             twd_winner == IF winner = 0 THEN twd_0 ELSE SatSub(PRECISION, twd_0)
             swing      == Distance(winner_fraction, twd_winner)
             dominance  == SatSub(PRECISION, (DOMINANCE_NUM * swing) \div DOMINANCE_DENOM)
         IN  SafetyFloor(PRECISION \div 2 + dominance \div 2, winner_fraction)

-----------------------------------------------------------------------------
(* Payouts.  total is the distributable total, share the winner payout     *)
(* share; pool and weighted are the pool and weighted pool of the side of  *)
(* the position.                                                           *)
WinnerPool(total, share) == (total * share) \div PRECISION
LoserPool(total, share)  == (total * SatSub(PRECISION, share)) \div PRECISION

(* Mutant: the entry weight is left out of the numerator.                  *)
UnweightedPart(money, amount, weight, weighted) ==
    (money * (amount * PRECISION)) \div weighted

(* The part of a side's money that falls to a position, by weight.         *)
WeightedPart(money, amount, weight, weighted) ==
    (money * (amount * weight)) \div weighted

NothingDue == [payout |-> 0, fee |-> 0, creator_fee |-> 0]

ComputeWinnerPayout(amount, weight, pool, weighted, share, total, creator_bps) ==
    LET profit_pool  == SatSub(WinnerPool(total, share), pool)
        gross_profit == WeightedPart(profit_pool, amount, weight, weighted)
        fee          == (gross_profit * PROTOCOL_FEE_BPS) \div BPS_SCALE
        creator_fee  == (gross_profit * creator_bps) \div BPS_SCALE
    IN  IF weighted = 0 THEN NothingDue
        ELSE IF profit_pool > 0
        THEN [payout      |-> amount + gross_profit - fee - creator_fee,
              fee         |-> fee,
              creator_fee |-> creator_fee]
        ELSE IF pool = 0 THEN NothingDue
        ELSE [NothingDue EXCEPT !.payout = (WinnerPool(total, share) * amount) \div pool]

(* Losers share what the winners leave, and never take out a profit.       *)
ComputeLoserPayout(amount, weight, weighted, share, total) ==
    IF weighted = 0 THEN 0
    ELSE LesserOf(amount, WeightedPart(LoserPool(total, share), amount, weight, weighted))

(* Mutant: the intermediate is a u64.                                      *)
PartFitsU64(money, amount, weight) == money * (amount * weight) <= U64_MAX

(* The product under WeightedPart is the one intermediate that a u128 may  *)
(* fail to hold; the code then reverts with MathOverflow.                  *)
PartFits(money, amount, weight) == money * (amount * weight) <= U128_MAX

-----------------------------------------------------------------------------
(* The withdrawal penalty, in basis points, by the elapsed part of the     *)
(* market's duration.                                                      *)
ComputeWithdrawalPenalty(elapsed, duration) ==
    IF duration <= 0 THEN 3000
    ELSE LET fraction == (elapsed * PRECISION) \div duration
         IN  CASE fraction < 10 * PERCENT -> 500
               [] fraction \in (10 * PERCENT) .. (30 * PERCENT - 1) -> 1000
               [] fraction \in (30 * PERCENT) .. (50 * PERCENT - 1) -> 1500
               [] fraction \in (50 * PERCENT) .. (75 * PERCENT - 1) -> 2500
               [] OTHER -> 3000
=============================================================================
