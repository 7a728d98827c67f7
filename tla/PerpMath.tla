----------------------------- MODULE PerpMath -----------------------------
(***************************************************************************)
(* The pure fixed-point arithmetic of the perpetual program                *)
(* (programs/chubi-perp/src/math.rs and constants.rs).  Fractions of       *)
(* PRECISION are scaled by PERCENT as in EscrowMath.  The four rates in    *)
(* basis points are constants, for a model checker sees only a few epochs  *)
(* and small amounts: 10, 500, 200 and 50 in the code.                     *)
(***************************************************************************)
EXTENDS Integers, FixedPoint

CONSTANTS
    PERCENT,                \* one percent of PRECISION (10_000 in the code)
    REFERENCE_WINDOW_SECS,  \* age of the market at which weights reach the floor
    FUNDING_RATE_BPS,       \* funding of one epoch at full imbalance
    CRANKER_REBATE_BPS,     \* share of the funding that goes to the cranker
    PROTOCOL_FEE_BPS,       \* fee on the profit of an exit
    CREATOR_FEE_BPS,        \* commission on the profit of an exit
    U64_MAX, U128_MAX       \* the widest u64 and u128

BPS_SCALE == 10000

ASSUME PerpMathAssumption ==
    /\ PERCENT \in Nat \ {0}
    /\ REFERENCE_WINDOW_SECS \in Nat \ {0}
    /\ FUNDING_RATE_BPS \in 0 .. BPS_SCALE
    /\ CRANKER_REBATE_BPS \in 0 .. BPS_SCALE
    /\ PROTOCOL_FEE_BPS \in Nat /\ CREATOR_FEE_BPS \in Nat
    /\ PROTOCOL_FEE_BPS + CREATOR_FEE_BPS <= BPS_SCALE
    /\ U64_MAX \in Nat /\ U128_MAX \in Nat

PRECISION        == 100 * PERCENT
MIN_WEIGHT_FLOOR == 90 * PERCENT
NUM_SIDES        == 2

Sides == 0 .. (NUM_SIDES - 1)

-----------------------------------------------------------------------------
(* Mutant: the floor is added to a bonus of full range.                    *)
EntryWeightOverFullRange(elapsed) ==
    LET fraction == ((REFERENCE_WINDOW_SECS - elapsed) * PRECISION) \div REFERENCE_WINDOW_SECS
    IN  MIN_WEIGHT_FLOOR + (fraction * fraction) \div PRECISION

(* Mutant: the part of the window that has passed is rewarded.             *)
EntryWeightOfLateness(elapsed) ==
    LET fraction == (LesserOf(elapsed, REFERENCE_WINDOW_SECS) * PRECISION)
                        \div REFERENCE_WINDOW_SECS
        squared  == (fraction * fraction) \div PRECISION
    IN  MIN_WEIGHT_FLOOR + ((PRECISION - MIN_WEIGHT_FLOOR) * squared) \div PRECISION

(* Entry weight by the age of the market: PRECISION at its creation, then  *)
(* down to MIN_WEIGHT_FLOOR with the square of the window that remains.    *)
ComputeEntryWeight(elapsed) ==
    LET fraction == ((REFERENCE_WINDOW_SECS - elapsed) * PRECISION) \div REFERENCE_WINDOW_SECS
        squared  == (fraction * fraction) \div PRECISION
    IN  IF elapsed <= 0 THEN PRECISION
        ELSE IF elapsed >= REFERENCE_WINDOW_SECS THEN MIN_WEIGHT_FLOOR
        ELSE LesserOf(PRECISION,
                      MIN_WEIGHT_FLOOR + ((PRECISION - MIN_WEIGHT_FLOOR) * squared) \div PRECISION)

-----------------------------------------------------------------------------
(* Funding flows from the smaller pool to the larger one.                  *)
FundingWinner(pools) == IF pools[0] > pools[1] THEN 0 ELSE 1

ImbalanceBps(pools) ==
    LET winner == FundingWinner(pools)
    IN  ((pools[winner] - pools[1 - winner]) * BPS_SCALE) \div (pools[0] + pools[1])

(* What one epoch moves: the base rate of the loser's pool, scaled by the  *)
(* imbalance.  It is 0 when a side is empty or the pools are equal, and    *)
(* when the division truncates it away: the code then has no funding.      *)
ComputeFunding(pools) ==
    IF pools[0] = 0 \/ pools[1] = 0 THEN 0
    ELSE (pools[1 - FundingWinner(pools)] * FUNDING_RATE_BPS * ImbalanceBps(pools))
             \div (BPS_SCALE * BPS_SCALE)

(* The part of the funding that leaves the vault for the cranker.          *)
CrankerRebate(funding) == (funding * CRANKER_REBATE_BPS) \div BPS_SCALE

-----------------------------------------------------------------------------
(* The share of its side's pool that a position is worth.                  *)
ComputeExitValue(amount, weight, pool, weighted) ==
    IF weighted = 0 THEN 0 ELSE (amount * weight * pool) \div weighted

(* The product under it is the one intermediate that a u128 may fail to    *)
(* hold; the code then reverts with MathOverflow.                          *)
ExitValueFits(amount, weight, pool, weighted) ==
    weighted = 0 \/ amount * weight * pool <= U128_MAX

(* A fee on what an exit gains over the deposit.                           *)
FeeOn(profit, bps) == (profit * bps) \div BPS_SCALE
=============================================================================
