-------------------------- MODULE DominanceHistory --------------------------
(***************************************************************************)
(* The escrow program with a history variable: the integral of the share   *)
(* of side 0, kept in parts of GRAIN instead of parts of PRECISION and     *)
(* rounded both ways.  The program rounds twice, once per tracked interval *)
(* and once for the mean, always down.                                     *)
(***************************************************************************)
EXTENDS EscrowDominance

CONSTANT GRAIN

ASSUME GrainAssumption == GRAIN \in Nat \ {0}

VARIABLE exact          \* bounds of the share-seconds of side 0; contested seconds

InitHistory == Init /\ exact = [low |-> 0, high |-> 0, time |-> 0]

Contested == status = "Open" /\ TwoSidesHold(pools, config.num_sides)

(* The share of side 0 in parts of GRAIN, rounded down and rounded up.     *)
ShareBelow == (pools[0] * GRAIN) \div SumUpTo(pools, config.num_sides)
ShareAbove == IF ShareBelow * SumUpTo(pools, config.num_sides) = pools[0] * GRAIN
              THEN ShareBelow ELSE ShareBelow + 1

NextHistory ==
    /\ Next
    /\ exact' = IF Contested
                THEN [low  |-> exact.low  + ShareBelow * (clock' - clock),
                      high |-> exact.high + ShareAbove * (clock' - clock),
                      time |-> exact.time + (clock' - clock)]
                ELSE exact

SpecHistory == InitHistory /\ [][NextHistory]_<<vars, exact>>

(* Rounding shifts a verdict by less than two parts in PRECISION, and only *)
(* in favour of side 1: side 0 wins a binary market only if its mean share *)
(* may be a half or more, and side 1 only if that mean may be less than    *)
(* two parts above a half (math.rs:61-68, resolve_market.rs:45).           *)
LeaderWins ==
    [][ResolveMarket /\ config.num_sides = 2 /\ exact.time > 0 =>
          IF outcome'.winner = 1
          THEN 2 * exact.high >= GRAIN * exact.time
          ELSE 2 * PRECISION * exact.low < (PRECISION + 4) * GRAIN * exact.time]_<<vars, exact>>

(* What the tracker reads lies between the two bounds of the integral, but *)
(* for less than one part in PRECISION for every second that was counted;  *)
(* the mean adds another part, and a verdict is drawn at half of PRECISION *)
(* from it.                                                                *)
ReadingIsBetween ==
    status = "Open" =>
        /\ MeterReading.cumulative_time = exact.time
        /\ GRAIN * MeterReading.cumulative_twd_0 <= PRECISION * exact.high
        /\ PRECISION * exact.low <= GRAIN * (MeterReading.cumulative_twd_0 + exact.time)
=============================================================================
