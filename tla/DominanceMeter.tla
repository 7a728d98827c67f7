-------------------------- MODULE DominanceMeter --------------------------
(***************************************************************************)
(* What time-weighted dominance promises, without saying how it is kept:   *)
(* a meter that runs from the opening of a market to its resolution and    *)
(* that, at every passage of time, grows by the share of side 0 times the  *)
(* time passed, as long as two sides are funded.  Trades change the pools  *)
(* and never the meter.  The program keeps no such meter: it stores a      *)
(* snapshot and catches up lazily (math.rs, update_twd).                   *)
(***************************************************************************)
EXTENDS Integers, FixedPoint

CONSTANT PRECISION

VARIABLES
    now, running, num_sides, pools,
    dominance, time,        \* the meter: share-seconds of side 0, seconds
    verdict                 \* the dominance of side 0 a resolution settled on

meter_vars == <<now, running, num_sides, pools, dominance, time, verdict>>

Contested == \E i, j \in 0 .. (num_sides - 1) : i # j /\ pools[i] > 0 /\ pools[j] > 0

Share0 == (pools[0] * PRECISION) \div SumUpTo(pools, num_sides)

Init == ~ running /\ dominance = 0 /\ time = 0 /\ verdict = 0

Start ==
    /\ ~ running /\ running'
    /\ \A s \in DOMAIN pools' : pools'[s] = 0
    /\ dominance' = 0 /\ time' = 0 /\ verdict' = 0
    /\ now' = now

Elapse ==
    /\ now' > now
    /\ IF running /\ Contested
       THEN /\ dominance' = dominance + Share0 * (now' - now)
            /\ time' = time + (now' - now)
       ELSE UNCHANGED <<dominance, time>>
    /\ UNCHANGED <<running, num_sides, pools, verdict>>

Trade ==
    /\ running
    /\ UNCHANGED <<now, running, num_sides, dominance, time, verdict>>

(* The market is resolved by the mean of the metered time, or by a half if *)
(* it was never contested.                                                 *)
Stop ==
    /\ running /\ ~ running'
    /\ verdict' = IF time > 0 THEN dominance \div time ELSE PRECISION \div 2
    /\ UNCHANGED <<now, num_sides, pools, dominance, time>>

Abandon ==
    /\ running /\ ~ running'
    /\ dominance' = 0 /\ time' = 0
    /\ UNCHANGED <<now, num_sides, pools, verdict>>

Next == Start \/ Elapse \/ Trade \/ Stop \/ Abandon

Spec == Init /\ [][Next]_meter_vars
=============================================================================
