----------------------------- MODULE ShareFund -----------------------------
(***************************************************************************)
(* What a fund of two pools promises to those who hold shares of it,       *)
(* without saying when value flows between the pools or how much.  While   *)
(* the fund is open, stakes are put into one of the pools, for shares at   *)
(* some rate, and value may flow from the smaller pool to the larger one,  *)
(* some of it out of the fund.  Whenever a holder leaves, what is taken    *)
(* out of the pool is what the share is worth: this share of the pool, by  *)
(* the shares still in.  It is paid, but for fees on what the share gained *)
(* over the stake; only a fund that runs dry pays less, and then the last  *)
(* it has.  Nothing else but booked fees leaves the fund.                  *)
(***************************************************************************)
EXTENDS Integers, FixedPoint

CONSTANTS
    Slots,      \* 0 .. N - 1, one for each stake ever put in
    N,
    Rates,      \* shares a unit of stake may buy
    RENT        \* what is never paid out of the fund

VARIABLES
    phase,      \* "open", then "closed"
    holding,    \* of each slot: "free", "in", "out"
    part,       \* of each slot: its pool, its stake and its share
    pool,       \* the value of each of the two pools
    fund,
    booked      \* fees booked and not yet taken

fund_vars == <<phase, holding, part, pool, fund, booked>>

Pools   == {0, 1}
Nothing == [side |-> 0, stake |-> 0, share |-> 0]

Init ==
    /\ phase = "open"
    /\ holding = [n \in Slots |-> "free"]
    /\ part = [n \in Slots |-> Nothing]
    /\ pool = [s \in Pools |-> 0]
    /\ fund = 0 /\ booked = 0

(* The shares in a pool, and what the one of slot n is worth.              *)
SharesOn(s) == [n \in Slots |-> IF holding[n] = "in" /\ part[n].side = s
                                THEN part[n].share ELSE 0]
Worth(n)    == (part[n].share * pool[part[n].side]) \div SumUpTo(SharesOn(part[n].side), N)

PutIn(n) ==
    LET given == fund' - fund
    IN  /\ phase = "open" /\ holding[n] = "free"
        /\ given > 0
        /\ holding' = [holding EXCEPT ![n] = "in"]
        /\ \E s \in Pools, rate \in Rates :
               /\ part' = [part EXCEPT ![n] =
                      [side |-> s, stake |-> given, share |-> given * rate]]
               /\ pool' = [pool EXCEPT ![s] = @ + given]
        /\ UNCHANGED <<phase, booked>>

(* The smaller pool gives, and keeps something; what the larger one does   *)
(* not receive leaves the fund.                                            *)
Flow(s) ==
    /\ phase = "open"
    /\ pool[s] <= pool[1 - s]
    /\ 0 < pool'[s] /\ pool'[s] < pool[s]
    /\ pool'[1 - s] >= pool[1 - s]
    /\ pool' = [pool EXCEPT ![s] = pool'[s], ![1 - s] = pool'[1 - s]]
    /\ fund' <= fund
    /\ fund - fund' = (pool[0] + pool[1]) - (pool'[0] + pool'[1])
    /\ UNCHANGED <<phase, holding, part, booked>>

Leave(n) ==
    LET s     == part[n].side
        taken == pool[s] - pool'[s]
        paid  == fund - fund'
        fees  == booked' - booked
    IN  /\ holding[n] = "in"
        /\ paid > 0 /\ fees >= 0
        /\ fees = 0 \/ fees <= Worth(n) - part[n].stake
        /\ \/ taken = Worth(n) /\ paid + fees = taken
           \/ /\ fund' = RENT
              /\ taken <= Worth(n)
              /\ paid + fees <= taken /\ taken <= paid + fees + 1
        /\ pool' = [pool EXCEPT ![s] = pool'[s]]
        /\ holding' = [holding EXCEPT ![n] = "out"]
        /\ part' = [part EXCEPT ![n] = Nothing]
        /\ UNCHANGED phase

Sweep ==
    /\ booked' >= 0 /\ booked' < booked
    /\ fund' = fund - (booked - booked')
    /\ UNCHANGED <<phase, holding, part, pool>>

Close ==
    /\ phase = "open" /\ phase' = "closed"
    /\ UNCHANGED <<holding, part, pool, fund, booked>>

Next ==
    \/ \E n \in Slots : PutIn(n) \/ Leave(n)
    \/ \E s \in Pools : Flow(s)
    \/ Sweep \/ Close

Spec == Init /\ [][Next]_fund_vars
=============================================================================
