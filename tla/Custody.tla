------------------------------ MODULE Custody ------------------------------
(***************************************************************************)
(* What a custodian of stakes promises, without saying who wins or how     *)
(* much.  Stakes are put in while the custody is open and their owners may *)
(* take them out again, less a penalty.  Then it closes once, in one of    *)
(* two ways: either every stake still in is given a due, all of them       *)
(* within the fund, which from then on only its own payment changes; or    *)
(* every stake is owed back.  Nothing leaves the fund but this and fees    *)
(* booked out of the dues.                                                 *)
(***************************************************************************)
EXTENDS Integers, FixedPoint

CONSTANTS
    Slots,      \* 0 .. N - 1, one for each stake ever put in
    N,
    RENT        \* what a payment may fall short of a due by

VARIABLES
    phase,      \* "open", then "settled" or "void"
    holding,    \* of each slot: "free", "in", "out"
    stake,      \* what is in
    due,        \* what a settlement owes to each stake still in
    fund,
    booked      \* fees booked and not yet taken

custody_vars == <<phase, holding, stake, due, fund, booked>>

Nothing == [n \in Slots |-> 0]

Init ==
    /\ phase = "open"
    /\ holding = [n \in Slots |-> "free"]
    /\ stake = Nothing /\ due = Nothing
    /\ fund = 0 /\ booked = 0

PutIn(n) ==
    /\ phase = "open" /\ holding[n] = "free"
    /\ stake'[n] \in Nat \ {0}
    /\ stake' = [stake EXCEPT ![n] = stake'[n]]
    /\ fund' = fund + stake'[n]
    /\ holding' = [holding EXCEPT ![n] = "in"]
    /\ UNCHANGED <<phase, due, booked>>

(* The stake of slot n leaves, however it is paid.                         *)
Leaves(n) ==
    /\ holding[n] = "in"
    /\ holding' = [holding EXCEPT ![n] = "out"]
    /\ stake' = [stake EXCEPT ![n] = 0]
    /\ UNCHANGED phase

TakeOut(n) ==
    /\ phase = "open"
    /\ Leaves(n)
    /\ fund - stake[n] <= fund' /\ fund' <= fund
    /\ UNCHANGED <<due, booked>>

Settle ==
    /\ phase = "open" /\ phase' = "settled"
    /\ due' \in [Slots -> Nat]
    /\ \A n \in Slots : due'[n] > 0 => holding[n] = "in"
    /\ SumUpTo(due', N) <= fund
    /\ UNCHANGED <<holding, stake, fund, booked>>

Void ==
    /\ phase = "open" /\ phase' = "void"
    /\ UNCHANGED <<holding, stake, due, fund, booked>>

(* A due is paid out or booked as fees in full, or else but for the rent   *)
(* that stays behind as the last of the fund.                              *)
Pay(n) ==
    LET given == (fund - fund') + (booked' - booked)
    IN  /\ phase = "settled"
        /\ Leaves(n)
        /\ fund' <= fund /\ booked' >= booked
        /\ \/ given = due[n]
           \/ given < due[n] /\ due[n] - given <= RENT /\ fund' = RENT
        /\ due' = [due EXCEPT ![n] = 0]

ReturnStake(n) ==
    /\ phase = "void"
    /\ Leaves(n)
    /\ fund' = fund - stake[n]
    /\ UNCHANGED <<due, booked>>

Sweep ==
    /\ booked' >= 0 /\ booked' < booked
    /\ fund' = fund - (booked - booked')
    /\ UNCHANGED <<phase, holding, stake, due>>

Next ==
    \/ \E n \in Slots : PutIn(n) \/ TakeOut(n) \/ Pay(n) \/ ReturnStake(n)
    \/ Settle \/ Void \/ Sweep

Spec == Init /\ [][Next]_custody_vars
=============================================================================
