------------------------------ MODULE MCEscrow ------------------------------
(***************************************************************************)
(* Small instances of ChubiEscrow for TLC.                                 *)
(***************************************************************************)
EXTENDS EscrowCustody

(* A market created later behaves as one created at the first instant, and *)
(* once the market is closed no instruction reads the clock: the states    *)
(* that differ only in these ways are not explored.                        *)
ClockMatters ==
    /\ status = "Uninit" => clock = 1
    /\ status = "Resolved" => clock = twd.last_snapshot_at

(* Only markets of more than two sides, without a lockout.                 *)
WideMarkets ==
    /\ ClockMatters
    /\ status # "Uninit" => config.num_sides > 2 /\ ~ config.enable_lockout
=============================================================================
