-------------------------- MODULE EscrowDominance --------------------------
(***************************************************************************)
(* The escrow program implements the dominance meter.  While the market is *)
(* open the meter reads what the tracker would hold if it were brought up  *)
(* to the present; once resolved it reads the stored tracker.              *)
(***************************************************************************)
EXTENDS ChubiEscrow

MeterReading ==
    CASE status = "Open"     -> UpdateTwd(twd, pools, config.num_sides, clock)
      [] status = "Resolved" -> twd
      [] OTHER               -> FreshTwd(0)

Meter == INSTANCE DominanceMeter WITH
    now       <- clock,
    running   <- status = "Open",
    num_sides <- config.num_sides,
    dominance <- MeterReading.cumulative_twd_0,
    time      <- MeterReading.cumulative_time,
    verdict   <- outcome.twd_0

(* The lazily updated tracker is the integral of the share of side 0 over  *)
(* the whole time two sides were funded: every deposit and withdrawal      *)
(* catches up before it changes the pools (deposit.rs:71, withdraw.rs:66), *)
(* the cached has_both_sides is never stale, and both resolutions use the  *)
(* tracker of the instant they run.                                        *)
ImplementsMeter == Meter!Spec

(* The side that a resolution at this instant would name.                  *)
Prospect == DetermineWinner(config.num_sides, UpdateTwd(twd, pools, config.num_sides, clock),
                            pools, weighted_pools, first_deposit_at)

(* The tracker runs on past the end of the market until somebody resolves  *)
(* it (resolve_market.rs:42), so whoever delays the resolution moves the   *)
(* mean.  Waiting can turn the outcome only towards a side whose pool is   *)
(* at least as large as that of the side it takes the market from.         *)
WaitingFavoursLeader ==
    [][status = "Open" /\ Tick => pools[Prospect'] >= pools[Prospect]]_vars
=============================================================================
