------------------------------- MODULE MCPerp -------------------------------
(***************************************************************************)
(* Small instances of ChubiPerp for TLC.                                   *)
(***************************************************************************)
EXTENDS PerpSimMirror, PerpFund

(* A market created later behaves as one created at the first instant, and *)
(* once the market is closed no instruction reads the clock.               *)
ClockMatters == (~ launched \/ is_closed) => clock' = clock
=============================================================================
