---------------------------- MODULE MCDominance ----------------------------
(***************************************************************************)
(* A small instance of DominanceHistory for TLC.                           *)
(***************************************************************************)
EXTENDS DominanceHistory

(* Anonymous binary markets without a lockout, from their creation at the  *)
(* first instant to their resolution, in which nobody closes an account:   *)
(* the tracker does not change later, and does not depend on accounts.     *)
TradingMarkets ==
    /\ status = "Uninit" => clock = 1
    /\ status = "Open" => ~ config.enable_lockout /\ creator_account.creator = NoKey
    /\ status \in {"Uninit", "Open"}
    /\ \A n \in Nonces : n < position_count => positions[n].live
=============================================================================
