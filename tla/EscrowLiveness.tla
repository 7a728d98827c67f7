--------------------------- MODULE EscrowLiveness ---------------------------
(***************************************************************************)
(* What happens eventually to a market, if time passes, if somebody cranks *)
(* an expired market (resolve_market.rs:18: anyone can) and if each maker  *)
(* who can claim or be refunded eventually does.  The authority is not     *)
(* assumed to act.                                                         *)
(***************************************************************************)
EXTENDS ChubiEscrow

Fairness ==
    /\ WF_vars(Tick)
    /\ WF_vars(ResolveMarket)
    /\ \A maker \in Accounts, n \in Nonces :
           WF_vars(ClaimPayout(maker, n)) /\ WF_vars(Refund(maker, n))

FairSpec == Spec /\ Fairness

TwoSidesPlaced == TwoSidesHold(side_position_counts, config.num_sides)

(* An open market with positions on two sides does not stay open for ever: *)
(* once expired it is resolved, by the authority or by anyone, or the      *)
(* positions of all sides but one are withdrawn.                           *)
ContestedMarketCloses ==
    (status = "Open" /\ TwoSidesPlaced) ~> (status # "Open" \/ ~ TwoSidesPlaced)

(* Everybody who is due more than the rent minimum is paid, and that is    *)
(* every winner and most losers: no claim, sweep or rent rule can block    *)
(* such a position for ever.                                               *)
ClaimantsArePaid ==
    \A n \in Nonces :
        (/\ status = "Resolved" /\ Active(positions[n])
         /\ IsWinner(positions[n]) \/ DueTo(positions[n]).payout > MIN_RENT)
            ~> ~ Active(positions[n])

(* Every maker of an invalidated market is refunded, unless penalties      *)
(* below the rent minimum were left in its vault (refund.rs:55).           *)
RefundsArePaid ==
    \A n \in Nonces :
        (status = "Invalid" /\ Active(positions[n]) /\ ~ IsDust(penalty_pool))
            ~> ~ Active(positions[n])
=============================================================================
