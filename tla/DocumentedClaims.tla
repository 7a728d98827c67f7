-------------------------- MODULE DocumentedClaims --------------------------
(***************************************************************************)
(* Statements that the repository's own documentation makes about the      *)
(* escrow program and that its code does not keep.                         *)
(***************************************************************************)
EXTENDS ChubiEscrow

(* constants.rs:32, "winner_payout_share must exceed winner_fraction by at *)
(* least 1%": so it does in every resolved two-sided market, up to the     *)
(* whole.                                                                  *)
DocumentedSafetyMargin ==
    status = "Resolved" /\ config.num_sides = 2 =>
        LET w == outcome.winner - 1
            winner_fraction == (pools[w] * PRECISION) \div SumPools(pools, 2)
        IN  outcome.winner_payout_share
                >= LesserOf(PRECISION, winner_fraction + MIN_TRANSFER_BPS)

(* README.md:68-69, "Mark market invalid for full refunds", "Full deposit  *)
(* return from invalidated market": every unsettled deposit of an invalid  *)
(* market can be refunded now.                                             *)
DocumentedFullRefunds ==
    status = "Invalid" =>
        \A n \in Nonces : Active(positions[n]) => CanDebit(positions[n].amount)
=============================================================================
