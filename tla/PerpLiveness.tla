---------------------------- MODULE PerpLiveness ----------------------------
(***************************************************************************)
(* What happens eventually to the holders of a closed perpetual market, if *)
(* each holder who can exit eventually does (lib.rs:25: exits need nobody  *)
(* else).  Nothing is assumed of the authority, the creator or crankers.   *)
(***************************************************************************)
EXTENDS MCPerp

Fairness == \A maker \in Accounts, n \in Nonces : WF_vars(ExitPerpetual(maker, n))

FairSpec == Spec /\ Fairness

(* After a close every holder whose share exceeds the rent minimum gets    *)
(* out: no exit or sweep of others, in whatever order, locks a position    *)
(* whose value was worth more than that when the market was closed.        *)
ClosedMarketPaysOut ==
    \A n \in Nonces :
        (is_closed /\ positions[n].live /\ Net(positions[n]) > MIN_RENT)
            ~> ~ positions[n].live
=============================================================================
