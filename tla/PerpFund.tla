------------------------------ MODULE PerpFund ------------------------------
(***************************************************************************)
(* A perpetual market is a fund of shares.  The program stores no sum of   *)
(* the shares that are in: it keeps a weighted pool for each side, which   *)
(* deposits and exits update, and values every exit by it.                 *)
(***************************************************************************)
EXTENDS ChubiPerp

Phase == IF is_closed THEN "closed" ELSE "open"

Holding == [n \in Nonces |-> IF positions[n].live THEN "in"
                             ELSE IF n < position_count THEN "out" ELSE "free"]

PartOf(p) == [side |-> p.side, stake |-> p.amount, share |-> p.amount * p.entry_weight]
Part      == [n \in Nonces |-> PartOf(positions[n])]

FeesBooked == protocol_fee_collected + creator_account.fee_collected

Fund == INSTANCE ShareFund WITH
    Slots   <- Nonces,          N    <- MAX_POSITIONS,  Rates <- Weights,
    RENT    <- MIN_RENT,        phase <- Phase,  holding <- Holding,
    part    <- Part,            pool <- pools,          fund  <- vault,
    booked  <- FeesBooked

(* Every instruction, in every order, is a step of the fund: a crank lets  *)
(* value flow from the smaller pool to the larger one and never empties a  *)
(* pool, a holder who exits receives what the share is worth among the     *)
(* shares still in, although it is computed from sums kept since the       *)
(* market began, what the books lose is what the vault pays, and fees      *)
(* leave it only if they were booked.                                      *)
ImplementsFund == Fund!Spec
=============================================================================
