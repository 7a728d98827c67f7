--------------------------- MODULE EscrowCustody ---------------------------
(***************************************************************************)
(* The escrow program is a custodian of its depositors' stakes.  What the  *)
(* abstract custody keeps in one place is spread over the accounts of the  *)
(* program: a stake is in as long as its position is neither claimed nor   *)
(* withdrawn, and a due is stored nowhere, each claim computes it afresh   *)
(* from the totals of the market.                                          *)
(***************************************************************************)
EXTENDS ChubiEscrow

Phase == CASE status = "Resolved" -> "settled"
           [] status = "Invalid"  -> "void"
           [] OTHER               -> "open"

Holding == [n \in Nonces |-> IF Active(positions[n]) THEN "in"
                             ELSE IF n < position_count THEN "out" ELSE "free"]

NothingOwed == [n \in Nonces |-> 0]

Dues == IF status = "Resolved" THEN Owed ELSE NothingOwed

FeesBooked == protocol_fee_collected + creator_account.fee_collected

Custodian == INSTANCE Custody WITH
    Slots   <- Nonces,      N   <- MAX_POSITIONS,        RENT   <- MIN_RENT,
    phase   <- Phase,       holding <- Holding,          stake  <- ActiveStake(positions),
    due     <- Dues,        fund    <- vault,            booked <- FeesBooked

(* Every instruction, in every order and however often the authority, the  *)
(* creator and the makers interleave, is a step of the custody: the dues a *)
(* resolution fixes fit into the vault, no step but its own claim changes  *)
(* one, a position is paid once, and fees leave only if they were booked.  *)
ImplementsCustody == Custodian!Spec
=============================================================================
