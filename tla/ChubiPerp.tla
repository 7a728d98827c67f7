----------------------------- MODULE ChubiPerp -----------------------------
(***************************************************************************)
(* One market of the perpetual program (programs/chubi-perp): its          *)
(* PerpMarketState account, its CreatorAccount side-car, the               *)
(* PerpPositionState accounts deposited into it and the lamports of its    *)
(* vault.                                                                  *)
(*                                                                         *)
(* A market never resolves.  Holders own weighted shares of the pool of    *)
(* their side; a permissionless crank moves lamports from the smaller pool *)
(* to the larger one, once an epoch; a holder exits at the value of the    *)
(* share.  As in ChubiEscrow there is one action per instruction, and what *)
(* makes an instruction revert is a conjunct of its guard.                 *)
(***************************************************************************)
EXTENDS PerpMath

CONSTANTS
    Accounts,            \* keys that can sign
    NoKey,               \* Pubkey::default()
    PERPETUAL_ADMINS,    \* keys a perpetual may be attributed to
    Amounts,             \* lamports a deposit may carry
    MIN_DEPOSIT_LAMPORTS,
    MIN_RENT,            \* rent-exempt minimum of an account without data
    EPOCH_SECS,
    MAX_POSITIONS,       \* bound: positions ever deposited
    MAX_CLOCK            \* bound: last instant

ASSUME PerpAssumption ==
    /\ NoKey \notin Accounts
    /\ PERPETUAL_ADMINS \subseteq Accounts
    /\ Amounts \subseteq Nat
    /\ MIN_RENT \in Nat \ {0} /\ MIN_DEPOSIT_LAMPORTS \in Nat
    /\ MIN_RENT < MIN_DEPOSIT_LAMPORTS
    /\ EPOCH_SECS \in Nat \ {0}
    /\ MAX_POSITIONS \in Nat /\ MAX_CLOCK \in Nat

VARIABLES
    clock,                  \* Clock::get()?.unix_timestamp
    launched,               \* the market account has been initialised
    authority, created_at, is_closed, last_epoch_at,          \* PerpMarketState
    pools, weighted_pools, side_position_counts, first_deposit_at,
    total_deposited, total_exited, position_count,
    cumulative_funding_paid, protocol_fee_collected,
    creator_account,        \* CreatorAccount
    positions,              \* the PerpPositionState account of each nonce
    vault                   \* lamports of the vault PDA

launch_vars == <<launched, authority, created_at>>
share_vars  == <<weighted_pools, side_position_counts>>
entry_vars  == <<first_deposit_at, total_deposited, position_count>>
epoch_vars  == <<last_epoch_at, cumulative_funding_paid>>
fee_vars    == <<protocol_fee_collected, creator_account>>
vars == <<clock, launch_vars, is_closed, epoch_vars, pools, share_vars, entry_vars,
          total_exited, fee_vars, positions, vault>>

Nonces == 0 .. (MAX_POSITIONS - 1)

(* A position account that was never initialised, or was closed.           *)
NoPosition == [live |-> FALSE, maker |-> NoKey, side |-> 0, amount |-> 0, entry_weight |-> 0]

Zeros == [s \in Sides |-> 0]

Init ==
    /\ clock = 1
    /\ launched = FALSE /\ authority = NoKey /\ created_at = 0
    /\ is_closed = FALSE
    /\ last_epoch_at = 0 /\ cumulative_funding_paid = 0
    /\ pools = Zeros /\ weighted_pools = Zeros
    /\ side_position_counts = Zeros /\ first_deposit_at = Zeros
    /\ total_deposited = 0 /\ total_exited = 0 /\ position_count = 0
    /\ protocol_fee_collected = 0
    /\ creator_account = [creator |-> NoKey, fee_collected |-> 0, fee_claimed |-> 0]
    /\ positions = [n \in Nonces |-> NoPosition]
    /\ vault = 0

-----------------------------------------------------------------------------
(* What a transfer may take without touching the rent minimum.  Every      *)
(* transfer out of the vault is capped by it, so the runtime's own rent    *)
(* rule never refuses one.                                                 *)
Available == SatSub(vault, MIN_RENT)

CreatorFeeBps == IF creator_account.creator = NoKey THEN 0 ELSE CREATOR_FEE_BPS

(* What exit_perpetual owes to position p: its value in the pool, less the *)
(* fees on the profit.                                                     *)
Gross(p)       == ComputeExitValue(p.amount, p.entry_weight, pools[p.side],
                                   weighted_pools[p.side])
Profit(p)      == SatSub(Gross(p), p.amount)
ProtocolFee(p) == FeeOn(Profit(p), PROTOCOL_FEE_BPS)
CreatorFee(p)  == FeeOn(Profit(p), CreatorFeeBps)
Net(p)         == Gross(p) - ProtocolFee(p) - CreatorFee(p)

(* What it pays: the net value, as far as the vault can spare it.          *)
Payout(p) == LesserOf(Net(p), Available)

(* Mutant: a capped exit is booked in full.                                *)
PaidInFull(p, due) == due

(* An amount of the exit in the proportion in which it is paid.            *)
Paid(p, due) == IF Payout(p) < Net(p) THEN (due * Payout(p)) \div Net(p) ELSE due

-----------------------------------------------------------------------------
(* create_perp_market: the creator named must be an admin; whoever signs   *)
(* becomes the authority.                                                  *)
CreatePerpMarket(signer, creator) ==
    /\ ~ launched
    /\ creator \in PERPETUAL_ADMINS
    /\ launched' = TRUE
    /\ authority' = signer
    /\ is_closed' = FALSE
    /\ created_at' = clock /\ last_epoch_at' = clock
    /\ pools' = Zeros /\ weighted_pools' = Zeros
    /\ side_position_counts' = Zeros /\ first_deposit_at' = Zeros
    /\ total_deposited' = 0 /\ total_exited' = 0 /\ position_count' = 0
    /\ cumulative_funding_paid' = 0 /\ protocol_fee_collected' = 0
    /\ creator_account' = [creator |-> creator, fee_collected |-> 0, fee_claimed |-> 0]
    /\ UNCHANGED <<clock, positions, vault>>

(* deposit: the weight by the age of the market, transfer into the vault,  *)
(* a new position account, the market's totals.                            *)
Deposit(maker, side, amount) ==
    LET weight == ComputeEntryWeight(clock - created_at)
    IN  /\ launched /\ ~ is_closed
        /\ side < NUM_SIDES
        /\ amount >= MIN_DEPOSIT_LAMPORTS
        /\ position_count < MAX_POSITIONS
        /\ pools[side] + amount <= U64_MAX
        /\ total_deposited + amount <= U64_MAX
        /\ vault' = vault + amount
        /\ positions' = [positions EXCEPT ![position_count] =
               [live |-> TRUE, maker |-> maker, side |-> side, amount |-> amount,
                entry_weight |-> weight]]
        /\ pools' = [pools EXCEPT ![side] = @ + amount]
        /\ weighted_pools' = [weighted_pools EXCEPT ![side] = @ + amount * weight]
        /\ side_position_counts' = [side_position_counts EXCEPT ![side] = @ + 1]
        /\ total_deposited' = total_deposited + amount
        /\ position_count' = position_count + 1
        /\ first_deposit_at' = IF first_deposit_at[side] = 0
                               THEN [first_deposit_at EXCEPT ![side] = clock]
                               ELSE first_deposit_at
        /\ UNCHANGED <<clock, launch_vars, is_closed, epoch_vars, total_exited, fee_vars>>

(* Mutant: the winner's pool is credited with the rebate as well.          *)
CreditInFull(funding, rebate) == funding

(* What the winner's pool receives of the funding.                         *)
Credit(funding, rebate) == funding - rebate

(* Mutant: epochs are counted from the creation of the market.             *)
SomeEpochElapsed == clock - created_at >= EPOCH_SECS

EpochElapsed == clock - last_epoch_at >= EPOCH_SECS

(* crank_epoch: anyone, once an epoch.  The loser's pool pays the whole    *)
(* funding, the cranker receives the rebate out of the vault as far as the *)
(* vault can spare it, the winner's pool the rest.                         *)
CrankEpoch ==
    LET funding == ComputeFunding(pools)
        winner  == FundingWinner(pools)
        rebate  == LesserOf(CrankerRebate(funding), Available)
    IN  /\ launched /\ ~ is_closed
        /\ EpochElapsed
        /\ funding > 0 /\ funding <= pools[1 - winner]
        /\ pools[winner] + Credit(funding, rebate) <= U64_MAX
        /\ cumulative_funding_paid + funding <= U64_MAX
        /\ pools' = [pools EXCEPT ![1 - winner] = @ - funding,
                                  ![winner] = @ + Credit(funding, rebate)]
        /\ vault' = vault - rebate
        /\ cumulative_funding_paid' = cumulative_funding_paid + funding
        /\ last_epoch_at' = clock
        /\ UNCHANGED <<clock, launch_vars, is_closed, share_vars, entry_vars, total_exited,
                       fee_vars, positions>>

(* Mutant: an exit takes out the least weight it can have had.             *)
RemainingAfterFloor(weighted, p) == SatSub(weighted, p.amount * MIN_WEIGHT_FLOOR)

(* The weighted pool of a side without position p.                         *)
RemainingShares(weighted, p) == SatSub(weighted, p.amount * p.entry_weight)

(* What exit_perpetual requires of the books and of the vault.             *)
ExitGoesThrough(p) ==
    /\ ExitValueFits(p.amount, p.entry_weight, pools[p.side], weighted_pools[p.side])
    /\ Gross(p) > 0
    /\ Payout(p) > 0
    /\ total_exited + Payout(p) <= U64_MAX
    /\ protocol_fee_collected + Paid(p, ProtocolFee(p)) <= U64_MAX
    /\ creator_account.fee_collected + Paid(p, CreatorFee(p)) <= U64_MAX

(* exit_perpetual: a holder leaves, of an open market or a closed one.     *)
(* When the vault cannot spare the net value, payout, pool and fees shrink *)
(* in proportion, but the position is gone all the same.                   *)
ExitPerpetual(maker, n) ==
    LET p == positions[n]
    IN  /\ p.live /\ p.maker = maker
        /\ ExitGoesThrough(p)
        /\ vault' = vault - Payout(p)
        /\ pools' = [pools EXCEPT ![p.side] = SatSub(@, Paid(p, Gross(p)))]
        /\ weighted_pools' = [weighted_pools EXCEPT ![p.side] = RemainingShares(@, p)]
        /\ side_position_counts' = [side_position_counts EXCEPT ![p.side] = SatSub(@, 1)]
        /\ total_exited' = total_exited + Payout(p)
        /\ protocol_fee_collected' = protocol_fee_collected + Paid(p, ProtocolFee(p))
        /\ creator_account' = [creator_account EXCEPT
               !.fee_collected = @ + Paid(p, CreatorFee(p))]
        /\ positions' = [positions EXCEPT ![n] = NoPosition]
        /\ UNCHANGED <<clock, launch_vars, is_closed, epoch_vars, entry_vars>>

ClosePerpMarket(signer) ==
    /\ launched /\ signer = authority
    /\ ~ is_closed
    /\ is_closed' = TRUE
    /\ UNCHANGED <<clock, launch_vars, epoch_vars, pools, share_vars, entry_vars, total_exited,
                   fee_vars, positions, vault>>

-----------------------------------------------------------------------------
(* Mutant: everything above the rent minimum is taken for fees.            *)
SweepAboveRent == Available

SweptFees == LesserOf(protocol_fee_collected, Available)

CollectFees(signer) ==
    /\ launched /\ signer = authority
    /\ protocol_fee_collected > 0
    /\ SweptFees > 0
    /\ vault' = vault - SweptFees
    /\ protocol_fee_collected' = SatSub(protocol_fee_collected, SweptFees)
    /\ UNCHANGED <<clock, launch_vars, is_closed, epoch_vars, pools, share_vars, entry_vars,
                   total_exited, creator_account, positions>>

ClaimCreatorFees(signer) ==
    LET actual == LesserOf(creator_account.fee_collected, Available)
    IN  /\ launched /\ signer = creator_account.creator
        /\ creator_account.fee_collected > 0
        /\ actual > 0
        /\ vault' = vault - actual
        /\ creator_account' = [creator_account EXCEPT !.fee_collected = @ - actual,
                                                      !.fee_claimed = @ + actual]
        /\ UNCHANGED <<clock, launch_vars, is_closed, epoch_vars, pools, share_vars, entry_vars,
                       total_exited, protocol_fee_collected, positions>>

(* The cluster's clock.                                                    *)
Tick ==
    /\ clock < MAX_CLOCK
    /\ clock' = clock + 1
    /\ UNCHANGED <<launch_vars, is_closed, epoch_vars, pools, share_vars, entry_vars,
                   total_exited, fee_vars, positions, vault>>

-----------------------------------------------------------------------------
MakerStep ==
    \E maker \in Accounts :
        \/ \E side \in Sides, amount \in Amounts : Deposit(maker, side, amount)
        \/ \E n \in Nonces : ExitPerpetual(maker, n)

AuthorityStep ==
    \E signer \in Accounts :
        \/ \E creator \in Accounts : CreatePerpMarket(signer, creator)
        \/ ClosePerpMarket(signer)
        \/ CollectFees(signer)
        \/ ClaimCreatorFees(signer)

Next == Tick \/ MakerStep \/ CrankEpoch \/ AuthorityStep

Spec == Init /\ [][Next]_vars

-----------------------------------------------------------------------------
(* Properties.                                                             *)

Weights == MIN_WEIGHT_FLOOR .. PRECISION

PositionType ==
    [live : BOOLEAN, maker : Accounts \cup {NoKey}, side : Sides, amount : Nat,
     entry_weight : {0} \cup Weights]

(* The fields of the three kinds of accounts keep their types; no pool     *)
(* goes below zero and no weight leaves its range.                         *)
TypeOK ==
    /\ clock \in Nat
    /\ launched \in BOOLEAN /\ is_closed \in BOOLEAN
    /\ authority \in Accounts \cup {NoKey}
    /\ created_at \in Nat /\ last_epoch_at \in Nat
    /\ pools \in [Sides -> Nat] /\ weighted_pools \in [Sides -> Nat]
    /\ side_position_counts \in [Sides -> Nat] /\ first_deposit_at \in [Sides -> Nat]
    /\ total_deposited \in Nat /\ total_exited \in Nat
    /\ position_count \in 0 .. MAX_POSITIONS
    /\ cumulative_funding_paid \in Nat /\ protocol_fee_collected \in Nat
    /\ creator_account \in [creator : Accounts \cup {NoKey}, fee_collected : Nat,
                            fee_claimed : Nat]
    /\ positions \in [Nonces -> PositionType]
    /\ vault \in Nat

LiveOn(p, s)    == p.live /\ p.side = s
WeightOn(ps, s) == [n \in Nonces |-> IF LiveOn(ps[n], s)
                                     THEN ps[n].amount * ps[n].entry_weight ELSE 0]
CountOn(ps, s)  == [n \in Nonces |-> IF LiveOn(ps[n], s) THEN 1 ELSE 0]

(* The weighted pools and the counts, maintained incrementally             *)
(* (deposit.rs:90-93, exit_perpetual.rs:134-135), are the sums over the    *)
(* live positions: the shares of a side's holders add up to one.           *)
LedgerMatchesPositions ==
    \A s \in Sides :
        /\ weighted_pools[s] = SumUpTo(WeightOn(positions, s), MAX_POSITIONS)
        /\ side_position_counts[s] = SumUpTo(CountOn(positions, s), MAX_POSITIONS)

(* What the market's books say is in the vault.                            *)
Booked == pools[0] + pools[1] + protocol_fee_collected + creator_account.fee_collected

Exits == position_count - (side_position_counts[0] + side_position_counts[1])

(* Pools and unswept fees are covered by the vault through every order of  *)
(* deposits, cranks (whose rebate leaves the vault), capped exits (which   *)
(* scale three amounts by truncating divisions) and sweeps; and the vault  *)
(* holds no more than that but for one lamport lost to rounding per exit.  *)
VaultMatchesBooks == Booked <= vault /\ vault <= Booked + Exits

(* Whatever others did before, a holder who exits receives the net value   *)
(* of the share, short of the rent minimum at most: exit_perpetual's cap   *)
(* never cuts deeper, and refuses only what the rent minimum swallows.     *)
HolderGetsShare ==
    \A n \in Nonces : positions[n].live =>
        Payout(positions[n]) >= Net(positions[n]) - MIN_RENT

(* The widest product of an exit is within 128 bits (at the code's scale   *)
(* if deposits are below 18 million SOL in total).                         *)
StakeFits == total_deposited * total_deposited * PRECISION <= U128_MAX

(* Whoever holds a share of a net value above the rent minimum can exit,   *)
(* of an open market or a closed one: no checked operation of              *)
(* exit_perpetual overflows, and no exit, crank or sweep of others has     *)
(* left the vault with nothing to pay.                                     *)
ExitIsAccepted ==
    StakeFits => \A n \in Nonces :
        positions[n].live /\ Net(positions[n]) > MIN_RENT => ExitGoesThrough(positions[n])

(* Coming first never hurts: of two holders on a side, the one who entered *)
(* first with no less is worth no less net of fees, but for the lamport    *)
(* that two truncated fees may differ by, whatever was exited, cranked or  *)
(* swept in between.                                                       *)
EarlierIsNoWorse ==
    \A m, n \in Nonces :
        LET p == positions[m]  q == positions[n]
        IN  m < n /\ p.live /\ q.live /\ p.side = q.side /\ p.amount >= q.amount =>
                Net(p) + 1 >= Net(q)

(* Funding is bounded by time: over the life of a market it moves at most  *)
(* an eighth of the base rate on all that was ever deposited per epoch     *)
(* elapsed (a pool of t lamports pays most when the loser holds a quarter  *)
(* of it).  Late cranks do not catch up, early ones are refused.           *)
FundingIsBounded ==
    8 * BPS_SCALE * cumulative_funding_paid * EPOCH_SECS
        <= (last_epoch_at - created_at) * FUNDING_RATE_BPS * total_deposited

(* The value of a position falls only by a crank or by a deposit: an exit, *)
(* capped or not, never dilutes those who stay, and once the market is     *)
(* closed nothing does (close_market.rs:20-21: the pool snapshot at        *)
(* close-time is what holders exit against).                               *)
ValueFallsOnlyByTrade ==
    [][is_closed \/ total_exited' # total_exited =>
          \A n \in Nonces : positions[n].live /\ positions[n]'.live =>
              Gross(positions[n])' >= Gross(positions[n])]_vars

(* What the principal of p was worth when it entered.                      *)
WeightedPrincipal(p) == (p.amount * p.entry_weight) \div PRECISION

(* Neither deposit nor exit_perpetual takes a bound on what the caller     *)
(* accepts, so what lands before an exit is at the holder's risk.  One     *)
(* step costs a holder no more than this: a deposit of any size dilutes a  *)
(* share at most to its weighted principal, one crank takes the base rate  *)
(* of it, whatever the imbalance, and a lamport of rounding.               *)
LossPerStepIsBounded ==
    [][\A n \in Nonces : positions[n].live /\ positions[n]'.live =>
          \/ Gross(positions[n])' >= LesserOf(Gross(positions[n]),
                                              WeightedPrincipal(positions[n]))
          \/ /\ cumulative_funding_paid' # cumulative_funding_paid
             /\ (BPS_SCALE - FUNDING_RATE_BPS) * Gross(positions[n])
                    < BPS_SCALE * (Gross(positions[n])' + 1)]_vars
=============================================================================
