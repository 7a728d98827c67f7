---------------------------- MODULE ChubiEscrow ----------------------------
(***************************************************************************)
(* One market of the escrow program (programs/chubi-escrow): its           *)
(* MarketState account, its CreatorAccount side-car, the PositionState     *)
(* accounts deposited into it and the lamports of its vault.               *)
(*                                                                         *)
(* There is one action per instruction.  An instruction runs alone and     *)
(* either completes or reverts without effect, so a require!, a failed     *)
(* account constraint and a failed transfer are conjuncts of the guard.    *)
(* Instructions of different markets touch disjoint accounts.  The cluster *)
(* supplies the clock (Tick) and the rule by which a transfer out of the   *)
(* vault is accepted (CanDebit).                                           *)
(***************************************************************************)
EXTENDS EscrowMath, FiniteSets

CONSTANTS
    Accounts,            \* keys that can sign
    NoKey,               \* Pubkey::default()
    Amounts,             \* lamports a deposit may carry
    MinWeights,          \* slippage guards a depositor may ask for
    Durations,           \* resolution durations a creator may ask for
    MIN_DURATION_SECS, MAX_DURATION_SECS,
    MIN_DEPOSIT_LAMPORTS,
    MIN_RENT,            \* rent-exempt minimum of an account without data
    MAX_POSITIONS,       \* bound: positions ever deposited
    ClockSteps,          \* bound: by how much the clock may advance at once
    MAX_CLOCK            \* bound: last instant

ASSUME EscrowAssumption ==
    /\ NoKey \notin Accounts
    /\ Amounts \subseteq Nat /\ MinWeights \subseteq Nat
    /\ Durations \subseteq Int
    /\ MIN_DURATION_SECS \in Nat \ {0} /\ MAX_DURATION_SECS \in Nat
    /\ MIN_RENT \in Nat \ {0} /\ MIN_DEPOSIT_LAMPORTS \in Nat
    /\ MIN_RENT < MIN_DEPOSIT_LAMPORTS
    /\ MAX_POSITIONS \in Nat
    /\ ClockSteps \subseteq Nat \ {0} /\ MAX_CLOCK \in Nat

VARIABLES
    clock,                  \* Clock::get()?.unix_timestamp
    status, config, outcome,                                  \* MarketState
    pools, weighted_pools, side_position_counts, first_deposit_at,
    total_deposited, total_claimed, position_count,
    penalty_pool, twd, protocol_fee_collected,
    creator_account,        \* CreatorAccount
    positions,              \* the PositionState account of each nonce
    vault                   \* lamports of the vault PDA

ledger_vars  == <<pools, weighted_pools, side_position_counts>>
counter_vars == <<first_deposit_at, total_deposited, position_count>>
fee_vars     == <<protocol_fee_collected, creator_account>>
vars == <<clock, status, config, outcome, ledger_vars, counter_vars, total_claimed,
          penalty_pool, twd, fee_vars, positions, vault>>

Nonces == 0 .. (MAX_POSITIONS - 1)

(* A position account that was never initialised, or was closed.           *)
NoPosition ==
    [live |-> FALSE, maker |-> NoKey, side |-> 0, amount |-> 0, entry_weight |-> 0,
     payout_amount |-> 0, claimed |-> FALSE, withdrawn |-> FALSE]

NoConfig ==
    [authority |-> NoKey, num_sides |-> 2, created_at |-> 0, resolution_duration |-> 1,
     allow_withdrawal |-> FALSE, enable_lockout |-> FALSE]

NoOutcome == [winner |-> 0, twd_0 |-> 0, winner_payout_share |-> 0]

FreshTwd(now) ==
    [cumulative_twd_0 |-> 0, cumulative_time |-> 0, last_snapshot_at |-> now,
     has_both_sides |-> FALSE]

Zeros == [s \in Sides |-> 0]

Init ==
    /\ clock = 1
    /\ status = "Uninit"
    /\ config = NoConfig
    /\ outcome = NoOutcome
    /\ pools = Zeros /\ weighted_pools = Zeros
    /\ side_position_counts = Zeros /\ first_deposit_at = Zeros
    /\ total_deposited = 0 /\ total_claimed = 0 /\ position_count = 0
    /\ penalty_pool = 0
    /\ twd = FreshTwd(0)
    /\ protocol_fee_collected = 0
    /\ creator_account = [creator |-> NoKey, fee_collected |-> 0, fee_claimed |-> 0]
    /\ positions = [n \in Nonces |-> NoPosition]
    /\ vault = 0

-----------------------------------------------------------------------------
(* The system program and the runtime: a transfer needs the balance, and   *)
(* an account may be left empty or rent exempt, but not in between.        *)
CanDebit(amount) == /\ amount <= vault
                    /\ (vault - amount = 0 \/ vault - amount >= MIN_RENT)

(* Mutant: the unswept protocol fees are set aside as well.                *)
AvailableAfterFees == SatSub(vault, MIN_RENT + protocol_fee_collected)

(* What a capped transfer may take without touching the rent minimum.      *)
Available == SatSub(vault, MIN_RENT)

EndTime == config.created_at + config.resolution_duration

(* Mutant: resolution is possible at the very end only.                    *)
JustExpired == clock = EndTime

Expired == clock >= EndTime

(* Mutant: the weight follows the elapsed part of the duration.            *)
FractionElapsed == ((clock - config.created_at) * PRECISION) \div config.resolution_duration

FractionRemaining == ((EndTime - clock) * PRECISION) \div config.resolution_duration

TotalPositions == SumUpTo(side_position_counts, config.num_sides)

(* Mutant: past the end the converted time wraps around to a large one.    *)
LockedOutUntilEnd ==
    config.enable_lockout /\ clock <= EndTime =>
        FractionRemaining >= ComputeLockout(pools, config.num_sides, TotalPositions)

(* The lockout applies to deposits and to withdrawals.  Past the end the   *)
(* code converts a negative time to an unsigned one and the product with   *)
(* PRECISION overflows: the instruction reverts.                           *)
NotLockedOut ==
    config.enable_lockout =>
        /\ clock <= EndTime
        /\ FractionRemaining >= ComputeLockout(pools, config.num_sides, TotalPositions)

Active(p) == p.live /\ ~ p.claimed /\ ~ p.withdrawn

(* Mutant: a position may be closed once the market has expired.           *)
SettledOrExpired(p) == p.claimed \/ p.withdrawn \/ Expired

Settled(p) == p.claimed \/ p.withdrawn

(* Mutant: the tracker does not catch up before the pools change.          *)
TwdNotCaughtUp(newPools) ==
    [twd EXCEPT !.has_both_sides = TwoSidesHold(newPools, config.num_sides)]

(* The tracker brought up to now, before the pools become newPools.        *)
TwdAfter(newPools) ==
    [UpdateTwd(twd, pools, config.num_sides, clock) EXCEPT
        !.has_both_sides = TwoSidesHold(newPools, config.num_sides)]

(* What withdraw keeps of an active position, and what it returns.         *)
Penalty(p) ==
    (p.amount * ComputeWithdrawalPenalty(clock - config.created_at, config.resolution_duration))
        \div BPS_SCALE

(* Mutant: the penalty is booked but paid out all the same.                *)
ReturnedInFull(p) == p.amount

Returned(p) == p.amount - Penalty(p)

(* The stake of a position enters and leaves the totals of its side.       *)
AddStake(side, amount, weight) ==
    /\ pools' = [pools EXCEPT ![side] = @ + amount]
    /\ weighted_pools' = [weighted_pools EXCEPT ![side] = @ + amount * weight]
    /\ side_position_counts' = [side_position_counts EXCEPT ![side] = @ + 1]

(* Mutant: a withdrawal removes the stake at full weight.                  *)
RemoveStakeAtFullWeight(side, amount, weight) ==
    /\ pools' = [pools EXCEPT ![side] = SatSub(@, amount)]
    /\ weighted_pools' = [weighted_pools EXCEPT ![side] = SatSub(@, amount * PRECISION)]
    /\ side_position_counts' = [side_position_counts EXCEPT ![side] = SatSub(@, 1)]

(* Mutant: a withdrawal leaves the pool of its side as it is.              *)
RemoveStakeKeepsPool(side, amount, weight) ==
    /\ pools' = pools
    /\ weighted_pools' = [weighted_pools EXCEPT ![side] = SatSub(@, amount * weight)]
    /\ side_position_counts' = [side_position_counts EXCEPT ![side] = SatSub(@, 1)]

RemoveStake(side, amount, weight) ==
    /\ pools' = [pools EXCEPT ![side] = SatSub(@, amount)]
    /\ weighted_pools' = [weighted_pools EXCEPT ![side] = SatSub(@, amount * weight)]
    /\ side_position_counts' = [side_position_counts EXCEPT ![side] = SatSub(@, 1)]

(* Mutant: the distributable total is read off the vault.                  *)
BalanceDistributable == vault

(* Mutant: the penalties withheld are not distributed.                     *)
PoolsDistributable == SumPools(pools, config.num_sides)

(* The distributable total of a resolved market.                           *)
TotalDistributable == SumPools(pools, config.num_sides) + penalty_pool

CreatorFeeBps == IF creator_account.creator = NoKey THEN 0 ELSE CREATOR_FEE_BPS

IsWinner(p) == p.side = outcome.winner - 1

(* What claim_payout computes for position p.                              *)
DueTo(p) ==
    IF IsWinner(p)
    THEN ComputeWinnerPayout(p.amount, p.entry_weight, pools[p.side], weighted_pools[p.side],
                             outcome.winner_payout_share, TotalDistributable, CreatorFeeBps)
    ELSE [NothingDue EXCEPT !.payout =
             ComputeLoserPayout(p.amount, p.entry_weight, weighted_pools[p.side],
                                outcome.winner_payout_share, TotalDistributable)]

(* The 128-bit product in that computation does not overflow.              *)
DueFits(p) ==
    LET share == outcome.winner_payout_share
        money == IF IsWinner(p)
                 THEN SatSub(WinnerPool(TotalDistributable, share), pools[p.side])
                 ELSE LoserPool(TotalDistributable, share)
    IN  weighted_pools[p.side] = 0 \/ PartFits(money, p.amount, p.entry_weight)

-----------------------------------------------------------------------------
(* create_market initialises the market and its creator side-car; creator  *)
(* is NoKey for an anonymous market.                                       *)
CreateMarket(signer, creator, duration, num_sides, allow_withdrawal, enable_lockout) ==
    /\ status = "Uninit"
    /\ duration >= MIN_DURATION_SECS /\ duration <= MAX_DURATION_SECS
    /\ num_sides >= 2 /\ num_sides <= MAX_SIDES
    /\ status' = "Open"
    /\ config' = [authority |-> signer, num_sides |-> num_sides, created_at |-> clock,
                  resolution_duration |-> duration, allow_withdrawal |-> allow_withdrawal,
                  enable_lockout |-> enable_lockout]
    /\ outcome' = NoOutcome
    /\ pools' = Zeros /\ weighted_pools' = Zeros
    /\ side_position_counts' = Zeros /\ first_deposit_at' = Zeros
    /\ total_deposited' = 0 /\ total_claimed' = 0 /\ position_count' = 0
    /\ penalty_pool' = 0
    /\ twd' = FreshTwd(clock)
    /\ protocol_fee_collected' = 0
    /\ creator_account' = [creator |-> creator, fee_collected |-> 0, fee_claimed |-> 0]
    /\ UNCHANGED <<clock, positions, vault>>

(* Mutant: no slippage guard.                                              *)
AnyWeight(weight, min_weight) == TRUE

(* The slippage guard of a depositor.                                      *)
WithinSlippage(weight, min_weight) == weight >= min_weight

(* deposit: lockout, tracker, weight, slippage guard, transfer into the    *)
(* vault, a new position account, the market's totals.                     *)
Deposit(maker, side, amount, min_weight) ==
    LET weight == ComputeEntryWeight(FractionRemaining, config.resolution_duration)
    IN  /\ status = "Open"
        /\ side < config.num_sides
        /\ amount >= MIN_DEPOSIT_LAMPORTS
        /\ clock < EndTime
        /\ NotLockedOut
        /\ WithinSlippage(weight, min_weight)
        /\ position_count < MAX_POSITIONS
        /\ total_deposited + amount <= U64_MAX
        /\ positions' = [positions EXCEPT ![position_count] =
               [NoPosition EXCEPT !.live = TRUE, !.maker = maker, !.side = side,
                                  !.amount = amount, !.entry_weight = weight]]
        /\ vault' = vault + amount
        /\ AddStake(side, amount, weight)
        /\ total_deposited' = total_deposited + amount
        /\ position_count' = position_count + 1
        /\ first_deposit_at' = IF first_deposit_at[side] = 0
                               THEN [first_deposit_at EXCEPT ![side] = clock]
                               ELSE first_deposit_at
        /\ twd' = TwdAfter(pools')
        /\ UNCHANGED <<clock, status, config, outcome, total_claimed, penalty_pool, fee_vars>>

(* withdraw: an active position leaves an open market, at any time unless  *)
(* the lockout forbids it; the penalty stays in the vault.                 *)
Withdraw(maker, n) ==
    LET p == positions[n]
    IN  /\ status = "Open"
        /\ p.live /\ p.maker = maker
        /\ config.allow_withdrawal
        /\ ~ p.claimed /\ ~ p.withdrawn
        /\ NotLockedOut
        /\ CanDebit(Returned(p))
        /\ vault' = vault - Returned(p)
        /\ RemoveStake(p.side, p.amount, p.entry_weight)
        /\ penalty_pool' = penalty_pool + Penalty(p)
        /\ twd' = TwdAfter(pools')
        /\ positions' = [positions EXCEPT ![n].withdrawn = TRUE]
        /\ UNCHANGED <<clock, status, config, outcome, counter_vars, total_claimed, fee_vars>>

-----------------------------------------------------------------------------
(* Both resolutions finalise the tracker and fix the outcome; they differ  *)
(* in who may call them, when, and who chooses the winner.                 *)
Finalise(winner_idx) ==
    LET final == UpdateTwd(twd, pools, config.num_sides, clock)
    IN  /\ twd' = final
        /\ outcome' = [winner |-> winner_idx + 1,
                       twd_0  |-> FinalTwd(final),
                       winner_payout_share |->
                           ComputeTwcd(winner_idx, FinalTwd(final), pools, config.num_sides)]
        /\ status' = "Resolved"
        /\ UNCHANGED <<clock, config, ledger_vars, counter_vars, total_claimed,
                       penalty_pool, fee_vars, positions, vault>>

ResolveMarket ==
    /\ status = "Open"
    /\ Expired
    /\ TwoSidesHold(side_position_counts, config.num_sides)
    /\ Finalise(DetermineWinner(config.num_sides,
                                UpdateTwd(twd, pools, config.num_sides, clock),
                                pools, weighted_pools, first_deposit_at))

AdminResolve(signer, winner) ==
    /\ status = "Open"
    /\ signer = config.authority
    /\ winner >= 1 /\ winner <= config.num_sides
    /\ TwoSidesHold(side_position_counts, config.num_sides)
    /\ Finalise(winner - 1)

(* Mutant: a market may be invalidated after it was resolved.              *)
InvalidateAnyTime(signer) ==
    /\ status \in {"Open", "Resolved"}
    /\ signer = config.authority
    /\ status' = "Invalid"
    /\ outcome' = [outcome EXCEPT !.winner = 0]
    /\ UNCHANGED <<clock, config, ledger_vars, counter_vars, total_claimed, penalty_pool,
                   twd, fee_vars, positions, vault>>

InvalidateMarket(signer) ==
    /\ status = "Open"
    /\ signer = config.authority
    /\ status' = "Invalid"
    /\ outcome' = [outcome EXCEPT !.winner = 0]
    /\ UNCHANGED <<clock, config, ledger_vars, counter_vars, total_claimed, penalty_pool,
                   twd, fee_vars, positions, vault>>

-----------------------------------------------------------------------------
(* claim_payout pays what the vault can spare above the rent minimum, but  *)
(* books the fees in full.                                                 *)
ClaimPayout(maker, n) ==
    LET p      == positions[n]
        due    == DueTo(p)
        actual == LesserOf(due.payout, Available)
    IN  /\ status = "Resolved"
        /\ p.live /\ p.maker = maker
        /\ ~ p.claimed /\ ~ p.withdrawn
        /\ TotalDistributable <= U64_MAX
        /\ DueFits(p)
        /\ due.payout > 0
        /\ actual > 0
        /\ CanDebit(actual)
        /\ vault' = vault - actual
        /\ positions' = [positions EXCEPT ![n].claimed = TRUE, ![n].payout_amount = actual]
        /\ total_claimed' = total_claimed + actual
        /\ protocol_fee_collected' = protocol_fee_collected + due.fee
        /\ creator_account' = [creator_account EXCEPT !.fee_collected = @ + due.creator_fee]
        /\ UNCHANGED <<clock, status, config, outcome, ledger_vars, counter_vars,
                       penalty_pool, twd>>

(* refund returns the whole deposit, without a cap.                        *)
Refund(maker, n) ==
    LET p == positions[n]
    IN  /\ status = "Invalid"
        /\ p.live /\ p.maker = maker
        /\ ~ p.claimed /\ ~ p.withdrawn
        /\ CanDebit(p.amount)
        /\ vault' = vault - p.amount
        /\ positions' = [positions EXCEPT ![n].claimed = TRUE, ![n].payout_amount = p.amount]
        /\ total_claimed' = total_claimed + p.amount
        /\ UNCHANGED <<clock, status, config, outcome, ledger_vars, counter_vars,
                       penalty_pool, twd, fee_vars>>

ClosePosition(maker, n) ==
    /\ positions[n].live /\ positions[n].maker = maker
    /\ Settled(positions[n])
    /\ positions' = [positions EXCEPT ![n] = NoPosition]
    /\ UNCHANGED <<clock, status, config, outcome, ledger_vars, counter_vars, total_claimed,
                   penalty_pool, twd, fee_vars, vault>>

-----------------------------------------------------------------------------
(* Mutant: everything above the rent minimum is taken for fees.            *)
SweepAboveRent == Available

(* The protocol fees that collect_fees takes: capped by the balance only.  *)
SweptFees == LesserOf(protocol_fee_collected, vault)

CollectFees(signer) ==
    LET actual == SweptFees
    IN  /\ signer = config.authority
        /\ protocol_fee_collected > 0
        /\ CanDebit(actual)
        /\ vault' = vault - actual
        /\ protocol_fee_collected' = SatSub(protocol_fee_collected, actual)
        /\ UNCHANGED <<clock, status, config, outcome, ledger_vars, counter_vars,
                       total_claimed, penalty_pool, twd, creator_account, positions>>

(* claim_creator_fees is capped by what the vault can spare above the rent *)
(* minimum.                                                                *)
ClaimCreatorFees(signer) ==
    LET actual == LesserOf(creator_account.fee_collected, Available)
    IN  /\ signer = creator_account.creator
        /\ creator_account.fee_collected > 0
        /\ actual > 0
        /\ CanDebit(actual)
        /\ vault' = vault - actual
        /\ creator_account' = [creator_account EXCEPT !.fee_collected = @ - actual,
                                                      !.fee_claimed = @ + actual]
        /\ UNCHANGED <<clock, status, config, outcome, ledger_vars, counter_vars,
                       total_claimed, penalty_pool, twd, protocol_fee_collected, positions>>

(* The cluster's clock.                                                    *)
Tick ==
    /\ \E step \in ClockSteps : clock + step <= MAX_CLOCK /\ clock' = clock + step
    /\ UNCHANGED <<status, config, outcome, ledger_vars, counter_vars, total_claimed,
                   penalty_pool, twd, fee_vars, positions, vault>>

-----------------------------------------------------------------------------
Create ==
    \E signer \in Accounts, creator \in Accounts \cup {NoKey}, duration \in Durations,
       num_sides \in 2 .. MAX_SIDES, allow_withdrawal, enable_lockout \in BOOLEAN :
        /\ clock + duration <= MAX_CLOCK       \* bound: the market expires in time
        /\ CreateMarket(signer, creator, duration, num_sides, allow_withdrawal, enable_lockout)

MakerStep ==
    \E maker \in Accounts :
        \/ \E side \in Sides, amount \in Amounts, min_weight \in MinWeights :
               Deposit(maker, side, amount, min_weight)
        \/ \E n \in Nonces :
               \/ Withdraw(maker, n)
               \/ ClaimPayout(maker, n)
               \/ Refund(maker, n)
               \/ ClosePosition(maker, n)

AuthorityStep ==
    \E signer \in Accounts :
        \/ \E winner \in 1 .. MAX_SIDES : AdminResolve(signer, winner)
        \/ InvalidateMarket(signer)
        \/ CollectFees(signer)
        \/ ClaimCreatorFees(signer)

Next == Tick \/ Create \/ MakerStep \/ ResolveMarket \/ AuthorityStep

Spec == Init /\ [][Next]_vars

-----------------------------------------------------------------------------
(* Properties.                                                             *)

Weights == MIN_WEIGHT_FLOOR .. PRECISION

PositionType ==
    [live : BOOLEAN, maker : Accounts \cup {NoKey}, side : Sides, amount : Nat,
     entry_weight : {0} \cup Weights, payout_amount : Nat,
     claimed : BOOLEAN, withdrawn : BOOLEAN]

(* The fields of the three kinds of accounts keep their types; a weight    *)
(* stays between the floor and PRECISION, a share at most PRECISION.       *)
TypeOK ==
    /\ clock \in Nat
    /\ status \in {"Uninit", "Open", "Resolved", "Invalid"}
    /\ config \in [authority : Accounts \cup {NoKey}, num_sides : 2 .. MAX_SIDES,
                   created_at : Nat, resolution_duration : Nat \ {0},
                   allow_withdrawal : BOOLEAN, enable_lockout : BOOLEAN]
    /\ outcome \in [winner : 0 .. MAX_SIDES, twd_0 : Nat, winner_payout_share : 0 .. PRECISION]
    /\ pools \in [Sides -> Nat] /\ weighted_pools \in [Sides -> Nat]
    /\ side_position_counts \in [Sides -> Nat] /\ first_deposit_at \in [Sides -> Nat]
    /\ total_deposited \in 0 .. U64_MAX /\ total_claimed \in Nat
    /\ position_count \in 0 .. MAX_POSITIONS
    /\ penalty_pool \in Nat
    /\ twd \in [cumulative_twd_0 : Nat, cumulative_time : Nat, last_snapshot_at : Nat,
                has_both_sides : BOOLEAN]
    /\ protocol_fee_collected \in Nat
    /\ creator_account \in [creator : Accounts \cup {NoKey}, fee_collected : Nat,
                            fee_claimed : Nat]
    /\ positions \in [Nonces -> PositionType]
    /\ vault \in Nat

(* The contributions of the active positions ps of a side to its totals.   *)
ActiveOn(p, s)  == Active(p) /\ p.side = s
StakeOn(ps, s)  == [n \in Nonces |-> IF ActiveOn(ps[n], s) THEN ps[n].amount ELSE 0]
WeightOn(ps, s) == [n \in Nonces |-> IF ActiveOn(ps[n], s)
                                     THEN ps[n].amount * ps[n].entry_weight ELSE 0]
CountOn(ps, s)  == [n \in Nonces |-> IF ActiveOn(ps[n], s) THEN 1 ELSE 0]
ActiveStake(ps) == [n \in Nonces |-> IF Active(ps[n]) THEN ps[n].amount ELSE 0]

(* What the other invariants take for granted: live positions sit below    *)
(* position_count, on a side of the market, with an admissible amount and  *)
(* weight; nothing is claimed before the market closes; a market that does *)
(* not exist has an empty vault; fees arise only once it is resolved; the  *)
(* pools of an open market add up to the active stake, and with the        *)
(* penalties they are within total_deposited, so that sum_pools never      *)
(* saturates.                                                              *)
Bookkeeping ==
    /\ \A n \in Nonces : positions[n].live =>
          /\ status # "Uninit" /\ n < position_count
          /\ positions[n].side < config.num_sides
          /\ positions[n].amount >= MIN_DEPOSIT_LAMPORTS
          /\ positions[n].amount <= total_deposited
          /\ positions[n].entry_weight \in Weights
          /\ positions[n].claimed => status \in {"Resolved", "Invalid"}
    /\ status = "Uninit" => vault = 0 /\ penalty_pool = 0
    /\ status # "Resolved" => protocol_fee_collected = 0 /\ creator_account.fee_collected = 0
    /\ status = "Open" =>
          SumUpTo(pools, config.num_sides) = SumUpTo(ActiveStake(positions), MAX_POSITIONS)
    /\ status \in {"Open", "Resolved"} =>
          SumUpTo(pools, config.num_sides) + penalty_pool <= total_deposited

(* While the market is open the per-side totals that deposit and withdraw  *)
(* maintain incrementally (deposit.rs:111-118, withdraw.rs:100-104) are    *)
(* the sums over the active positions, and the cached has_both_sides is    *)
(* what recomputing it would give.                                         *)
LedgerMatchesPositions ==
    status = "Open" =>
        /\ \A s \in Sides :
              /\ pools[s] = SumUpTo(StakeOn(positions, s), MAX_POSITIONS)
              /\ weighted_pools[s] = SumUpTo(WeightOn(positions, s), MAX_POSITIONS)
              /\ side_position_counts[s] = SumUpTo(CountOn(positions, s), MAX_POSITIONS)
        /\ twd.has_both_sides = TwoSidesHold(pools, config.num_sides)

(* Until a market is resolved its vault holds the stake of every active    *)
(* position and the penalties withheld, no less and no more: a refund can  *)
(* never be short because of earlier withdrawals or refunds.               *)
VaultCovered ==
    status \in {"Uninit", "Open", "Invalid"} =>
        vault = SumUpTo(ActiveStake(positions), MAX_POSITIONS) + penalty_pool

(* An amount that the rent rule does not leave in an account.              *)
IsDust(lamports) == lamports > 0 /\ lamports < MIN_RENT

OnlyActive(n) == \A m \in Nonces : Active(positions[m]) => m = n

(* Withdrawals and refunds are not capped (withdraw.rs:84, refund.rs:55)   *)
(* and the runtime may refuse them; it does so in one case only: the last  *)
(* active position would leave penalties below the rent minimum behind.    *)
OnlyDustBlocksPayback ==
    \A n \in Nonces : Active(positions[n]) =>
        LET p == positions[n]
        IN  /\ status = "Open" =>
                  \/ CanDebit(Returned(p))
                  \/ OnlyActive(n) /\ IsDust(penalty_pool + Penalty(p))
            /\ status = "Invalid" =>
                  \/ CanDebit(p.amount)
                  \/ OnlyActive(n) /\ IsDust(penalty_pool)

(* What an unsettled position of a resolved market takes with it: its      *)
(* payout and the fees that its claim will book.                           *)
Owed == [n \in Nonces |->
            IF Active(positions[n])
            THEN LET due == DueTo(positions[n]) IN due.payout + due.fee + due.creator_fee
            ELSE 0]

(* A resolved market can pay everybody: truncating divisions, the penalty  *)
(* pool, fees booked and swept in any order, and claims in any order never *)
(* leave the vault with less than the unswept fees and the unclaimed       *)
(* payouts (claim_payout.rs, collect_fees.rs, claim_creator_fees.rs).      *)
Solvent ==
    status = "Resolved" =>
        vault >= protocol_fee_collected + creator_account.fee_collected
                   + SumUpTo(Owed, MAX_POSITIONS)

(* Nobody on the winning side is due less than the deposit, whatever the   *)
(* dominance was: the branch of compute_winner_payout that scales winners  *)
(* down (math.rs:340-347) is dead, thanks to the safety floor.             *)
WinnerKeepsPrincipal ==
    status = "Resolved" =>
        \A n \in Nonces : Active(positions[n]) /\ IsWinner(positions[n]) =>
            DueTo(positions[n]).payout >= positions[n].amount

(* Of two equal deposits on one side of a resolved market the earlier is   *)
(* due at least as much as the later (entry weights decay), except that    *)
(* the two fees of a market with a creator are truncated separately, and a *)
(* profit larger by a lamport may cost two lamports more in fees.          *)
EarlierIsNoWorse ==
    status = "Resolved" =>
        \A m, n \in Nonces :
            (/\ m < n /\ Active(positions[m]) /\ Active(positions[n])
             /\ positions[m].side = positions[n].side
             /\ positions[m].amount = positions[n].amount)
            => DueTo(positions[m]).payout + (IF CreatorFeeBps = 0 THEN 0 ELSE 1)
                   >= DueTo(positions[n]).payout

(* claim_payout pays less than is due only to leave the rent minimum       *)
(* behind: the cut is at most that minimum, and after a cut nothing above  *)
(* the minimum is left, so that at most one claimant is ever cut.          *)
OnlyRentIsCut ==
    status = "Resolved" =>
        \A n \in Nonces :
            LET p == positions[n]  due == DueTo(p).payout
            IN  (p.live /\ p.claimed /\ p.payout_amount < due) =>
                    (due - p.payout_amount <= MIN_RENT /\ vault <= MIN_RENT)

(* What the vault holds beyond booked fees and unclaimed payouts.          *)
Leftover == vault - protocol_fee_collected - creator_account.fee_collected
                - SumUpTo(Owed, MAX_POSITIONS)

(* Only booked fees can be swept, so what the payouts leave over stays in  *)
(* the vault for good.  If the winning side holds stake, that is a lamport *)
(* for each position and for the split, and what the losers' caps cut off: *)
(* they share at least three tenths of their money, the floor of a weight, *)
(* or have their whole stake back.  Caps for rent leave no more than rent. *)
LeftoverIsBounded ==
    status = "Resolved" /\ pools[outcome.winner - 1] > 0 =>
        LET lost  == LoserPool(TotalDistributable, outcome.winner_payout_share)
            stake == SumPools(pools, config.num_sides) - pools[outcome.winner - 1]
            back  == LesserOf(stake, (lost * MIN_WEIGHT_FLOOR) \div PRECISION)
        IN  \/ vault <= MIN_RENT
            \/ Leftover <= (lost - back) + TotalPositions + 1

(* The widest product of a claim is within 128 bits (at the code's scale   *)
(* if deposits are below 18 million SOL in total).                         *)
StakeFits == total_deposited * total_deposited * PRECISION <= U128_MAX

(* Whoever is due more than the rent minimum can claim, as every winner    *)
(* is: no checked operation of claim_payout overflows, and no claim or     *)
(* sweep of others has left the vault with less than the claim takes.      *)
ClaimIsAccepted ==
    status = "Resolved" /\ StakeFits =>
        \A n \in Nonces :
            LET p == positions[n]  actual == LesserOf(DueTo(p).payout, Available)
            IN  Active(p) /\ (IsWinner(p) \/ DueTo(p).payout > MIN_RENT) =>
                    /\ TotalDistributable <= U64_MAX /\ DueFits(p)
                    /\ DueTo(p).payout > 0 /\ actual > 0 /\ CanDebit(actual)

(* A position account leaves the market only after it was settled, a nonce *)
(* is never used again, and a settlement is final: nothing turns a claimed *)
(* or withdrawn position back, or changes what it was paid.                *)
SettledOnce ==
    [][\A n \in Nonces :
          LET p == positions[n]  q == positions'[n]
          IN  /\ p.live /\ ~ q.live => p.claimed \/ p.withdrawn
              /\ ~ p.live /\ q.live => n = position_count
              /\ p.live /\ q.live /\ ~ Active(p) => q = p]_vars

(* Once a market is resolved what an unsettled position is due no longer   *)
(* depends on what others do: claims, sweeps and closed accounts leave it  *)
(* alone, so the order of claims does not matter.                          *)
DueIsFinal ==
    [][status = "Resolved" =>
          \A n \in Nonces : Active(positions[n]) /\ Active(positions'[n]) =>
              DueTo(positions[n])' = DueTo(positions[n])]_vars

(* The time that is left is less than the lockout takes of the duration,   *)
(* compared without truncation or conversion, also when it is negative.    *)
InLockout ==
    (EndTime - clock) * PRECISION
        < config.resolution_duration * ComputeLockout(pools, config.num_sides, TotalPositions)

(* The lockout is final: although every instruction computes it anew, from *)
(* pools that change until then, nobody deposits or withdraws from the     *)
(* moment it holds until the market closes, and it holds until then, after *)
(* the end of the market too, where the code converts a negative time to   *)
(* an unsigned one (withdraw.rs:52-62).                                    *)
LockoutIsFinal ==
    [][status = "Open" /\ config.enable_lockout /\ InLockout =>
          /\ UNCHANGED <<ledger_vars, counter_vars, penalty_pool, vault>>
          /\ status' = "Open" => InLockout']_vars

(* The winner of a resolved market holds stake, even if the side that was  *)
(* dominant for longest has been withdrawn since: always when resolved by  *)
(* the crank, and always in a binary market.  What is left is the one case *)
(* in which a stake is stuck: the authority names a side that is empty of  *)
(* a market of more than two (admin_resolve.rs:42).                        *)
ResolvedWinnerHasStake ==
    [][/\ status = "Open" /\ status' = "Resolved"
       /\ ResolveMarket \/ config.num_sides = 2
       => pools'[outcome'.winner - 1] > 0]_vars
=============================================================================
