# Chubi: verification of the on-chain programs

This directory specifies the Solana programs of the repository in TLA+, checks
them with TLC on small instances and proves the main results with TLAPS for
every instance. It covers the **escrow** program (`programs/chubi-escrow`, timed
conviction markets) and the **perpetual** program (`programs/chubi-perp`, markets
without an end and with streaming funding).

## 1. The system

| Part | State it keeps | Operations | Modelled in |
|---|---|---|---|
| Escrow market (`state.rs`, `create_market.rs`, `resolve_market.rs`, `admin_resolve.rs`, `invalidate.rs`) | `MarketState`: status, configuration, per-side pools, weighted pools, counts, dominance tracker, penalty pool, booked fees, outcome | create, resolve (anyone, after expiry), force-resolve and invalidate (authority) | `ChubiEscrow` |
| Escrow trading (`deposit.rs`, `withdraw.rs`) | `PositionState` per nonce; the vault PDA's lamports | deposit with slippage guard, withdraw with penalty | `ChubiEscrow` |
| Escrow settlement (`claim_payout.rs`, `refund.rs`, `close_position.rs`, `collect_fees.rs`, `claim_creator_fees.rs`) | claimed and withdrawn flags, booked fees, `CreatorAccount` side-car | claim, refund, close, two fee sweeps | `ChubiEscrow` |
| Escrow math (`math.rs`, `constants.rs`) | none | entry weight, tracker, lockout, winner, TWCD, payouts, penalty | `EscrowMath` |
| Perpetual market (`chubi-perp`: `state.rs`, one file per instruction) | `PerpMarketState`: pools, weighted pools, counts, epoch clock, booked fees; `CreatorAccount`; `PerpPositionState` per nonce; the vault's lamports | create, deposit, crank (anyone, once an epoch), exit, close (authority), two fee sweeps | `ChubiPerp` |
| Perpetual math (`math.rs`, `constants.rs`) | none | entry weight, funding, exit value | `PerpMath` |
| Offline simulator (`sim/perp.ts`, class `PerpSim`) | a copy of the perpetual's accounting | advance, deposit, crank, exit | `PerpSim`, `PerpSimMirror` |
| Depositing clients (as `tests/chubi-escrow.ts` builds a deposit) and the network | what each client waits for; transactions under way | read the market, submit, retry, confirm, give up; delay, duplicate, lose, execute | `DepositClients` |
| Perpetual's tests, deployment, events, errors | - | - | not modelled |

**How they interact.** The two programs share nothing but their style of
arithmetic. A market is one market account (`MarketState` or `PerpMarketState`), one `CreatorAccount`, one
vault and any number of positions; every instruction reads and writes these
accounts directly, and two markets have no account in common. Instructions are serialised
by the runtime and are atomic: a failed `require!`, account constraint, checked
operation or transfer reverts the whole instruction (`Cargo.toml` sets
`overflow-checks = true`, so even an unchecked overflow reverts). What is
concurrent is the *order* in which depositors, the creator, the authority and
an arbitrary crank get their instructions in, with the clock advancing in
between. The program calls out only to the system program's transfer. Outside the
programs, a client reads a market, derives the address of its new position account
from `position_count`, chooses the least weight it accepts, and submits a
transaction that runs later, twice or never.

**What is hard about it.**

- The pools are running totals updated by several instructions, with saturating
  subtraction that would hide a mismatch.
- Dominance is integrated lazily, from a snapshot and a cached `has_both_sides`.
- Many truncating divisions decide who gets what, and claims, protocol sweeps
  and creator sweeps take from one vault in any order, two of them capped by the
  rent minimum and one not.
- The winner comes from the history of the market, the payouts from its present
  stake, and both may have drifted apart by withdrawals, also after expiry.
- The runtime refuses to leave an account non-empty but below the rent minimum.
- An expired market is resolved only if somebody cares to, and until then its
  tracker runs on.
- What a client read may be stale when its deposit runs, and a client that retries
  cannot know whether an earlier attempt will still run.
- In the perpetual, a crank moves lamports between pools and out of the vault,
  while exits are valued at the spot, capped by the vault, and remove a truncated
  value with an exact weight; deposits buy weight at par of principal whatever
  funding has done to the pool.

`PROJECT.json` lists these hazards at their lines with the properties that cover
them.

**What makes each part correct.** Trading: totals equal sums over positions, the
vault holds exactly stake and penalties, dominance is the exact integral, the lockout
once begun is not lifted. Resolution: the winner holds stake, a contested market closes. Settlement:
solvency under any order, winners keep their principal, whoever is due more than the
rent minimum can always claim, each position is settled once, dues are fixed, what
stays in the vault for good is bounded: all in all, the program is a custodian of
stakes (`Custody`). Clients: a request deposits
once, on the terms quoted, and somebody wins each race for a nonce. Perpetual: pools and booked fees
are covered by the vault, a holder gets the share, an exit dilutes nobody,
whoever has a share above the rent minimum can exit, an earlier holder is no worse off
than a later one, funding is bounded by the time elapsed, one step of others costs a
holder a bounded part, and the simulator in which the rates were chosen follows the
program: all in all, the program is a fund held in shares (`ShareFund`).

## 2. Modules

| Module | Role |
|---|---|
| `FixedPoint` | the arithmetic both programs share: saturating subtraction, minima, sums over the first n entries of a function (a recursive function) |
| `EscrowMath` | `math.rs` and `constants.rs`, one operator per function |
| `ChubiEscrow` | the state machine of one market, one action per instruction, and its safety and action properties |
| `DominanceMeter` | abstract specification: what time-weighted dominance promises |
| `EscrowDominance` | `ChubiEscrow` with the refinement mapping to `DominanceMeter`, and what waiting does to the outcome |
| `DominanceHistory` | the same with a history variable: bounds of the integral as it is without the program's rounding |
| `Custody` | abstract specification: a custodian of stakes, without winners, weights or clocks |
| `EscrowCustody` | `ChubiEscrow` with the refinement mapping to `Custody` |
| `DepositClients` | composition: `ChubiEscrow` with clients that read, submit and retry, and a faulty network |
| `EscrowLiveness` | fairness and the liveness properties |
| `DocumentedClaims` | statements of the repository's documents that the code does not keep |
| `MCEscrow`, `MCDominance` | TLC instances: the state constraints of the runs |
| `PerpMath` | the perpetual's `math.rs` and `constants.rs` |
| `ChubiPerp` | the state machine of one perpetual market, and its properties |
| `PerpLiveness` | fairness and the liveness of a closed perpetual |
| `ShareFund` | abstract specification: a fund of two pools held in shares, without epochs, rates or caps |
| `PerpFund` | `ChubiPerp` with the refinement mapping to `ShareFund` |
| `PerpSim` | the simulator's class `PerpSim`, one action per method |
| `PerpSimMirror` | `ChubiPerp` with the mapping of its state to the simulator's |
| `PerpDocumentedClaims` | statements of documents about the perpetual that the code does not keep |
| `MCPerp` | TLC instances of the perpetual |
| `FixedPointTheorems`, `EscrowMathTheorems` | lemmas about the operator modules |
| `ChubiEscrowProofs` | type correctness, the ledger and custody invariants, what the rent rule refuses |
| `EscrowSolvencyProofs` | the arithmetic of a freshly resolved market: what is owed, and what it leaves |
| `EscrowSettlementProofs` | settlement: solvency, principal, leftovers, claims, fairness, finality, resolution |
| `EscrowRefinementProofs` | the two refinements, waiting, the rounding of verdicts, and the clients |
| `ChubiPerpProofs` | the perpetual's arithmetic and type correctness |
| `PerpCustodyProofs` | the perpetual's funding bound, ledger, books, exits, early and late holders, values, losses, the simulator and the refinement of `ShareFund` |

### State and actions against the code

Variables carry the names of the account fields. `config` gathers the fields
that `create_market` fixes (authority, sides, creation time, duration, two
switches); `outcome` those that a resolution sets; `twd` the four fields of the
tracker. `positions[n]` is the account whose seed is nonce `n`; the code's
nonces are `position_count` at the time of the deposit. `vault` is the lamports
of the vault PDA. An account that does not exist is `status = "Uninit"`, or a
position that is not `live`.

| Action | Handler |
|---|---|
| `CreateMarket` | `create_market.rs` |
| `Deposit`, `Withdraw` | `deposit.rs`, `withdraw.rs` (tracker, totals, cache and transfer included) |
| `ResolveMarket`, `AdminResolve` (both through `Finalise`) | `resolve_market.rs`, `admin_resolve.rs` |
| `InvalidateMarket`, `Refund` | `invalidate.rs`, `refund.rs` |
| `ClaimPayout`, `ClosePosition` | `claim_payout.rs`, `close_position.rs` |
| `CollectFees`, `ClaimCreatorFees` | `collect_fees.rs`, `claim_creator_fees.rs` |
| `Tick` | the cluster's clock |

Of `ChubiPerp`, whose variables are the fields of `PerpMarketState` under their
own names, `creator_account`, `positions` and `vault`:

| Action | Handler |
|---|---|
| `CreatePerpMarket` | `create_perp_market.rs` |
| `Deposit` | `deposit.rs` |
| `CrankEpoch` | `crank_epoch.rs` (funding, rebate, epoch clock) |
| `ExitPerpetual` | `exit_perpetual.rs` (value, fees, cap, scaling, closing of the position) |
| `ClosePerpMarket` | `close_market.rs` |
| `CollectFees`, `ClaimCreatorFees` | `collect_fees.rs`, `claim_creator_fees.rs` |
| `Tick` | the cluster's clock |

Every transfer out of a perpetual's vault is capped by what lies above the rent
minimum (`Available`), so the runtime's rent rule refuses none of them and the
model needs no `CanDebit`.

Of `DepositClients`, which composes `ChubiEscrow` with two variables of its own,
`client` (what each account waits for, and a count of its deposits that ran) and
`network` (the transactions that may still run):

| Action | What it stands for |
|---|---|
| `Ask`, `Retry` | a client reads the market and submits; `Quoted` is the transaction it builds (`tests/chubi-escrow.ts`, `depositAs` and `getPositionPDA`) |
| `Confirm`, `GiveUp` | it finds the position account; or none of its transactions can run any more |
| `Land` | a transaction runs: the seeds of the position account must match (`deposit.rs:27-38`), then the whole of `Deposit`; it stays in the network and may run again |
| `Lose` | a transaction is dropped or expires |
| `MarketStep` | what others do meanwhile: creation, time, invalidation, withdrawals, closed accounts |

A retry signs anew what it reads now, so a client's attempts differ in nonce or in
the least weight. How often a client retries and when it gives up is not the
repository's to say and is marked external; the model lets it retry at any moment.

`PerpSim` has the fields of the class as variables and its methods as actions.
`PerpSimMirror` instantiates it over the state of `ChubiPerp`: a step of the program
is compared with the simulator's method at each state reached, so that nothing the
program does in between (caps, sweeps, a close) is left out.

Guards are the `require!`s, the Anchor constraints (owner of a position, authority,
creator), the checked operations that can fail within the bounds, and
`CanDebit`, the system program's rule for a transfer out of the vault.

Numbers: `PRECISION` is `100 * PERCENT` (1,000,000 in the code, `PERCENT =
10000`), so every constant the code states as a share of `PRECISION` scales with
it; basis points are unscaled. Integers are unbounded except where the width can
matter: `total_deposited` and the distributable total against `U64_MAX`
(saturation in `sum_pools`, `checked_add`), and the product in the two payout
formulas against `U128_MAX` (`PartFits`). The perpetual's four rates
(`FUNDING_RATE_BPS`, `CRANKER_REBATE_BPS`, `PROTOCOL_FEE_BPS`, `CREATOR_FEE_BPS`)
are constants of `PerpMath`, because TLC sees only a handful of epochs.

## 3. Model-checking runs

| Run | Question | Result |
|---|---|---|
| `lifecycle` | totals, types, custody, single settlement, a lockout that is final, winner with stake, what the rent rule refuses, and the refinement of `Custody`, over the whole life of a market second by second | holds |
| `settlement` | solvency, principal, fairness between early and late, rent cut, what the payouts leave behind, claims always possible, dues final | holds |
| `three_sides` | solvency and winner with stake when the largest of three pools takes all | holds |
| `dominance` | the lazy tracker implements `DominanceMeter`; what it reads lies between bounds of the integral; a late resolution favours the larger pool only; rounding decides only near ties | holds |
| `liveness` | a contested market closes; every winner, and every loser due more than the rent minimum, is paid; an invalidated market is refunded but for the dust case | holds under `FairSpec` |
| `clients` | a request deposits once, as quoted; of each race for `position_count` somebody wins | holds under `SpecClients` |
| `perp_lifecycle` | books covered by the vault, shares paid, exits accepted, earlier holders no worse, ledger, funding bound, nobody diluted by an exit, loss per step bounded, simulator followed, and the refinement of `ShareFund`, over every order of deposits, cranks, exits, sweeps and a close | holds |
| `perp_wind_down` | after a close, every holder whose share exceeds the rent minimum gets out | holds under `FairSpec` |
| `doc_*` (four) | a statement of a document or comment | violated; see below |

Every property of the passing runs has a mutant in `PROJECT.json`: a plausible
slip in the code (a stale tracker, a full-weight withdrawal, a missing floor, an
uncapped sweep, ...) under which the run finds the property violated. The
mutated operators stand beside the originals, marked *Mutant*; nothing else uses
them.

**Bounds** (all in the `.cfg` files). `MAX_POSITIONS` is 2 to 4: three positions
are the fewest with two on one side and a contested market, so that pro-rata
shares, their truncation and different claim orders occur; the proofs below take
over for more. `Amounts` {100, 300} give pools of ratio 1:1, 1:3, 1:2, 2:3 and
beyond, hence balanced and lopsided markets, odd divisions and fees of zero, one
and several lamports; `lifecycle` has two positions only and takes {100, 1000}, so that
fees of several lamports arise there too. `MIN_RENT` is 89 and `MIN_DEPOSIT_LAMPORTS` 100: the
code's are 890,880 and 1,000,000 lamports, the same ratio, which decides which
transfers the rent rule refuses. `PERCENT` is 1: coarser fractions make
truncation bite more often, not less. `Durations` is 4 or 5 on either side of
`SHORT_DURATION_SECS` = 5: linear and quadratic weights (3 where only the tracker
matters, 2 in `clients`). `ClockSteps` {1} visits
each instant (`lifecycle`, `dominance`, `clients`); {2} (the others) visits start, middle,
end and one instant after expiry, and `MAX_CLOCK` leaves room for it: `Create`
requires the end to lie within. One account (but in `clients`): identities are only ever compared
for equality, to admit a signer, so renaming all accounts to one maps every
behaviour of a market with many accounts to one of this market (anonymous
markets, whose creator is `NoKey`, stay anonymous), and no property looks at who
an account belongs to. `U64_MAX` and `U128_MAX` are
above what two or three such deposits reach, so the saturating and overflowing
branches are not taken in the runs (the proofs do not assume that).
`ClockMatters` drops states that differ only in the time before creation or
after resolution, which no instruction reads; `WideMarkets` keeps, in
`three_sides`, only the markets of three sides without a lockout (the other runs
have the two-sided ones and the lockout).

`dominance` has four positions of 100 lamports: the pools then have totals of up to
four hundred in any split, and `GRAIN` = 12 is a multiple of what each total divides by
(one to four), so that the two bounds of the history variable coincide with the integral
(the proof takes any `GRAIN`). `TradingMarkets` keeps the
binary markets of that run in which nobody closes an account: the tracker depends on
neither. `clients` has two clients and two transactions under way, the fewest with
which clients race each other and a client races its own retry; `TOLERANCE` = 25 is
less than the weight lost in a second of its two-second market, so quotes do go
stale. Its deposits of 2000 lamports leave a penalty above the rent minimum behind, so
that the only position can be withdrawn and closed, after which `position_count` and the
number of open positions differ. With two positions there are two races, each of which
somebody must win. Two clients have an identity each there, as the seeds contain the maker.

The perpetual's instances: up to three positions (two in `perp_wind_down`) of 100
or 400 lamports, so that a side has two holders of different weight and the
sides are level, lopsided or empty. `MIN_RENT` is 4, which is to
`MIN_DEPOSIT_LAMPORTS` = 100 as 890,880 is to 20,000,000 lamports. The reference
window is three epochs in `perp_lifecycle`, whose `MAX_CLOCK` = 4 goes past it, and four in
the others, so weights run from 1.0 to the floor and up to four epochs are cranked or missed. The fees are ten times
the code's (2000 and 500 bps), the rebate four times (2000) and funding a hundred
times (1000): amounts of a few hundred lamports then pay fees and funding of one
to many lamports, and four epochs drift the pools as some hundreds of real,
hourly ones do. `doc_dilution_cap` has smaller amounts
(TLC computes with 32-bit integers) and faster funding still: at the real rate the
same pools are reached within some months of cranks. `doc_sim_mirror` has ten times
the real funding rate: at the real one the same difference needs larger amounts. `MCPerp!ClockMatters` stops the clock before the launch and after the
close, when no instruction reads it.

Deadlock is not checked: a settled market at the last instant has nothing left to
do.

**Fairness** (`EscrowLiveness`). `WF(Tick)`: the cluster's clock advances.
`WF(ResolveMarket)`: resolution is permissionless (`resolve_market.rs:18`), so
any interested party can crank. `WF(ClaimPayout)` and `WF(Refund)` for every maker and
position: a maker who can claim or be refunded does. Nothing is assumed of the authority or the creator, nor
that anybody deposits, withdraws or sweeps. Weak fairness suffices: once enabled,
neither a resolution nor the claim of somebody who is due more than the rent minimum
is disabled except by the event itself or by the market closing; a refund that the
rent rule refuses now (others first) is enabled for good once they have gone.
`DepositClients` assumes of a waiting client that it keeps retrying (`WF(Retry)`), of
a transaction that was replaced or would be refused that it expires
(`WF(ExpireOld)`, blockhashes are short-lived), that while transactions can run one of
them does, whosever it is (`WF` of some `Land`), and that only finitely many of those
that could run are lost. Nothing favours a client: a cluster orders transactions as it
likes and the program keeps no queue, so one client may lose every race, and
`RacesAreWon` promises only that each is lost to a deposit that ran. Each of the four
assumptions is needed. It is not assumed that time passes or that anybody
withdraws. `PerpLiveness` assumes `WF(ExitPerpetual)` for every
maker and position, that is, only that holders who can leave do: an exit needs
nobody else's signature, and no crank, sweep or authority is relied on.

### Where documents and code differ

| Run | Document | Code |
|---|---|---|
| `doc_safety_margin` | `constants.rs:32`: share exceeds the winner fraction by at least 1% | `math.rs:273` lifts it only if it does not exceed it at all |
| `doc_full_refunds` | README.md:68-69: full refunds | the last refund can be refused when a small penalty would remain |
| `doc_dilution_cap` | perp `constants.rs:18-20`: a floor of 0.9 caps the dilution of a deposit at about 10% | once funding has drained a side, a deposit into it is worth less at once, by as much as the pool is below its weights (`math.rs:86`) |
| `doc_sim_mirror` | `sim/perp.ts:108-109`: state transitions match the program 1:1 | it truncates twice and has a dead zone (`sim/perp.ts:58`); `math.rs:54-64` does not. `SimMirrorsMarket` is what does hold: all else agrees, and the funding by a basis point of the loser's pool and a lamport |

Smaller disagreements that reading the code settles, without a run:
`claim_payout.rs:100-102` says that the rent minimum left in the vault is recovered by
`collect_fees` or when the vault is closed, but no instruction closes a vault and
`collect_fees` moves booked fees only (`LeftoverIsBounded` says how much stays); README.md:97
gives the fourth penalty tier as 20%, `math.rs:401` charges 25%; README.md:43 promises
an early exit for a fee, but the last withdrawal of a market can be refused for the
reason the last refund can; `state.rs:42` says penalties benefit winners, while
losers share them too (`claim_payout.rs:66`); `math.rs:225` says that the winner takes
all in a market of several options, where a resolution forced to an empty side pays
nobody. In the perpetual, `constants.rs:41-43` describes the curve 0.3 + 0.7 x^2, the
code has 0.9 + 0.1 x^2; `close_market.rs:19-21` promises holders of a closed market
their fair share and `lib.rs:25` an exit at any time, but an exit is cut by the rent
minimum and refused when nothing is left (`exit_perpetual.rs:84-85`; `HolderGetsShare`
and `ClosedMarketPaysOut` are what does hold).

## 4. Proofs

From `MathAssumption` and `EscrowAssumption` (types of the constants, a non-zero
`PERCENT` and `MIN_DURATION_SECS`, at least two sides, and a minimum deposit
above the rent minimum; `U64_MAX` and `U128_MAX` are any naturals), TLAPS checks,
as theorems of `Spec`:

| Theorem | Statement |
|---|---|
| `TypeCorrect` | `[]TypeOK` |
| `BookkeepingCorrect`, `LedgerCorrect`, `VaultCorrect` | `[]Bookkeeping`, `[]LedgerMatchesPositions`, `[]VaultCovered` |
| `SolvencyCorrect` | `[]Solvent` |
| `PrincipalCorrect` | `[]WinnerKeepsPrincipal` |
| `PaybackCorrect` | `[]OnlyDustBlocksPayback` |
| `RentCutCorrect`, `ClaimCorrect` | `[]OnlyRentIsCut`, `[]ClaimIsAccepted` |
| `LeftoverCorrect` | `[]LeftoverIsBounded` |
| `EarlierCorrect` | `[]EarlierIsNoWorse` |
| `DueCorrect`, `SettledCorrect` | `DueIsFinal`, `SettledOnce` |
| `ResolutionCorrect`, `LockoutCorrect` | `ResolvedWinnerHasStake`, `LockoutIsFinal` |
| `DominanceCorrect`, `WaitingCorrect` | `ImplementsMeter`, `WaitingFavoursLeader` |
| `CustodyCorrect` | `ImplementsCustody` |

with `GrainAssumption` (a positive `GRAIN`) besides, as theorems of `SpecHistory`:

| Theorem | Statement |
|---|---|
| `ReadingCorrect` | `[]ReadingIsBetween` |
| `LeaderCorrect` | `LeaderWins` |

and, with `ClientAssumption` besides, as theorems of `SpecClients`:

| Theorem | Statement |
|---|---|
| `LandsOnceCorrect` | `[]DepositsLandOnce` |
| `QuoteCorrect` | `[]DepositIsAsQuoted` |

The argument:

1. **Sums.** `FixedPointTheorems` derives the step equation of the recursive sum
   by an explicit induction over the naturals and, from it, what changing one
   entry, adding two functions and scaling do to a sum.
2. **Ledger.** `LedgerInv == Bookkeeping /\ LedgerMatchesPositions /\
   VaultCovered` is inductive relative to `TypeOK`. `Bookkeeping` is the
   strengthening: without it a withdrawal's saturating subtraction, a nonce that
   was used before or a saturated `sum_pools` could not be excluded. Each
   instruction changes one position, so each sum moves by that position's
   contribution (`SumsMove`), and the code moves the total by as much.
3. **Arithmetic of a resolution.** `ResolvedFacts` collects what a resolution
   establishes: the totals are the sums, and the winners' share exceeds their
   fraction of the pool or is the whole (the safety floor). From it,
   `WinnersWithinPool` and `LosersWithinPool`: the truncated pro-rata parts of a
   side sum to at most that side's money, and the two sides' money to at most the
   distributable total. Hence `Affordable`: everything owed is within stake and
   penalties, which is the vault at that moment by `VaultCovered`.
4. **Settlement.** `SettlementInv == Solvent /\ WinnerKeepsPrincipal /\
   OnlyRentIsCut` is inductive relative to the above. After resolution the fields
   a due depends on are frozen (`DueFrozen`), so a claim moves its due from
   "owed" to "paid and booked", and a sweep from "booked" to "swept".
   `ClaimIsAccepted` follows: what is owed is in the vault, it exceeds the rent
   minimum (a winner's by `PrincipalCorrect`), and the products fit if the square of
   all deposits does (`StakeFits`).
5. **Leftovers.** From above: truncation leaves less than a lamport a position, and
   the split of the pool another (`PoolsLeaveOne`, `ProRataLeaves`); a loser's part is
   the capped one, or at least the floor of a weight on the lost money for the stake it
   stands for (`LoserGetsShare`). Summed, that bounds what a resolution leaves
   (`FreshLeftover`). `LeftoverInv` keeps the bound or says that the vault is down to
   the rent minimum: sweeps, closes and claims paid in full leave the leftover as it is,
   and a claim that is cut leaves no more than the rent minimum, for good.
6. **Early and late.** `Decaying`: of two live positions the later has no more weight,
   and while deposits are taken none has less than a new one would get. The payout is
   monotone in the weight except where a profit larger by one lamport pays one lamport
   more to each of two fees, which is the lamport that `EarlierIsNoWorse` allows.
7. **Lockout and resolution.** The time left, compared without truncation, is below what
   the lockout takes, so the truncated guard of a deposit or withdrawal fails, or the
   conversion of a negative time does (`LockoutRefuses`); hence the pools stand still, and
   with them the lockout, while the time left only falls (`LockoutTicks`). A side that
   counts a position holds its stake (`CountedSideHolds`), so a winner holds stake if it
   has the largest pool or if the two counted sides are all there are.
8. **Dominance.** Catching up twice is catching up once (the update over an interval
   is linear in its length as long as the pools stand still), and by
   `LedgerMatchesPositions` the cached `has_both_sides` is what the pools say. Each
   step then is one of the meter's. For `WaitingCorrect`, the mean moves towards the
   share of the present pools, so it can cross a half only towards the larger.
9. **Rounding of verdicts.** `ReadingIsBetween` is inductive with the meter's own
   invariant: an interval adds to the tracker a share rounded down, to the history the
   share in parts of `GRAIN` rounded both ways. A verdict divides once more and compares
   with `PRECISION \div 2`, which gives the two parts of `LeaderWins`.
10. **Custody.** Each instruction is mapped to one action: `Finalise` to `Settle`, whose
   dues fit the fund by `SolvencyCorrect`'s invariant; a claim to `Pay`, by `DueFrozen`
   and `OnlyRentIsCut`; withdrawal and refund to `TakeOut` and `ReturnStake`, by
   `VaultCovered`.
11. **Clients.** `SpecClients` implements `Spec` (`ClientsImplement`), so that the
   escrow's invariants are available. The inductive invariant says of each waiting
   client (`WaitsSoundly`) that its deposit ran exactly if its position is at the nonce of
   its last transaction, and that any of its transactions that can still run would
   deposit what it waits for; of any other client (`RestsSoundly`), that none of its can
   run. `NetworkSound` adds that no transaction names a nonce yet to come and, since
   weights fall with time, that none asks for less than a new one would.

For the perpetual, from `PerpMathAssumption` and `PerpAssumption` (rates of at most
`BPS_SCALE`, fees of at most the profit together, a non-zero rent, epoch and
window; any widths):

| Theorem | Statement |
|---|---|
| `PerpTypeCorrect` | `[]TypeOK` |
| `PerpLedgerCorrect`, `BooksCorrect` | `[]LedgerMatchesPositions`, `[]VaultMatchesBooks` |
| `HolderCorrect`, `ExitCorrect` | `[]HolderGetsShare`, `[]ExitIsAccepted` |
| `PerpEarlierCorrect` | `[]EarlierIsNoWorse` |
| `FundingCorrect` | `[]FundingIsBounded` |
| `ValueCorrect`, `LossCorrect` | `ValueFallsOnlyByTrade`, `LossPerStepIsBounded` |
| `MirrorCorrect` | `SimMirrorsMarket` |
| `FundCorrect` | `ImplementsFund` |

1. **Arithmetic** (`ChubiPerpProofs`). Weights stay between floor and `PRECISION`;
   funding is at most an eighth of the rate on the pools, since the product of
   the smaller pool and the difference peaks at a quarter of the total
   (`QuarterIsWorst`); a capped exit's three truncated parts add up to the
   truncated whole but for one lamport (`ScaledParts`).
2. **Funding.** `FundingInv` adds that the pools together never exceed the deposits
   and that `created_at <= last_epoch_at <= clock`. The first also shows that the
   checked sum of the pools in `compute_funding` cannot overflow.
3. **Ledger.** `PerpLedgerInv` adds to the sums that live positions belong to a
   launched market and have nonces below the count. From it `GrossWithinPool`: no
   position is worth more than its side's pool, so that an exit's saturating
   subtractions are exact.
4. **Books.** Each step then takes off the books what it takes out of the vault,
   but for the lamport of an exit; the share of a holder is within a pool that is
   within the vault, which gives `HolderGetsShare` and, as the products of an exit fit if
   the square of all deposits does (`StakeFits`) and what is in the vault or was paid on
   exits was deposited (`MoneyInv`), `ExitIsAccepted`. An earlier position
   of no smaller deposit has no smaller share, and the net value is monotone in the
   share but for a lamport of fees: `EarlierIsNoWorse`.
5. **Values.** What leaves the pool is at most the leaving share's worth
   (`TakenIsShare`), so the pool per weight of those who stay does not fall
   (`ShareOfTheRest`).
6. **Losses.** A deposit moves a side's pool per weight towards one lamport per
   weight of `PRECISION`, so it cannot push a share below its weighted principal; a
   crank takes at most the rate of the loser's pool.
7. **Simulator.** By `PerpLedgerInv` the saturating subtractions of the program are
   exact, as the simulator's plain ones are; `SimFunding` is within a basis point of the
   loser's pool and a lamport below `ComputeFunding`.
8. **Fund.** By the same sums, what the program computes from a stored weighted pool
   is the share's worth among the shares still in (`WorthIsGross`). Then each
   instruction is mapped to one action of `ShareFund`: a deposit to `PutIn`, a crank to
   `Flow` or a stutter, an exit to `Leave`, which needs the exact subtractions of the
   ledger, sweeps to `Sweep` and the close to `Close`.

Only model-checked, not proved: the liveness properties (`ContestedMarketCloses`,
`ClaimantsArePaid`, `RefundsArePaid`, `RacesAreWon`, `ClosedMarketPaysOut`), which are
out of the prover's reach, as ENABLED is (their safety halves, that a claim or an exit
is accepted whenever it is due, are `ClaimCorrect` and `ExitCorrect`); and the findings
of the `doc_*` runs. That `SumUpTo` is what its recursive definition says is proved; no other recursion occurs.

## 5. Not modelled, and why

- Lamports sent to the vault from outside the program: they can only add to it.
  All solvency results are unaffected; `VaultCovered` would become an inequality.
- The rent state of a fee recipient, which could refuse a very small sweep; the
  maker and the creator sign with funded accounts.
- `market_id`, bumps, PDA seeds, `resolved_at`, `created_at` of a position:
  written once, never read by the logic. Ownership and seed checks by Anchor are
  reduced to the identity of the maker, the authority and the creator.
- Legacy markets without a side-car pay no creator fee, like anonymous ones.
- Overflow of `position_count`, counts and `total_claimed` (not reachable within
  the lamports that exist); of the fee products, which fit 128 bits.
- Of the perpetual: the recipient's rent state in `collect_fees`, `exited` and
  `exit_payout` (fields of an account that is closed in the same instruction).
- Of the simulator: `cumulativeRebate`, the list of closed positions, `pnlBps`,
  `previewGross` and `snapshot`, which only report; its scenarios, which call the modelled
  methods in a fixed order. A zero-value exit, which the program refuses and the
  simulator lets through, is no step of the program and hence not compared.
- Payouts while clients deposit: a market that takes no deposits any more is one case to
  them, and `DepositClients` has it by the authority's invalidation.
- A client that does not read consistently: `Retry` sees in one snapshot that the
  position is absent and what `position_count` is. One that looked for its position
  first and read the count after its earlier transaction had run would sign for the next
  nonce and could deposit twice; `DepositsLandOnce` is about clients that do not.
- What becomes of the stake of a market of more than two sides that the authority
  resolves to an empty side: nobody is due any, no instruction takes it out, and no
  property objects (`ResolvedWinnerHasStake` says that there is no other such case).
- The perpetual's clients: its deposit takes no bound, so there is nothing quoted to
  keep; `LossPerStepIsBounded` says what a stale view can cost.
- Transactions of several instructions, and programs that call these ones.
- Events and error codes.

## 6. Plan

Done: both programs' math and state machines with their safety, action and liveness
runs; the tracker against the ideal meter, the escrow against an abstract custody and
the perpetual against an abstract fund of shares, checked and proved; clients over a
faulty network; the simulator against the perpetual; the divergences from documents;
and proofs of every safety and action property of the passing runs.

What further work could add:

1. Runs at the edge of `U64_MAX` and `U128_MAX` (the proofs hold for any widths, the
   runs never reach them).
2. Clients of the perpetual, whose deposit takes a nonce but no bound.
3. Liveness of small holders and of the last lamports: the code keeps none today.
