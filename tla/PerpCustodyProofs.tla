------------------------- MODULE PerpCustodyProofs -------------------------
(***************************************************************************)
(* The custody of a perpetual market.  The weighted pools are the sums of  *)
(* what the live positions contribute, so that no position is worth more   *)
(* than its side's pool: an exit's saturating subtractions then never      *)
(* saturate, what an exit or a crank takes off the books is what it pays   *)
(* out of the vault, and what is left to those who stay is no less than    *)
(* before.  Hence exits are accepted, those who came first are no worse,   *)
(* and the market is a fund of shares.  Funding needs only that the pools  *)
(* never exceed the deposits.                                              *)
(***************************************************************************)
EXTENDS ChubiPerpProofs, PerpSimMirror, PerpFund

(* The pools hold no more than was deposited, and the clocks are ordered.  *)
FundingInv ==
    /\ created_at <= last_epoch_at /\ last_epoch_at <= clock
    /\ pools[0] + pools[1] <= total_deposited
    /\ FundingIsBounded

(* The bound of FundingIsBounded for given values.                         *)
FundingBound(moved, epochs, deposited) ==
    8 * BPS_SCALE * moved * EPOCH_SECS <= epochs * FUNDING_RATE_BPS * deposited

(* The bound stays when deposits are added, and when an epoch is added     *)
(* that moves an eighth of the rate of the deposits at most.               *)
LEMMA BoundGrows ==
    ASSUME NEW moved \in Nat, NEW epochs \in Nat, NEW deposited \in Nat, NEW more \in Nat,
           deposited <= more, FundingBound(moved, epochs, deposited)
    PROVE  FundingBound(moved, epochs, more)
<1>1. epochs * FUNDING_RATE_BPS \in Nat
  BY PerpMathAssumption, ProductNat
<1>2. (epochs * FUNDING_RATE_BPS) * deposited <= (epochs * FUNDING_RATE_BPS) * more
  BY <1>1, ProductMonotone
<1>3. /\ (epochs * FUNDING_RATE_BPS) * deposited \in Nat
      /\ (epochs * FUNDING_RATE_BPS) * more \in Nat
      /\ 8 * 10000 * moved * EPOCH_SECS \in Nat
  BY <1>1, PerpAssumption, ProductNat
<1> QED
  BY <1>2, <1>3 DEF FundingBound, BPS_SCALE

LEMMA BoundStep ==
    ASSUME NEW moved \in Nat, NEW epochs \in Nat, NEW deposited \in Nat,
           NEW f \in Nat, NEW later \in Nat,
           FundingBound(moved, epochs, deposited),
           8 * BPS_SCALE * f <= FUNDING_RATE_BPS * deposited,
           later - epochs >= EPOCH_SECS
    PROVE  FundingBound(moved + f, later, deposited)
<1> DEFINE e == EPOCH_SECS
           r == FUNDING_RATE_BPS * deposited
<1>1. e \in Nat /\ e > 0 /\ r \in Nat /\ FUNDING_RATE_BPS \in Nat
  BY PerpAssumption, PerpMathAssumption, ProductNat
<1>2. (80000 * moved) * e <= epochs * r
  BY <1>1 DEF FundingBound, BPS_SCALE
<1>3. (80000 * f) * e <= r * e
  <2>1. 80000 * f \in Nat /\ 80000 * f <= r
    BY DEF BPS_SCALE
  <2> HIDE DEF r
  <2> QED
    BY <1>1, <2>1, ProductMonotone
<1>4. (epochs + e) * r <= later * r
  <2> HIDE DEF r, e
  <2>1. epochs + e <= later /\ epochs + e \in Nat
    BY <1>1 DEF e
  <2> QED
    BY <1>1, <2>1, ProductMonotone
<1>5. /\ (epochs + e) * r = epochs * r + r * e
      /\ (80000 * (moved + f)) * e = (80000 * moved) * e + (80000 * f) * e
  <2> HIDE DEF r
  <2> QED
    BY <1>1
<1>6. /\ epochs * r \in Nat /\ r * e \in Nat /\ later * r \in Nat
      /\ (80000 * moved) * e \in Nat /\ (80000 * f) * e \in Nat
  BY <1>1, ProductNat
<1>7. (80000 * (moved + f)) * e <= later * r
  <2> HIDE DEF r, e
  <2> QED
    BY <1>2, <1>3, <1>4, <1>5, <1>6
<1> QED
  BY <1>1, <1>7 DEF FundingBound, BPS_SCALE

LEMMA FundingInit == Init => FundingInv
<1> SUFFICES ASSUME Init PROVE FundingInv
  OBVIOUS
<1>1. /\ created_at = 0 /\ last_epoch_at = 0 /\ clock = 1 /\ cumulative_funding_paid = 0
      /\ total_deposited = 0 /\ pools[0] = 0 /\ pools[1] = 0
  BY PerpScale DEF Init, Zeros
<1>2. FundingBound(0, 0, 0)
  BY PerpAssumption, PerpMathAssumption DEF FundingBound, BPS_SCALE
<1> QED
  BY <1>1, <1>2 DEF FundingInv, FundingIsBounded, FundingBound

(* An exit leaves the pools no larger.                                     *)
LEMMA ExitPoolsFall ==
    ASSUME TypeOK, NEW maker \in Accounts, NEW n \in Nonces, ExitPerpetual(maker, n)
    PROVE  pools'[0] <= pools[0] /\ pools'[1] <= pools[1]
<1> DEFINE p == positions[n]
           paid == Paid(p, Gross(p))
<1>1. p.side \in Sides /\ paid \in Nat
  BY ExitTypes
<1>2. pools' = [pools EXCEPT ![p.side] = SatSub(@, paid)]
  BY DEF ExitPerpetual
<1> HIDE DEF p, paid
<1>3. pools \in [Sides -> Nat] /\ 0 \in Sides /\ 1 \in Sides
  BY PerpScale DEF TypeOK
<1> QED
  BY <1>1, <1>2, <1>3 DEF SatSub

LEMMA FundingStep ==
    ASSUME TypeOK, TypeOK', FundingInv, [Next]_vars
    PROVE  FundingInv'
<1> USE DEF FundingInv
<1>0. /\ pools[0] \in Nat /\ pools[1] \in Nat /\ total_deposited \in Nat
      /\ created_at \in Nat /\ last_epoch_at \in Nat /\ clock \in Nat
      /\ cumulative_funding_paid \in Nat /\ last_epoch_at - created_at \in Nat
  BY PerpScale DEF TypeOK
<1>1. CASE Tick
  BY <1>0, <1>1 DEF Tick, FundingIsBounded, launch_vars, epoch_vars, entry_vars
<1>2. ASSUME NEW maker \in Accounts, NEW side \in Sides, NEW amount \in Amounts,
             Deposit(maker, side, amount)
      PROVE  FundingInv'
  <2>1. amount \in Nat
    BY PerpAssumption
  <2>2. pools'[0] + pools'[1] = pools[0] + pools[1] + amount
    <3>1. pools' = [pools EXCEPT ![side] = @ + amount]
      BY <1>2 DEF Deposit
    <3>2. pools \in [Sides -> Nat] /\ 0 \in Sides /\ 1 \in Sides /\ (side = 0 \/ side = 1)
      BY PerpScale DEF TypeOK
    <3> QED
      BY <2>1, <3>1, <3>2
  <2>3. /\ total_deposited' = total_deposited + amount /\ total_deposited' \in Nat
        /\ created_at' = created_at /\ last_epoch_at' = last_epoch_at /\ clock' = clock
        /\ cumulative_funding_paid' = cumulative_funding_paid
    BY <1>0, <1>2, <2>1 DEF Deposit, launch_vars, epoch_vars
  <2>4. FundingBound(cumulative_funding_paid, last_epoch_at - created_at, total_deposited')
    <3>1. FundingBound(cumulative_funding_paid, last_epoch_at - created_at, total_deposited)
      BY DEF FundingIsBounded, FundingBound
    <3> QED
      BY <1>0, <2>1, <2>3, <3>1, BoundGrows
  <2> QED
    BY <1>0, <2>1, <2>2, <2>3, <2>4 DEF FundingIsBounded, FundingBound
<1>3. ASSUME NEW maker \in Accounts, NEW n \in Nonces, ExitPerpetual(maker, n)
      PROVE  FundingInv'
  <2>1. pools'[0] <= pools[0] /\ pools'[1] <= pools[1]
    BY <1>3, ExitPoolsFall
  <2>2. pools'[0] \in Nat /\ pools'[1] \in Nat
    BY PerpScale DEF TypeOK
  <2>3. /\ total_deposited' = total_deposited /\ clock' = clock
        /\ created_at' = created_at /\ last_epoch_at' = last_epoch_at
        /\ cumulative_funding_paid' = cumulative_funding_paid
    BY <1>3 DEF ExitPerpetual, launch_vars, epoch_vars, entry_vars
  <2> QED
    BY <1>0, <2>1, <2>2, <2>3 DEF FundingIsBounded
<1>4. CASE CrankEpoch
  <2> DEFINE funding == ComputeFunding(pools)
             winner  == FundingWinner(pools)
             rebate  == LesserOf(CrankerRebate(funding), Available)
             credit  == Credit(funding, rebate)
  <2>1. /\ winner \in Sides /\ 1 - winner \in Sides /\ winner # 1 - winner /\ funding \in Nat
        /\ 8 * BPS_SCALE * funding <= FUNDING_RATE_BPS * (pools[0] + pools[1])
    BY FundingFacts DEF TypeOK
  <2>2. credit \in Nat /\ credit <= funding
    BY <2>1, CrankFacts
  <2>3. /\ funding <= pools[1 - winner]
        /\ pools' = [pools EXCEPT ![1 - winner] = @ - funding, ![winner] = @ + credit]
        /\ cumulative_funding_paid' = cumulative_funding_paid + funding
        /\ last_epoch_at' = clock /\ clock' = clock /\ created_at' = created_at
        /\ total_deposited' = total_deposited /\ clock - last_epoch_at >= EPOCH_SECS
    BY <1>4 DEF CrankEpoch, EpochElapsed, launch_vars, entry_vars
  <2> HIDE DEF funding, winner, rebate, credit
  <2>4. pools'[0] + pools'[1] <= pools[0] + pools[1]
    <3>1. /\ pools \in [Sides -> Nat] /\ 0 \in Sides /\ 1 \in Sides
          /\ (winner = 0 \/ winner = 1)
      BY <2>1, PerpScale DEF TypeOK
    <3>2. CASE winner = 0
      BY <2>1, <2>2, <2>3, <3>1, <3>2
    <3>3. CASE winner = 1
      BY <2>1, <2>2, <2>3, <3>1, <3>3
    <3> QED
      BY <3>1, <3>2, <3>3
  <2>5. FundingBound(cumulative_funding_paid + funding, clock - created_at, total_deposited)
    <3>1. FundingBound(cumulative_funding_paid, last_epoch_at - created_at, total_deposited)
      BY DEF FundingIsBounded, FundingBound
    <3>2. FUNDING_RATE_BPS * (pools[0] + pools[1]) <= FUNDING_RATE_BPS * total_deposited
      <4>1. FUNDING_RATE_BPS \in Nat /\ pools[0] + pools[1] \in Nat
        BY <1>0, PerpMathAssumption
      <4> QED
        BY <1>0, <4>1, ProductMonotone
    <3>3. 8 * BPS_SCALE * funding <= FUNDING_RATE_BPS * total_deposited
      <4>1. /\ FUNDING_RATE_BPS * (pools[0] + pools[1]) \in Nat
            /\ FUNDING_RATE_BPS * total_deposited \in Nat
        BY <1>0, PerpMathAssumption, ProductNat
      <4> QED
        BY <2>1, <3>2, <4>1 DEF BPS_SCALE
    <3>4. /\ clock - created_at \in Nat
          /\ (clock - created_at) - (last_epoch_at - created_at) >= EPOCH_SECS
      BY <1>0, <2>3, PerpAssumption
    <3> QED
      BY <1>0, <2>1, <3>1, <3>3, <3>4, BoundStep
  <2>6. pools'[0] \in Nat /\ pools'[1] \in Nat
    BY PerpScale DEF TypeOK
  <2> QED
    BY <1>0, <2>3, <2>4, <2>5, <2>6, PerpAssumption DEF FundingIsBounded, FundingBound
<1>5. ASSUME NEW signer \in Accounts, NEW creator \in Accounts,
             CreatePerpMarket(signer, creator)
      PROVE  FundingInv'
  <2>1. /\ created_at' = clock /\ last_epoch_at' = clock /\ clock' = clock
        /\ cumulative_funding_paid' = 0 /\ total_deposited' = 0
        /\ pools'[0] = 0 /\ pools'[1] = 0
    BY <1>5, PerpScale DEF CreatePerpMarket, Zeros
  <2>2. FundingBound(0, 0, 0) /\ clock - clock = 0
    BY <1>0, PerpAssumption, PerpMathAssumption DEF FundingBound, BPS_SCALE
  <2> QED
    BY <1>0, <2>1, <2>2 DEF FundingIsBounded, FundingBound
<1>6. ASSUME NEW signer \in Accounts,
             ClosePerpMarket(signer) \/ CollectFees(signer) \/ ClaimCreatorFees(signer)
      PROVE  FundingInv'
  BY <1>6
  DEF ClosePerpMarket, CollectFees, ClaimCreatorFees, FundingIsBounded, launch_vars,
      epoch_vars, entry_vars
<1>7. CASE UNCHANGED vars
  BY <1>7 DEF vars, FundingIsBounded, launch_vars, epoch_vars, entry_vars
<1> QED
  BY <1>1, <1>2, <1>3, <1>4, <1>5, <1>6, <1>7 DEF Next, MakerStep, AuthorityStep

(* Over the life of a market the crank moves at most an eighth of the base *)
(* rate on all deposits for each epoch elapsed, however often or late it   *)
(* is called (crank_epoch.rs:39-43, 95).                                   *)
THEOREM FundingCorrect == Spec => []FundingIsBounded
<1>1. TypeOK /\ TypeOK' /\ FundingInv /\ [Next]_vars => FundingInv'
  BY FundingStep
<1>2. FundingInv => FundingIsBounded
  BY DEF FundingInv
<1> QED
  BY <1>1, <1>2, FundingInit, PerpTypeCorrect, PTL DEF Spec

-----------------------------------------------------------------------------
(* What one position contributes to the sums.                              *)
WeightOf(p, s) == IF LiveOn(p, s) THEN p.amount * p.entry_weight ELSE 0
CountOf(p, s)  == IF LiveOn(p, s) THEN 1 ELSE 0

(* A sum over the nonces moves with the one entry that changes.            *)
LEMMA PerpEntryChange ==
    ASSUME NEW f \in [Nonces -> Nat], NEW g \in [Nonces -> Nat], NEW n \in Nonces,
           \A m \in Nonces : m # n => g[m] = f[m]
    PROVE  /\ f[n] <= SumUpTo(f, MAX_POSITIONS)
           /\ SumUpTo(g, MAX_POSITIONS) = SumUpTo(f, MAX_POSITIONS) + (g[n] - f[n])
<1>1. MAX_POSITIONS \in Nat /\ MAX_POSITIONS \in 0 .. MAX_POSITIONS
  BY PerpAssumption
<1>2. /\ f \in [0 .. (MAX_POSITIONS - 1) -> Nat] /\ f \in [0 .. (MAX_POSITIONS - 1) -> Int]
      /\ g \in [0 .. (MAX_POSITIONS - 1) -> Int] /\ n \in 0 .. (MAX_POSITIONS - 1)
      /\ \A m \in 0 .. (MAX_POSITIONS - 1) : m # n => g[m] = f[m]
  BY DEF Nonces
<1>3. f[n] <= SumUpTo(f, MAX_POSITIONS)
  BY <1>1, <1>2, SumUpToBoundsEntry
<1>4. \A k \in 0 .. MAX_POSITIONS :
          SumUpTo(g, k) = SumUpTo(f, k) + IF k <= n THEN 0 ELSE g[n] - f[n]
  BY <1>1, <1>2, SumUpToUpdate
<1>5. ~ (MAX_POSITIONS <= n)
  BY <1>1, <1>2
<1>6. SumUpTo(g, MAX_POSITIONS) = SumUpTo(f, MAX_POSITIONS) + (g[n] - f[n])
  BY <1>1, <1>4, <1>5
<1> QED
  BY <1>3, <1>6

LEMMA PerpSummandTypes ==
    ASSUME NEW ps \in [Nonces -> PositionType], NEW s \in Sides
    PROVE  /\ WeightOn(ps, s) \in [Nonces -> Nat] /\ CountOn(ps, s) \in [Nonces -> Nat]
           /\ \A n \in Nonces : /\ WeightOn(ps, s)[n] = WeightOf(ps[n], s)
                                /\ CountOn(ps, s)[n] = CountOf(ps[n], s)
                                /\ WeightOf(ps[n], s) \in Nat
<1>1. \A n \in Nonces : ps[n].amount * ps[n].entry_weight \in Nat
  <2> TAKE n \in Nonces
  <2>1. ps[n].amount \in Nat /\ ps[n].entry_weight \in Nat
    BY PerpScale DEF PositionType, Weights
  <2> QED
    BY <2>1, ProductNat
<1> QED
  BY <1>1 DEF WeightOn, CountOn, WeightOf, CountOf

(* Sums of naturals are naturals, and without live positions they are 0.   *)
LEMMA PerpSums ==
    ASSUME NEW f \in [Nonces -> Nat]
    PROVE  /\ SumUpTo(f, MAX_POSITIONS) \in Nat
           /\ (\A n \in Nonces : f[n] = 0) => SumUpTo(f, MAX_POSITIONS) = 0
<1>1. MAX_POSITIONS \in Nat /\ MAX_POSITIONS \in 0 .. MAX_POSITIONS
  BY PerpAssumption
<1>2. /\ f \in [0 .. (MAX_POSITIONS - 1) -> Nat] /\ f \in [0 .. (MAX_POSITIONS - 1) -> Int]
      /\ \A i \in 0 .. (MAX_POSITIONS - 1) : f[i] \in Nat
  BY DEF Nonces
<1>3. SumUpTo(f, MAX_POSITIONS) \in Nat
  BY <1>1, <1>2, SumUpToNat
<1>4. ASSUME \A n \in Nonces : f[n] = 0
      PROVE  SumUpTo(f, MAX_POSITIONS) = 0
  <2>1. \A i \in 0 .. (MAX_POSITIONS - 1) : f[i] = f[i] + f[i]
    BY <1>4 DEF Nonces
  <2>2. \A k \in 0 .. MAX_POSITIONS : SumUpTo(f, k) = SumUpTo(f, k) + SumUpTo(f, k)
    BY <1>1, <1>2, <2>1, SumUpToAdd
  <2>3. \A x \in Nat : x = x + x => x = 0
    OBVIOUS
  <2> QED
    BY <1>1, <1>3, <2>2, <2>3
<1> QED
  BY <1>3, <1>4

(* If one position changes, the sums move by the change of what it         *)
(* contributes; no contribution exceeds the sum.                           *)
LEMMA PerpSumsMove ==
    ASSUME NEW ps \in [Nonces -> PositionType], NEW qs \in [Nonces -> PositionType],
           NEW n \in Nonces, \A m \in Nonces : m # n => qs[m] = ps[m],
           NEW s \in Sides
    PROVE  /\ SumUpTo(WeightOn(qs, s), MAX_POSITIONS) =
                  SumUpTo(WeightOn(ps, s), MAX_POSITIONS)
                      + (WeightOf(qs[n], s) - WeightOf(ps[n], s))
           /\ SumUpTo(CountOn(qs, s), MAX_POSITIONS) =
                  SumUpTo(CountOn(ps, s), MAX_POSITIONS)
                      + (CountOf(qs[n], s) - CountOf(ps[n], s))
           /\ WeightOf(ps[n], s) <= SumUpTo(WeightOn(ps, s), MAX_POSITIONS)
           /\ CountOf(ps[n], s) <= SumUpTo(CountOn(ps, s), MAX_POSITIONS)
<1>1. /\ WeightOn(ps, s) \in [Nonces -> Nat] /\ CountOn(ps, s) \in [Nonces -> Nat]
      /\ WeightOn(qs, s) \in [Nonces -> Nat] /\ CountOn(qs, s) \in [Nonces -> Nat]
      /\ WeightOn(ps, s)[n] = WeightOf(ps[n], s) /\ CountOn(ps, s)[n] = CountOf(ps[n], s)
      /\ WeightOn(qs, s)[n] = WeightOf(qs[n], s) /\ CountOn(qs, s)[n] = CountOf(qs[n], s)
  BY PerpSummandTypes
<1>2. \A m \in Nonces : m # n => /\ WeightOn(qs, s)[m] = WeightOn(ps, s)[m]
                                 /\ CountOn(qs, s)[m] = CountOn(ps, s)[m]
  BY DEF WeightOn, CountOn
<1>3. /\ WeightOf(ps[n], s) <= SumUpTo(WeightOn(ps, s), MAX_POSITIONS)
      /\ SumUpTo(WeightOn(qs, s), MAX_POSITIONS) =
             SumUpTo(WeightOn(ps, s), MAX_POSITIONS) + (WeightOf(qs[n], s) - WeightOf(ps[n], s))
  BY <1>1, <1>2, PerpEntryChange
<1>4. /\ CountOf(ps[n], s) <= SumUpTo(CountOn(ps, s), MAX_POSITIONS)
      /\ SumUpTo(CountOn(qs, s), MAX_POSITIONS) =
             SumUpTo(CountOn(ps, s), MAX_POSITIONS) + (CountOf(qs[n], s) - CountOf(ps[n], s))
  BY <1>1, <1>2, PerpEntryChange
<1> QED
  BY <1>3, <1>4

-----------------------------------------------------------------------------
(* Positions belong to a launched market and have nonces below its count;  *)
(* before the launch the vault is empty.                                   *)
PerpBookkeeping ==
    /\ \A n \in Nonces : positions[n].live => launched /\ n < position_count
    /\ ~ launched => vault = 0 /\ ~ is_closed

PerpLedgerInv == PerpBookkeeping /\ LedgerMatchesPositions

(* No live position is worth more than its side's pool.                    *)
LEMMA GrossWithinPool ==
    ASSUME TypeOK, PerpLedgerInv, NEW n \in Nonces, positions[n].live
    PROVE  LET p == positions[n]
           IN  /\ p.side \in Sides
               /\ p.amount * p.entry_weight \in Nat
               /\ p.amount * p.entry_weight <= weighted_pools[p.side]
               /\ side_position_counts[p.side] >= 1
               /\ Gross(p) \in Nat /\ Gross(p) <= pools[p.side]
<1> DEFINE p == positions[n]
           share == p.amount * p.entry_weight
<1>1. p.side \in Sides /\ share \in Nat /\ Gross(p) \in Nat
  BY ExitTypes
<1>2. /\ pools[p.side] \in Nat /\ weighted_pools[p.side] \in Nat
      /\ side_position_counts[p.side] \in Nat
  BY <1>1 DEF TypeOK
<1>3. share <= weighted_pools[p.side] /\ side_position_counts[p.side] >= 1
  <2>1. WeightOf(p, p.side) = share /\ CountOf(p, p.side) = 1
    BY DEF WeightOf, CountOf, LiveOn
  <2>2. /\ WeightOf(p, p.side) <= SumUpTo(WeightOn(positions, p.side), MAX_POSITIONS)
        /\ CountOf(p, p.side) <= SumUpTo(CountOn(positions, p.side), MAX_POSITIONS)
    BY <1>1, PerpSumsMove DEF TypeOK
  <2> QED
    BY <1>1, <1>2, <2>1, <2>2 DEF PerpLedgerInv, LedgerMatchesPositions
<1>4. Gross(p) <= pools[p.side]
  <2> DEFINE pool == pools[p.side]
             weighted == weighted_pools[p.side]
  <2>1. Gross(p) = IF weighted = 0 THEN 0 ELSE (share * pool) \div weighted
    BY DEF Gross, ComputeExitValue
  <2>2. pool \in Nat /\ weighted \in Nat /\ share <= weighted
    BY <1>2, <1>3
  <2> HIDE DEF share, pool, weighted, p
  <2>3. share * pool \in Nat /\ share * pool <= pool * weighted
    <3>1. share * pool <= weighted * pool
      BY <1>1, <2>2, ProductMonotone DEF p, share
    <3> QED
      BY <1>1, <2>2, <3>1, ProductNat DEF p, share
  <2>4. weighted # 0 => (share * pool) \div weighted <= pool
    BY <2>2, <2>3, DivMonotone
  <2> QED
    BY <2>1, <2>2, <2>4 DEF pool
<1> QED
  BY <1>1, <1>3, <1>4

LEMMA PerpLedgerInit == Init => PerpLedgerInv
<1> SUFFICES ASSUME Init PROVE PerpLedgerInv
  OBVIOUS
<1>1. positions \in [Nonces -> PositionType]
  BY PerpInitType DEF TypeOK
<1>2. \A n \in Nonces : ~ positions[n].live
  BY DEF Init, NoPosition
<1>3. ASSUME NEW s \in Sides
      PROVE  /\ SumUpTo(WeightOn(positions, s), MAX_POSITIONS) = 0
             /\ SumUpTo(CountOn(positions, s), MAX_POSITIONS) = 0
  <2>1. /\ WeightOn(positions, s) \in [Nonces -> Nat] /\ CountOn(positions, s) \in [Nonces -> Nat]
        /\ \A n \in Nonces : WeightOn(positions, s)[n] = 0 /\ CountOn(positions, s)[n] = 0
    BY <1>1, <1>2, PerpSummandTypes DEF WeightOf, CountOf, LiveOn
  <2> QED
    BY <2>1, PerpSums
<1>4. LedgerMatchesPositions
  BY <1>3 DEF Init, Zeros, LedgerMatchesPositions
<1> QED
  BY <1>2, <1>4 DEF Init, PerpLedgerInv, PerpBookkeeping

(* Steps that leave the positions and the shares alone.                    *)
LEMMA PerpLedgerFrame ==
    ASSUME PerpLedgerInv, UNCHANGED <<positions, weighted_pools, side_position_counts>>,
           launched' = launched, position_count' = position_count,
           launched \/ (vault' = vault /\ is_closed' = is_closed)
    PROVE  PerpLedgerInv'
BY DEF PerpLedgerInv, PerpBookkeeping, LedgerMatchesPositions

LEMMA PerpCreateLedger ==
    ASSUME TypeOK, PerpLedgerInv, NEW signer \in Accounts, NEW creator \in Accounts,
           CreatePerpMarket(signer, creator)
    PROVE  PerpLedgerInv'
<1>1. \A n \in Nonces : ~ positions[n].live
  BY DEF CreatePerpMarket, PerpLedgerInv, PerpBookkeeping
<1>2. ASSUME NEW s \in Sides
      PROVE  /\ SumUpTo(WeightOn(positions, s), MAX_POSITIONS) = 0
             /\ SumUpTo(CountOn(positions, s), MAX_POSITIONS) = 0
  <2>1. /\ WeightOn(positions, s) \in [Nonces -> Nat] /\ CountOn(positions, s) \in [Nonces -> Nat]
        /\ \A n \in Nonces : WeightOn(positions, s)[n] = 0 /\ CountOn(positions, s)[n] = 0
    BY <1>1, PerpSummandTypes DEF TypeOK, WeightOf, CountOf, LiveOn
  <2> QED
    BY <2>1, PerpSums
<1>3. /\ positions' = positions /\ weighted_pools' = Zeros /\ side_position_counts' = Zeros
      /\ launched' = TRUE
  BY DEF CreatePerpMarket
<1>4. LedgerMatchesPositions'
  BY <1>2, <1>3 DEF Zeros, LedgerMatchesPositions
<1> QED
  BY <1>1, <1>3, <1>4 DEF PerpLedgerInv, PerpBookkeeping

LEMMA PerpDepositLedger ==
    ASSUME TypeOK, TypeOK', PerpLedgerInv,
           NEW maker \in Accounts, NEW side \in Sides, NEW amount \in Amounts,
           Deposit(maker, side, amount)
    PROVE  PerpLedgerInv'
<1> DEFINE weight == ComputeEntryWeight(clock - created_at)
           n == position_count
           p == [live |-> TRUE, maker |-> maker, side |-> side, amount |-> amount,
                 entry_weight |-> weight]
<1>1. n \in Nonces /\ n \in Nat /\ ~ positions[n].live
  <2>1. n \in Nonces /\ n \in Nat
    BY PerpAssumption DEF Deposit, TypeOK, Nonces
  <2> QED
    BY <2>1 DEF PerpLedgerInv, PerpBookkeeping
<1>2. /\ positions' = [positions EXCEPT ![n] = p]
      /\ weighted_pools' = [weighted_pools EXCEPT ![side] = @ + amount * weight]
      /\ side_position_counts' = [side_position_counts EXCEPT ![side] = @ + 1]
      /\ position_count' = n + 1 /\ launched /\ launched' = launched
  BY DEF Deposit, launch_vars
<1>3. p.live /\ p.side = side /\ p.amount * p.entry_weight = amount * weight
  OBVIOUS
<1> HIDE DEF p, n, weight
<1>4. /\ positions \in [Nonces -> PositionType] /\ positions' \in [Nonces -> PositionType]
      /\ positions'[n] = p /\ \A m \in Nonces : m # n => positions'[m] = positions[m]
  BY <1>1, <1>2 DEF TypeOK
<1>5. ASSUME NEW s \in Sides
      PROVE  /\ weighted_pools'[s] = SumUpTo(WeightOn(positions, s)', MAX_POSITIONS)
             /\ side_position_counts'[s] = SumUpTo(CountOn(positions, s)', MAX_POSITIONS)
  <2>1. /\ SumUpTo(WeightOn(positions', s), MAX_POSITIONS) =
               weighted_pools[s] + (WeightOf(p, s) - WeightOf(positions[n], s))
        /\ SumUpTo(CountOn(positions', s), MAX_POSITIONS) =
               side_position_counts[s] + (CountOf(p, s) - CountOf(positions[n], s))
    BY <1>1, <1>4, PerpSumsMove DEF PerpLedgerInv, LedgerMatchesPositions
  <2>2. WeightOf(positions[n], s) = 0 /\ CountOf(positions[n], s) = 0
    BY <1>1 DEF WeightOf, CountOf, LiveOn
  <2>3. /\ WeightOf(p, s) = (IF s = side THEN amount * weight ELSE 0)
        /\ CountOf(p, s) = (IF s = side THEN 1 ELSE 0)
    BY <1>3 DEF WeightOf, CountOf, LiveOn
  <2>4. /\ weighted_pools \in [Sides -> Nat] /\ weighted_pools' \in [Sides -> Nat]
        /\ side_position_counts \in [Sides -> Nat]
    BY DEF TypeOK
  <2>5. /\ weighted_pools'[s] = weighted_pools[s] + WeightOf(p, s)
        /\ side_position_counts'[s] = side_position_counts[s] + CountOf(p, s)
    BY <1>2, <2>3, <2>4
  <2>6. WeightOf(p, s) \in Nat /\ CountOf(p, s) \in Nat
    BY <1>1, <1>4, PerpSummandTypes DEF CountOf
  <2>7. WeightOn(positions, s)' = WeightOn(positions', s)
        /\ CountOn(positions, s)' = CountOn(positions', s)
    BY DEF WeightOn, CountOn
  <2> QED
    BY <2>1, <2>2, <2>4, <2>5, <2>6, <2>7
<1>6. ASSUME NEW m \in Nonces, positions'[m].live
      PROVE  launched' /\ m < position_count'
  <2>1. m = n \/ (m \in Nat /\ m < n)
    BY <1>4, <1>6 DEF PerpLedgerInv, PerpBookkeeping, n, Nonces
  <2> QED
    BY <1>1, <1>2, <2>1
<1> QED
  BY <1>2, <1>5, <1>6 DEF PerpLedgerInv, PerpBookkeeping, LedgerMatchesPositions

(* An exit takes exactly its position out of the sums: the saturating      *)
(* subtractions do not saturate.                                           *)
LEMMA ExitShares ==
    ASSUME TypeOK, PerpLedgerInv, NEW maker \in Accounts, NEW n \in Nonces,
           ExitPerpetual(maker, n)
    PROVE  LET p == positions[n]
               paid == Paid(p, Gross(p))
           IN  /\ pools' = [pools EXCEPT ![p.side] = @ - paid] /\ paid <= pools[p.side]
               /\ weighted_pools'
                      = [weighted_pools EXCEPT ![p.side] = @ - p.amount * p.entry_weight]
               /\ side_position_counts' = [side_position_counts EXCEPT ![p.side] = @ - 1]
<1> DEFINE p == positions[n]
           paid == Paid(p, Gross(p))
           share == p.amount * p.entry_weight
<1>1. /\ pools' = [pools EXCEPT ![p.side] = SatSub(@, paid)]
      /\ weighted_pools' = [weighted_pools EXCEPT ![p.side] = SatSub(@, share)]
      /\ side_position_counts' = [side_position_counts EXCEPT ![p.side] = SatSub(@, 1)]
      /\ p.live
  BY DEF ExitPerpetual, RemainingShares
<1>2. /\ p.side \in Sides /\ share \in Nat /\ share <= weighted_pools[p.side]
      /\ side_position_counts[p.side] >= 1 /\ Gross(p) <= pools[p.side] /\ Gross(p) \in Nat
  BY <1>1, GrossWithinPool
<1>3. paid \in Nat /\ paid <= Gross(p)
  BY ExitTypes
<1> HIDE DEF p, paid, share
<1>4. /\ pools[p.side] \in Nat /\ weighted_pools[p.side] \in Nat
      /\ side_position_counts[p.side] \in Nat
      /\ pools \in [Sides -> Nat] /\ weighted_pools \in [Sides -> Nat]
      /\ side_position_counts \in [Sides -> Nat]
  BY <1>2 DEF TypeOK
<1>5. /\ paid <= pools[p.side]
      /\ SatSub(pools[p.side], paid) = pools[p.side] - paid
      /\ SatSub(weighted_pools[p.side], share) = weighted_pools[p.side] - share
      /\ SatSub(side_position_counts[p.side], 1) = side_position_counts[p.side] - 1
  BY <1>2, <1>3, <1>4 DEF SatSub
<1> QED
  BY <1>1, <1>4, <1>5 DEF p, paid, share

LEMMA PerpExitLedger ==
    ASSUME TypeOK, TypeOK', PerpLedgerInv, NEW maker \in Accounts, NEW n \in Nonces,
           ExitPerpetual(maker, n)
    PROVE  PerpLedgerInv'
<1> DEFINE p == positions[n]
           share == p.amount * p.entry_weight
<1>1. /\ weighted_pools' = [weighted_pools EXCEPT ![p.side] = @ - share]
      /\ side_position_counts' = [side_position_counts EXCEPT ![p.side] = @ - 1]
  BY ExitShares
<1>2. /\ positions' = [positions EXCEPT ![n] = NoPosition] /\ p.live
      /\ launched' = launched /\ position_count' = position_count
  BY DEF ExitPerpetual, launch_vars, entry_vars
<1>3. p.side \in Sides /\ share \in Nat
  BY ExitTypes
<1>4. launched
  BY <1>2 DEF PerpLedgerInv, PerpBookkeeping
<1>5. /\ positions \in [Nonces -> PositionType] /\ positions' \in [Nonces -> PositionType]
      /\ ~ positions'[n].live /\ \A m \in Nonces : m # n => positions'[m] = positions[m]
  BY <1>2 DEF TypeOK, NoPosition
<1>6. ASSUME NEW s \in Sides
      PROVE  /\ weighted_pools'[s] = SumUpTo(WeightOn(positions, s)', MAX_POSITIONS)
             /\ side_position_counts'[s] = SumUpTo(CountOn(positions, s)', MAX_POSITIONS)
  <2>1. /\ SumUpTo(WeightOn(positions', s), MAX_POSITIONS) =
               weighted_pools[s] + (WeightOf(positions'[n], s) - WeightOf(p, s))
        /\ SumUpTo(CountOn(positions', s), MAX_POSITIONS) =
               side_position_counts[s] + (CountOf(positions'[n], s) - CountOf(p, s))
    BY <1>5, PerpSumsMove DEF PerpLedgerInv, LedgerMatchesPositions
  <2>2. WeightOf(positions'[n], s) = 0 /\ CountOf(positions'[n], s) = 0
    BY <1>5 DEF WeightOf, CountOf, LiveOn
  <2>3. /\ WeightOf(p, s) = (IF s = p.side THEN share ELSE 0)
        /\ CountOf(p, s) = (IF s = p.side THEN 1 ELSE 0)
    BY <1>2 DEF WeightOf, CountOf, LiveOn
  <2> HIDE DEF share, p
  <2>4. /\ weighted_pools \in [Sides -> Nat] /\ side_position_counts \in [Sides -> Nat]
    BY DEF TypeOK
  <2>5. /\ weighted_pools'[s] = weighted_pools[s] - WeightOf(p, s)
        /\ side_position_counts'[s] = side_position_counts[s] - CountOf(p, s)
    BY <1>1, <1>3, <2>3, <2>4
  <2>6. WeightOf(p, s) \in Nat /\ CountOf(p, s) \in Nat
    BY <1>3, <2>3
  <2>7. WeightOn(positions, s)' = WeightOn(positions', s)
        /\ CountOn(positions, s)' = CountOn(positions', s)
    BY DEF WeightOn, CountOn
  <2> QED
    BY <2>1, <2>2, <2>4, <2>5, <2>6, <2>7
<1>7. ASSUME NEW m \in Nonces, positions'[m].live
      PROVE  launched' /\ m < position_count'
  BY <1>2, <1>5, <1>7 DEF PerpLedgerInv, PerpBookkeeping
<1> QED
  BY <1>2, <1>4, <1>6, <1>7 DEF PerpLedgerInv, PerpBookkeeping, LedgerMatchesPositions

LEMMA PerpLedgerStep == TypeOK /\ TypeOK' /\ PerpLedgerInv /\ [Next]_vars => PerpLedgerInv'
<1> SUFFICES ASSUME TypeOK, TypeOK', PerpLedgerInv, [Next]_vars
             PROVE  PerpLedgerInv'
  OBVIOUS
<1>1. CASE Tick
  BY <1>1, PerpLedgerFrame DEF Tick, launch_vars, share_vars, entry_vars
<1>2. CASE MakerStep
  BY <1>2, PerpDepositLedger, PerpExitLedger DEF MakerStep
<1>3. CASE CrankEpoch
  BY <1>3, PerpLedgerFrame DEF CrankEpoch, launch_vars, share_vars, entry_vars
<1>4. CASE AuthorityStep
  <2>1. ASSUME NEW signer \in Accounts,
               ClosePerpMarket(signer) \/ CollectFees(signer) \/ ClaimCreatorFees(signer)
        PROVE  PerpLedgerInv'
    BY <2>1, PerpLedgerFrame
    DEF ClosePerpMarket, CollectFees, ClaimCreatorFees, launch_vars, share_vars, entry_vars
  <2> QED
    BY <1>4, <2>1, PerpCreateLedger DEF AuthorityStep
<1>5. CASE UNCHANGED vars
  BY <1>5, PerpLedgerFrame DEF vars, launch_vars, share_vars, entry_vars
<1> QED
  BY <1>1, <1>2, <1>3, <1>4, <1>5 DEF Next

LEMMA PerpLedgerHolds == Spec => []PerpLedgerInv
BY PerpLedgerInit, PerpLedgerStep, PerpTypeCorrect, PTL DEF Spec

(* The weighted pools and the counts are the sums over the positions that  *)
(* are live, after any sequence of deposits and exits.                     *)
THEOREM PerpLedgerCorrect == Spec => []LedgerMatchesPositions
<1>1. PerpLedgerInv => LedgerMatchesPositions
  BY DEF PerpLedgerInv
<1> QED
  BY <1>1, PerpLedgerHolds, PTL

-----------------------------------------------------------------------------
(* Sums over the two sides, of which a step changes one.                   *)
LEMMA TwoSides ==
    ASSUME NEW f \in [Sides -> Nat], NEW s \in Sides, NEW d \in Nat
    PROVE  /\ [f EXCEPT ![s] = @ + d][0] + [f EXCEPT ![s] = @ + d][1] = f[0] + f[1] + d
           /\ [f EXCEPT ![s] = @ - d][0] + [f EXCEPT ![s] = @ - d][1] = f[0] + f[1] - d
<1>1. f[0] \in Nat /\ f[1] \in Nat /\ 0 \in Sides /\ 1 \in Sides
  BY PerpScale
<1>2. CASE s = 0
  BY <1>1, <1>2
<1>3. CASE s = 1
  BY <1>1, <1>3
<1> QED
  BY <1>2, <1>3, PerpScale

(* What the books say, if only the pools and the fees are replaced.        *)
LEMMA BookedParts ==
    ASSUME TypeOK
    PROVE  /\ pools[0] \in Nat /\ pools[1] \in Nat
           /\ side_position_counts[0] \in Nat /\ side_position_counts[1] \in Nat
           /\ protocol_fee_collected \in Nat /\ creator_account.fee_collected \in Nat
           /\ position_count \in Nat /\ vault \in Nat
           /\ Booked \in Nat /\ Exits \in Int
BY PerpScale, PerpAssumption DEF TypeOK, Booked, Exits

LEMMA BooksInit == Init => VaultMatchesBooks
<1> SUFFICES ASSUME Init PROVE VaultMatchesBooks
  OBVIOUS
<1>1. /\ pools[0] = 0 /\ pools[1] = 0
      /\ side_position_counts[0] = 0 /\ side_position_counts[1] = 0
      /\ protocol_fee_collected = 0 /\ creator_account.fee_collected = 0
      /\ position_count = 0 /\ vault = 0
  BY PerpScale DEF Init, Zeros
<1> QED
  BY <1>1 DEF VaultMatchesBooks, Booked, Exits

LEMMA BooksStep ==
    ASSUME TypeOK, TypeOK', PerpLedgerInv, VaultMatchesBooks, [Next]_vars
    PROVE  VaultMatchesBooks'
<1> USE DEF VaultMatchesBooks
<1>0. /\ pools[0] \in Nat /\ pools[1] \in Nat
      /\ side_position_counts[0] \in Nat /\ side_position_counts[1] \in Nat
      /\ protocol_fee_collected \in Nat /\ creator_account.fee_collected \in Nat
      /\ position_count \in Nat /\ vault \in Nat /\ Booked \in Nat /\ Exits \in Int
  BY BookedParts
<1>1. ASSUME UNCHANGED <<pools, side_position_counts, position_count, fee_vars, vault>>
      PROVE  VaultMatchesBooks'
  BY <1>1 DEF Booked, Exits, fee_vars
<1>2. ASSUME NEW maker \in Accounts, NEW side \in Sides, NEW amount \in Amounts,
             Deposit(maker, side, amount)
      PROVE  VaultMatchesBooks'
  <2>1. amount \in Nat
    BY PerpAssumption
  <2>2. /\ pools' = [pools EXCEPT ![side] = @ + amount]
        /\ side_position_counts' = [side_position_counts EXCEPT ![side] = @ + 1]
        /\ position_count' = position_count + 1 /\ vault' = vault + amount
        /\ protocol_fee_collected' = protocol_fee_collected
        /\ creator_account'.fee_collected = creator_account.fee_collected
    BY <1>2 DEF Deposit, fee_vars
  <2>3. pools'[0] + pools'[1] = pools[0] + pools[1] + amount
    <3>1. pools \in [Sides -> Nat]
      BY DEF TypeOK
    <3> QED
      BY <2>1, <2>2, <3>1, TwoSides
  <2>4. side_position_counts'[0] + side_position_counts'[1]
            = side_position_counts[0] + side_position_counts[1] + 1
    <3>1. side_position_counts \in [Sides -> Nat] /\ 1 \in Nat /\ side \in Sides
      BY DEF TypeOK
    <3> DEFINE moved == [side_position_counts EXCEPT ![side] = @ + 1]
    <3>2. moved[0] + moved[1] = side_position_counts[0] + side_position_counts[1] + 1
      BY <3>1, TwoSides
    <3>3. side_position_counts' = moved
      BY <2>2
    <3> HIDE DEF moved
    <3> QED
      BY <3>2, <3>3
  <2>5. Booked' = Booked + amount
    BY <1>0, <2>1, <2>2, <2>3 DEF Booked
  <2>6. Exits' = Exits
    BY <1>0, <2>2, <2>4 DEF Exits
  <2> QED
    BY <1>0, <2>1, <2>2, <2>5, <2>6
<1>3. ASSUME NEW maker \in Accounts, NEW n \in Nonces, ExitPerpetual(maker, n)
      PROVE  VaultMatchesBooks'
  <2> DEFINE p  == positions[n]
             out == Payout(p)
             paid == Paid(p, Gross(p))
             pf == Paid(p, ProtocolFee(p))
             cf == Paid(p, CreatorFee(p))
  <2>1. /\ p.side \in Sides /\ out \in Nat /\ paid \in Nat /\ pf \in Nat /\ cf \in Nat
        /\ out + pf + cf <= paid /\ paid <= out + pf + cf + 1
    BY ExitTypes
  <2>2. /\ pools' = [pools EXCEPT ![p.side] = @ - paid]
        /\ side_position_counts' = [side_position_counts EXCEPT ![p.side] = @ - 1]
    BY <1>3, ExitShares
  <2>3. /\ vault' = vault - out /\ position_count' = position_count
        /\ protocol_fee_collected' = protocol_fee_collected + pf
        /\ creator_account' = [creator_account EXCEPT !.fee_collected = @ + cf]
    BY <1>3 DEF ExitPerpetual, entry_vars
  <2> HIDE DEF p, out, paid, pf, cf
  <2>4. creator_account'.fee_collected = creator_account.fee_collected + cf
    BY <2>3 DEF TypeOK
  <2>5. pools'[0] + pools'[1] = pools[0] + pools[1] - paid
    <3>1. pools \in [Sides -> Nat]
      BY DEF TypeOK
    <3> QED
      BY <2>1, <2>2, <3>1, TwoSides
  <2>6. side_position_counts'[0] + side_position_counts'[1]
            = side_position_counts[0] + side_position_counts[1] - 1
    <3>1. side_position_counts \in [Sides -> Nat] /\ 1 \in Nat
      BY DEF TypeOK
    <3> QED
      BY <2>1, <2>2, <3>1, TwoSides
  <2>7. Booked' = Booked - paid + pf + cf /\ Exits' = Exits + 1
    BY <1>0, <2>1, <2>3, <2>4, <2>5, <2>6 DEF Booked, Exits
  <2> QED
    BY <1>0, <2>1, <2>3, <2>7
<1>4. CASE CrankEpoch
  <2> DEFINE funding == ComputeFunding(pools)
             winner  == FundingWinner(pools)
             rebate  == LesserOf(CrankerRebate(funding), Available)
             credit  == Credit(funding, rebate)
  <2>1. /\ winner \in Sides /\ 1 - winner \in Sides /\ winner # 1 - winner /\ funding \in Nat
    BY FundingFacts DEF TypeOK
  <2>2. credit = funding - rebate /\ rebate \in Nat
    BY CrankFacts
  <2>3. /\ pools' = [pools EXCEPT ![1 - winner] = @ - funding, ![winner] = @ + credit]
        /\ vault' = vault - rebate
        /\ UNCHANGED <<side_position_counts, position_count, protocol_fee_collected,
                       creator_account>>
    BY <1>4 DEF CrankEpoch, share_vars, entry_vars, fee_vars
  <2> HIDE DEF funding, winner, rebate, credit
  <2>4. pools'[0] + pools'[1] = pools[0] + pools[1] - rebate
    <3>1. /\ pools \in [Sides -> Nat] /\ 0 \in Sides /\ 1 \in Sides
          /\ (winner = 0 \/ winner = 1)
      BY <2>1, PerpScale DEF TypeOK
    <3>2. CASE winner = 0
      BY <2>1, <2>2, <2>3, <3>1, <3>2
    <3>3. CASE winner = 1
      BY <2>1, <2>2, <2>3, <3>1, <3>3
    <3> QED
      BY <3>1, <3>2, <3>3
  <2>5. Booked' = Booked - rebate /\ Exits' = Exits
    BY <1>0, <2>2, <2>3, <2>4 DEF Booked, Exits
  <2> QED
    BY <1>0, <2>2, <2>3, <2>5
<1>5. ASSUME NEW signer \in Accounts, NEW creator \in Accounts,
             CreatePerpMarket(signer, creator)
      PROVE  VaultMatchesBooks'
  <2>1. /\ pools'[0] = 0 /\ pools'[1] = 0
        /\ side_position_counts'[0] = 0 /\ side_position_counts'[1] = 0
        /\ protocol_fee_collected' = 0 /\ creator_account'.fee_collected = 0
        /\ position_count' = 0 /\ vault' = vault
    BY <1>5, PerpScale DEF CreatePerpMarket, Zeros
  <2>2. vault = 0
    BY <1>5 DEF CreatePerpMarket, PerpLedgerInv, PerpBookkeeping
  <2> QED
    BY <2>1, <2>2 DEF Booked, Exits
<1>6. ASSUME NEW signer \in Accounts, CollectFees(signer)
      PROVE  VaultMatchesBooks'
  <2>1. /\ SweptFees \in Nat /\ SweptFees <= protocol_fee_collected
        /\ SatSub(protocol_fee_collected, SweptFees) = protocol_fee_collected - SweptFees
    <3>1. Available \in Nat
      BY <1>0, PerpAssumption DEF Available, SatSub
    <3> QED
      BY <1>0, <3>1 DEF SweptFees, LesserOf, SatSub
  <2>2. /\ vault' = vault - SweptFees
        /\ protocol_fee_collected' = protocol_fee_collected - SweptFees
        /\ UNCHANGED <<pools, side_position_counts, position_count, creator_account>>
    BY <1>6, <2>1 DEF CollectFees, share_vars, entry_vars
  <2>3. Booked' = Booked - SweptFees /\ Exits' = Exits
    BY <1>0, <2>1, <2>2 DEF Booked, Exits
  <2> QED
    BY <1>0, <2>1, <2>2, <2>3
<1>7. ASSUME NEW signer \in Accounts, ClaimCreatorFees(signer)
      PROVE  VaultMatchesBooks'
  <2> DEFINE actual == LesserOf(creator_account.fee_collected, Available)
  <2>1. actual \in Nat
    <3>1. Available \in Nat
      BY <1>0, PerpAssumption DEF Available, SatSub
    <3> QED
      BY <1>0, <3>1 DEF LesserOf
  <2>2. /\ vault' = vault - actual
        /\ creator_account'.fee_collected = creator_account.fee_collected - actual
        /\ UNCHANGED <<pools, side_position_counts, position_count, protocol_fee_collected>>
    BY <1>7 DEF ClaimCreatorFees, share_vars, entry_vars, TypeOK
  <2> HIDE DEF actual
  <2>3. Booked' = Booked - actual /\ Exits' = Exits
    BY <1>0, <2>1, <2>2 DEF Booked, Exits
  <2> QED
    BY <1>0, <2>1, <2>2, <2>3
<1>8. ASSUME NEW signer \in Accounts, ClosePerpMarket(signer)
      PROVE  VaultMatchesBooks'
  BY <1>1, <1>8 DEF ClosePerpMarket, share_vars, entry_vars
<1>9. CASE Tick
  BY <1>1, <1>9 DEF Tick, share_vars, entry_vars
<1>10. CASE UNCHANGED vars
  BY <1>1, <1>10 DEF vars, share_vars, entry_vars
<1> QED
  BY <1>2, <1>3, <1>4, <1>5, <1>6, <1>7, <1>8, <1>9, <1>10 DEF Next, MakerStep, AuthorityStep

(* The books of a market are covered by its vault, which holds no more     *)
(* than a lamport for each exit beyond them.                               *)
THEOREM BooksCorrect == Spec => []VaultMatchesBooks
<1>1. TypeOK /\ TypeOK' /\ PerpLedgerInv /\ VaultMatchesBooks /\ [Next]_vars
          => VaultMatchesBooks'
  BY BooksStep
<1> QED
  BY <1>1, BooksInit, PerpLedgerHolds, PerpTypeCorrect, PTL DEF Spec

(* A holder receives the net value of the share but for the rent minimum:  *)
(* the value is within the pool, and the pool within the vault.            *)
THEOREM HolderCorrect == Spec => []HolderGetsShare
<1>1. TypeOK /\ PerpLedgerInv /\ VaultMatchesBooks => HolderGetsShare
  <2> SUFFICES ASSUME TypeOK, PerpLedgerInv, VaultMatchesBooks,
                      NEW n \in Nonces, positions[n].live
               PROVE  Payout(positions[n]) >= Net(positions[n]) - MIN_RENT
    BY DEF HolderGetsShare
  <2> DEFINE p == positions[n]
  <2>1. /\ p.side \in Sides /\ Net(p) \in Nat /\ Gross(p) \in Nat
        /\ ProtocolFee(p) \in Nat /\ CreatorFee(p) \in Nat
        /\ Net(p) + ProtocolFee(p) + CreatorFee(p) = Gross(p)
    BY ExitTypes
  <2>2. Gross(p) <= pools[p.side]
    BY GrossWithinPool
  <2> HIDE DEF p
  <2>3. /\ pools[0] \in Nat /\ pools[1] \in Nat /\ vault \in Nat
        /\ protocol_fee_collected \in Nat /\ creator_account.fee_collected \in Nat
    BY BookedParts
  <2>4. pools[p.side] <= vault
    <3>1. pools[p.side] <= Booked
      BY <2>1, <2>3, PerpScale DEF Booked
    <3> QED
      BY <2>1, <2>3, <3>1, PerpScale, BookedParts DEF VaultMatchesBooks
  <2>5. Net(p) <= vault
    BY <2>1, <2>2, <2>3, <2>4, PerpScale
  <2>6. Payout(p) >= Net(p) - MIN_RENT
    BY <2>1, <2>3, <2>5, PerpAssumption DEF Payout, LesserOf, Available, SatSub
  <2> QED
    BY <2>6 DEF p
<1> QED
  BY <1>1, BooksCorrect, PerpLedgerHolds, PerpTypeCorrect, PTL

-----------------------------------------------------------------------------
(* Lamports come in by deposits only: what is in the vault and what exits  *)
(* took out were deposited, and a u64 holds all of it.                     *)
MoneyInv ==
    /\ total_deposited <= U64_MAX
    /\ vault + total_exited <= total_deposited
    /\ \A n \in Nonces : positions[n].live => positions[n].amount <= total_deposited

LEMMA MoneyStep ==
    ASSUME TypeOK, TypeOK', PerpLedgerInv, MoneyInv, [Next]_vars
    PROVE  MoneyInv'
<1> USE DEF MoneyInv
<1>0. vault \in Nat /\ total_exited \in Nat /\ total_deposited \in Nat /\ vault' \in Nat
  BY DEF TypeOK
<1>1. ASSUME UNCHANGED <<total_deposited, total_exited, positions>>, vault' <= vault
      PROVE  MoneyInv'
  <2>1. /\ total_deposited' = total_deposited /\ total_exited' = total_exited
        /\ positions' = positions
    BY <1>1
  <2>2. vault' + total_exited' <= total_deposited'
    <3>1. PICK left \in Nat : vault' = left
      BY <1>0
    <3>2. left <= vault
      BY <1>1, <3>1
    <3> QED
      BY <1>0, <2>1, <3>1, <3>2
  <2> QED
    BY <2>1, <2>2
<1>2. ASSUME NEW maker \in Accounts, NEW side \in Sides, NEW amount \in Amounts,
             Deposit(maker, side, amount)
      PROVE  MoneyInv'
  <2>1. /\ amount \in Nat /\ total_deposited' = total_deposited + amount
        /\ total_deposited + amount <= U64_MAX
        /\ vault' = vault + amount /\ total_exited' = total_exited
    BY <1>2, PerpAssumption DEF Deposit
  <2>2. \A n \in Nonces : positions'[n] = positions[n] \/ positions'[n].amount = amount
    BY <1>2 DEF Deposit, TypeOK
  <2>3. \A n \in Nonces : positions[n].amount \in Nat
    BY DEF TypeOK, PositionType
  <2> QED
    BY <1>0, <2>1, <2>2, <2>3
<1>3. ASSUME NEW maker \in Accounts, NEW n \in Nonces, ExitPerpetual(maker, n)
      PROVE  MoneyInv'
  <2>1. Payout(positions[n]) \in Nat
    BY ExitTypes
  <2>2. /\ vault' = vault - Payout(positions[n]) /\ total_deposited' = total_deposited
        /\ total_exited' = total_exited + Payout(positions[n])
    BY <1>3 DEF ExitPerpetual, entry_vars
  <2>3. \A m \in Nonces : positions'[m].live => positions'[m] = positions[m]
    BY <1>3 DEF ExitPerpetual, TypeOK, NoPosition
  <2> QED
    BY <1>0, <2>1, <2>2, <2>3
<1>4. CASE CrankEpoch
  <2>1. vault' = vault - LesserOf(CrankerRebate(ComputeFunding(pools)), Available)
    BY <1>4 DEF CrankEpoch
  <2>2. vault' <= vault
    BY <1>0, <2>1, CrankFacts
  <2> QED
    BY <1>1, <1>4, <2>2 DEF CrankEpoch, entry_vars
<1>5. ASSUME NEW signer \in Accounts, NEW creator \in Accounts,
             CreatePerpMarket(signer, creator)
      PROVE  MoneyInv'
  <2>1. vault = 0 /\ \A n \in Nonces : ~ positions[n].live
    BY <1>5 DEF CreatePerpMarket, PerpLedgerInv, PerpBookkeeping
  <2> QED
    BY <1>5, <2>1, PerpMathAssumption DEF CreatePerpMarket
<1>6. ASSUME NEW signer \in Accounts, CollectFees(signer) \/ ClaimCreatorFees(signer)
      PROVE  MoneyInv'
  <2>1. /\ Available \in Nat /\ protocol_fee_collected \in Nat
        /\ creator_account.fee_collected \in Nat
    BY <1>0, PerpAssumption DEF Available, SatSub, TypeOK
  <2>2. vault' <= vault
    BY <1>0, <1>6, <2>1 DEF CollectFees, ClaimCreatorFees, SweptFees, LesserOf
  <2> QED
    BY <1>1, <1>6, <2>2 DEF CollectFees, ClaimCreatorFees, entry_vars
<1>7. CASE Tick \/ (\E signer \in Accounts : ClosePerpMarket(signer)) \/ UNCHANGED vars
  BY <1>0, <1>1, <1>7 DEF Tick, ClosePerpMarket, vars, entry_vars
<1> QED
  BY <1>2, <1>3, <1>4, <1>5, <1>6, <1>7 DEF Next, MakerStep, AuthorityStep

LEMMA MoneyHolds == Spec => []MoneyInv
<1>1. Init => MoneyInv
  BY PerpMathAssumption DEF Init, MoneyInv, NoPosition
<1>2. TypeOK /\ TypeOK' /\ PerpLedgerInv /\ MoneyInv /\ [Next]_vars => MoneyInv'
  BY MoneyStep
<1> QED
  BY <1>1, <1>2, PerpLedgerHolds, PerpTypeCorrect, PTL DEF Spec

(* The product under an exit's value is within the square of the deposits. *)
LEMMA ExitFits ==
    ASSUME TypeOK, MoneyInv, VaultMatchesBooks, StakeFits,
           NEW n \in Nonces, positions[n].live
    PROVE  LET p == positions[n]
           IN  ExitValueFits(p.amount, p.entry_weight, pools[p.side], weighted_pools[p.side])
<1> DEFINE p == positions[n]
           pool == pools[p.side]
           all == total_deposited
<1>1. /\ p.amount \in Nat /\ p.entry_weight \in Nat /\ p.entry_weight <= PRECISION
      /\ p.side \in Sides /\ pool \in Nat /\ all \in Nat /\ p.amount <= all
  BY PerpScale DEF TypeOK, PositionType, Weights, MoneyInv
<1>2. pool <= all
  <2>1. pool <= Booked
    BY <1>1, BookedParts, PerpScale DEF Booked
  <2>2. Booked <= vault /\ vault <= all /\ vault \in Nat /\ Booked \in Nat
    BY BookedParts DEF VaultMatchesBooks, MoneyInv, TypeOK
  <2> QED
    BY <1>1, <2>1, <2>2
<1> HIDE DEF p, pool, all
<1>3. /\ p.amount * p.entry_weight <= all * PRECISION
      /\ p.amount * p.entry_weight \in Nat /\ all * PRECISION \in Nat
  <2>1. /\ p.amount * p.entry_weight <= all * p.entry_weight
        /\ all * p.entry_weight <= all * PRECISION
    BY <1>1, PerpScale, ProductMonotone
  <2> QED
    BY <1>1, <2>1, PerpScale, ProductNat
<1>4. /\ (p.amount * p.entry_weight) * pool <= (all * PRECISION) * pool
      /\ (all * PRECISION) * pool <= (all * PRECISION) * all
  BY <1>1, <1>2, <1>3, ProductMonotone
<1>5. (all * PRECISION) * all = all * all * PRECISION
  BY <1>1, PerpScale
<1>6. /\ (p.amount * p.entry_weight) * pool \in Nat /\ (all * PRECISION) * pool \in Nat
      /\ all * all * PRECISION \in Nat
  BY <1>1, <1>3, PerpScale, ProductNat
<1> QED
  BY <1>4, <1>5, <1>6, PerpMathAssumption DEF ExitValueFits, StakeFits, p, pool, all

(* What an exit adds to a total was in the vault, and so fits beside it.   *)
LEMMA ExitFinds ==
    TypeOK /\ PerpLedgerInv /\ MoneyInv /\ VaultMatchesBooks /\ HolderGetsShare
        => ExitIsAccepted
<1> SUFFICES ASSUME TypeOK, PerpLedgerInv, MoneyInv, VaultMatchesBooks, HolderGetsShare,
                    StakeFits, NEW n \in Nonces, positions[n].live,
                    Net(positions[n]) > MIN_RENT
             PROVE  ExitGoesThrough(positions[n])
  BY DEF ExitIsAccepted
<1> DEFINE p == positions[n]
           pf == Paid(p, ProtocolFee(p))
           cf == Paid(p, CreatorFee(p))
<1>1. /\ p.side \in Sides /\ Net(p) \in Nat /\ Gross(p) \in Nat /\ Payout(p) \in Nat
      /\ ProtocolFee(p) \in Nat /\ CreatorFee(p) \in Nat
      /\ Net(p) + ProtocolFee(p) + CreatorFee(p) = Gross(p)
      /\ pf \in Nat /\ cf \in Nat /\ Payout(p) + pf + cf <= Paid(p, Gross(p))
      /\ Paid(p, Gross(p)) \in Nat /\ Paid(p, Gross(p)) <= Gross(p)
      /\ Payout(p) <= Available /\ Available <= vault /\ Available \in Nat
  BY ExitTypes
<1>2. Gross(p) <= pools[p.side]
  BY GrossWithinPool
<1>3. Payout(p) >= Net(p) - MIN_RENT /\ MIN_RENT \in Nat /\ Net(p) > MIN_RENT
  BY PerpAssumption DEF HolderGetsShare
<1>4. ExitValueFits(p.amount, p.entry_weight, pools[p.side], weighted_pools[p.side])
  BY ExitFits
<1> HIDE DEF p, pf, cf
<1>5. /\ vault \in Nat /\ total_exited \in Nat /\ total_deposited \in Nat
      /\ U64_MAX \in Nat /\ vault + total_exited <= U64_MAX
  BY PerpMathAssumption DEF TypeOK, MoneyInv
<1>6. /\ pools[0] \in Nat /\ pools[1] \in Nat
      /\ protocol_fee_collected \in Nat /\ creator_account.fee_collected \in Nat
      /\ pools[0] + pools[1] + protocol_fee_collected + creator_account.fee_collected <= vault
  BY BookedParts DEF VaultMatchesBooks, Booked
<1>7. /\ protocol_fee_collected + pf <= vault
      /\ creator_account.fee_collected + cf <= vault
  <2>1. pf <= pools[p.side] /\ cf <= pools[p.side] /\ (p.side = 0 \/ p.side = 1)
    BY <1>1, <1>2, <1>6, PerpScale
  <2> QED
    BY <1>1, <1>5, <1>6, <2>1
<1>8. /\ Gross(p) > 0 /\ Payout(p) > 0 /\ total_exited + Payout(p) <= U64_MAX
      /\ protocol_fee_collected + pf <= U64_MAX
      /\ creator_account.fee_collected + cf <= U64_MAX
  BY <1>1, <1>3, <1>5, <1>6, <1>7
<1> QED
  BY <1>4, <1>8 DEF ExitGoesThrough, p, pf, cf

(* An exit worth more than the rent minimum is never refused, whoever      *)
(* exited, cranked or swept before (exit_perpetual.rs:55-148): the safety  *)
(* half of the promise that a closed market pays out.                      *)
THEOREM ExitCorrect == Spec => []ExitIsAccepted
BY PerpTypeCorrect, PerpLedgerHolds, MoneyHolds, BooksCorrect, HolderCorrect, ExitFinds, PTL

-----------------------------------------------------------------------------
(* The entry weight falls with the age of the market.                      *)
LEMMA PerpWeightFalls ==
    ASSUME NEW a \in Int, NEW b \in Int, a <= b
    PROVE  ComputeEntryWeight(b) <= ComputeEntryWeight(a)
<1> DEFINE window == REFERENCE_WINDOW_SECS
           fraction(e) == ((window - e) * PRECISION) \div window
           squared(e)  == (fraction(e) * fraction(e)) \div PRECISION
           range       == PRECISION - MIN_WEIGHT_FLOOR
           bonus(e)    == (range * squared(e)) \div PRECISION
<1>1. CASE a > 0 /\ b < window
  <2>1. /\ window - a \in Nat /\ window - b \in Nat /\ window \in Nat /\ window > 0
        /\ window - b <= window - a /\ range \in Nat
    BY <1>1, PerpScale, PerpMathAssumption
  <2>2. /\ (window - a) * PRECISION \in Nat /\ (window - b) * PRECISION \in Nat
        /\ (window - b) * PRECISION <= (window - a) * PRECISION
    BY <2>1, PerpScale, ProductNat, ProductMonotone
  <2>3. fraction(a) \in Nat /\ fraction(b) \in Nat /\ fraction(b) <= fraction(a)
    BY <2>1, <2>2, DivBounds, DivOrdered
  <2> HIDE DEF fraction
  <2>4. /\ fraction(a) * fraction(a) \in Nat /\ fraction(b) * fraction(b) \in Nat
        /\ fraction(b) * fraction(b) <= fraction(a) * fraction(a)
    <3>1. /\ fraction(b) * fraction(b) <= fraction(b) * fraction(a)
          /\ fraction(b) * fraction(a) <= fraction(a) * fraction(a)
      BY <2>3, ProductMonotone
    <3> QED
      BY <2>3, <3>1, ProductNat
  <2>5. squared(a) \in Nat /\ squared(b) \in Nat /\ squared(b) <= squared(a)
    BY <2>4, PerpScale, DivBounds, DivOrdered
  <2> HIDE DEF squared, range
  <2>6. /\ range * squared(a) \in Nat /\ range * squared(b) \in Nat
        /\ range * squared(b) <= range * squared(a)
    BY <2>1, <2>5, ProductNat, ProductMonotone
  <2>7. bonus(a) \in Nat /\ bonus(b) \in Nat /\ bonus(b) <= bonus(a)
    BY <2>6, PerpScale, DivBounds, DivOrdered
  <2> HIDE DEF bonus
  <2>8. /\ ComputeEntryWeight(a) = LesserOf(PRECISION, MIN_WEIGHT_FLOOR + bonus(a))
        /\ ComputeEntryWeight(b) = LesserOf(PRECISION, MIN_WEIGHT_FLOOR + bonus(b))
    BY <1>1, PerpMathAssumption DEF ComputeEntryWeight, bonus, range, squared, fraction
  <2> QED
    BY <2>7, <2>8, PerpScale DEF LesserOf
<1>2. CASE a <= 0
  <2>1. ComputeEntryWeight(a) = PRECISION
    BY <1>2 DEF ComputeEntryWeight
  <2> QED
    BY <2>1, PerpEntryWeight, PerpScale DEF Weights
<1>3. CASE b >= window
  <2>1. ComputeEntryWeight(b) \in {MIN_WEIGHT_FLOOR, PRECISION}
        /\ (b > 0 => ComputeEntryWeight(b) = MIN_WEIGHT_FLOOR)
    BY <1>3 DEF ComputeEntryWeight
  <2>2. b > 0
    BY <1>3, PerpMathAssumption
  <2> QED
    BY <2>1, <2>2, PerpEntryWeight, PerpScale DEF Weights
<1> QED
  BY <1>1, <1>2, <1>3, PerpMathAssumption

(* A later live position has no more weight, and none has less than a      *)
(* deposit would get now.                                                  *)
DecayInv ==
    launched =>
        /\ \A n \in Nonces : positions[n].live =>
               positions[n].entry_weight >= ComputeEntryWeight(clock - created_at)
        /\ \A m, n \in Nonces : m < n /\ positions[m].live /\ positions[n].live =>
               positions[m].entry_weight >= positions[n].entry_weight

LEMMA DecayStep ==
    ASSUME TypeOK, PerpLedgerInv, DecayInv, [Next]_vars
    PROVE  DecayInv'
<1> DEFINE weight == ComputeEntryWeight(clock - created_at)
<1>0. clock \in Int /\ created_at \in Int /\ weight \in Nat
  BY PerpEntryWeight DEF TypeOK
<1>1. ASSUME UNCHANGED <<launched, created_at>>, clock' = clock,
             \A n \in Nonces : positions'[n].live => positions'[n] = positions[n]
      PROVE  DecayInv'
  BY <1>1 DEF DecayInv
<1>2. CASE Tick
  <2>1. clock' = clock + 1 /\ UNCHANGED <<launched, created_at, positions>>
    BY <1>2 DEF Tick, launch_vars
  <2>2. /\ ComputeEntryWeight(clock' - created_at') <= weight
        /\ ComputeEntryWeight(clock' - created_at') \in Nat
    BY <1>0, <2>1, PerpWeightFalls, PerpEntryWeight
  <2>3. \A n \in Nonces : positions[n].entry_weight \in Nat
    BY PerpScale DEF TypeOK, PositionType, Weights
  <2> HIDE DEF weight
  <2> QED
    BY <1>0, <2>1, <2>2, <2>3 DEF DecayInv, weight
<1>3. ASSUME NEW maker \in Accounts, NEW side \in Sides, NEW amount \in Amounts,
             Deposit(maker, side, amount)
      PROVE  DecayInv'
  <2>1. /\ launched /\ clock' = clock /\ created_at' = created_at
        /\ positions' = [positions EXCEPT ![position_count] =
               [live |-> TRUE, maker |-> maker, side |-> side, amount |-> amount,
                entry_weight |-> weight]]
    BY <1>3 DEF Deposit, launch_vars
  <2> HIDE DEF weight
  <2>2. \A n \in Nonces : n # position_count => positions'[n] = positions[n]
    BY <2>1 DEF TypeOK
  <2>3. position_count \in Nonces => positions'[position_count].entry_weight = weight
    BY <2>1 DEF TypeOK
  <2>4. \A n \in Nonces : positions[n].live => n < position_count
    BY DEF PerpLedgerInv, PerpBookkeeping
  <2>5. \A n \in Nonces : n \in Nat /\ position_count \in Nat
    BY PerpAssumption DEF Nonces, TypeOK
  <2>6. ASSUME NEW n \in Nonces, positions'[n].live
        PROVE  positions'[n].entry_weight >= weight
    BY <1>0, <2>1, <2>2, <2>3, <2>6 DEF DecayInv, weight
  <2>7. ASSUME NEW m \in Nonces, NEW n \in Nonces, m < n, positions'[m].live,
               positions'[n].live
        PROVE  positions'[m].entry_weight >= positions'[n].entry_weight
    <3>1. CASE n = position_count
      BY <2>3, <2>6, <2>7, <3>1
    <3>2. CASE n # position_count
      <4>1. n < position_count /\ m # position_count
        BY <2>2, <2>4, <2>5, <2>7, <3>2
      <4>2. positions'[m] = positions[m] /\ positions'[n] = positions[n]
        BY <2>2, <3>2, <4>1
      <4> QED
        BY <2>1, <2>7, <4>2 DEF DecayInv
    <3> QED
      BY <3>1, <3>2
  <2> QED
    BY <2>1, <2>6, <2>7 DEF DecayInv, weight
<1>4. ASSUME NEW maker \in Accounts, NEW n \in Nonces, ExitPerpetual(maker, n)
      PROVE  DecayInv'
  <2>1. \A m \in Nonces : positions'[m].live => positions'[m] = positions[m]
    BY <1>4 DEF ExitPerpetual, TypeOK, NoPosition
  <2> QED
    BY <1>1, <1>4, <2>1 DEF ExitPerpetual, launch_vars
<1>5. ASSUME NEW signer \in Accounts, NEW creator \in Accounts,
             CreatePerpMarket(signer, creator)
      PROVE  DecayInv'
  <2>1. \A n \in Nonces : ~ positions'[n].live
    BY <1>5 DEF CreatePerpMarket, PerpLedgerInv, PerpBookkeeping
  <2> QED
    BY <2>1 DEF DecayInv
<1>6. ASSUME NEW signer \in Accounts,
             ClosePerpMarket(signer) \/ CollectFees(signer) \/ ClaimCreatorFees(signer)
      PROVE  DecayInv'
  BY <1>1, <1>6 DEF ClosePerpMarket, CollectFees, ClaimCreatorFees, launch_vars
<1>7. CASE CrankEpoch \/ UNCHANGED vars
  BY <1>1, <1>7 DEF CrankEpoch, vars, launch_vars
<1> QED
  BY <1>2, <1>3, <1>4, <1>5, <1>6, <1>7 DEF Next, MakerStep, AuthorityStep

LEMMA DecayHolds == Spec => []DecayInv
<1>1. Init => DecayInv
  BY DEF Init, DecayInv
<1> QED
  BY <1>1, DecayStep, PerpLedgerHolds, PerpTypeCorrect, PTL DEF Spec

(* Two fees on a larger value, over no less principal, take at most one    *)
(* lamport more than the difference.                                       *)
LEMMA NetOrdered ==
    ASSUME NEW g \in Nat, NEW h \in Nat, NEW a \in Nat, NEW b \in Nat,
           NEW r \in Nat, NEW s \in Nat, r + s <= BPS_SCALE, h <= g, b <= a
    PROVE  LET net(v, principal) == v - FeeOn(SatSub(v, principal), r)
                                      - FeeOn(SatSub(v, principal), s)
           IN  net(h, b) <= net(g, a) + 1
<1> DEFINE x == SatSub(g, a)
           y == SatSub(h, b)
           xr == FeeOn(x, r)
           xs == FeeOn(x, s)
           yr == FeeOn(y, r)
           ys == FeeOn(y, s)
<1>1. x \in Nat /\ y \in Nat /\ x <= y + (g - h)
  BY DEF SatSub
<1> HIDE DEF x, y
<1>2. /\ xr \in Nat /\ 10000 * xr <= x * r /\ xs \in Nat /\ 10000 * xs <= x * s
      /\ yr \in Nat /\ y * r < 10000 * yr + 10000
      /\ ys \in Nat /\ y * s < 10000 * ys + 10000
  <2>1. x * r \in Nat /\ x * s \in Nat /\ y * r \in Nat /\ y * s \in Nat
    BY <1>1, ProductNat
  <2> QED
    BY <2>1, DivBounds DEF FeeOn, BPS_SCALE
<1> HIDE DEF xr, xs, yr, ys
<1>3. /\ x * r <= y * r + (g - h) * r /\ x * s <= y * s + (g - h) * s
      /\ (g - h) * r + (g - h) * s <= (g - h) * 10000
      /\ x * r \in Nat /\ x * s \in Nat /\ y * r \in Nat /\ y * s \in Nat
      /\ (g - h) * r \in Nat /\ (g - h) * s \in Nat
  <2>1. g - h \in Nat
    OBVIOUS
  <2> DEFINE d == g - h
  <2> HIDE DEF d
  <2>2. d \in Nat /\ x <= y + d /\ y + d \in Nat
    BY <1>1, <2>1 DEF d
  <2>3. /\ x * r <= (y + d) * r /\ x * s <= (y + d) * s
        /\ d * (r + s) <= d * 10000
    BY <1>1, <2>2, ProductMonotone DEF BPS_SCALE
  <2>4. /\ (y + d) * r = y * r + d * r /\ (y + d) * s = y * s + d * s
        /\ d * (r + s) = d * r + d * s
    BY <1>1, <2>2
  <2>5. /\ x * r \in Nat /\ x * s \in Nat /\ y * r \in Nat /\ y * s \in Nat
        /\ d * r \in Nat /\ d * s \in Nat
    BY <1>1, <2>2, ProductNat
  <2> QED
    BY <2>3, <2>4, <2>5 DEF d
<1>4. xr + xs <= yr + ys + (g - h) + 1
  BY <1>2, <1>3
<1>5. h - yr - ys <= (g - xr - xs) + 1
  BY <1>2, <1>4
<1> QED
  BY <1>5 DEF xr, xs, yr, ys, x, y

LEMMA EarlierIsWorthMore == TypeOK /\ PerpLedgerInv /\ DecayInv => EarlierIsNoWorse
<1> SUFFICES ASSUME TypeOK, PerpLedgerInv, DecayInv, NEW m \in Nonces, NEW n \in Nonces,
                    m < n, positions[m].live, positions[n].live,
                    positions[m].side = positions[n].side,
                    positions[m].amount >= positions[n].amount
             PROVE  Net(positions[m]) + 1 >= Net(positions[n])
  BY DEF EarlierIsNoWorse
<1> DEFINE p == positions[m]
           q == positions[n]
           pool == pools[p.side]
           weighted == weighted_pools[p.side]
           mine == p.amount * p.entry_weight
           yours == q.amount * q.entry_weight
<1>1. /\ p.amount \in Nat /\ p.entry_weight \in Nat /\ q.amount \in Nat
      /\ q.entry_weight \in Nat /\ p.side \in Sides /\ q.side = p.side
      /\ Gross(p) \in Nat /\ Gross(q) \in Nat /\ pool \in Nat /\ weighted \in Nat
      /\ Net(p) \in Nat /\ Net(q) \in Nat
  BY ExitTypes DEF TypeOK
<1>2. p.entry_weight >= q.entry_weight
  BY DEF DecayInv, PerpLedgerInv, PerpBookkeeping
<1>3. mine \in Nat /\ yours \in Nat /\ yours <= mine
  <2> HIDE DEF p, q
  <2>1. /\ q.amount * q.entry_weight <= p.amount * q.entry_weight
        /\ p.amount * q.entry_weight <= p.amount * p.entry_weight
    BY <1>1, <1>2, ProductMonotone DEF p, q
  <2>2. p.amount * q.entry_weight \in Nat
    BY <1>1, ProductNat
  <2> QED
    BY <1>1, <2>1, <2>2, ProductNat
<1>4. Gross(q) <= Gross(p)
  <2>1. /\ Gross(p) = IF weighted = 0 THEN 0 ELSE (mine * pool) \div weighted
        /\ Gross(q) = IF weighted = 0 THEN 0 ELSE (yours * pool) \div weighted
    BY <1>1 DEF Gross, ComputeExitValue
  <2> HIDE DEF mine, yours, pool, weighted, p, q
  <2>2. mine * pool \in Nat /\ yours * pool \in Nat /\ yours * pool <= mine * pool
    BY <1>1, <1>3, ProductNat, ProductMonotone
  <2> QED
    BY <1>1, <2>1, <2>2, DivOrdered
<1>5. /\ PROTOCOL_FEE_BPS \in Nat /\ CreatorFeeBps \in Nat
      /\ PROTOCOL_FEE_BPS + CreatorFeeBps <= BPS_SCALE
  BY PerpMathAssumption DEF CreatorFeeBps, BPS_SCALE
<1> HIDE DEF p, q
<1>6. Net(q) <= Net(p) + 1
  BY <1>1, <1>4, <1>5, NetOrdered DEF Net, ProtocolFee, CreatorFee, Profit, p, q
<1> QED
  BY <1>1, <1>6 DEF p, q

(* The quadratic decay of compute_entry_weight never makes it worth while  *)
(* to wait with a deposit: the weights of a side are in the order of its   *)
(* nonces (deposit.rs:56-57), and so are the net values.                   *)
THEOREM PerpEarlierCorrect == Spec => []EarlierIsNoWorse
BY PerpTypeCorrect, PerpLedgerHolds, DecayHolds, EarlierIsWorthMore, PTL

-----------------------------------------------------------------------------
(* A share of what is left is worth no less, if what was taken out is no   *)
(* more than the share that left was worth.                                *)
LEMMA ShareOfTheRest ==
    ASSUME NEW mine \in Nat, NEW theirs \in Nat, NEW pool \in Nat, NEW weighted \in Nat,
           NEW taken \in Nat, mine > 0, mine + theirs <= weighted, taken <= pool,
           taken * weighted <= theirs * pool
    PROVE  (mine * pool) \div weighted <= (mine * (pool - taken)) \div (weighted - theirs)
<1> DEFINE rest == weighted - theirs
           left == pool - taken
           q == (mine * pool) \div weighted
<1>1. rest \in Nat /\ rest > 0 /\ left \in Nat /\ weighted > 0
  OBVIOUS
<1>2. mine * pool \in Nat /\ mine * left \in Nat
  BY <1>1, ProductNat
<1>3. q \in Nat /\ weighted * q <= mine * pool
  BY <1>1, <1>2, DivBounds
<1>4. pool * rest <= left * weighted
  <2>1. /\ pool * rest = pool * weighted - theirs * pool
        /\ left * weighted = pool * weighted - taken * weighted
    OBVIOUS
  <2>2. /\ pool * weighted \in Nat /\ theirs * pool \in Nat /\ taken * weighted \in Nat
    BY ProductNat
  <2> QED
    BY <2>1, <2>2
<1>5. (q * rest) * weighted <= (mine * left) * weighted
  <2> HIDE DEF q, rest, left
  <2>1. (weighted * q) * rest <= (mine * pool) * rest
    <3>1. weighted * q \in Nat
      BY <1>3, ProductNat
    <3> QED
      BY <1>1, <1>2, <1>3, <3>1, ProductMonotone
  <2>2. mine * (pool * rest) <= mine * (left * weighted)
    <3>1. pool * rest \in Nat /\ left * weighted \in Nat
      BY <1>1, ProductNat
    <3> QED
      BY <1>4, <3>1, ProductMonotone
  <2>3. /\ (q * rest) * weighted = (weighted * q) * rest
        /\ (mine * pool) * rest = mine * (pool * rest)
        /\ (mine * left) * weighted = mine * (left * weighted)
    BY <1>1, <1>3
  <2>4. /\ (weighted * q) * rest \in Int /\ mine * (pool * rest) \in Int
        /\ mine * (left * weighted) \in Int
    BY <1>1, <1>3
  <2> QED
    BY <2>1, <2>2, <2>3, <2>4
<1>6. q * rest <= mine * left
  <2> HIDE DEF q, rest, left
  <2>1. q * rest \in Int /\ mine * left \in Int
    BY <1>1, <1>3
  <2> QED
    BY <1>1, <1>5, <2>1, CancelFactor
<1> HIDE DEF q, rest, left
<1>7. q <= (mine * left) \div rest
  BY <1>1, <1>2, <1>3, <1>6, DivAtLeast
<1> QED
  BY <1>7 DEF q, rest, left

(* The shares of two live positions of a side fit into its weighted pool.  *)
LEMMA TwoShares ==
    ASSUME TypeOK, PerpLedgerInv, NEW n \in Nonces, NEW m \in Nonces, m # n,
           NEW s \in Sides, LiveOn(positions[n], s), LiveOn(positions[m], s)
    PROVE  WeightOf(positions[m], s) + WeightOf(positions[n], s) <= weighted_pools[s]
<1> DEFINE rest == [positions EXCEPT ![n] = NoPosition]
<1>1. /\ positions \in [Nonces -> PositionType] /\ rest \in [Nonces -> PositionType]
      /\ rest[m] = positions[m] /\ ~ rest[n].live
      /\ \A k \in Nonces : k # n => rest[k] = positions[k]
  BY PerpScale DEF TypeOK, NoPosition, PositionType
<1> HIDE DEF rest
<1>2. SumUpTo(WeightOn(rest, s), MAX_POSITIONS)
          = SumUpTo(WeightOn(positions, s), MAX_POSITIONS)
                + (WeightOf(rest[n], s) - WeightOf(positions[n], s))
  BY <1>1, PerpSumsMove
<1>3. WeightOf(rest[m], s) <= SumUpTo(WeightOn(rest, s), MAX_POSITIONS)
  BY <1>1, PerpSumsMove
<1>4. WeightOf(rest[n], s) = 0
  BY <1>1 DEF WeightOf, LiveOn
<1>5. /\ WeightOf(positions[n], s) \in Nat /\ WeightOf(positions[m], s) \in Nat
      /\ weighted_pools[s] \in Nat
  BY <1>1, PerpSummandTypes DEF TypeOK
<1>6. SumUpTo(WeightOn(positions, s), MAX_POSITIONS) = weighted_pools[s]
  BY DEF PerpLedgerInv, LedgerMatchesPositions
<1> QED
  BY <1>1, <1>2, <1>3, <1>4, <1>5, <1>6

(* What an exit takes from the pool is no more than the share is worth.    *)
LEMMA TakenIsShare ==
    ASSUME TypeOK, PerpLedgerInv, NEW n \in Nonces, positions[n].live
    PROVE  LET p == positions[n]
           IN  Paid(p, Gross(p)) * weighted_pools[p.side]
                   <= (p.amount * p.entry_weight) * pools[p.side]
<1> DEFINE p == positions[n]
           pool == pools[p.side]
           weighted == weighted_pools[p.side]
           share == p.amount * p.entry_weight
           paid == Paid(p, Gross(p))
<1>1. /\ p.side \in Sides /\ share \in Nat /\ Gross(p) \in Nat
      /\ paid \in Nat /\ paid <= Gross(p)
  BY ExitTypes
<1>2. pool \in Nat /\ weighted \in Nat
  BY <1>1 DEF TypeOK
<1>3. Gross(p) = IF weighted = 0 THEN 0 ELSE (share * pool) \div weighted
  BY DEF Gross, ComputeExitValue
<1> HIDE DEF p, pool, weighted, share, paid
<1>4. share * pool \in Nat
  BY <1>1, <1>2, ProductNat
<1>5. Gross(p) * weighted <= share * pool
  <2>1. CASE weighted = 0
    BY <1>1, <1>4, <2>1
  <2>2. CASE weighted # 0
    BY <1>2, <1>3, <1>4, <2>2, DivBounds
  <2> QED
    BY <2>1, <2>2
<1>6. paid * weighted <= Gross(p) * weighted
  BY <1>1, <1>2, ProductMonotone
<1>7. paid * weighted \in Nat /\ Gross(p) * weighted \in Nat
  BY <1>1, <1>2, ProductNat
<1>8. paid * weighted <= share * pool
  BY <1>4, <1>5, <1>6, <1>7
<1> QED
  BY <1>8 DEF p, pool, weighted, share, paid

(* An exit leaves the value of every other position where it was or above. *)
LEMMA ExitKeepsValue ==
    ASSUME TypeOK, PerpLedgerInv, NEW maker \in Accounts, NEW n \in Nonces,
           ExitPerpetual(maker, n), NEW m \in Nonces, positions[m].live, positions'[m].live
    PROVE  Gross(positions[m])' >= Gross(positions[m])
<1> DEFINE p == positions[n]
           o == positions[m]
           mine == o.amount * o.entry_weight
           theirs == p.amount * p.entry_weight
           taken == Paid(p, Gross(p))
<1>1. p.live /\ positions' = [positions EXCEPT ![n] = NoPosition]
  BY DEF ExitPerpetual
<1>2. m # n /\ positions'[m] = positions[m]
  BY <1>1 DEF TypeOK, NoPosition
<1>3. /\ pools' = [pools EXCEPT ![p.side] = @ - taken] /\ taken <= pools[p.side]
      /\ weighted_pools' = [weighted_pools EXCEPT ![p.side] = @ - theirs]
  BY ExitShares
<1>4. /\ p.side \in Sides /\ o.side \in Sides /\ mine \in Nat /\ theirs \in Nat
      /\ taken \in Nat /\ Gross(o) \in Nat
  BY ExitTypes
<1>5. taken * weighted_pools[p.side] <= theirs * pools[p.side]
  BY <1>1, TakenIsShare
<1>6. /\ Gross(o) = IF weighted_pools[o.side] = 0 THEN 0
                    ELSE (mine * pools[o.side]) \div weighted_pools[o.side]
      /\ Gross(positions[m])' = IF weighted_pools'[o.side] = 0 THEN 0
                    ELSE (mine * pools'[o.side]) \div weighted_pools'[o.side]
  BY <1>2 DEF Gross, ComputeExitValue
<1>7. /\ pools \in [Sides -> Nat] /\ weighted_pools \in [Sides -> Nat]
  BY DEF TypeOK
<1>8. o.side = p.side => mine + theirs <= weighted_pools[p.side]
  <2>1. o.side = p.side => /\ WeightOf(o, p.side) = mine /\ WeightOf(p, p.side) = theirs
                           /\ LiveOn(o, p.side) /\ LiveOn(p, p.side)
    BY <1>1 DEF WeightOf, LiveOn
  <2> HIDE DEF mine, theirs
  <2> QED
    BY <1>2, <1>4, <2>1, TwoShares
<1> HIDE DEF p, o, mine, theirs, taken
<1>9. CASE o.side # p.side
  <2>1. pools'[o.side] = pools[o.side] /\ weighted_pools'[o.side] = weighted_pools[o.side]
    BY <1>3, <1>4, <1>7, <1>9
  <2>2. Gross(positions[m])' = Gross(o)
    BY <1>6, <2>1
  <2> QED
    BY <1>4, <2>2 DEF o
<1>10. CASE o.side = p.side
  <2> DEFINE pool == pools[p.side]
             weighted == weighted_pools[p.side]
  <2>1. /\ pools'[o.side] = pool - taken /\ weighted_pools'[o.side] = weighted - theirs
        /\ pool \in Nat /\ weighted \in Nat
    BY <1>3, <1>4, <1>7, <1>10
  <2>2. /\ taken <= pool /\ taken * weighted <= theirs * pool /\ mine + theirs <= weighted
    BY <1>3, <1>5, <1>8, <1>10
  <2>3. /\ Gross(o) = IF weighted = 0 THEN 0 ELSE (mine * pool) \div weighted
        /\ Gross(positions[m])' = IF weighted - theirs = 0 THEN 0
                       ELSE (mine * (pool - taken)) \div (weighted - theirs)
    BY <1>6, <1>10, <2>1
  <2> HIDE DEF pool, weighted
  <2>4. CASE mine = 0
    <3>1. Gross(o) = 0
      BY <2>1, <2>3, <2>4
    <3>2. Gross(positions[m])' \in Nat
      <4>1. /\ mine * (pool - taken) \in Nat /\ weighted - theirs \in Nat
        BY <1>4, <2>1, <2>2, <2>4
      <4>2. weighted - theirs # 0 => (mine * (pool - taken)) \div (weighted - theirs) \in Nat
        BY <4>1, DivBounds
      <4> QED
        BY <2>3, <4>2
    <3> QED
      BY <3>1, <3>2 DEF o
  <2>5. CASE mine > 0
    <3>1. (mine * pool) \div weighted <= (mine * (pool - taken)) \div (weighted - theirs)
      BY <1>4, <2>1, <2>2, <2>5, ShareOfTheRest
    <3>2. weighted # 0 /\ weighted - theirs # 0
      BY <1>4, <2>1, <2>2, <2>5
    <3> QED
      BY <2>3, <3>1, <3>2 DEF o
  <2> QED
    BY <1>4, <2>4, <2>5
<1> QED
  BY <1>9, <1>10

(* The value of a position falls only by a crank or by a deposit: no exit  *)
(* dilutes those who stay, and once the market is closed nothing does.     *)
THEOREM ValueCorrect == Spec => ValueFallsOnlyByTrade
<1> DEFINE A == is_closed \/ total_exited' # total_exited =>
                    \A n \in Nonces : positions[n].live /\ positions[n]'.live =>
                        Gross(positions[n])' >= Gross(positions[n])
<1>1. TypeOK /\ PerpLedgerInv /\ [Next]_vars => [A]_vars
  <2> SUFFICES ASSUME TypeOK, PerpLedgerInv, Next,
                      is_closed \/ total_exited' # total_exited,
                      NEW m \in Nonces, positions[m].live, positions'[m].live
               PROVE  Gross(positions[m])' >= Gross(positions[m])
    OBVIOUS
  <2>1. Gross(positions[m]) \in Nat
    BY ExitTypes
  <2>2. ASSUME UNCHANGED <<positions, pools, weighted_pools>>
        PROVE  Gross(positions[m])' >= Gross(positions[m])
    <3>1. Gross(positions[m])' = Gross(positions[m])
      BY <2>2 DEF Gross
    <3> QED
      BY <2>1, <3>1
  <2>3. launched
    BY DEF PerpLedgerInv, PerpBookkeeping
  <2>4. CASE Tick
    BY <2>2, <2>4 DEF Tick, share_vars
  <2>5. CASE MakerStep
    <3>1. ASSUME NEW maker \in Accounts, NEW side \in Sides, NEW amount \in Amounts
          PROVE  ~ Deposit(maker, side, amount)
      BY DEF Deposit
    <3>2. ASSUME NEW maker \in Accounts, NEW n \in Nonces, ExitPerpetual(maker, n)
          PROVE  Gross(positions[m])' >= Gross(positions[m])
      BY <3>2, ExitKeepsValue
    <3> QED
      BY <2>5, <3>1, <3>2 DEF MakerStep
  <2>6. CASE CrankEpoch
    BY <2>6 DEF CrankEpoch
  <2>7. CASE AuthorityStep
    <3>1. ASSUME NEW signer \in Accounts,
                 ClosePerpMarket(signer) \/ CollectFees(signer) \/ ClaimCreatorFees(signer)
          PROVE  UNCHANGED <<positions, pools, weighted_pools>>
      BY <3>1 DEF ClosePerpMarket, CollectFees, ClaimCreatorFees, share_vars
    <3>2. ASSUME NEW signer \in Accounts, NEW creator \in Accounts
          PROVE  ~ CreatePerpMarket(signer, creator)
      BY <2>3 DEF CreatePerpMarket
    <3> QED
      BY <2>2, <2>7, <3>1, <3>2 DEF AuthorityStep
  <2> QED
    BY <2>4, <2>5, <2>6, <2>7 DEF Next
<1>2. [][A]_vars <=> ValueFallsOnlyByTrade
  BY DEF ValueFallsOnlyByTrade
<1> HIDE DEF A
<1>3. Spec => [][A]_vars
  BY <1>1, PerpLedgerHolds, PerpTypeCorrect, PTL DEF Spec
<1> QED
  BY <1>2, <1>3

-----------------------------------------------------------------------------
(* One crank takes the base rate of the smaller pool at most.              *)
LEMMA FundingWithinRate ==
    ASSUME NEW amounts \in [Sides -> Nat]
    PROVE  BPS_SCALE * ComputeFunding(amounts)
               <= FUNDING_RATE_BPS * amounts[1 - FundingWinner(amounts)]
<1> DEFINE w == FundingWinner(amounts)
           x == amounts[1 - w]
           y == amounts[w]
           t == amounts[0] + amounts[1]
           i == ImbalanceBps(amounts)
           f == ComputeFunding(amounts)
           r == FUNDING_RATE_BPS
<1>1. /\ w \in Sides /\ 1 - w \in Sides /\ w # 1 - w
      /\ x \in Nat /\ y \in Nat /\ x <= y /\ t = x + y /\ t \in Nat /\ r \in Nat
  BY PerpScale, PerpMathAssumption DEF FundingWinner
<1>2. CASE amounts[0] = 0 \/ amounts[1] = 0
  <2>1. f = 0
    BY <1>2 DEF ComputeFunding
  <2>2. r * x \in Nat
    BY <1>1, ProductNat
  <2> HIDE DEF f, r, x
  <2> QED
    BY <2>1, <2>2 DEF BPS_SCALE, f, r, x, w
<1>3. CASE ~ (amounts[0] = 0 \/ amounts[1] = 0)
  <2>1. t > 0
    BY <1>1, <1>3, PerpScale
  <2>2. i = ((y - x) * 10000) \div t
    BY <1>1 DEF ImbalanceBps, BPS_SCALE
  <2>3. f = (x * r * i) \div 100000000
    BY <1>3 DEF ComputeFunding, BPS_SCALE
  <2> HIDE DEF w, x, y, t, i, f, r
  <2>4. i \in Nat /\ t * i <= t * 10000
    <3>1. i \in Nat /\ t * i <= (y - x) * 10000
      BY <1>1, <2>1, <2>2, DivBounds
    <3>2. (y - x) * 10000 <= t * 10000
      BY <1>1
    <3>3. t * i \in Nat
      BY <1>1, <3>1, ProductNat
    <3> QED
      BY <1>1, <3>1, <3>2, <3>3
  <2>5. i <= 10000
    <3>1. i * t <= 10000 * t
      BY <1>1, <2>4
    <3> QED
      BY <1>1, <2>1, <2>4, <3>1, CancelFactor
  <2>6. x * r \in Nat /\ x * r * i \in Nat
    BY <1>1, <2>4, ProductNat
  <2>7. f \in Nat /\ 100000000 * f <= x * r * i
    BY <2>3, <2>6, DivBounds
  <2>8. x * r * i <= (x * r) * 10000
    BY <2>4, <2>5, <2>6, ProductMonotone
  <2>9. 10000 * f <= x * r
    BY <2>6, <2>7, <2>8
  <2> QED
    BY <1>1, <2>9 DEF BPS_SCALE, w, x, f, r
<1> QED
  BY <1>2, <1>3

(* A share of a pool of which a part k / 10000 is left keeps that part of  *)
(* its value, but for a lamport.                                           *)
LEMMA ShareAfterFunding ==
    ASSUME NEW mine \in Nat, NEW pool \in Nat, NEW weighted \in Nat, weighted > 0,
           NEW left \in Nat, NEW k \in Nat, k * pool <= 10000 * left
    PROVE  k * ((mine * pool) \div weighted) < 10000 * ((mine * left) \div weighted + 1)
<1> DEFINE q == (mine * pool) \div weighted
           u == (mine * left) \div weighted
<1>1. mine * pool \in Nat /\ mine * left \in Nat
  BY ProductNat
<1>2. /\ q \in Nat /\ weighted * q <= mine * pool
      /\ u \in Nat /\ mine * left < weighted * u + weighted
  BY <1>1, DivBounds
<1> HIDE DEF q, u
<1>3. k * (weighted * q) <= k * (mine * pool)
  BY <1>1, <1>2, ProductNat, ProductMonotone
<1>4. mine * (k * pool) <= mine * (10000 * left)
  <2>1. k * pool \in Nat /\ 10000 * left \in Nat
    BY ProductNat
  <2> QED
    BY <2>1, ProductMonotone
<1>5. /\ weighted * (k * q) = k * (weighted * q)
      /\ k * (mine * pool) = mine * (k * pool)
      /\ mine * (10000 * left) = 10000 * (mine * left)
      /\ weighted * (10000 * (u + 1)) = 10000 * (weighted * u + weighted)
  BY <1>2
<1>6. /\ weighted * u \in Nat /\ k * (weighted * q) \in Int /\ k * (mine * pool) \in Int
      /\ mine * (k * pool) \in Int /\ mine * (10000 * left) \in Int
  BY <1>1, <1>2, ProductNat
<1>7. weighted * (k * q) < weighted * (10000 * (u + 1))
  BY <1>1, <1>2, <1>3, <1>4, <1>5, <1>6
<1>8. k * q < 10000 * (u + 1)
  <2>1. k * q \in Nat /\ 10000 * (u + 1) \in Nat
    BY <1>2, ProductNat
  <2> QED
    BY <1>7, <2>1, CancelLess
<1> QED
  BY <1>8 DEF q, u

(* A deposit at a weight no higher than PRECISION leaves a share above the *)
(* lesser of what it was worth and its weighted principal.                 *)
LEMMA ShareAfterDeposit ==
    ASSUME NEW mine \in Nat, NEW pool \in Nat, NEW weighted \in Nat, weighted > 0,
           NEW a \in Nat, NEW w \in Nat, w <= PRECISION
    PROVE  LesserOf((mine * pool) \div weighted, mine \div PRECISION)
               <= (mine * (pool + a)) \div (weighted + a * w)
<1> DEFINE v == (mine * pool) \div weighted
           e == mine \div PRECISION
           q == LesserOf(v, e)
<1>1. mine * pool \in Nat /\ a * w \in Nat /\ mine * a \in Nat
  BY ProductNat
<1>2. /\ v \in Nat /\ weighted * v <= mine * pool
      /\ e \in Nat /\ PRECISION * e <= mine
  BY <1>1, PerpScale, DivBounds
<1>3. q \in Nat /\ q <= v /\ q <= e
  BY <1>2 DEF LesserOf
<1> HIDE DEF v, e, q
<1>4. weighted * q <= mine * pool
  <2>1. weighted * q <= weighted * v
    BY <1>2, <1>3, ProductMonotone
  <2> QED
    BY <1>1, <1>2, <1>3, <2>1, ProductNat
<1>5. q * w <= mine
  <2>1. q * w <= q * PRECISION
    BY <1>3, PerpScale, ProductMonotone
  <2>2. PRECISION * q <= PRECISION * e
    BY <1>2, <1>3, PerpScale, ProductMonotone
  <2>3. q * PRECISION = PRECISION * q
    BY <1>3, PerpScale
  <2>4. q * w \in Nat /\ PRECISION * q \in Nat /\ PRECISION * e \in Nat
    BY <1>2, <1>3, PerpScale, ProductNat
  <2> QED
    BY <1>2, <2>1, <2>2, <2>3, <2>4
<1>6. a * (q * w) <= a * mine
  BY <1>3, <1>5, ProductNat, ProductMonotone
<1>7. q * (weighted + a * w) <= mine * (pool + a)
  <2>1. /\ q * (weighted + a * w) = weighted * q + a * (q * w)
        /\ mine * (pool + a) = mine * pool + a * mine
    BY <1>3
  <2>2. weighted * q \in Nat /\ a * (q * w) \in Nat /\ a * mine \in Nat
    BY <1>3, ProductNat
  <2> QED
    BY <1>1, <1>4, <1>6, <2>1, <2>2
<1>8. /\ weighted + a * w \in Nat /\ weighted + a * w > 0 /\ mine * (pool + a) \in Nat
  BY <1>1, ProductNat
<1>9. q <= (mine * (pool + a)) \div (weighted + a * w)
  BY <1>3, <1>7, <1>8, DivAtLeast
<1> QED
  BY <1>9 DEF v, e, q

(* A deposit or a crank costs each holder no more than the bound.          *)
LEMMA DepositLoss ==
    ASSUME TypeOK, PerpLedgerInv, NEW maker \in Accounts, NEW side \in Sides,
           NEW amount \in Amounts, Deposit(maker, side, amount),
           NEW m \in Nonces, positions[m].live
    PROVE  Gross(positions[m])' >= LesserOf(Gross(positions[m]), WeightedPrincipal(positions[m]))
<1> DEFINE o == positions[m]
           mine == o.amount * o.entry_weight
           weight == ComputeEntryWeight(clock - created_at)
<1>1. /\ weight \in Nat /\ weight <= PRECISION /\ amount \in Nat
      /\ o.side \in Sides /\ mine \in Nat /\ Gross(o) \in Nat
  <2>1. clock - created_at \in Int
    BY DEF TypeOK
  <2> QED
    BY <2>1, ExitTypes, PerpEntryWeight, PerpScale, PerpAssumption DEF Weights
<1>2. /\ pools' = [pools EXCEPT ![side] = @ + amount]
      /\ weighted_pools' = [weighted_pools EXCEPT ![side] = @ + amount * weight]
      /\ pools \in [Sides -> Nat] /\ weighted_pools \in [Sides -> Nat]
  BY DEF Deposit, TypeOK
<1>3. positions'[m] = o
  <2>1. position_count # m
    BY DEF PerpLedgerInv, PerpBookkeeping, TypeOK, Nonces
  <2> QED
    BY <2>1 DEF Deposit, TypeOK
<1>4. /\ Gross(o) = IF weighted_pools[o.side] = 0 THEN 0
                    ELSE (mine * pools[o.side]) \div weighted_pools[o.side]
      /\ Gross(positions[m])' = IF weighted_pools'[o.side] = 0 THEN 0
                    ELSE (mine * pools'[o.side]) \div weighted_pools'[o.side]
      /\ WeightedPrincipal(o) = mine \div PRECISION
  BY <1>3 DEF Gross, ComputeExitValue, WeightedPrincipal
<1>5. mine <= weighted_pools[o.side]
  BY GrossWithinPool
<1>6. WeightedPrincipal(o) \in Nat
  BY <1>1, <1>4, PerpScale, DivBounds
<1> HIDE DEF mine, weight, o
<1>7. CASE o.side # side
  <2>1. pools'[o.side] = pools[o.side] /\ weighted_pools'[o.side] = weighted_pools[o.side]
    BY <1>1, <1>2, <1>7
  <2>2. Gross(positions[m])' = Gross(o)
    BY <1>4, <2>1
  <2> QED
    BY <1>1, <1>6, <2>2 DEF LesserOf, o
<1>8. CASE o.side = side
  <2> DEFINE pool == pools[side]
             weighted == weighted_pools[side]
  <2>1. /\ pools'[o.side] = pool + amount /\ weighted_pools'[o.side] = weighted + amount * weight
        /\ pool \in Nat /\ weighted \in Nat /\ mine <= weighted
    BY <1>1, <1>2, <1>5, <1>8
  <2>2. amount * weight \in Nat
    BY <1>1, ProductNat
  <2>3. /\ Gross(o) = IF weighted = 0 THEN 0 ELSE (mine * pool) \div weighted
        /\ Gross(positions[m])' = IF weighted + amount * weight = 0 THEN 0
                   ELSE (mine * (pool + amount)) \div (weighted + amount * weight)
    BY <1>4, <1>8, <2>1
  <2> HIDE DEF pool, weighted
  <2>4. CASE weighted = 0
    <3>1. Gross(o) = 0 /\ mine = 0
      BY <1>1, <2>1, <2>3, <2>4
    <3>2. Gross(positions[m])' \in Nat
      <4>1. /\ mine * (pool + amount) \in Nat /\ weighted + amount * weight \in Nat
        BY <1>1, <2>1, <2>2, ProductNat
      <4>2. weighted + amount * weight # 0 =>
                (mine * (pool + amount)) \div (weighted + amount * weight) \in Nat
        BY <4>1, DivBounds
      <4> QED
        BY <2>3, <4>2
    <3> QED
      BY <1>6, <3>1, <3>2 DEF LesserOf, o
  <2>5. CASE weighted > 0
    <3>1. LesserOf((mine * pool) \div weighted, mine \div PRECISION)
              <= (mine * (pool + amount)) \div (weighted + amount * weight)
      BY <1>1, <2>1, <2>5, ShareAfterDeposit
    <3>2. weighted + amount * weight # 0 /\ weighted # 0
      BY <2>1, <2>2, <2>5
    <3>3. LesserOf(Gross(o), WeightedPrincipal(o)) <= Gross(positions[m])'
      BY <1>4, <2>3, <3>1, <3>2
    <3>4. \A a, b \in Nat : LesserOf(a, b) \in Nat
      BY DEF LesserOf
    <3>5. Gross(positions[m])' \in Nat
      <4>1. /\ mine * (pool + amount) \in Nat /\ weighted + amount * weight \in Nat
            /\ weighted + amount * weight > 0
        BY <1>1, <2>1, <2>2, <2>5, ProductNat
      <4> QED
        BY <2>3, <3>2, <4>1, DivBounds
    <3> QED
      BY <1>1, <1>6, <3>3, <3>4, <3>5 DEF o
  <2> QED
    BY <2>1, <2>4, <2>5
<1> QED
  BY <1>7, <1>8

LEMMA CrankLoss ==
    ASSUME TypeOK, PerpLedgerInv, CrankEpoch, NEW m \in Nonces, positions[m].live
    PROVE  \/ Gross(positions[m])' >= Gross(positions[m])
           \/ (BPS_SCALE - FUNDING_RATE_BPS) * Gross(positions[m])
                  < BPS_SCALE * (Gross(positions[m])' + 1)
<1> DEFINE o == positions[m]
           mine == o.amount * o.entry_weight
           f == ComputeFunding(pools)
           w == FundingWinner(pools)
           credit == Credit(f, LesserOf(CrankerRebate(f), Available))
<1>1. o.side \in Sides /\ mine \in Nat /\ Gross(o) \in Nat
  BY ExitTypes
<1>2. pools \in [Sides -> Nat] /\ weighted_pools \in [Sides -> Nat]
  BY DEF TypeOK
<1>3. /\ w \in Sides /\ 1 - w \in Sides /\ w # 1 - w /\ f \in Nat /\ credit \in Nat
  BY <1>2, FundingFacts, CrankFacts
<1>4. 10000 * f <= FUNDING_RATE_BPS * pools[1 - w]
  BY <1>2, FundingWithinRate DEF BPS_SCALE
<1>5. /\ pools' = [pools EXCEPT ![1 - w] = @ - f, ![w] = @ + credit]
      /\ f <= pools[1 - w]
      /\ weighted_pools' = weighted_pools /\ positions' = positions
  BY DEF CrankEpoch, share_vars
<1>6. /\ Gross(o) = IF weighted_pools[o.side] = 0 THEN 0
                    ELSE (mine * pools[o.side]) \div weighted_pools[o.side]
      /\ Gross(positions[m])' = IF weighted_pools[o.side] = 0 THEN 0
                    ELSE (mine * pools'[o.side]) \div weighted_pools[o.side]
  BY <1>5 DEF Gross, ComputeExitValue
<1> HIDE DEF o, mine, f, w, credit
<1>7. CASE weighted_pools[o.side] = 0
  BY <1>6, <1>7 DEF o
<1>8. CASE weighted_pools[o.side] # 0 /\ o.side = w
  <2> DEFINE pool == pools[w]
             weighted == weighted_pools[w]
  <2>1. /\ pools'[o.side] = pool + credit /\ pool \in Nat /\ weighted \in Nat /\ weighted > 0
    BY <1>2, <1>3, <1>5, <1>8
  <2>2. /\ Gross(o) = (mine * pool) \div weighted
        /\ Gross(positions[m])' = (mine * (pool + credit)) \div weighted
    BY <1>6, <1>8, <2>1
  <2> HIDE DEF pool, weighted
  <2>3. mine * pool \in Nat /\ mine * (pool + credit) \in Nat /\ mine * pool <= mine * (pool + credit)
    BY <1>1, <1>3, <2>1, ProductNat, ProductMonotone
  <2>4. (mine * pool) \div weighted <= (mine * (pool + credit)) \div weighted
    BY <2>1, <2>3, DivMonotone
  <2>5. (mine * (pool + credit)) \div weighted \in Nat
    BY <2>1, <2>3, DivBounds
  <2> QED
    BY <1>1, <2>2, <2>4, <2>5 DEF o
<1>9. CASE weighted_pools[o.side] # 0 /\ o.side = 1 - w
  <2> DEFINE pool == pools[1 - w]
             weighted == weighted_pools[1 - w]
  <2>1. /\ pools'[o.side] = pool - f /\ pool \in Nat /\ weighted \in Nat /\ weighted > 0
        /\ f <= pool /\ 10000 * f <= FUNDING_RATE_BPS * pool
    BY <1>2, <1>3, <1>4, <1>5, <1>9
  <2>2. /\ Gross(o) = (mine * pool) \div weighted
        /\ Gross(positions[m])' = (mine * (pool - f)) \div weighted
    BY <1>6, <1>9, <2>1
  <2>3. FUNDING_RATE_BPS \in 0 .. 10000
    BY PerpMathAssumption DEF BPS_SCALE
  <2> HIDE DEF pool, weighted
  <2>4. (10000 - FUNDING_RATE_BPS) * ((mine * pool) \div weighted)
            < 10000 * ((mine * (pool - f)) \div weighted + 1)
    <3> DEFINE k == 10000 - FUNDING_RATE_BPS
               left == pool - f
    <3>1. k \in Nat /\ left \in Nat
      BY <1>3, <2>1, <2>3
    <3>2. k * pool <= 10000 * left
      <4>1. k * pool = 10000 * pool - FUNDING_RATE_BPS * pool
        BY <2>1, <2>3
      <4>2. FUNDING_RATE_BPS * pool \in Nat
        BY <2>1, <2>3, ProductNat
      <4> HIDE DEF k
      <4> QED
        BY <1>3, <2>1, <4>1, <4>2
    <3> HIDE DEF k, left
    <3>3. mine \in Nat /\ pool \in Nat /\ weighted \in Nat /\ weighted > 0
      BY <1>1, <2>1
    <3>4. k * ((mine * pool) \div weighted) < 10000 * ((mine * left) \div weighted + 1)
      BY <3>1, <3>2, <3>3, ShareAfterFunding
    <3> QED
      BY <3>4 DEF k, left
  <2> QED
    BY <2>2, <2>4 DEF BPS_SCALE, o
<1> QED
  BY <1>1, <1>3, <1>7, <1>8, <1>9, PerpScale

(* One step costs a holder no more than the weighted principal allows, or  *)
(* the base rate of one crank.                                             *)
THEOREM LossCorrect == Spec => LossPerStepIsBounded
<1> DEFINE A == \A n \in Nonces : positions[n].live /\ positions[n]'.live =>
          \/ Gross(positions[n])' >= LesserOf(Gross(positions[n]),
                                              WeightedPrincipal(positions[n]))
          \/ /\ cumulative_funding_paid' # cumulative_funding_paid
             /\ (BPS_SCALE - FUNDING_RATE_BPS) * Gross(positions[n])
                    < BPS_SCALE * (Gross(positions[n])' + 1)
<1> DEFINE Valued == \A n \in Nonces : Gross(positions[n]) \in Nat
<1>0. TypeOK => Valued
  BY ExitTypes
<1>1. TypeOK /\ PerpLedgerInv /\ Valued' /\ [Next]_vars => [A]_vars
  <2> SUFFICES ASSUME TypeOK, PerpLedgerInv, Valued', Next,
                      NEW m \in Nonces, positions[m].live, positions'[m].live
               PROVE  \/ Gross(positions[m])' >= LesserOf(Gross(positions[m]),
                                                          WeightedPrincipal(positions[m]))
                      \/ /\ cumulative_funding_paid' # cumulative_funding_paid
                         /\ (BPS_SCALE - FUNDING_RATE_BPS) * Gross(positions[m])
                                < BPS_SCALE * (Gross(positions[m])' + 1)
    BY DEF LesserOf
  <2>1. Gross(positions[m]) \in Nat /\ WeightedPrincipal(positions[m]) \in Nat
    <3>1. positions[m].amount * positions[m].entry_weight \in Nat
      BY ExitTypes
    <3> QED
      BY <3>1, ExitTypes, PerpScale, DivBounds DEF WeightedPrincipal
  <2>2. LesserOf(Gross(positions[m]), WeightedPrincipal(positions[m])) <= Gross(positions[m])
    BY <2>1 DEF LesserOf
  <2>3. LesserOf(Gross(positions[m]), WeightedPrincipal(positions[m])) \in Nat
    BY <2>1 DEF LesserOf
  <2>4. ASSUME Gross(positions[m])' >= Gross(positions[m]), Gross(positions[m])' \in Nat
        PROVE  Gross(positions[m])' >= LesserOf(Gross(positions[m]),
                                                WeightedPrincipal(positions[m]))
    BY <2>1, <2>2, <2>3, <2>4
  <2>5. ASSUME UNCHANGED <<positions, pools, weighted_pools>>
        PROVE  Gross(positions[m])' >= LesserOf(Gross(positions[m]),
                                                WeightedPrincipal(positions[m]))
    <3>1. Gross(positions[m])' = Gross(positions[m])
      BY <2>5 DEF Gross
    <3> QED
      BY <2>1, <2>2, <3>1
  <2>6. launched
    BY DEF PerpLedgerInv, PerpBookkeeping
  <2>7. CASE Tick
    BY <2>5, <2>7 DEF Tick, share_vars
  <2>8. CASE MakerStep
    <3>1. ASSUME NEW maker \in Accounts, NEW side \in Sides, NEW amount \in Amounts,
                 Deposit(maker, side, amount)
          PROVE  Gross(positions[m])' >= LesserOf(Gross(positions[m]),
                                                  WeightedPrincipal(positions[m]))
      BY <3>1, DepositLoss
    <3>2. ASSUME NEW maker \in Accounts, NEW n \in Nonces, ExitPerpetual(maker, n)
          PROVE  Gross(positions[m])' >= LesserOf(Gross(positions[m]),
                                                  WeightedPrincipal(positions[m]))
      <4>1. Gross(positions[m])' >= Gross(positions[m])
        BY <3>2, ExitKeepsValue
      <4>2. Gross(positions[m])' \in Nat
        OBVIOUS
      <4> QED
        BY <2>1, <2>2, <2>3, <4>1, <4>2
    <3> QED
      BY <2>8, <3>1, <3>2 DEF MakerStep
  <2>9. CASE CrankEpoch
    <3>1. cumulative_funding_paid' # cumulative_funding_paid
      BY <2>9, FundingFacts DEF CrankEpoch, TypeOK
    <3>2. \/ Gross(positions[m])' >= Gross(positions[m])
          \/ (BPS_SCALE - FUNDING_RATE_BPS) * Gross(positions[m])
                 < BPS_SCALE * (Gross(positions[m])' + 1)
      BY <2>9, CrankLoss
    <3>3. Gross(positions[m])' \in Nat
      OBVIOUS
    <3> QED
      BY <2>4, <3>1, <3>2, <3>3
  <2>10. CASE AuthorityStep
    <3>1. ASSUME NEW signer \in Accounts,
                 ClosePerpMarket(signer) \/ CollectFees(signer) \/ ClaimCreatorFees(signer)
          PROVE  UNCHANGED <<positions, pools, weighted_pools>>
      BY <3>1 DEF ClosePerpMarket, CollectFees, ClaimCreatorFees, share_vars
    <3>2. ASSUME NEW signer \in Accounts, NEW creator \in Accounts
          PROVE  ~ CreatePerpMarket(signer, creator)
      BY <2>6 DEF CreatePerpMarket
    <3> QED
      BY <2>5, <2>10, <3>1, <3>2 DEF AuthorityStep
  <2> QED
    BY <2>7, <2>8, <2>9, <2>10 DEF Next
<1>2. [][A]_vars <=> LossPerStepIsBounded
  BY DEF LossPerStepIsBounded
<1> HIDE DEF A, Valued
<1>3. Spec => [][A]_vars
  BY <1>0, <1>1, PerpLedgerHolds, PerpTypeCorrect, PTL DEF Spec
<1> QED
  BY <1>2, <1>3

-----------------------------------------------------------------------------
(* The arithmetic that the offline model shares with the program.          *)
LEMMA SimMath ==
    /\ Sim!BPS_SCALE = BPS_SCALE
    /\ \A a, b : Sim!LesserOf(a, b) = LesserOf(a, b)
    /\ \A a : Sim!FundingWinner(a) = FundingWinner(a)
    /\ \A a : Sim!ImbalanceBps(a) = ImbalanceBps(a)
    /\ \A a : Sim!CrankerRebate(a) = CrankerRebate(a)
    /\ \A a : Sim!ComputeEntryWeight(a) = ComputeEntryWeight(a)
    /\ \A a, b, c, d : Sim!ComputeExitValue(a, b, c, d) = ComputeExitValue(a, b, c, d)
    /\ \A a, b : Sim!FeeOn(a, b) = FeeOn(a, b)
<1>1. /\ Sim!BPS_SCALE = BPS_SCALE
      /\ \A a, b : Sim!LesserOf(a, b) = LesserOf(a, b)
      /\ \A a : Sim!FundingWinner(a) = FundingWinner(a)
  BY DEF Sim!BPS_SCALE, BPS_SCALE, Sim!LesserOf, LesserOf, Sim!FundingWinner, FundingWinner
<1>2. Sim!PRECISION = PRECISION /\ Sim!MIN_WEIGHT_FLOOR = MIN_WEIGHT_FLOOR
  BY DEF Sim!PRECISION, PRECISION, Sim!MIN_WEIGHT_FLOOR, MIN_WEIGHT_FLOOR
<1>3. \A a : Sim!ImbalanceBps(a) = ImbalanceBps(a)
  BY <1>1 DEF Sim!ImbalanceBps, ImbalanceBps
<1>4. \A a : Sim!ComputeEntryWeight(a) = ComputeEntryWeight(a)
  BY <1>1, <1>2 DEF Sim!ComputeEntryWeight, ComputeEntryWeight
<1>5. \A a, b, c, d : Sim!ComputeExitValue(a, b, c, d) = ComputeExitValue(a, b, c, d)
  BY DEF Sim!ComputeExitValue, ComputeExitValue
<1>6. /\ \A a : Sim!CrankerRebate(a) = CrankerRebate(a)
      /\ \A a, b : Sim!FeeOn(a, b) = FeeOn(a, b)
  BY <1>1 DEF Sim!CrankerRebate, CrankerRebate, Sim!FeeOn, FeeOn
<1> QED
  BY <1>1, <1>3, <1>4, <1>5, <1>6

(* What the truncation of the scaled rate costs the offline model.         *)
LEMMA SimFundingNear ==
    ASSUME NEW amounts \in [Sides -> Nat]
    PROVE  /\ Sim!SimFunding(amounts) <= ComputeFunding(amounts)
           /\ ComputeFunding(amounts)
                  <= Sim!SimFunding(amounts)
                         + amounts[1 - FundingWinner(amounts)] \div BPS_SCALE + 1
<1> DEFINE w == FundingWinner(amounts)
           x == amounts[1 - w]
           y == amounts[w]
           t == amounts[0] + amounts[1]
           i == ImbalanceBps(amounts)
           f == ComputeFunding(amounts)
           r == FUNDING_RATE_BPS
           c == (r * i) \div 10000
           g == Sim!SimFunding(amounts)
           d == x \div 10000
<1>1. /\ w \in Sides /\ 1 - w \in Sides /\ w # 1 - w
      /\ x \in Nat /\ y \in Nat /\ x <= y /\ t = x + y /\ t \in Nat /\ r \in Nat
  BY PerpScale, PerpMathAssumption DEF FundingWinner
<1>2. d \in Nat /\ 10000 * d <= x /\ x < 10000 * d + 10000
  <2> HIDE DEF x
  <2> QED
    BY <1>1, DivBounds
<1>3. CASE amounts[0] = 0 \/ amounts[1] = 0
  <2>1. f = 0 /\ g = 0
    BY <1>3 DEF ComputeFunding, Sim!SimFunding
  <2> HIDE DEF f, g, d, x, w
  <2> QED
    BY <1>2, <2>1 DEF BPS_SCALE, f, g, d, x, w
<1>4. CASE ~ (amounts[0] = 0 \/ amounts[1] = 0)
  <2>1. t > 0
    BY <1>1, <1>4, PerpScale
  <2>2. i = ((y - x) * 10000) \div t
    BY <1>1 DEF ImbalanceBps, BPS_SCALE
  <2>3. f = (x * r * i) \div 100000000 /\ g = (x * c) \div 10000
    BY <1>4, SimMath DEF ComputeFunding, Sim!SimFunding, BPS_SCALE
  <2> HIDE DEF w, x, y, t, i, f, r, d, g
  <2>4. i \in Nat
    BY <1>1, <2>1, <2>2, DivBounds
  <2>5. r * i \in Nat
    BY <1>1, <2>4, ProductNat
  <2>6. c \in Nat /\ 10000 * c <= r * i /\ r * i < 10000 * c + 10000
    BY <2>5, DivBounds
  <2> HIDE DEF c
  <2>7. x * r * i = x * (r * i) /\ x * (r * i) \in Nat /\ x * c \in Nat
    BY <1>1, <2>4, <2>5, <2>6, ProductNat
  <2>8. f \in Nat /\ 100000000 * f <= x * (r * i)
    BY <2>3, <2>7, DivBounds
  <2>9. g \in Nat /\ 10000 * g <= x * c /\ x * c < 10000 * g + 10000
    BY <2>3, <2>7, DivBounds
  <2>10. x * (10000 * c) <= x * (r * i) /\ x * (r * i) <= x * (10000 * c + 10000)
    <3>1. 10000 * c \in Nat /\ 10000 * c + 10000 \in Nat /\ r * i <= 10000 * c + 10000
      BY <2>5, <2>6
    <3> QED
      BY <1>1, <2>5, <2>6, <3>1, ProductMonotone
  <2>11. x * (10000 * c) = 10000 * (x * c)
         /\ x * (10000 * c + 10000) = 10000 * (x * c) + 10000 * x
    BY <1>1, <2>6
  <2>12. g <= f
    <3>1. g * 100000000 <= x * r * i
      BY <2>7, <2>9, <2>10, <2>11
    <3> QED
      BY <2>3, <2>7, <2>9, <3>1, DivAtLeast
  <2>13. f <= g + d + 1
    BY <1>1, <1>2, <2>7, <2>8, <2>9, <2>10, <2>11
  <2> QED
    BY <2>12, <2>13 DEF BPS_SCALE, w, x, f, g, d
<1> QED
  BY <1>3, <1>4

(* A launched market has a creator, who is paid a commission.              *)
HasCreator == launched => creator_account.creator # NoKey

LEMMA CreatorStep == HasCreator /\ TypeOK /\ [Next]_vars => HasCreator'
<1> SUFFICES ASSUME HasCreator, TypeOK, [Next]_vars PROVE HasCreator'
  OBVIOUS
<1> USE DEF HasCreator, launch_vars, fee_vars
<1>1. CASE UNCHANGED vars \/ Tick \/ CrankEpoch
  BY <1>1 DEF vars, Tick, CrankEpoch
<1>2. ASSUME NEW maker \in Accounts, NEW side \in Sides, NEW amount \in Amounts,
             Deposit(maker, side, amount)
      PROVE  HasCreator'
  BY <1>2 DEF Deposit
<1>3. ASSUME NEW maker \in Accounts, NEW n \in Nonces, ExitPerpetual(maker, n)
      PROVE  HasCreator'
  BY <1>3 DEF ExitPerpetual, TypeOK
<1>4. ASSUME NEW signer \in Accounts, NEW creator \in Accounts,
             CreatePerpMarket(signer, creator)
      PROVE  HasCreator'
  BY <1>4, PerpAssumption DEF CreatePerpMarket
<1>5. ASSUME NEW signer \in Accounts,
             ClosePerpMarket(signer) \/ CollectFees(signer) \/ ClaimCreatorFees(signer)
      PROVE  HasCreator'
  BY <1>5 DEF ClosePerpMarket, CollectFees, ClaimCreatorFees, TypeOK
<1> QED
  BY <1>1, <1>2, <1>3, <1>4, <1>5 DEF Next, MakerStep, AuthorityStep

LEMMA CreatorHolds == Spec => []HasCreator
<1>1. Init => HasCreator
  BY DEF Init, HasCreator
<1> QED
  BY <1>1, CreatorStep, PerpTypeCorrect, PTL DEF Spec

LEMMA MirrorTick == Tick /\ clock \in Int => Sim!Advance(clock' - clock)
BY DEF Tick, Sim!Advance, launch_vars, epoch_vars, share_vars, entry_vars, fee_vars,
       LivePositions

LEMMA MirrorDeposit ==
    ASSUME TypeOK, NEW maker \in Accounts, NEW side \in Sides, NEW amount \in Amounts,
           Deposit(maker, side, amount)
    PROVE  Sim!Deposit(maker, side, amount)
<1> DEFINE weight == ComputeEntryWeight(clock - created_at)
           entered == [live |-> TRUE, maker |-> maker, side |-> side, amount |-> amount,
                       entry_weight |-> weight]
           booked == [n \in LivePositions |-> SimPosition(positions[n])]
           pos == [maker |-> maker, side |-> side, amount |-> amount, entryWeight |-> weight]
<1>1. positions' = [positions EXCEPT ![position_count] = entered]
      /\ position_count \in Nonces /\ positions \in [Nonces -> PositionType]
  BY PerpAssumption DEF Deposit, TypeOK, Nonces
<1>2. LivePositions' = LivePositions \cup {position_count}
  BY <1>1 DEF LivePositions
<1>3. SimPosition(entered) = pos
  BY DEF SimPosition
<1>4. DOMAIN booked = LivePositions
  OBVIOUS
<1>5. [n \in LivePositions |-> SimPosition(positions[n])]'
          = [id \in DOMAIN booked \cup {position_count} |->
                 IF id = position_count THEN pos ELSE booked[id]]
  <2>1. \A n \in LivePositions' :
           SimPosition(positions'[n])
               = IF n = position_count THEN pos ELSE booked[n]
    <3>1. \A n \in LivePositions : n \in Nonces
      BY DEF LivePositions
    <3> QED
      BY <1>1, <1>2, <1>3, <3>1
  <2> QED
    BY <1>2, <1>4, <2>1
<1> QED
  BY <1>5, SimMath DEF Deposit, Sim!Deposit, Sim!clock_vars, launch_vars, epoch_vars, fee_vars

LEMMA MirrorCrank ==
    ASSUME TypeOK, CrankEpoch, ~ ShortOfRebate
    PROVE  Sim!CrankWithin(cumulative_funding_paid' - cumulative_funding_paid)
<1> DEFINE f == ComputeFunding(pools)
           rebate == LesserOf(CrankerRebate(f), Available)
<1>1. /\ f \in Nat /\ pools \in [Sides -> Nat] /\ cumulative_funding_paid \in Nat
      /\ vault \in Nat /\ Available <= vault /\ Available \in Nat /\ rebate \in Nat
      /\ Credit(f, rebate) = f - rebate
  BY FundingFacts, CrankFacts DEF TypeOK
<1>2. cumulative_funding_paid' = cumulative_funding_paid + f
  BY DEF CrankEpoch
<1>3. cumulative_funding_paid' - cumulative_funding_paid = f
  <2> HIDE DEF f
  <2> QED
    BY <1>1, <1>2
<1>4. rebate = LesserOf(CrankerRebate(f), vault)
  <2>1. ~ (Available < CrankerRebate(f))
    BY DEF ShortOfRebate
  <2>2. CrankerRebate(f) \in Nat
    <3>1. CRANKER_REBATE_BPS \in Nat
      BY PerpMathAssumption
    <3>2. f * CRANKER_REBATE_BPS \in Nat
      BY <1>1, <3>1, ProductNat
    <3> QED
      BY <3>2, DivBounds DEF CrankerRebate, BPS_SCALE
  <2> HIDE DEF f
  <2> QED
    BY <1>1, <2>1, <2>2 DEF LesserOf
<1>5. Sim!SimFunding(pools) <= f
      /\ f <= Sim!SimFunding(pools) + pools[1 - FundingWinner(pools)] \div BPS_SCALE + 1
  BY <1>1, SimFundingNear
<1>6. Sim!MoveFunding(f)
  <2> HIDE DEF f
  <2>1. /\ pools' = [pools EXCEPT ![1 - FundingWinner(pools)] = @ - f,
                                  ![FundingWinner(pools)] = @ + (f - LesserOf(CrankerRebate(f), vault))]
        /\ vault' = vault - LesserOf(CrankerRebate(f), vault)
    BY <1>1, <1>4 DEF CrankEpoch, f
  <2>2. UNCHANGED <<positions, position_count, created_at, clock, is_closed, weighted_pools,
                    protocol_fee_collected, creator_account>>
        /\ last_epoch_at' = clock
    BY DEF CrankEpoch, launch_vars, share_vars, entry_vars, fee_vars
  <2>3. ~ is_closed /\ clock - last_epoch_at >= EPOCH_SECS /\ f > 0
    BY DEF CrankEpoch, EpochElapsed, f
  <2> QED
    BY <1>2, <2>1, <2>2, <2>3, SimMath DEF Sim!MoveFunding, LivePositions
<1> QED
  BY <1>3, <1>5, <1>6, SimMath DEF Sim!CrankWithin

LEMMA MirrorExit ==
    ASSUME TypeOK, PerpLedgerInv, HasCreator, NEW maker \in Accounts, NEW n \in Nonces,
           ExitPerpetual(maker, n), ~ ShortOfExit(n)
    PROVE  Sim!Exit(n)
<1> DEFINE p == positions[n]
           booked == [k \in LivePositions |-> SimPosition(positions[k])]
           pos == booked[n]
<1>1. p.live /\ n \in LivePositions /\ launched
  BY DEF ExitPerpetual, LivePositions, PerpLedgerInv, PerpBookkeeping
<1>2. /\ pos.maker = p.maker /\ pos.side = p.side /\ pos.amount = p.amount
      /\ pos.entryWeight = p.entry_weight
  BY <1>1 DEF SimPosition
<1>3. Payout(p) = Net(p)
  <2>1. ~ (Available < Net(p)) /\ Available \in Nat /\ Net(p) \in Nat
    BY ExitTypes DEF ShortOfExit
  <2> QED
    BY <2>1 DEF Payout, LesserOf
<1>4. \A due : Paid(p, due) = due
  <2>1. ~ (Payout(p) < Net(p))
    BY <1>3, ExitTypes
  <2> QED
    BY <2>1 DEF Paid
<1>5. CreatorFeeBps = CREATOR_FEE_BPS
  BY <1>1 DEF HasCreator, CreatorFeeBps
<1>6. /\ pools' = [pools EXCEPT ![p.side] = @ - Paid(p, Gross(p))]
      /\ weighted_pools' = [weighted_pools EXCEPT ![p.side] = @ - p.amount * p.entry_weight]
  BY ExitShares
<1>7. booked' = [other \in DOMAIN booked \ {n} |-> booked[other]]
  <2>1. positions' = [positions EXCEPT ![n] = NoPosition] /\ positions \in [Nonces -> PositionType]
    BY DEF ExitPerpetual, TypeOK
  <2>2. LivePositions' = LivePositions \ {n}
    BY <2>1 DEF LivePositions, NoPosition
  <2>3. \A k \in LivePositions' : positions'[k] = positions[k] /\ k \in LivePositions
    BY <2>1, <2>2 DEF LivePositions
  <2> QED
    BY <2>2, <2>3
<1>8. Profit(p) = IF Gross(p) > p.amount THEN Gross(p) - p.amount ELSE 0
  BY ExitTypes DEF Profit, SatSub
<1>9. /\ vault' = vault - Net(p)
      /\ protocol_fee_collected' = protocol_fee_collected + ProtocolFee(p)
      /\ creator_account'.fee_collected = creator_account.fee_collected + CreatorFee(p)
      /\ UNCHANGED <<clock, created_at, last_epoch_at, is_closed, cumulative_funding_paid,
                     position_count>>
  BY <1>3, <1>4 DEF ExitPerpetual, TypeOK, launch_vars, epoch_vars, entry_vars
<1>10. /\ Gross(p) = ComputeExitValue(pos.amount, pos.entryWeight, pools[pos.side],
                                      weighted_pools[pos.side])
       /\ ProtocolFee(p) = FeeOn(Profit(p), PROTOCOL_FEE_BPS)
       /\ CreatorFee(p) = FeeOn(Profit(p), CREATOR_FEE_BPS)
  BY <1>2, <1>5 DEF Gross, ProtocolFee, CreatorFee
<1> DEFINE gross == Sim!ComputeExitValue(pos.amount, pos.entryWeight, pools[pos.side],
                                         weighted_pools[pos.side])
           profit == IF gross > pos.amount THEN gross - pos.amount ELSE 0
           protocolFee == Sim!FeeOn(profit, PROTOCOL_FEE_BPS)
           creatorFee == Sim!FeeOn(profit, CREATOR_FEE_BPS)
<1>11. /\ gross = Gross(p) /\ profit = Profit(p)
       /\ protocolFee = ProtocolFee(p) /\ creatorFee = CreatorFee(p)
  <2>1. gross = Gross(p)
    BY <1>10, SimMath
  <2>2. profit = Profit(p)
    BY <1>2, <1>8, <2>1
  <2> QED
    BY <1>10, <2>1, <2>2, SimMath
<1> HIDE DEF p
<1>12. /\ pools' = [pools EXCEPT ![pos.side] = @ - gross]
       /\ weighted_pools' = [weighted_pools EXCEPT ![pos.side] = @ - pos.amount * pos.entryWeight]
       /\ vault' = vault - (gross - protocolFee - creatorFee)
       /\ protocol_fee_collected' = protocol_fee_collected + protocolFee
       /\ creator_account'.fee_collected = creator_account.fee_collected + creatorFee
       /\ booked' = [other \in DOMAIN booked \ {n} |-> booked[other]]
  <2> HIDE DEF pos, gross, profit, protocolFee, creatorFee
  <2>1. pools' = [pools EXCEPT ![pos.side] = @ - gross]
    BY <1>2, <1>4, <1>6, <1>11
  <2>2. weighted_pools' = [weighted_pools EXCEPT ![pos.side] = @ - pos.amount * pos.entryWeight]
    BY <1>2, <1>6
  <2> QED
    BY <1>7, <1>9, <1>11, <2>1, <2>2 DEF Net
<1> QED
  BY <1>9, <1>12 DEF Sim!Exit, Sim!clock_vars

(* Every step that is not short of lamports is a step of the offline       *)
(* model, but for the funding a crank moves.                               *)
THEOREM MirrorCorrect == Spec => SimMirrorsMarket
<1> DEFINE A == /\ clock' > clock => Sim!Advance(clock' - clock)
                /\ position_count' > position_count =>
                       \E maker \in Accounts, side \in Sides, amount \in Amounts :
                           Sim!Deposit(maker, side, amount)
                /\ (cumulative_funding_paid' > cumulative_funding_paid /\ ~ ShortOfRebate) =>
                       Sim!CrankWithin(cumulative_funding_paid' - cumulative_funding_paid)
                /\ \A n \in LivePositions :
                       ~ positions[n]'.live /\ ~ ShortOfExit(n) => Sim!Exit(n)
<1>1. TypeOK /\ PerpLedgerInv /\ HasCreator /\ [Next]_vars => [A]_vars
  <2> SUFFICES ASSUME TypeOK, PerpLedgerInv, HasCreator, Next PROVE A
    OBVIOUS
  <2>0. /\ \A i \in Int : ~ (i > i)
        /\ clock \in Int /\ position_count \in Int /\ cumulative_funding_paid \in Int
    BY DEF TypeOK
  <2>1. CASE Tick
    <3>1. UNCHANGED <<position_count, cumulative_funding_paid, positions>>
      BY <2>1 DEF Tick, entry_vars, epoch_vars
    <3> QED
      BY <2>0, <2>1, <3>1, MirrorTick DEF LivePositions
  <2>2. ASSUME NEW maker \in Accounts, NEW side \in Sides, NEW amount \in Amounts,
               Deposit(maker, side, amount)
        PROVE  A
    <3>1. UNCHANGED <<clock, cumulative_funding_paid>>
      BY <2>2 DEF Deposit, epoch_vars
    <3>2. Sim!Deposit(maker, side, amount)
      BY <2>2, MirrorDeposit
    <3>3. \A n \in LivePositions : positions[n]'.live
      <4>1. \A n \in LivePositions : n \in Nonces /\ n # position_count
        BY DEF LivePositions, PerpLedgerInv, PerpBookkeeping, TypeOK, Nonces
      <4> QED
        BY <2>2, <4>1 DEF Deposit, LivePositions, TypeOK
    <3> QED
      BY <2>0, <3>1, <3>2, <3>3
  <2>3. ASSUME NEW maker \in Accounts, NEW m \in Nonces, ExitPerpetual(maker, m)
        PROVE  A
    <3>1. UNCHANGED <<clock, cumulative_funding_paid, position_count>>
      BY <2>3 DEF ExitPerpetual, epoch_vars, entry_vars
    <3>2. \A n \in LivePositions : n # m => positions[n]'.live
      BY <2>3 DEF ExitPerpetual, LivePositions, TypeOK
    <3>3. ~ ShortOfExit(m) => Sim!Exit(m)
      BY <2>3, MirrorExit
    <3> QED
      BY <2>0, <3>1, <3>2, <3>3
  <2>4. CASE CrankEpoch
    <3>1. UNCHANGED <<clock, position_count, positions>>
      BY <2>4 DEF CrankEpoch, entry_vars
    <3>2. ~ ShortOfRebate =>
              Sim!CrankWithin(cumulative_funding_paid' - cumulative_funding_paid)
      BY <2>4, MirrorCrank
    <3> QED
      BY <2>0, <3>1, <3>2 DEF LivePositions
  <2>5. CASE AuthorityStep
    <3>1. ASSUME NEW signer \in Accounts,
                 ClosePerpMarket(signer) \/ CollectFees(signer) \/ ClaimCreatorFees(signer)
          PROVE  UNCHANGED <<clock, position_count, cumulative_funding_paid, positions>>
      BY <3>1 DEF ClosePerpMarket, CollectFees, ClaimCreatorFees, entry_vars, epoch_vars
    <3>2. ASSUME NEW signer \in Accounts, NEW creator \in Accounts,
                 CreatePerpMarket(signer, creator)
          PROVE  /\ UNCHANGED <<clock, positions>>
                 /\ position_count' = 0 /\ cumulative_funding_paid' = 0
      BY <3>2 DEF CreatePerpMarket
    <3>3. /\ UNCHANGED <<clock, positions>>
          /\ ~ (position_count' > position_count)
          /\ ~ (cumulative_funding_paid' > cumulative_funding_paid)
      <4>1. position_count \in Nat /\ cumulative_funding_paid \in Nat
        BY DEF TypeOK
      <4> QED
        BY <2>5, <3>1, <3>2, <4>1 DEF AuthorityStep
    <3> QED
      BY <2>0, <3>3 DEF LivePositions
  <2> QED
    BY <2>1, <2>2, <2>3, <2>4, <2>5 DEF Next, MakerStep
<1>2. [][A]_vars <=> SimMirrorsMarket
  BY DEF SimMirrorsMarket
<1> HIDE DEF A
<1>3. Spec => [][A]_vars
  BY <1>1, CreatorHolds, PerpLedgerHolds, PerpTypeCorrect, PTL DEF Spec
<1> QED
  BY <1>2, <1>3

-----------------------------------------------------------------------------
(* The smaller pool keeps something of what it has.                        *)
LEMMA FundingLeavesSome ==
    ASSUME NEW amounts \in [Sides -> Nat], ComputeFunding(amounts) > 0
    PROVE  ComputeFunding(amounts) < amounts[1 - FundingWinner(amounts)]
<1> DEFINE w == FundingWinner(amounts)
           x == amounts[1 - w]
           y == amounts[w]
           t == amounts[0] + amounts[1]
           i == ImbalanceBps(amounts)
           f == ComputeFunding(amounts)
           r == FUNDING_RATE_BPS
<1>1. /\ w \in Sides /\ 1 - w \in Sides /\ w # 1 - w
      /\ x \in Nat /\ y \in Nat /\ x <= y /\ t = x + y /\ t \in Nat
      /\ r \in Nat /\ r <= 10000
  BY PerpScale, PerpMathAssumption DEF FundingWinner, BPS_SCALE
<1>2. /\ ~ (amounts[0] = 0 \/ amounts[1] = 0)
      /\ f = (x * r * i) \div 100000000
  BY DEF ComputeFunding, BPS_SCALE
<1>3. x > 0 /\ t > 0
  BY <1>1, <1>2, PerpScale
<1>4. i = ((y - x) * 10000) \div t
  BY <1>1 DEF ImbalanceBps, BPS_SCALE
<1> HIDE DEF w, x, y, t, i, f, r
<1>5. i \in Nat /\ i < 10000
  <2>1. (y - x) * 10000 \in Nat /\ (y - x) * 10000 < 10000 * t
    BY <1>1, <1>3
  <2>2. i \in Nat /\ i * t <= (y - x) * 10000
    BY <1>1, <1>3, <1>4, <2>1, DivBounds
  <2>3. CASE i >= 10000
    <3>1. 10000 * t <= i * t /\ i * t \in Nat
      BY <1>1, <2>2, <2>3, ProductMonotone, ProductNat
    <3> QED
      BY <1>1, <2>1, <2>2, <3>1
  <2> QED
    BY <2>2, <2>3
<1>6. x * r \in Nat /\ x * r * i \in Nat /\ x * r <= x * 10000
  BY <1>1, <1>5, ProductNat, ProductMonotone
<1>7. f \in Nat /\ 100000000 * f <= x * r * i
  BY <1>2, <1>6, DivBounds
<1>8. x * r * i <= (x * r) * 9999
  BY <1>5, <1>6, ProductMonotone
<1>9. f < x
  BY <1>1, <1>3, <1>6, <1>7, <1>8
<1> QED
  BY <1>9 DEF f, x, w

(* The fees of an exit are within the gain, also when they are scaled.     *)
LEMMA ExitFees ==
    ASSUME TypeOK, NEW n \in Nonces
    PROVE  LET p == positions[n]
           IN  Paid(p, ProtocolFee(p)) + Paid(p, CreatorFee(p)) <= Profit(p)
<1> DEFINE p == positions[n]
<1>1. /\ p.amount \in Nat /\ Gross(p) \in Nat /\ Net(p) \in Nat /\ Payout(p) \in Nat
      /\ ProtocolFee(p) \in Nat /\ CreatorFee(p) \in Nat
      /\ Paid(p, ProtocolFee(p)) \in Nat /\ Paid(p, CreatorFee(p)) \in Nat
  BY ExitTypes
<1> HIDE DEF p
<1>2. ProtocolFee(p) + CreatorFee(p) <= Profit(p) /\ Profit(p) \in Nat
  <2>1. /\ PROTOCOL_FEE_BPS \in Nat /\ CreatorFeeBps \in Nat
        /\ PROTOCOL_FEE_BPS + CreatorFeeBps <= BPS_SCALE
    BY PerpMathAssumption DEF CreatorFeeBps, BPS_SCALE
  <2>2. Profit(p) \in Nat
    BY <1>1 DEF Profit, SatSub
  <2> QED
    BY <2>1, <2>2, FeeFacts DEF ProtocolFee, CreatorFee
<1>3. \A due \in Nat : Paid(p, due) <= due
  <2> SUFFICES ASSUME NEW due \in Nat PROVE Paid(p, due) <= due
    OBVIOUS
  <2>1. CASE Payout(p) < Net(p)
    <3>1. due * Payout(p) \in Nat /\ due * Payout(p) <= due * Net(p) /\ Net(p) > 0
      BY <1>1, <2>1, ProductNat, ProductMonotone
    <3>2. Paid(p, due) = (due * Payout(p)) \div Net(p)
      BY <2>1 DEF Paid
    <3> QED
      BY <1>1, <3>1, <3>2, DivMonotone
  <2>2. CASE ~ (Payout(p) < Net(p))
    BY <2>2 DEF Paid
  <2> QED
    BY <2>1, <2>2
<1> QED
  BY <1>1, <1>2, <1>3 DEF p

-----------------------------------------------------------------------------
(* The instance of the sums is the same sum.                               *)
LEMMA SameFundSums == \A f, n : Fund!SumUpTo(f, n) = SumUpTo(f, n)
BY DEF Fund!SumUpTo, Fund!PartialSums, SumUpTo, PartialSums

LEMMA BookedFees ==
    ASSUME TypeOK
    PROVE  FeesBooked \in Nat
BY BookedParts DEF FeesBooked

(* A share is valued among the shares still in, by the weighted pool.      *)
LEMMA WorthIsGross ==
    ASSUME TypeOK, PerpLedgerInv, NEW n \in Nonces, positions[n].live,
           Gross(positions[n]) > 0
    PROVE  Fund!Worth(n) = Gross(positions[n])
<1> DEFINE p == positions[n]
<1>1. p.side \in Sides
  BY ExitTypes
<1>2. Fund!SharesOn(p.side) = WeightOn(positions, p.side)
  <2>1. \A m \in Nonces : (Holding[m] = "in") <=> positions[m].live
    BY DEF Holding
  <2> QED
    BY <2>1 DEF Fund!SharesOn, WeightOn, LiveOn, Part, PartOf
<1>3. SumUpTo(WeightOn(positions, p.side), MAX_POSITIONS) = weighted_pools[p.side]
  BY <1>1 DEF PerpLedgerInv, LedgerMatchesPositions
<1>4. weighted_pools[p.side] # 0
  BY DEF Gross, ComputeExitValue
<1>5. Gross(p) = (p.amount * p.entry_weight * pools[p.side]) \div weighted_pools[p.side]
  BY <1>4 DEF Gross, ComputeExitValue
<1>6. Part[n].side = p.side /\ Part[n].share = p.amount * p.entry_weight
  BY DEF Part, PartOf
<1> QED
  BY <1>2, <1>3, <1>5, <1>6, SameFundSums DEF Fund!Worth

(* What the fund does not see.                                             *)
LEMMA FundStutters ==
    ASSUME UNCHANGED <<is_closed, positions, position_count, pools, vault, fee_vars>>
    PROVE  UNCHANGED Fund!fund_vars
<1>1. Phase' = Phase /\ Holding' = Holding /\ Part' = Part /\ FeesBooked' = FeesBooked
  BY DEF Phase, Holding, Part, FeesBooked, fee_vars
<1> QED
  BY <1>1 DEF Fund!fund_vars

LEMMA DepositIsPutIn ==
    ASSUME TypeOK, PerpLedgerInv, NEW maker \in Accounts, NEW side \in Sides,
           NEW amount \in Amounts, Deposit(maker, side, amount)
    PROVE  Fund!PutIn(position_count)
<1> DEFINE n == position_count
           weight == ComputeEntryWeight(clock - created_at)
           p == [live |-> TRUE, maker |-> maker, side |-> side, amount |-> amount,
                 entry_weight |-> weight]
<1>1. /\ amount \in Nat /\ amount > 0 /\ n \in Nonces /\ n \in Nat
      /\ vault \in Nat /\ vault' = vault + amount
      /\ ~ is_closed /\ is_closed' = is_closed /\ n < MAX_POSITIONS
      /\ pools' = [pools EXCEPT ![side] = @ + amount]
      /\ positions' = [positions EXCEPT ![n] = p] /\ position_count' = n + 1
      /\ UNCHANGED fee_vars
  BY PerpAssumption DEF Deposit, TypeOK, Nonces
<1>2. weight \in Weights
  <2>1. clock - created_at \in Int
    BY DEF TypeOK
  <2> QED
    BY <2>1, PerpEntryWeight
<1>3. p.live /\ PartOf(p) = [side |-> side, stake |-> amount, share |-> amount * weight]
  BY DEF PartOf
<1>4. \A m \in Nonces : m \in Nat /\ (positions[m].live => m < n)
  BY DEF PerpLedgerInv, PerpBookkeeping, Nonces
<1>5. positions \in [Nonces -> PositionType]
  BY DEF TypeOK
<1> HIDE DEF n, weight, p
<1>6. \A m \in Nonces : positions'[m] = IF m = n THEN p ELSE positions[m]
  BY <1>1, <1>5
<1>7. Holding[n] = "free" /\ Holding' = [Holding EXCEPT ![n] = "in"]
  <2>1. \A m \in Nonces : Holding'[m] = IF m = n THEN "in" ELSE Holding[m]
    <3>1. \A m \in Nonces : (m < position_count') <=> (m < n \/ m = n)
      BY <1>1, <1>4
    <3>2. position_count = n
      BY DEF n
    <3> QED
      BY <1>3, <1>4, <1>6, <3>1, <3>2 DEF Holding
  <2>2. Holding[n] = "free"
    <3>1. ~ positions[n].live /\ ~ (n < position_count)
      BY <1>1, <1>4 DEF n
    <3> QED
      BY <1>1, <3>1 DEF Holding
  <2> QED
    BY <2>1, <2>2 DEF Holding
<1>8. Part' = [Part EXCEPT ![n] = PartOf(p)]
  <2>1. \A m \in Nonces : Part'[m] = IF m = n THEN PartOf(p) ELSE Part[m]
    BY <1>6 DEF Part, PartOf
  <2> QED
    BY <1>1, <2>1 DEF Part
<1>9. vault' - vault = amount
  BY <1>1
<1>10. Phase = "open" /\ Phase' = Phase /\ FeesBooked' = FeesBooked
  BY <1>1 DEF Phase, FeesBooked, fee_vars
<1>11. side \in {0, 1}
  BY PerpScale
<1> QED
  BY <1>1, <1>2, <1>3, <1>7, <1>8, <1>9, <1>10, <1>11 DEF Fund!PutIn, Fund!Pools, n

LEMMA CrankIsFlow ==
    ASSUME TypeOK, CrankEpoch
    PROVE  Fund!Flow(1 - FundingWinner(pools))
<1> DEFINE funding == ComputeFunding(pools)
           winner  == FundingWinner(pools)
           s       == 1 - winner
           rebate  == LesserOf(CrankerRebate(funding), Available)
           credit  == Credit(funding, rebate)
<1>1. /\ winner \in Sides /\ s \in Sides /\ winner # s /\ winner = 1 - s /\ funding \in Nat
      /\ 0 \in Sides /\ 1 \in Sides /\ (s = 0 \/ s = 1)
  BY FundingFacts, PerpScale DEF TypeOK
<1>2. credit = funding - rebate /\ rebate \in Nat /\ credit \in Nat /\ rebate <= vault
  BY CrankFacts DEF TypeOK
<1>3. /\ pools' = [pools EXCEPT ![s] = @ - funding, ![winner] = @ + credit]
      /\ vault' = vault - rebate /\ funding > 0
      /\ UNCHANGED <<is_closed, positions, position_count, fee_vars>> /\ ~ is_closed
  BY DEF CrankEpoch, entry_vars
<1>4. pools \in [Sides -> Nat] /\ vault \in Nat
  BY DEF TypeOK
<1>5. funding < pools[s]
  BY <1>3, <1>4, FundingLeavesSome
<1>6. pools[s] <= pools[winner]
  BY <1>4, PerpScale DEF FundingWinner
<1> HIDE DEF funding, winner, s, rebate, credit
<1>7. pools'[s] = pools[s] - funding /\ pools'[winner] = pools[winner] + credit
  BY <1>1, <1>2, <1>3, <1>4
<1>8. pools' = [pools EXCEPT ![s] = pools'[s], ![1 - s] = pools'[1 - s]]
  BY <1>1, <1>3, <1>4, <1>7
<1>9. vault - vault' = (pools[0] + pools[1]) - (pools'[0] + pools'[1])
  <2>1. pools[0] \in Nat /\ pools[1] \in Nat
    BY <1>1, <1>4
  <2>2. CASE s = 0
    BY <1>1, <1>2, <1>3, <1>4, <1>7, <2>1, <2>2
  <2>3. CASE s = 1
    BY <1>1, <1>2, <1>3, <1>4, <1>7, <2>1, <2>3
  <2> QED
    BY <1>1, <2>2, <2>3
<1>10. /\ 0 < pools'[s] /\ pools'[s] < pools[s] /\ pools'[1 - s] >= pools[1 - s]
       /\ vault' <= vault
  BY <1>1, <1>2, <1>3, <1>4, <1>5, <1>7
<1>11. /\ Phase = "open" /\ Phase' = Phase /\ FeesBooked' = FeesBooked
       /\ Holding' = Holding /\ Part' = Part
  BY <1>3 DEF Phase, FeesBooked, fee_vars, Holding, Part
<1> QED
  BY <1>1, <1>6, <1>8, <1>9, <1>10, <1>11 DEF Fund!Flow, s, winner

LEMMA ExitIsLeave ==
    ASSUME TypeOK, PerpLedgerInv, NEW maker \in Accounts, NEW n \in Nonces,
           ExitPerpetual(maker, n)
    PROVE  Fund!Leave(n)
<1> DEFINE p  == positions[n]
           out == Payout(p)
           taken == Paid(p, Gross(p))
           pf == Paid(p, ProtocolFee(p))
           cf == Paid(p, CreatorFee(p))
<1>1. /\ p.side \in Sides /\ p.amount \in Nat /\ out \in Nat /\ taken \in Nat
      /\ pf \in Nat /\ cf \in Nat /\ Gross(p) \in Nat /\ Net(p) \in Nat
      /\ ProtocolFee(p) \in Nat /\ CreatorFee(p) \in Nat
      /\ Net(p) + ProtocolFee(p) + CreatorFee(p) = Gross(p) /\ taken <= Gross(p)
      /\ out + pf + cf <= taken /\ taken <= out + pf + cf + 1 /\ out <= Net(p)
  BY ExitTypes
<1>2. /\ pools' = [pools EXCEPT ![p.side] = @ - taken]
  BY ExitShares
<1>3. /\ vault' = vault - out /\ UNCHANGED <<position_count, is_closed>> /\ p.live
      /\ protocol_fee_collected' = protocol_fee_collected + pf
      /\ creator_account' = [creator_account EXCEPT !.fee_collected = @ + cf]
      /\ positions' = [positions EXCEPT ![n] = NoPosition]
      /\ Gross(p) > 0 /\ out > 0
  BY DEF ExitPerpetual, ExitGoesThrough, entry_vars
<1>4. Fund!Worth(n) = Gross(p)
  BY <1>3, WorthIsGross
<1>5. pf + cf <= Profit(p)
  BY ExitFees
<1>6. \/ out = Net(p) /\ taken = Gross(p) /\ pf = ProtocolFee(p) /\ cf = CreatorFee(p)
      \/ vault' = MIN_RENT
  <2>1. CASE out < Net(p)
    <3>1. out = Available
      BY <1>1, <2>1 DEF Payout, LesserOf
    <3>2. Available > 0
      BY <1>3, <3>1
    <3>3. Available = vault - MIN_RENT
      BY <3>2 DEF Available, SatSub
    <3>4. vault \in Nat /\ MIN_RENT \in Nat
      BY PerpAssumption DEF TypeOK
    <3> QED
      BY <1>3, <3>1, <3>3, <3>4
  <2>2. CASE ~ (out < Net(p))
    <3>1. \A due : Paid(p, due) = due
      BY <2>2 DEF Paid
    <3> QED
      BY <1>1, <2>2, <3>1
  <2> QED
    BY <2>1, <2>2
<1>7. positions \in [Nonces -> PositionType] /\ n < position_count
  BY <1>3 DEF TypeOK, PerpLedgerInv, PerpBookkeeping
<1>8. Part[n].side = p.side /\ Part[n].stake = p.amount
  BY DEF Part, PartOf
<1>9. pools \in [Sides -> Nat] /\ vault \in Nat
  BY DEF TypeOK
<1>10. creator_account'.fee_collected = creator_account.fee_collected + cf
  BY <1>3 DEF TypeOK
<1>11. pf + cf = 0 \/ pf + cf <= Gross(p) - p.amount
  BY <1>1, <1>5 DEF Profit, SatSub
<1> HIDE DEF p, out, taken, pf, cf
<1>12. /\ pools[p.side] - pools'[p.side] = taken /\ vault - vault' = out
       /\ pools' = [pools EXCEPT ![p.side] = pools'[p.side]]
  <2>1. pools'[p.side] = pools[p.side] - taken /\ pools[p.side] \in Nat
    BY <1>1, <1>2, <1>9
  <2>2. pools' = [pools EXCEPT ![p.side] = pools'[p.side]]
    BY <1>2, <1>9, <2>1
  <2>3. vault - vault' = out
    BY <1>1, <1>3, <1>9
  <2> QED
    BY <1>1, <2>1, <2>2, <2>3
<1>13. FeesBooked' - FeesBooked = pf + cf
  BY <1>1, <1>3, <1>10, BookedParts DEF FeesBooked
<1>14. \A m \in Nonces : positions'[m] = IF m = n THEN NoPosition ELSE positions[m]
  BY <1>3, <1>7
<1>15. Holding[n] = "in" /\ Holding' = [Holding EXCEPT ![n] = "out"]
  <2>1. \A m \in Nonces : Holding'[m] = IF m = n THEN "out" ELSE Holding[m]
    BY <1>3, <1>7, <1>14 DEF Holding, NoPosition
  <2> QED
    BY <1>3, <2>1 DEF Holding, p
<1>16. Part' = [Part EXCEPT ![n] = Fund!Nothing]
  <2>1. PartOf(NoPosition) = Fund!Nothing
    BY DEF PartOf, NoPosition, Fund!Nothing
  <2> QED
    BY <1>14, <2>1 DEF Part
<1>17. Phase' = Phase
  BY <1>3 DEF Phase
<1>18. \/ taken = Fund!Worth(n) /\ out + (pf + cf) = taken
       \/ /\ vault' = MIN_RENT /\ taken <= Fund!Worth(n)
          /\ out + (pf + cf) <= taken /\ taken <= out + (pf + cf) + 1
  BY <1>1, <1>4, <1>6
<1>19. out > 0 /\ pf + cf >= 0 /\ (pf + cf = 0 \/ pf + cf <= Fund!Worth(n) - p.amount)
  BY <1>1, <1>3, <1>4, <1>11
<1> HIDE DEF Fund!Worth
<1> QED
  BY <1>8, <1>12, <1>13, <1>15, <1>16, <1>17, <1>18, <1>19 DEF Fund!Leave

LEMMA CollectIsSweep ==
    ASSUME TypeOK, NEW signer \in Accounts, CollectFees(signer)
    PROVE  Fund!Sweep
<1>1. /\ protocol_fee_collected \in Nat /\ creator_account.fee_collected \in Nat
      /\ vault \in Nat
  BY BookedParts
<1>2. SweptFees \in Nat /\ SweptFees > 0 /\ SweptFees <= protocol_fee_collected
  <2>1. Available \in Nat
    BY <1>1, PerpAssumption DEF Available, SatSub
  <2> QED
    BY <1>1, <2>1 DEF SweptFees, LesserOf, CollectFees
<1>3. /\ vault' = vault - SweptFees
      /\ protocol_fee_collected' = protocol_fee_collected - SweptFees
      /\ UNCHANGED <<creator_account, is_closed, pools, positions, position_count>>
  BY <1>1, <1>2 DEF CollectFees, SatSub, entry_vars
<1>4. FeesBooked' = FeesBooked - SweptFees /\ FeesBooked' >= 0 /\ FeesBooked \in Nat
  BY <1>1, <1>2, <1>3 DEF FeesBooked
<1>5. Phase' = Phase /\ Holding' = Holding /\ Part' = Part
  BY <1>3 DEF Phase, Holding, Part
<1>6. FeesBooked' < FeesBooked /\ vault' = vault - (FeesBooked - FeesBooked')
  BY <1>1, <1>2, <1>3, <1>4
<1> QED
  BY <1>3, <1>4, <1>5, <1>6 DEF Fund!Sweep

LEMMA ClaimIsSweep ==
    ASSUME TypeOK, NEW signer \in Accounts, ClaimCreatorFees(signer)
    PROVE  Fund!Sweep
<1> DEFINE actual == LesserOf(creator_account.fee_collected, Available)
<1>1. /\ protocol_fee_collected \in Nat /\ creator_account.fee_collected \in Nat
      /\ vault \in Nat
  BY BookedParts
<1>2. actual \in Nat /\ actual > 0 /\ actual <= creator_account.fee_collected
  <2>1. Available \in Nat
    BY <1>1, PerpAssumption DEF Available, SatSub
  <2> QED
    BY <1>1, <2>1 DEF LesserOf, ClaimCreatorFees
<1>3. /\ vault' = vault - actual
      /\ creator_account'.fee_collected = creator_account.fee_collected - actual
      /\ UNCHANGED <<protocol_fee_collected, is_closed, pools, positions, position_count>>
  BY DEF ClaimCreatorFees, entry_vars, TypeOK
<1> HIDE DEF actual
<1>4. FeesBooked' = FeesBooked - actual /\ FeesBooked' >= 0 /\ FeesBooked \in Nat
  BY <1>1, <1>2, <1>3 DEF FeesBooked
<1>5. Phase' = Phase /\ Holding' = Holding /\ Part' = Part
  BY <1>3 DEF Phase, Holding, Part
<1>6. FeesBooked' < FeesBooked /\ vault' = vault - (FeesBooked - FeesBooked')
  BY <1>1, <1>2, <1>3, <1>4
<1> QED
  BY <1>3, <1>4, <1>5, <1>6 DEF Fund!Sweep

(* Before the launch there is nothing for a market to reset.               *)
BeforeLaunch ==
    ~ launched => /\ pools = Zeros /\ position_count = 0
                  /\ protocol_fee_collected = 0 /\ creator_account.fee_collected = 0

LEMMA BeforeLaunchHolds == Spec => []BeforeLaunch
<1>1. Init => BeforeLaunch
  BY DEF Init, BeforeLaunch
<1>2. PerpLedgerInv /\ BeforeLaunch /\ [Next]_vars => BeforeLaunch'
  <2> SUFFICES ASSUME PerpLedgerInv, BeforeLaunch, [Next]_vars PROVE BeforeLaunch'
    OBVIOUS
  <2>1. CASE launched
    <3>1. launched'
      BY <2>1 DEF Next, MakerStep, AuthorityStep, Tick, Deposit, CrankEpoch, ExitPerpetual,
                  CreatePerpMarket, ClosePerpMarket, CollectFees, ClaimCreatorFees,
                  launch_vars, vars
    <3> QED
      BY <3>1 DEF BeforeLaunch
  <2>2. CASE ~ launched /\ ~ launched'
    <3>1. \A n \in Nonces : ~ positions[n].live
      BY <2>2 DEF PerpLedgerInv, PerpBookkeeping
    <3>2. Tick \/ UNCHANGED vars
      BY <2>2, <3>1 DEF Next, MakerStep, AuthorityStep, Deposit, CrankEpoch, ExitPerpetual,
                  CreatePerpMarket, ClosePerpMarket, CollectFees, ClaimCreatorFees
    <3> QED
      BY <2>2, <3>2 DEF BeforeLaunch, Tick, vars, entry_vars, fee_vars
  <2> QED
    BY <2>1, <2>2 DEF BeforeLaunch
<1> QED
  BY <1>1, <1>2, PerpLedgerHolds, PTL DEF Spec

LEMMA FundStep ==
    ASSUME TypeOK, PerpLedgerInv, BeforeLaunch, [Next]_vars
    PROVE  [Fund!Next]_(Fund!fund_vars)
<1>1. ASSUME NEW maker \in Accounts, NEW side \in Sides, NEW amount \in Amounts,
             Deposit(maker, side, amount)
      PROVE  Fund!Next
  <2>1. position_count \in Nonces
    BY <1>1, PerpAssumption DEF Deposit, TypeOK, Nonces
  <2> QED
    BY <1>1, <2>1, DepositIsPutIn DEF Fund!Next
<1>2. ASSUME NEW maker \in Accounts, NEW n \in Nonces, ExitPerpetual(maker, n)
      PROVE  Fund!Next
  BY <1>2, ExitIsLeave DEF Fund!Next
<1>3. CASE CrankEpoch
  <2>1. 1 - FundingWinner(pools) \in Fund!Pools
    BY PerpScale DEF FundingWinner, Fund!Pools
  <2> QED
    BY <1>3, <2>1, CrankIsFlow DEF Fund!Next
<1>4. ASSUME NEW signer \in Accounts, CollectFees(signer) \/ ClaimCreatorFees(signer)
      PROVE  Fund!Next
  BY <1>4, CollectIsSweep, ClaimIsSweep DEF Fund!Next
<1>5. ASSUME NEW signer \in Accounts, ClosePerpMarket(signer)
      PROVE  Fund!Next
  <2>1. /\ ~ is_closed /\ is_closed'
        /\ UNCHANGED <<pools, vault, position_count, positions, fee_vars>>
    BY <1>5 DEF ClosePerpMarket, entry_vars
  <2>2. /\ Phase = "open" /\ Phase' = "closed"
        /\ UNCHANGED <<Holding, Part, FeesBooked>>
    BY <2>1 DEF Phase, Holding, Part, FeesBooked, fee_vars
  <2> QED
    BY <2>1, <2>2 DEF Fund!Close, Fund!Next
<1>6. ASSUME NEW signer \in Accounts, NEW creator \in Accounts,
             CreatePerpMarket(signer, creator)
      PROVE  UNCHANGED Fund!fund_vars
  <2>1. /\ ~ launched /\ ~ is_closed /\ ~ is_closed'
        /\ pools = Zeros /\ position_count = 0 /\ protocol_fee_collected = 0
        /\ creator_account.fee_collected = 0
    BY <1>6 DEF CreatePerpMarket, BeforeLaunch, PerpLedgerInv, PerpBookkeeping
  <2>2. /\ pools' = pools /\ position_count' = position_count /\ vault' = vault
        /\ positions' = positions /\ FeesBooked' = FeesBooked
    BY <1>6, <2>1 DEF CreatePerpMarket, FeesBooked
  <2>3. Phase' = Phase /\ Holding' = Holding /\ Part' = Part
    BY <2>1, <2>2 DEF Phase, Holding, Part
  <2> QED
    BY <2>2, <2>3 DEF Fund!fund_vars
<1>7. CASE Tick \/ UNCHANGED vars
  BY <1>7, FundStutters DEF Tick, vars, entry_vars
<1> QED
  BY <1>1, <1>2, <1>3, <1>4, <1>5, <1>6, <1>7 DEF Next, MakerStep, AuthorityStep

(* A perpetual market is a fund of shares (deposit.rs, crank_epoch.rs,     *)
(* exit_perpetual.rs): every step of it is a step of the fund.             *)
THEOREM FundCorrect == Spec => ImplementsFund
<1>1. Init => Fund!Init
  <2> SUFFICES ASSUME Init PROVE Fund!Init
    OBVIOUS
  <2>1. /\ Phase = "open" /\ FeesBooked = 0 /\ vault = 0
        /\ pools = [s \in Fund!Pools |-> 0]
    BY PerpScale DEF Init, Phase, FeesBooked, Zeros, Fund!Pools
  <2>2. Holding = [n \in Nonces |-> "free"]
    <3>1. \A n \in Nonces : ~ positions[n].live /\ ~ (n < position_count)
      BY PerpAssumption DEF Init, NoPosition, Nonces
    <3> QED
      BY <3>1 DEF Holding
  <2>3. Part = [n \in Nonces |-> Fund!Nothing]
    BY DEF Init, Part, PartOf, NoPosition, Fund!Nothing
  <2> QED
    BY <2>1, <2>2, <2>3 DEF Fund!Init
<1>2. TypeOK /\ PerpLedgerInv /\ BeforeLaunch /\ [Next]_vars
          => [Fund!Next]_(Fund!fund_vars)
  BY FundStep
<1> QED
  BY <1>1, <1>2, PerpTypeCorrect, PerpLedgerHolds, BeforeLaunchHolds, PTL
  DEF Spec, ImplementsFund, Fund!Spec
=============================================================================
