----------------------- MODULE EscrowSettlementProofs -----------------------
(***************************************************************************)
(* What a resolved market promises, as theorems of the specification: it   *)
(* can pay everybody, in any order; a winner is due at least the deposit   *)
(* and can always claim; a claim is cut by no more than the rent minimum;  *)
(* what the payouts leave in the vault for good is bounded; and what a     *)
(* position is due is settled by the resolution.                           *)
(*                                                                         *)
(* SettlementInv is made true by a resolution (FinaliseSettles, from the   *)
(* sums of EscrowSolvencyProofs) and kept by every later step, since what  *)
(* positions are due is frozen (DueFrozen) and no step takes more out of   *)
(* the vault than it takes off the obligations.  LeftoverInv is the same   *)
(* argument from above: no step but a claim cut for rent leaves more.      *)
(***************************************************************************)
EXTENDS EscrowSolvencyProofs

SettlementInv == Solvent /\ WinnerKeepsPrincipal /\ OnlyRentIsCut

(* The lemmas about a state, of the next state.                            *)
LEMMA FreshlyResolvedNext == ResolvedFacts' => Affordable'
BY FreshlyResolved, PTL

OwedTyped == /\ Owed \in [Nonces -> Nat]
             /\ \A n \in Nonces : Owed[n] = OwedOf(positions[n])
             /\ \A n \in Nonces : DueTo(positions[n]) \in DueType

LEMMA OwedTypedNow == TypeOK => OwedTyped
BY OwedType, DueToType DEF OwedTyped

LEMMA OwedTypedNext == TypeOK' => OwedTyped'
BY OwedTypedNow, PTL

(* A resolution establishes the facts that solvency rests on.              *)
LEMMA FinaliseFacts ==
    ASSUME TypeOK, LedgerInv, status = "Open",
           NEW winner \in 0 .. (config.num_sides - 1), Finalise(winner)
    PROVE  /\ ResolvedFacts'
           /\ vault' = TotalDistributable'
           /\ protocol_fee_collected' = 0 /\ creator_account'.fee_collected = 0
           /\ \A n \in Nonces : positions'[n].live => ~ positions'[n].claimed
<1> DEFINE final == UpdateTwd(twd, pools, config.num_sides, clock)
           share == ComputeTwcd(winner, FinalTwd(final), pools, config.num_sides)
           staked == SumUpTo(pools, config.num_sides)
<1>1. /\ config' = config /\ pools' = pools /\ weighted_pools' = weighted_pools
      /\ positions' = positions /\ penalty_pool' = penalty_pool /\ vault' = vault
      /\ protocol_fee_collected' = protocol_fee_collected
      /\ creator_account' = creator_account
      /\ outcome' = [winner |-> winner + 1, twd_0 |-> FinalTwd(final),
                     winner_payout_share |-> share]
  BY DEF Finalise, ledger_vars, fee_vars
<1>2. TypeOK'
  BY FinaliseType
<1>3. /\ config.num_sides \in 2 .. MAX_SIDES /\ pools \in [Sides -> Nat]
      /\ winner \in Sides /\ total_deposited \in 0 .. U64_MAX
      /\ penalty_pool \in Nat
  <2>1. /\ config.num_sides \in 2 .. MAX_SIDES /\ pools \in [Sides -> Nat]
        /\ total_deposited \in 0 .. U64_MAX /\ penalty_pool \in Nat
    BY DEF TypeOK
  <2> QED
    BY <2>1, MathAssumption DEF Sides
<1>4. /\ staked = SumUpTo(ActiveStake(positions), MAX_POSITIONS)
      /\ staked + penalty_pool <= total_deposited
      /\ protocol_fee_collected = 0 /\ creator_account.fee_collected = 0
      /\ \A n \in Nonces : positions[n].live =>
            /\ positions[n].side < config.num_sides
            /\ positions[n].amount >= MIN_DEPOSIT_LAMPORTS
            /\ positions[n].entry_weight \in Weights
            /\ ~ positions[n].claimed
  BY DEF LedgerInv, Bookkeeping
<1>5. vault = staked + penalty_pool
  BY <1>4 DEF LedgerInv, VaultCovered
<1>6. staked \in Nat /\ SumPools(pools, config.num_sides) = staked
  <2>1. staked \in Nat
    BY <1>3, SumPoolsType
  <2> HIDE DEF staked
  <2>2. LesserOf(U64_MAX, staked) = staked
    BY <1>3, <1>4, <2>1, MathAssumption DEF LesserOf
  <2> QED
    BY <2>1, <2>2 DEF SumPools, staked
<1>7. /\ config.num_sides > 2 => share = PRECISION
      /\ staked > 0 => \/ share = PRECISION
                       \/ share > (pools[winner] * PRECISION) \div staked
  <2>1. FinalTwd(final) \in Nat
    BY TrackerType, FinalTwdType
  <2> HIDE DEF final
  <2>2. LET total == SumPools(pools, config.num_sides)
        IN  /\ config.num_sides > 2 => share = PRECISION
            /\ total > 0 => \/ share = PRECISION
                            \/ share > (pools[winner] * PRECISION) \div total
    BY <1>3, <2>1, TwcdBounds
  <2> HIDE DEF share, staked
  <2> QED
    BY <1>6, <2>2
<1>8. outcome'.winner_payout_share = share /\ Winner' = winner
  <2> HIDE DEF share, final
  <2> QED
    BY <1>1 DEF Winner
<1> HIDE DEF share, final
<1>9. ResolvedFacts'
  <2>1. /\ Winner' \in 0 .. (config'.num_sides - 1)
        /\ config'.num_sides > 2 => outcome'.winner_payout_share = PRECISION
    BY <1>1, <1>7, <1>8
  <2>2. LET total == SumUpTo(pools', config'.num_sides)
        IN  /\ SumPools(pools', config'.num_sides) = total
            /\ total > 0 => \/ outcome'.winner_payout_share = PRECISION
                            \/ outcome'.winner_payout_share
                                   > (pools'[Winner'] * PRECISION) \div total
    BY <1>1, <1>6, <1>7, <1>8
  <2>3. \A s \in Sides :
            /\ pools'[s] = SumUpTo(StakeOn(positions', s), MAX_POSITIONS)
            /\ weighted_pools'[s] = SumUpTo(WeightOn(positions', s), MAX_POSITIONS)
    BY <1>1 DEF LedgerInv, LedgerMatchesPositions
  <2> QED
    BY <1>1, <1>2, <1>4, <2>1, <2>2, <2>3 DEF ResolvedFacts
<1>10. vault' = TotalDistributable'
  BY <1>1, <1>5, <1>6 DEF TotalDistributable
<1> QED
  BY <1>1, <1>4, <1>9, <1>10

(* A resolved market starts out solvent, with no claims.                   *)
LEMMA FinaliseSettles ==
    ASSUME TypeOK, LedgerInv, status = "Open",
           NEW winner \in 0 .. (config.num_sides - 1), Finalise(winner)
    PROVE  SettlementInv'
<1>1. /\ Affordable' /\ vault' = TotalDistributable'
      /\ protocol_fee_collected' = 0 /\ creator_account'.fee_collected = 0
      /\ \A n \in Nonces : positions'[n].live => ~ positions'[n].claimed
  BY FinaliseFacts, FreshlyResolvedNext
<1>2. Solvent'
  <2>1. /\ SumUpTo(Owed', MAX_POSITIONS) \in Nat
        /\ SumUpTo(Owed', MAX_POSITIONS) <= TotalDistributable'
    BY <1>1 DEF Affordable
  <2>2. vault' >= protocol_fee_collected' + creator_account'.fee_collected
                      + SumUpTo(Owed', MAX_POSITIONS)
    BY <1>1, <2>1
  <2> QED
    BY <2>2 DEF Solvent
<1>3. WinnerKeepsPrincipal'
  BY <1>1 DEF Affordable, WinnerKeepsPrincipal
<1>4. OnlyRentIsCut'
  BY <1>1 DEF OnlyRentIsCut
<1> QED
  BY <1>2, <1>3, <1>4 DEF SettlementInv

-----------------------------------------------------------------------------
(* What claim_payout reads, the position apart, is written by no later     *)
(* instruction.                                                            *)
Frozen == /\ UNCHANGED <<config, outcome, pools, weighted_pools, penalty_pool>>
          /\ creator_account'.creator = creator_account.creator

LEMMA DueFrozen ==
    ASSUME Frozen, NEW n \in Nonces,
           positions'[n].side = positions[n].side,
           positions'[n].amount = positions[n].amount,
           positions'[n].entry_weight = positions[n].entry_weight
    PROVE  DueTo(positions[n])' = DueTo(positions[n])
           /\ IsWinner(positions[n])' = IsWinner(positions[n])
BY DEF Frozen, DueTo, IsWinner, TotalDistributable, CreatorFeeBps

(* A step that closes accounts or moves fees keeps the promises: it leaves *)
(* the positions it does not close alone, and does not bring the vault     *)
(* closer to the unswept fees.                                             *)
LEMMA SettlementFrame ==
    ASSUME TypeOK, TypeOK', SettlementInv, status = "Resolved", Frozen,
           \A n \in Nonces : positions'[n] = positions[n] \/ ~ positions'[n].live,
           vault' <= vault,
           vault' - protocol_fee_collected' - creator_account'.fee_collected
               >= vault - protocol_fee_collected - creator_account.fee_collected
    PROVE  SettlementInv'
<1>1. /\ OwedTyped /\ OwedTyped'
      /\ vault \in Nat /\ vault' \in Nat
      /\ protocol_fee_collected \in Nat /\ protocol_fee_collected' \in Nat
      /\ creator_account.fee_collected \in Nat /\ creator_account'.fee_collected \in Nat
  BY OwedTypedNow, OwedTypedNext DEF TypeOK
<1>2. ASSUME NEW n \in Nonces, positions'[n].live
      PROVE  /\ positions'[n] = positions[n]
             /\ DueTo(positions[n])' = DueTo(positions[n])
             /\ IsWinner(positions[n])' = IsWinner(positions[n])
  BY <1>2, DueFrozen
<1>3. \A n \in Nonces : Owed'[n] <= Owed[n]
  <2> TAKE n \in Nonces
  <2>1. Owed[n] \in Nat /\ Owed'[n] = OwedOf(positions[n])' /\ Owed[n] = OwedOf(positions[n])
    BY <1>1 DEF OwedTyped
  <2>2. CASE positions'[n].live
    <3>1. OwedOf(positions[n])' = OwedOf(positions[n])
      BY <1>2, <2>2 DEF OwedOf
    <3> QED
      BY <2>1, <3>1
  <2>3. CASE ~ positions'[n].live
    <3>1. OwedOf(positions[n])' = 0
      BY <2>3 DEF OwedOf, Active
    <3> QED
      BY <2>1, <3>1
  <2> QED
    BY <2>2, <2>3
<1>4. /\ SumUpTo(Owed', MAX_POSITIONS) \in Nat /\ SumUpTo(Owed, MAX_POSITIONS) \in Nat
      /\ SumUpTo(Owed', MAX_POSITIONS) <= SumUpTo(Owed, MAX_POSITIONS)
  <2>1. Owed \in [Nonces -> Nat] /\ Owed' \in [Nonces -> Nat]
    BY <1>1 DEF OwedTyped
  <2> QED
    BY <1>3, <2>1, SumOrder
<1>5. Solvent'
  <2>1. vault >= protocol_fee_collected + creator_account.fee_collected
                     + SumUpTo(Owed, MAX_POSITIONS)
    BY DEF SettlementInv, Solvent
  <2>2. vault' >= protocol_fee_collected' + creator_account'.fee_collected
                      + SumUpTo(Owed', MAX_POSITIONS)
    BY <1>1, <1>4, <2>1
  <2> QED
    BY <2>2 DEF Solvent
<1>6. WinnerKeepsPrincipal'
  BY <1>2 DEF SettlementInv, WinnerKeepsPrincipal, Active
<1>7. OnlyRentIsCut'
  <2>1. ASSUME NEW n \in Nonces, positions'[n].live, positions'[n].claimed,
               positions'[n].payout_amount < DueTo(positions[n])'.payout
        PROVE  /\ DueTo(positions[n])'.payout - positions'[n].payout_amount <= MIN_RENT
               /\ vault' <= MIN_RENT
    <3>1. /\ positions'[n] = positions[n]
          /\ DueTo(positions[n])' = DueTo(positions[n])
      BY <1>2, <2>1
    <3>2. /\ DueTo(positions[n]).payout - positions[n].payout_amount <= MIN_RENT
          /\ vault <= MIN_RENT
      BY <2>1, <3>1 DEF SettlementInv, OnlyRentIsCut
    <3> QED
      BY <1>1, <3>1, <3>2, EscrowAssumption
  <2> QED
    BY <2>1 DEF OnlyRentIsCut
<1> QED
  BY <1>5, <1>6, <1>7 DEF SettlementInv

(* A claim books the fees, is taken off what is owed, and pays what is due *)
(* or, if that is less, what is above the rent minimum.                    *)
LEMMA ClaimMoves ==
    ASSUME TypeOK, NEW maker \in Accounts, NEW n \in Nonces, ClaimPayout(maker, n)
    PROVE  LET due == DueTo(positions[n])
               actual == LesserOf(due.payout, Available)
           IN  /\ status = "Resolved" /\ Frozen
               /\ side_position_counts' = side_position_counts
               /\ Active(positions[n]) /\ vault \in Nat
               /\ due.payout \in Nat /\ due.fee \in Nat /\ due.creator_fee \in Nat
               /\ actual \in Nat /\ actual <= due.payout
               /\ actual < due.payout => actual = vault - MIN_RENT
               /\ vault' = vault - actual /\ vault' \in Nat
               /\ protocol_fee_collected \in Nat /\ creator_account.fee_collected \in Nat
               /\ protocol_fee_collected' = protocol_fee_collected + due.fee
               /\ creator_account'.fee_collected
                      = creator_account.fee_collected + due.creator_fee
               /\ SumUpTo(Owed, MAX_POSITIONS) \in Nat /\ SumUpTo(Owed', MAX_POSITIONS) \in Nat
               /\ due.payout + due.fee + due.creator_fee <= SumUpTo(Owed, MAX_POSITIONS)
               /\ SumUpTo(Owed', MAX_POSITIONS) = SumUpTo(Owed, MAX_POSITIONS)
                      - (due.payout + due.fee + due.creator_fee)
               /\ positions'[n].claimed = TRUE /\ positions'[n].payout_amount = actual
               /\ \A m \in Nonces : m # n => positions'[m] = positions[m]
               /\ \A m \in Nonces :
                     /\ positions'[m].live = positions[m].live
                     /\ DueTo(positions[m])' = DueTo(positions[m])
                     /\ IsWinner(positions[m])' = IsWinner(positions[m])
<1> DEFINE p == positions[n]
           due == DueTo(p)
           actual == LesserOf(due.payout, Available)
           q == [p EXCEPT !.claimed = TRUE, !.payout_amount = actual]
           sum == SumUpTo(Owed, MAX_POSITIONS)
           sumNext == SumUpTo(Owed', MAX_POSITIONS)
<1>1. /\ status = "Resolved" /\ Active(p) /\ p.live
      /\ actual > 0 /\ actual <= vault /\ vault' = vault - actual
      /\ positions' = [positions EXCEPT ![n] = q]
      /\ protocol_fee_collected' = protocol_fee_collected + due.fee
      /\ creator_account' = [creator_account EXCEPT !.fee_collected = @ + due.creator_fee]
      /\ UNCHANGED <<config, outcome, pools, weighted_pools, penalty_pool>>
      /\ side_position_counts' = side_position_counts
  BY DEF ClaimPayout, CanDebit, Active, ledger_vars
<1>2. TypeOK'
  BY ClaimType
<1>3. /\ OwedTyped /\ OwedTyped'
      /\ vault \in Nat /\ vault' \in Nat
      /\ protocol_fee_collected \in Nat /\ creator_account.fee_collected \in Nat
      /\ positions \in [Nonces -> PositionType] /\ p \in PositionType
  BY <1>2, OwedTypedNow, OwedTypedNext DEF TypeOK
<1>4. due.payout \in Nat /\ due.fee \in Nat /\ due.creator_fee \in Nat
  BY <1>3 DEF OwedTyped, DueType
<1>5. /\ actual \in Nat /\ actual <= due.payout
      /\ actual < due.payout => actual = Available
      /\ Available \in Nat /\ Available > 0 => Available = vault - MIN_RENT
  BY <1>3, <1>4, EscrowAssumption DEF LesserOf, Available, SatSub
<1>6. /\ creator_account'.creator = creator_account.creator
      /\ creator_account'.fee_collected = creator_account.fee_collected + due.creator_fee
  <2> HIDE DEF due
  <2>1. creator_account \in [creator : Accounts \cup {NoKey}, fee_collected : Nat,
                             fee_claimed : Nat]
    BY DEF TypeOK
  <2> QED
    BY <1>1, <2>1
<1>7. Frozen
  BY <1>1, <1>6 DEF Frozen
<1> HIDE DEF actual, due
<1>8. ASSUME NEW m \in Nonces
      PROVE  /\ positions'[m].live = positions[m].live
             /\ DueTo(positions[m])' = DueTo(positions[m])
             /\ IsWinner(positions[m])' = IsWinner(positions[m])
  <2>1. /\ positions'[m].live = positions[m].live
        /\ positions'[m].side = positions[m].side
        /\ positions'[m].amount = positions[m].amount
        /\ positions'[m].entry_weight = positions[m].entry_weight
    BY <1>1, <1>3 DEF PositionType
  <2> QED
    BY <1>7, <2>1, DueFrozen
<1>9. /\ positions'[n].claimed = TRUE /\ positions'[n].payout_amount = actual
      /\ \A m \in Nonces : m # n => positions'[m] = positions[m]
  BY <1>1, <1>3 DEF PositionType
<1> HIDE DEF p, q
<1>10. /\ sum \in Nat /\ sumNext \in Nat
       /\ due.payout + due.fee + due.creator_fee <= sum
       /\ sumNext = sum - (due.payout + due.fee + due.creator_fee)
  <2>1. /\ Owed \in [Nonces -> Nat] /\ Owed' \in [Nonces -> Nat]
        /\ \A m \in Nonces : Owed[m] = OwedOf(positions[m])
        /\ \A m \in Nonces : Owed'[m] = OwedOf(positions[m])'
    BY <1>3 DEF OwedTyped
  <2>2. \A m \in Nonces : m # n => Owed'[m] = Owed[m]
    <3> TAKE m \in Nonces
    <3>1. m # n => OwedOf(positions[m])' = OwedOf(positions[m])
      BY <1>8, <1>9 DEF OwedOf
    <3> QED
      BY <2>1, <3>1
  <2>3. Owed[n] = due.payout + due.fee + due.creator_fee
    BY <1>1, <2>1 DEF OwedOf, due, p
  <2>4. Owed'[n] = 0
    <3>1. ~ Active(positions[n])'
      BY <1>9 DEF Active
    <3> QED
      BY <2>1, <3>1 DEF OwedOf
  <2>5. /\ sum \in Nat /\ sumNext \in Nat /\ Owed[n] <= sum
        /\ sumNext = sum + (Owed'[n] - Owed[n])
    BY <2>1, <2>2, EntryChange
  <2> HIDE DEF sum, sumNext
  <2> QED
    BY <1>4, <2>3, <2>4, <2>5
<1>11. actual < due.payout => actual = vault - MIN_RENT
  BY <1>1, <1>5
<1> QED
  BY <1>1, <1>3, <1>4, <1>5, <1>6, <1>7, <1>8, <1>9, <1>10, <1>11 DEF p, due, actual, sum, sumNext

(* A claim takes no more out of the vault than it takes off what is owed,  *)
(* and it is cut only if everything above the rent minimum is paid out.    *)
LEMMA ClaimSettles ==
    ASSUME TypeOK, SettlementInv, NEW maker \in Accounts, NEW n \in Nonces,
           ClaimPayout(maker, n)
    PROVE  SettlementInv'
<1> DEFINE p == positions[n]
           due == DueTo(p)
           actual == LesserOf(due.payout, Available)
           sum == SumUpTo(Owed, MAX_POSITIONS)
           sumNext == SumUpTo(Owed', MAX_POSITIONS)
<1>1. /\ status = "Resolved" /\ vault \in Nat /\ vault' \in Nat
      /\ due.payout \in Nat /\ due.fee \in Nat /\ due.creator_fee \in Nat
      /\ actual \in Nat /\ actual <= due.payout /\ vault' = vault - actual
      /\ actual < due.payout => actual = vault - MIN_RENT
      /\ protocol_fee_collected \in Nat /\ creator_account.fee_collected \in Nat
      /\ protocol_fee_collected' = protocol_fee_collected + due.fee
      /\ creator_account'.fee_collected = creator_account.fee_collected + due.creator_fee
  BY ClaimMoves
<1>2. /\ sum \in Nat /\ sumNext \in Nat
      /\ due.payout + due.fee + due.creator_fee <= sum
      /\ sumNext = sum - (due.payout + due.fee + due.creator_fee)
  BY ClaimMoves
<1>3. /\ positions'[n].claimed = TRUE /\ positions'[n].payout_amount = actual
      /\ \A m \in Nonces : m # n => positions'[m] = positions[m]
  BY ClaimMoves
<1>4. \A m \in Nonces : /\ positions'[m].live = positions[m].live
                         /\ DueTo(positions[m])' = DueTo(positions[m])
                         /\ IsWinner(positions[m])' = IsWinner(positions[m])
  BY ClaimMoves
<1> HIDE DEF p, due, actual
<1>5. vault >= protocol_fee_collected + creator_account.fee_collected + sum
  BY <1>1 DEF SettlementInv, Solvent
<1> HIDE DEF sum, sumNext
<1>6. Solvent'
  <2>1. vault' >= protocol_fee_collected' + creator_account'.fee_collected + sumNext
    BY <1>1, <1>2, <1>5
  <2> QED
    BY <2>1 DEF Solvent, sumNext
<1>7. WinnerKeepsPrincipal'
  <2>1. ASSUME NEW m \in Nonces, Active(positions[m])', IsWinner(positions[m])'
        PROVE  DueTo(positions[m])'.payout >= positions'[m].amount
    <3>1. m # n
      BY <1>3, <2>1 DEF Active
    <3>2. positions'[m] = positions[m]
      BY <1>3, <3>1
    <3>3. Active(positions[m]) /\ IsWinner(positions[m])
      BY <1>4, <2>1, <3>2 DEF Active
    <3> QED
      BY <1>1, <1>4, <3>2, <3>3 DEF SettlementInv, WinnerKeepsPrincipal
  <2> QED
    BY <2>1 DEF WinnerKeepsPrincipal
<1>8. OnlyRentIsCut'
  <2>1. ASSUME NEW m \in Nonces, positions'[m].live, positions'[m].claimed,
               positions'[m].payout_amount < DueTo(positions[m])'.payout
        PROVE  /\ DueTo(positions[m])'.payout - positions'[m].payout_amount <= MIN_RENT
               /\ vault' <= MIN_RENT
    <3>1. CASE m = n
      <4>1. /\ DueTo(positions[m])'.payout = due.payout
            /\ positions'[m].payout_amount = actual
        BY <1>3, <1>4, <3>1 DEF due, p
      <4>2. actual < due.payout
        BY <2>1, <4>1
      <4>3. actual = vault - MIN_RENT
        BY <1>1, <4>2
      <4>4. due.payout <= vault
        BY <1>1, <1>2, <1>5
      <4> QED
        BY <1>1, <4>1, <4>3, <4>4, EscrowAssumption
    <3>2. CASE m # n
      <4>1. /\ positions'[m] = positions[m]
            /\ DueTo(positions[m])' = DueTo(positions[m])
        BY <1>3, <1>4, <3>2
      <4>2. /\ DueTo(positions[m]).payout - positions[m].payout_amount <= MIN_RENT
            /\ vault <= MIN_RENT
        BY <1>1, <2>1, <4>1 DEF SettlementInv, OnlyRentIsCut
      <4> QED
        BY <1>1, <4>1, <4>2, EscrowAssumption
    <3> QED
      BY <3>1, <3>2
  <2> QED
    BY <2>1 DEF OnlyRentIsCut
<1> QED
  BY <1>6, <1>7, <1>8 DEF SettlementInv

-----------------------------------------------------------------------------
(* Before the resolution there is nothing to keep.                         *)
LEMMA SettlementVacuous == status # "Resolved" => SettlementInv
BY DEF SettlementInv, Solvent, WinnerKeepsPrincipal, OnlyRentIsCut

LEMMA SettlementVacuousNext == status' # "Resolved" => SettlementInv'
BY DEF SettlementInv, Solvent, WinnerKeepsPrincipal, OnlyRentIsCut

LEMMA SettlementStep == TypeOK /\ TypeOK' /\ LedgerInv /\ SettlementInv /\ [Next]_vars
                            => SettlementInv'
<1> SUFFICES ASSUME TypeOK, TypeOK', LedgerInv, SettlementInv, [Next]_vars
             PROVE  SettlementInv'
  OBVIOUS
<1>1. ASSUME status = "Resolved",
             UNCHANGED <<status, config, outcome, ledger_vars, penalty_pool, fee_vars,
                         positions, vault>>
      PROVE  SettlementInv'
  <2>1. vault' <= vault /\ vault - protocol_fee_collected - creator_account.fee_collected \in Int
    BY <1>1 DEF TypeOK
  <2>2. Frozen /\ vault' - protocol_fee_collected' - creator_account'.fee_collected
                      >= vault - protocol_fee_collected - creator_account.fee_collected
    BY <1>1, <2>1 DEF Frozen, ledger_vars, fee_vars
  <2> QED
    BY <1>1, <2>1, <2>2, SettlementFrame
<1>2. CASE Tick
  BY <1>1, <1>2, SettlementVacuousNext DEF Tick
<1>3. CASE Create
  BY <1>3, SettlementVacuousNext DEF Create, CreateMarket
<1>4. CASE MakerStep
  <2>1. ASSUME NEW maker \in Accounts, NEW side, NEW amount, NEW min_weight,
               Deposit(maker, side, amount, min_weight)
        PROVE  SettlementInv'
    BY <2>1, SettlementVacuousNext DEF Deposit
  <2>2. ASSUME NEW maker \in Accounts, NEW n \in Nonces, Withdraw(maker, n)
        PROVE  SettlementInv'
    BY <2>2, SettlementVacuousNext DEF Withdraw
  <2>3. ASSUME NEW maker \in Accounts, NEW n \in Nonces, Refund(maker, n)
        PROVE  SettlementInv'
    BY <2>3, SettlementVacuousNext DEF Refund
  <2>4. ASSUME NEW maker \in Accounts, NEW n \in Nonces, ClosePosition(maker, n)
        PROVE  SettlementInv'
    <3>1. /\ positions' = [positions EXCEPT ![n] = NoPosition]
          /\ UNCHANGED <<status, config, outcome, pools, weighted_pools, penalty_pool,
                         protocol_fee_collected, creator_account, vault>>
      BY <2>4 DEF ClosePosition, ledger_vars, fee_vars
    <3>2. CASE status = "Resolved"
      <4>1. \A m \in Nonces : positions'[m] = positions[m] \/ ~ positions'[m].live
        BY <3>1 DEF TypeOK, NoPosition
      <4>2. vault' <= vault
            /\ vault' - protocol_fee_collected' - creator_account'.fee_collected
                   >= vault - protocol_fee_collected - creator_account.fee_collected
        <5>1. vault \in Int
              /\ vault - protocol_fee_collected - creator_account.fee_collected \in Int
          BY DEF TypeOK
        <5> QED
          BY <3>1, <5>1
      <4>3. Frozen
        BY <3>1 DEF Frozen
      <4> QED
        BY <3>2, <4>1, <4>2, <4>3, SettlementFrame
    <3>3. CASE status # "Resolved"
      BY <3>1, <3>3, SettlementVacuousNext
    <3> QED
      BY <3>2, <3>3
  <2> QED
    BY <1>4, <2>1, <2>2, <2>3, <2>4, ClaimSettles DEF MakerStep
<1>5. CASE ResolveMarket
  <2>1. PICK winner \in 0 .. (config.num_sides - 1) : Finalise(winner)
    BY <1>5, WinnerIsASide DEF ResolveMarket, TypeOK
  <2> QED
    BY <1>5, <2>1, FinaliseSettles DEF ResolveMarket
<1>6. CASE AuthorityStep
  <2>1. ASSUME NEW signer \in Accounts, NEW winner \in 1 .. MAX_SIDES,
               AdminResolve(signer, winner)
        PROVE  SettlementInv'
    <3>1. winner - 1 \in 0 .. (config.num_sides - 1)
      BY <2>1, MathAssumption DEF AdminResolve, TypeOK
    <3> QED
      BY <2>1, <3>1, FinaliseSettles DEF AdminResolve
  <2>2. ASSUME NEW signer \in Accounts, InvalidateMarket(signer)
        PROVE  SettlementInv'
    BY <2>2, SettlementVacuousNext DEF InvalidateMarket
  <2>3. ASSUME NEW signer \in Accounts, CollectFees(signer)
        PROVE  SettlementInv'
    <3>1. status = "Resolved"
      BY <2>3 DEF CollectFees, LedgerInv, Bookkeeping, TypeOK
    <3>2. Frozen /\ positions' = positions
      BY <2>3 DEF CollectFees, Frozen, ledger_vars
    <3>3. vault' <= vault
          /\ vault' - protocol_fee_collected' - creator_account'.fee_collected
                 >= vault - protocol_fee_collected - creator_account.fee_collected
      <4>1. /\ vault \in Nat /\ protocol_fee_collected \in Nat
            /\ creator_account.fee_collected \in Nat
        BY DEF TypeOK
      <4>2. /\ vault' = vault - SweptFees /\ creator_account' = creator_account
            /\ protocol_fee_collected' = SatSub(protocol_fee_collected, SweptFees)
        BY <2>3 DEF CollectFees
      <4>3. /\ SweptFees \in Nat /\ SweptFees <= protocol_fee_collected
        BY <4>1 DEF SweptFees, LesserOf
      <4> HIDE DEF SweptFees
      <4> QED
        BY <4>1, <4>2, <4>3 DEF SatSub
    <3> QED
      BY <3>1, <3>2, <3>3, SettlementFrame
  <2>4. ASSUME NEW signer \in Accounts, ClaimCreatorFees(signer)
        PROVE  SettlementInv'
    <3> DEFINE actual == LesserOf(creator_account.fee_collected, Available)
    <3>1. status = "Resolved"
      BY <2>4 DEF ClaimCreatorFees, LedgerInv, Bookkeeping, TypeOK
    <3>2. creator_account' = [creator_account EXCEPT !.fee_collected = @ - actual,
                                                     !.fee_claimed = @ + actual]
          /\ vault' = vault - actual /\ actual > 0
          /\ protocol_fee_collected' = protocol_fee_collected
      BY <2>4 DEF ClaimCreatorFees
    <3>3. /\ vault \in Nat /\ protocol_fee_collected \in Nat
          /\ creator_account.fee_collected \in Nat /\ Available \in Nat
      BY EscrowAssumption DEF TypeOK, Available, SatSub
    <3>4. actual \in Nat /\ actual <= creator_account.fee_collected
      BY <3>3 DEF LesserOf
    <3> HIDE DEF actual
    <3>5. /\ creator_account'.creator = creator_account.creator
          /\ creator_account'.fee_collected = creator_account.fee_collected - actual
      <4>1. creator_account \in [creator : Accounts \cup {NoKey}, fee_collected : Nat,
                                 fee_claimed : Nat]
        BY DEF TypeOK
      <4> QED
        BY <3>2, <4>1
    <3>6. Frozen /\ positions' = positions
      BY <2>4, <3>5 DEF ClaimCreatorFees, Frozen, ledger_vars
    <3>7. vault' <= vault
          /\ vault' - protocol_fee_collected' - creator_account'.fee_collected
                 >= vault - protocol_fee_collected - creator_account.fee_collected
      BY <3>2, <3>3, <3>4, <3>5
    <3> QED
      BY <3>1, <3>6, <3>7, SettlementFrame
  <2> QED
    BY <1>6, <2>1, <2>2, <2>3, <2>4 DEF AuthorityStep
<1>7. CASE UNCHANGED vars
  BY <1>1, <1>7, SettlementVacuousNext DEF vars
<1> QED
  BY <1>2, <1>3, <1>4, <1>5, <1>6, <1>7 DEF Next

LEMMA SettlementHolds == Spec => []SettlementInv
<1>1. Init => SettlementInv
  BY SettlementVacuous DEF Init
<1> QED
  BY <1>1, SettlementStep, TypeCorrect, LedgerHolds, PTL DEF Spec

LEMMA SettlementParts ==
    SettlementInv => Solvent /\ WinnerKeepsPrincipal /\ OnlyRentIsCut
BY DEF SettlementInv

(* The fixed-point payouts, the capped claims and the fee sweeps leave a   *)
(* resolved vault with enough for everybody, in every order, for all       *)
(* amounts, durations and numbers of sides and positions.                  *)
THEOREM SolvencyCorrect == Spec => []Solvent
BY SettlementHolds, SettlementParts, PTL

(* The safety floor of compute_twcd does protect the winners' principal:   *)
(* compute_winner_payout never scales a winner below the deposit.          *)
THEOREM PrincipalCorrect == Spec => []WinnerKeepsPrincipal
BY SettlementHolds, SettlementParts, PTL

(* claim_payout cuts a claim by at most the rent minimum, and only the     *)
(* claim that empties the vault down to it.                                *)
THEOREM RentCutCorrect == Spec => []OnlyRentIsCut
BY SettlementHolds, SettlementParts, PTL

-----------------------------------------------------------------------------
(* What the payouts leave over.  At the resolution it is what truncation   *)
(* and the losers' caps cut off (FreshLeftover); afterwards only a claim   *)
(* that is cut adds to it, and then no more than the rent minimum is left. *)
LeftoverInv ==
    status = "Resolved" /\ pools[Winner] > 0 =>
        /\ LeftoverBound \in Nat
        /\ vault <= MIN_RENT \/ Leftover <= LeftoverBound

(* It is the invariant that the runs check.                                *)
LEMMA LeftoverNames == LeftoverInv => LeftoverIsBounded
BY DEF LeftoverInv, LeftoverIsBounded, LeftoverBound, PaidBack, LostStake, Lost, Winner

LeftoverFits ==
    pools[Winner] > 0 =>
        /\ LeftoverBound \in Nat
        /\ TotalDistributable - SumUpTo(Owed, MAX_POSITIONS) <= LeftoverBound

LEMMA LeftoverFitsNext == CountedFacts' => LeftoverFits'
<1>1. CountedFacts => LeftoverFits
  BY FreshLeftover DEF LeftoverFits
<1> QED
  BY <1>1, PTL

LEMMA FinaliseLeaves ==
    ASSUME TypeOK, LedgerInv, status = "Open",
           NEW winner \in 0 .. (config.num_sides - 1), Finalise(winner)
    PROVE  LeftoverInv'
<1>1. /\ ResolvedFacts' /\ vault' = TotalDistributable'
      /\ protocol_fee_collected' = 0 /\ creator_account'.fee_collected = 0
  BY FinaliseFacts
<1>2. CountedFacts'
  <2>1. positions' = positions /\ side_position_counts' = side_position_counts
    BY DEF Finalise, ledger_vars
  <2>2. \A s \in Sides :
            side_position_counts'[s] = SumUpTo(CountOn(positions', s), MAX_POSITIONS)
    BY <2>1 DEF LedgerInv, LedgerMatchesPositions
  <2> QED
    BY <1>1, <2>2 DEF CountedFacts
<1>3. TypeOK'
  BY FinaliseType
<1>4. SumUpTo(Owed', MAX_POSITIONS) \in Nat /\ vault' \in Nat
  <2>1. Owed' \in [Nonces -> Nat]
    BY <1>3, OwedTypedNext DEF OwedTyped
  <2> QED
    BY <1>3, <2>1, SumOrder DEF TypeOK
<1>5. ASSUME pools'[Winner'] > 0
      PROVE  LeftoverBound' \in Nat /\ Leftover' <= LeftoverBound'
  <2>1. /\ LeftoverBound' \in Nat
        /\ vault' - SumUpTo(Owed', MAX_POSITIONS) <= LeftoverBound'
    BY <1>1, <1>2, <1>5, LeftoverFitsNext DEF LeftoverFits
  <2>2. Leftover' = vault' - SumUpTo(Owed', MAX_POSITIONS)
    BY <1>1, <1>4 DEF Leftover
  <2> QED
    BY <2>1, <2>2
<1> QED
  BY <1>5 DEF LeftoverInv

(* Whatever does not add to it, or empties the vault to the rent minimum,  *)
(* keeps the bound.                                                        *)
LEMMA LeftoverFrame ==
    ASSUME LeftoverInv, status = "Resolved", Frozen, vault \in Nat, vault' \in Nat,
           side_position_counts' = side_position_counts, vault' <= vault,
           Leftover' = Leftover \/ vault' <= MIN_RENT
    PROVE  LeftoverInv'
<1>1. LeftoverBound' = LeftoverBound /\ Winner' = Winner /\ pools' = pools
  BY DEF Frozen, LeftoverBound, Lost, LostStake, PaidBack, TotalDistributable, TotalPositions,
         Winner
<1>2. vault <= MIN_RENT => vault' <= MIN_RENT
  BY EscrowAssumption
<1> QED
  BY <1>1, <1>2 DEF LeftoverInv

(* The obligations, while no position of them moves.                       *)
LEMMA OwedFrozen ==
    ASSUME TypeOK, TypeOK', Frozen,
           \A n \in Nonces : \/ positions'[n] = positions[n]
                             \/ ~ Active(positions[n]) /\ ~ positions'[n].live
    PROVE  Owed' = Owed
<1>1. /\ Owed \in [Nonces -> Nat] /\ Owed' \in [Nonces -> Nat]
      /\ \A n \in Nonces : Owed[n] = OwedOf(positions[n])
      /\ \A n \in Nonces : Owed'[n] = OwedOf(positions[n])'
  BY OwedTypedNow, OwedTypedNext DEF OwedTyped
<1>2. \A n \in Nonces : Owed'[n] = Owed[n]
  <2> TAKE n \in Nonces
  <2>1. CASE positions'[n] = positions[n]
    <3>1. DueTo(positions[n])' = DueTo(positions[n])
      BY <2>1, DueFrozen
    <3>2. OwedOf(positions[n])' = OwedOf(positions[n])
      BY <2>1, <3>1 DEF OwedOf
    <3> QED
      BY <1>1, <3>2
  <2>2. CASE ~ Active(positions[n]) /\ ~ positions'[n].live
    <3>1. OwedOf(positions[n])' = 0 /\ OwedOf(positions[n]) = 0
      BY <2>2 DEF OwedOf, Active
    <3> QED
      BY <1>1, <3>1
  <2> QED
    BY <2>1, <2>2
<1> QED
  BY <1>1, <1>2

LEMMA ClaimLeaves ==
    ASSUME TypeOK, LeftoverInv, NEW maker \in Accounts, NEW n \in Nonces, ClaimPayout(maker, n)
    PROVE  LeftoverInv'
<1> DEFINE due == DueTo(positions[n])
           actual == LesserOf(due.payout, Available)
           sum == SumUpTo(Owed, MAX_POSITIONS)
           sumNext == SumUpTo(Owed', MAX_POSITIONS)
<1>1. /\ status = "Resolved" /\ Frozen /\ side_position_counts' = side_position_counts
      /\ vault \in Nat /\ vault' \in Nat
      /\ due.payout \in Nat /\ due.fee \in Nat /\ due.creator_fee \in Nat
      /\ actual \in Nat /\ actual <= due.payout /\ vault' = vault - actual
      /\ actual < due.payout => actual = vault - MIN_RENT
      /\ protocol_fee_collected \in Nat /\ creator_account.fee_collected \in Nat
      /\ protocol_fee_collected' = protocol_fee_collected + due.fee
      /\ creator_account'.fee_collected = creator_account.fee_collected + due.creator_fee
      /\ sum \in Nat /\ sumNext \in Nat
      /\ sumNext = sum - (due.payout + due.fee + due.creator_fee)
  BY ClaimMoves
<1> HIDE DEF due, actual, sum, sumNext
<1>2. vault' <= vault
  BY <1>1
<1>3. CASE actual = due.payout
  <2>1. vault' - protocol_fee_collected' - creator_account'.fee_collected - sumNext
            = vault - protocol_fee_collected - creator_account.fee_collected - sum
    <3>1. \A v, f, c, s, p, g, h \in Nat :
              (v - p) - (f + g) - (c + h) - (s - (p + g + h)) = v - f - c - s
      OBVIOUS
    <3> DEFINE booked == creator_account.fee_collected
    <3>2. booked \in Nat /\ creator_account'.fee_collected = booked + due.creator_fee
      BY <1>1
    <3> HIDE DEF booked
    <3>3. vault' - protocol_fee_collected' - creator_account'.fee_collected - sumNext
              = (vault - due.payout) - (protocol_fee_collected + due.fee)
                    - (booked + due.creator_fee)
                    - (sum - (due.payout + due.fee + due.creator_fee))
      BY <1>1, <1>3, <3>2
    <3>4. (vault - due.payout) - (protocol_fee_collected + due.fee)
                    - (booked + due.creator_fee)
                    - (sum - (due.payout + due.fee + due.creator_fee))
              = vault - protocol_fee_collected - booked - sum
      BY <1>1, <3>1, <3>2
    <3> QED
      BY <3>3, <3>4 DEF booked
  <2>2. Leftover' = Leftover
    BY <2>1 DEF Leftover, sum, sumNext
  <2> QED
    BY <1>1, <1>2, <2>2, LeftoverFrame
<1>4. CASE actual # due.payout
  <2>1. vault' = MIN_RENT
    BY <1>1, <1>4, EscrowAssumption
  <2>2. vault' <= MIN_RENT
    BY <2>1, EscrowAssumption
  <2> QED
    BY <1>1, <1>2, <2>2, LeftoverFrame
<1> QED
  BY <1>3, <1>4

LEMMA LeftoverVacuousNext == status' # "Resolved" => LeftoverInv'
BY DEF LeftoverInv

LEMMA LeftoverStep == TypeOK /\ TypeOK' /\ LedgerInv /\ LeftoverInv /\ [Next]_vars => LeftoverInv'
<1> SUFFICES ASSUME TypeOK, TypeOK', LedgerInv, LeftoverInv, [Next]_vars
             PROVE  LeftoverInv'
  OBVIOUS
<1>1. /\ vault \in Nat /\ vault' \in Nat /\ protocol_fee_collected \in Nat
      /\ creator_account \in [creator : Accounts \cup {NoKey}, fee_collected : Nat,
                              fee_claimed : Nat]
  BY DEF TypeOK
<1>2. SumUpTo(Owed, MAX_POSITIONS) \in Nat
  <2>1. Owed \in [Nonces -> Nat]
    BY OwedTypedNow DEF OwedTyped
  <2> QED
    BY <2>1, SumOrder
<1>3. ASSUME status = "Resolved", Frozen, side_position_counts' = side_position_counts,
             \A n \in Nonces : \/ positions'[n] = positions[n]
                               \/ ~ Active(positions[n]) /\ ~ positions'[n].live,
             vault' <= vault,
             vault' - protocol_fee_collected' - creator_account'.fee_collected
                 = vault - protocol_fee_collected - creator_account.fee_collected
      PROVE  LeftoverInv'
  <2>1. Leftover' = Leftover
    BY <1>3, OwedFrozen DEF Leftover
  <2> QED
    BY <1>1, <1>3, <2>1, LeftoverFrame
<1>4. ASSUME UNCHANGED <<status, config, outcome, ledger_vars, penalty_pool, fee_vars,
                         positions, vault>>
      PROVE  LeftoverInv'
  <2>1. CASE status = "Resolved"
    <3>1. Frozen /\ vault' <= vault
      BY <1>1, <1>4 DEF Frozen, ledger_vars, fee_vars
    <3> QED
      BY <1>3, <1>4, <2>1, <3>1 DEF ledger_vars, fee_vars
  <2>2. CASE status # "Resolved"
    BY <1>4, <2>2, LeftoverVacuousNext
  <2> QED
    BY <2>1, <2>2
<1>5. CASE Tick
  BY <1>4, <1>5 DEF Tick
<1>6. CASE Create
  BY <1>6, LeftoverVacuousNext DEF Create, CreateMarket
<1>7. CASE MakerStep
  <2>1. ASSUME NEW maker \in Accounts, NEW side, NEW amount, NEW min_weight,
               Deposit(maker, side, amount, min_weight)
        PROVE  LeftoverInv'
    BY <2>1, LeftoverVacuousNext DEF Deposit
  <2>2. ASSUME NEW maker \in Accounts, NEW n \in Nonces, Withdraw(maker, n)
        PROVE  LeftoverInv'
    BY <2>2, LeftoverVacuousNext DEF Withdraw
  <2>3. ASSUME NEW maker \in Accounts, NEW n \in Nonces, Refund(maker, n)
        PROVE  LeftoverInv'
    BY <2>3, LeftoverVacuousNext DEF Refund
  <2>4. ASSUME NEW maker \in Accounts, NEW n \in Nonces, ClosePosition(maker, n)
        PROVE  LeftoverInv'
    <3>1. /\ positions' = [positions EXCEPT ![n] = NoPosition] /\ Settled(positions[n])
          /\ UNCHANGED <<status, config, outcome, pools, weighted_pools, penalty_pool,
                         side_position_counts, protocol_fee_collected, creator_account, vault>>
      BY <2>4 DEF ClosePosition, ledger_vars, fee_vars
    <3>2. CASE status = "Resolved"
      <4>1. \A m \in Nonces : \/ positions'[m] = positions[m]
                              \/ ~ Active(positions[m]) /\ ~ positions'[m].live
        BY <3>1 DEF TypeOK, NoPosition, Settled, Active
      <4>2. Frozen /\ vault' <= vault
        BY <1>1, <3>1 DEF Frozen
      <4> QED
        BY <1>3, <3>1, <3>2, <4>1, <4>2
    <3>3. CASE status # "Resolved"
      BY <3>1, <3>3, LeftoverVacuousNext
    <3> QED
      BY <3>2, <3>3
  <2> QED
    BY <1>7, <2>1, <2>2, <2>3, <2>4, ClaimLeaves DEF MakerStep
<1>8. CASE ResolveMarket
  <2>1. PICK winner \in 0 .. (config.num_sides - 1) : Finalise(winner)
    BY <1>8, WinnerIsASide DEF ResolveMarket, TypeOK
  <2> QED
    BY <1>8, <2>1, FinaliseLeaves DEF ResolveMarket
<1>9. CASE AuthorityStep
  <2>1. ASSUME NEW signer \in Accounts, NEW winner \in 1 .. MAX_SIDES,
               AdminResolve(signer, winner)
        PROVE  LeftoverInv'
    <3>1. winner - 1 \in 0 .. (config.num_sides - 1)
      BY <2>1, MathAssumption DEF AdminResolve, TypeOK
    <3> QED
      BY <2>1, <3>1, FinaliseLeaves DEF AdminResolve
  <2>2. ASSUME NEW signer \in Accounts, InvalidateMarket(signer)
        PROVE  LeftoverInv'
    BY <2>2, LeftoverVacuousNext DEF InvalidateMarket
  <2>3. ASSUME NEW signer \in Accounts, CollectFees(signer)
        PROVE  LeftoverInv'
    <3>1. status = "Resolved"
      BY <2>3 DEF CollectFees, LedgerInv, Bookkeeping, TypeOK
    <3>2. Frozen /\ positions' = positions /\ side_position_counts' = side_position_counts
      BY <2>3 DEF CollectFees, Frozen, ledger_vars
    <3>3. /\ vault' = vault - SweptFees /\ creator_account' = creator_account
          /\ protocol_fee_collected' = SatSub(protocol_fee_collected, SweptFees)
      BY <2>3 DEF CollectFees
    <3>4. SweptFees \in Nat /\ SweptFees <= protocol_fee_collected
      BY <1>1 DEF SweptFees, LesserOf
    <3> HIDE DEF SweptFees
    <3>5. vault' <= vault
          /\ vault' - protocol_fee_collected' - creator_account'.fee_collected
                 = vault - protocol_fee_collected - creator_account.fee_collected
      BY <1>1, <3>3, <3>4 DEF SatSub
    <3> QED
      BY <1>3, <3>1, <3>2, <3>5
  <2>4. ASSUME NEW signer \in Accounts, ClaimCreatorFees(signer)
        PROVE  LeftoverInv'
    <3> DEFINE actual == LesserOf(creator_account.fee_collected, Available)
    <3>1. status = "Resolved"
      BY <2>4 DEF ClaimCreatorFees, LedgerInv, Bookkeeping, TypeOK
    <3>2. creator_account' = [creator_account EXCEPT !.fee_collected = @ - actual,
                                                     !.fee_claimed = @ + actual]
          /\ vault' = vault - actual
          /\ protocol_fee_collected' = protocol_fee_collected
      BY <2>4 DEF ClaimCreatorFees
    <3>3. Available \in Nat
      BY <1>1, EscrowAssumption DEF Available, SatSub
    <3>4. actual \in Nat
      BY <1>1, <3>3 DEF LesserOf
    <3> HIDE DEF actual
    <3>5. /\ creator_account'.creator = creator_account.creator
          /\ creator_account'.fee_collected = creator_account.fee_collected - actual
      BY <1>1, <3>2
    <3>6. Frozen /\ positions' = positions /\ side_position_counts' = side_position_counts
      BY <2>4, <3>5 DEF ClaimCreatorFees, Frozen, ledger_vars
    <3>7. vault' <= vault
          /\ vault' - protocol_fee_collected' - creator_account'.fee_collected
                 = vault - protocol_fee_collected - creator_account.fee_collected
      BY <1>1, <3>2, <3>4, <3>5
    <3> QED
      BY <1>3, <3>1, <3>6, <3>7
  <2> QED
    BY <1>9, <2>1, <2>2, <2>3, <2>4 DEF AuthorityStep
<1>10. CASE UNCHANGED vars
  BY <1>4, <1>10 DEF vars
<1> QED
  BY <1>5, <1>6, <1>7, <1>8, <1>9, <1>10 DEF Next

(* What claim_payout's truncations and caps leave in the vault for good,   *)
(* where no instruction can take it out, is bounded: in every order of     *)
(* claims, sweeps and closures, for all amounts and weights.               *)
THEOREM LeftoverCorrect == Spec => []LeftoverIsBounded
<1>1. Init => LeftoverInv
  BY DEF Init, LeftoverInv
<1> QED
  BY <1>1, LeftoverStep, LeftoverNames, TypeCorrect, LedgerHolds, PTL DEF Spec

-----------------------------------------------------------------------------
(* The distributable total fits a u64, and no side is paid more than it.   *)
LEMMA MoneyFits ==
    ASSUME TypeOK, LedgerInv, status = "Resolved", NEW n \in Nonces
    PROVE  LET share == outcome.winner_payout_share
               p == positions[n]
               money == IF IsWinner(p)
                        THEN SatSub(WinnerPool(TotalDistributable, share), pools[p.side])
                        ELSE LoserPool(TotalDistributable, share)
           IN  /\ money \in Nat /\ money <= total_deposited
               /\ TotalDistributable <= U64_MAX
<1> DEFINE share == outcome.winner_payout_share
           total == TotalDistributable
           side == positions[n].side
<1>1. /\ share \in 0 .. PRECISION /\ pools \in [Sides -> Nat] /\ side \in Sides
      /\ config.num_sides \in 0 .. MAX_SIDES /\ penalty_pool \in Nat
      /\ total_deposited \in 0 .. U64_MAX
  BY MathAssumption DEF TypeOK, PositionType
<1>2. SumUpTo(pools, config.num_sides) + penalty_pool <= total_deposited
  BY DEF LedgerInv, Bookkeeping
<1>3. /\ SumPools(pools, config.num_sides) \in Nat
      /\ SumUpTo(pools, config.num_sides) \in Nat
      /\ SumPools(pools, config.num_sides) <= SumUpTo(pools, config.num_sides)
  BY <1>1, SumPoolsType
<1>4. total \in Nat /\ total <= total_deposited /\ total <= U64_MAX
  BY <1>1, <1>2, <1>3, MathAssumption DEF TotalDistributable
<1> HIDE DEF total, share, side
<1>5. /\ WinnerPool(total, share) \in Nat /\ LoserPool(total, share) \in Nat
      /\ WinnerPool(total, share) <= total /\ LoserPool(total, share) <= total
  BY <1>1, <1>4, PoolsSplitTotal
<1>6. pools[side] \in Nat
  BY <1>1
<1>7. /\ SatSub(WinnerPool(total, share), pools[side]) \in Nat
      /\ SatSub(WinnerPool(total, share), pools[side]) <= total
  BY <1>4, <1>5, <1>6 DEF SatSub
<1> QED
  BY <1>1, <1>4, <1>5, <1>7, MathAssumption DEF total, share, side

(* The 128-bit product of a claim fits, as its factors are the money of a  *)
(* side, a deposit and a weight.                                           *)
LEMMA ClaimFits ==
    ASSUME TypeOK, LedgerInv, status = "Resolved", StakeFits, NEW n \in Nonces,
           Active(positions[n])
    PROVE  DueFits(positions[n]) /\ TotalDistributable <= U64_MAX
<1> DEFINE p == positions[n]
           share == outcome.winner_payout_share
           money == IF IsWinner(p)
                    THEN SatSub(WinnerPool(TotalDistributable, share), pools[p.side])
                    ELSE LoserPool(TotalDistributable, share)
<1>1. money \in Nat /\ money <= total_deposited /\ TotalDistributable <= U64_MAX
  BY MoneyFits
<1>2. /\ p.amount \in Nat /\ p.entry_weight \in Nat /\ total_deposited \in Nat
  BY Scale, MathAssumption DEF TypeOK, PositionType, Weights
<1>3. p.amount <= total_deposited /\ p.entry_weight <= PRECISION
  <2>1. p.amount <= total_deposited /\ p.entry_weight \in Weights
    BY DEF LedgerInv, Bookkeeping, Active
  <2> QED
    BY <2>1, Scale DEF Weights
<1> HIDE DEF p, money
<1>4. PartFits(money, p.amount, p.entry_weight)
  <2>1. /\ p.amount * p.entry_weight \in Nat /\ p.amount * PRECISION \in Nat
        /\ total_deposited * PRECISION \in Nat
        /\ p.amount * p.entry_weight <= p.amount * PRECISION
        /\ p.amount * PRECISION <= total_deposited * PRECISION
    BY <1>2, <1>3, Scale, ProductNat, ProductMonotone
  <2>2. p.amount * p.entry_weight <= total_deposited * PRECISION
    BY <2>1
  <2>3. /\ money * (p.amount * p.entry_weight) <= money * (total_deposited * PRECISION)
        /\ money * (total_deposited * PRECISION)
               <= total_deposited * (total_deposited * PRECISION)
        /\ money * (p.amount * p.entry_weight) \in Nat
        /\ money * (total_deposited * PRECISION) \in Nat
        /\ total_deposited * (total_deposited * PRECISION) \in Nat
    BY <1>1, <1>2, <2>1, <2>2, ProductNat, ProductMonotone
  <2>4. \A a, b \in Nat : a * (a * b) = a * a * b
    OBVIOUS
  <2>5. total_deposited * (total_deposited * PRECISION) <= U128_MAX
    BY <1>2, <2>4, Scale DEF StakeFits
  <2>6. \A a, b, c, d \in Nat : a <= b /\ b <= c /\ c <= d => a <= d
    OBVIOUS
  <2> QED
    BY <2>3, <2>5, <2>6, MathAssumption DEF PartFits
<1> QED
  BY <1>1, <1>4 DEF DueFits, p, money

(* The vault holds what an unsettled position is due, which for a winner   *)
(* is at least a deposit and hence exceeds the rent minimum.               *)
LEMMA ClaimFinds == TypeOK /\ LedgerInv /\ SettlementInv => ClaimIsAccepted
<1> SUFFICES ASSUME TypeOK, LedgerInv, SettlementInv, status = "Resolved", StakeFits,
                    NEW n \in Nonces, Active(positions[n]),
                    IsWinner(positions[n]) \/ DueTo(positions[n]).payout > MIN_RENT
             PROVE  LET actual == LesserOf(DueTo(positions[n]).payout, Available)
                    IN  /\ TotalDistributable <= U64_MAX /\ DueFits(positions[n])
                        /\ DueTo(positions[n]).payout > 0 /\ actual > 0 /\ CanDebit(actual)
  BY DEF ClaimIsAccepted
<1> DEFINE due == DueTo(positions[n])
           amount == positions[n].amount
           sum == SumUpTo(Owed, MAX_POSITIONS)
<1>1. /\ OwedTyped /\ vault \in Nat /\ protocol_fee_collected \in Nat
      /\ creator_account.fee_collected \in Nat /\ amount \in Nat
  <2>1. positions[n] \in PositionType
    BY DEF TypeOK
  <2>2. amount \in Nat
    BY <2>1 DEF PositionType
  <2> QED
    BY <2>2, OwedTypedNow DEF TypeOK
<1>2. due.payout \in Nat /\ due.fee \in Nat /\ due.creator_fee \in Nat
  BY <1>1 DEF OwedTyped, DueType
<1>3. due.payout > MIN_RENT
  <2>1. IsWinner(positions[n]) => due.payout >= amount /\ amount >= MIN_DEPOSIT_LAMPORTS
    BY DEF SettlementInv, WinnerKeepsPrincipal, LedgerInv, Bookkeeping, Active
  <2> HIDE DEF due, amount
  <2>2. IsWinner(positions[n]) => due.payout > MIN_RENT
    BY <1>1, <1>2, <2>1, EscrowAssumption
  <2> QED
    BY <2>2 DEF due
<1>4. sum \in Nat /\ due.payout <= sum
  <2>1. Owed \in [Nonces -> Nat] /\ Owed[n] = OwedOf(positions[n])
    BY <1>1 DEF OwedTyped
  <2>2. sum \in Nat /\ Owed[n] <= sum
    BY <2>1, EntryChange
  <2>3. Owed[n] = due.payout + due.fee + due.creator_fee
    BY <2>1 DEF OwedOf
  <2> HIDE DEF sum, due
  <2> QED
    BY <1>2, <2>1, <2>2, <2>3
<1>5. vault >= protocol_fee_collected + creator_account.fee_collected + sum
  BY DEF SettlementInv, Solvent
<1> HIDE DEF due, amount, sum
<1>6. due.payout <= vault
  BY <1>1, <1>2, <1>4, <1>5
<1>7. Available = vault - MIN_RENT /\ Available > 0
  BY <1>1, <1>2, <1>3, <1>6, EscrowAssumption DEF Available, SatSub
<1>8. ASSUME NEW actual \in Int, actual = LesserOf(due.payout, Available)
      PROVE  actual > 0 /\ CanDebit(actual)
  BY <1>1, <1>2, <1>3, <1>6, <1>7, <1>8, EscrowAssumption DEF LesserOf, CanDebit
<1>9. LesserOf(due.payout, Available) \in Int
  BY <1>1, <1>2, <1>7, EscrowAssumption DEF LesserOf
<1>10. due.payout > 0
  BY <1>2, <1>3, EscrowAssumption
<1> QED
  BY <1>8, <1>9, <1>10, ClaimFits DEF due

(* A claim of a winner, or of anyone who is due more than the rent         *)
(* minimum, is never refused, whoever claimed and whatever was swept       *)
(* before (claim_payout.rs:40-139).                                        *)
THEOREM ClaimCorrect == Spec => []ClaimIsAccepted
BY TypeCorrect, LedgerHolds, SettlementHolds, ClaimFinds, PTL

-----------------------------------------------------------------------------
LEMMA DueStep ==
    ASSUME TypeOK, [Next]_vars, status = "Resolved", NEW n \in Nonces,
           Active(positions[n]), Active(positions'[n])
    PROVE  DueTo(positions[n])' = DueTo(positions[n])
<1>1. ASSUME Frozen, positions'[n] = positions[n]
      PROVE  DueTo(positions[n])' = DueTo(positions[n])
  BY <1>1, DueFrozen
<1>2. CASE Tick \/ UNCHANGED vars
  BY <1>1, <1>2 DEF Tick, vars, Frozen, ledger_vars, fee_vars
<1>3. CASE MakerStep
  <2>1. ASSUME NEW maker, NEW m \in Nonces, ClaimPayout(maker, m)
        PROVE  DueTo(positions[n])' = DueTo(positions[n])
    <3> DEFINE due == DueTo(positions[m])
               q == [positions[m] EXCEPT !.claimed = TRUE,
                                         !.payout_amount = LesserOf(due.payout, Available)]
    <3>1. /\ positions' = [positions EXCEPT ![m] = q]
          /\ creator_account' = [creator_account EXCEPT !.fee_collected = @ + due.creator_fee]
          /\ UNCHANGED <<config, outcome, pools, weighted_pools, penalty_pool>>
      BY <2>1 DEF ClaimPayout, ledger_vars
    <3> HIDE DEF due
    <3>2. creator_account'.creator = creator_account.creator
      BY <3>1 DEF TypeOK
    <3>3. q.claimed = TRUE /\ positions'[m] = q
      BY <3>1 DEF TypeOK, PositionType
    <3>4. m # n
      BY <3>3 DEF Active
    <3> QED
      BY <1>1, <3>1, <3>2, <3>4 DEF Frozen, TypeOK
  <2>2. ASSUME NEW maker, NEW m \in Nonces, ClosePosition(maker, m)
        PROVE  DueTo(positions[n])' = DueTo(positions[n])
    <3>1. /\ positions' = [positions EXCEPT ![m] = NoPosition]
          /\ UNCHANGED <<config, outcome, pools, weighted_pools, penalty_pool, creator_account>>
      BY <2>2 DEF ClosePosition, ledger_vars, fee_vars
    <3>2. m # n
      BY <3>1 DEF TypeOK, Active, NoPosition
    <3> QED
      BY <1>1, <3>1, <3>2 DEF Frozen, TypeOK
  <2> QED
    BY <1>3, <2>1, <2>2 DEF MakerStep, Deposit, Withdraw, Refund
<1>4. CASE AuthorityStep
  <2>1. ASSUME NEW signer, CollectFees(signer)
        PROVE  DueTo(positions[n])' = DueTo(positions[n])
    BY <1>1, <2>1 DEF CollectFees, Frozen, ledger_vars
  <2>2. ASSUME NEW signer, ClaimCreatorFees(signer)
        PROVE  DueTo(positions[n])' = DueTo(positions[n])
    <3> DEFINE actual == LesserOf(creator_account.fee_collected, Available)
    <3>1. /\ creator_account' = [creator_account EXCEPT !.fee_collected = @ - actual,
                                                        !.fee_claimed = @ + actual]
          /\ UNCHANGED <<config, outcome, pools, weighted_pools, penalty_pool, positions>>
      BY <2>2 DEF ClaimCreatorFees, ledger_vars
    <3> HIDE DEF actual
    <3>2. creator_account'.creator = creator_account.creator
      BY <3>1 DEF TypeOK
    <3> QED
      BY <1>1, <3>1, <3>2 DEF Frozen
  <2> QED
    BY <1>4, <2>1, <2>2 DEF AuthorityStep, AdminResolve, InvalidateMarket
<1>5. CASE Create \/ ResolveMarket
  BY <1>5 DEF Create, CreateMarket, ResolveMarket
<1> QED
  BY <1>2, <1>3, <1>4, <1>5 DEF Next

(* What claim_payout will compute for a position is fixed by the           *)
(* resolution: the order of claims, sweeps and closures is immaterial.     *)
THEOREM DueCorrect == Spec => DueIsFinal
<1>1. TypeOK /\ [Next]_vars =>
          [status = "Resolved" =>
              \A n \in Nonces : Active(positions[n]) /\ Active(positions'[n]) =>
                  DueTo(positions[n])' = DueTo(positions[n])]_vars
  BY DueStep
<1> QED
  BY <1>1, TypeCorrect, PTL DEF Spec, DueIsFinal

-----------------------------------------------------------------------------
(* What a step may do to a position.                                       *)
StaysSettled(n, p, q) ==
    /\ p.live /\ ~ q.live => p.claimed \/ p.withdrawn
    /\ ~ p.live /\ q.live => n = position_count
    /\ p.live /\ q.live /\ ~ Active(p) => q = p

LEMMA SettledStep ==
    ASSUME TypeOK, LedgerInv, [Next]_vars, NEW n \in Nonces
    PROVE  StaysSettled(n, positions[n], positions'[n])
<1>1. positions'[n] = positions[n] => StaysSettled(n, positions[n], positions'[n])
  BY DEF StaysSettled
<1>2. CASE Tick \/ UNCHANGED vars
  BY <1>1, <1>2 DEF Tick, vars
<1>3. CASE Create
  BY <1>1, <1>3 DEF Create, CreateMarket
<1>4. CASE MakerStep
  <2>1. ASSUME NEW maker \in Accounts, NEW side \in Sides, NEW amount \in Amounts,
               NEW min_weight \in MinWeights, Deposit(maker, side, amount, min_weight)
        PROVE  StaysSettled(n, positions[n], positions'[n])
    <3>1. PICK p : positions' = [positions EXCEPT ![position_count] = p]
      BY <2>1 DEF Deposit
    <3>2. CASE n # position_count
      BY <1>1, <3>1, <3>2 DEF TypeOK
    <3>3. CASE n = position_count
      <4>1. ~ positions[n].live
        BY <3>3 DEF LedgerInv, Bookkeeping, Nonces
      <4> QED
        BY <3>3, <4>1 DEF StaysSettled
    <3> QED
      BY <3>2, <3>3
  <2>2. ASSUME NEW m \in Nonces, NEW q, positions' = [positions EXCEPT ![m] = q],
               Active(positions[m]), q.live = positions[m].live
        PROVE  StaysSettled(n, positions[n], positions'[n])
    <3>1. CASE n # m
      BY <1>1, <2>2, <3>1 DEF TypeOK
    <3>2. CASE n = m
      <4>1. positions'[n] = q
        BY <2>2, <3>2 DEF TypeOK
      <4> QED
        BY <2>2, <3>2, <4>1 DEF StaysSettled, Active
    <3> QED
      BY <3>1, <3>2
  <2>3. ASSUME NEW maker \in Accounts, NEW m \in Nonces, Withdraw(maker, m)
        PROVE  StaysSettled(n, positions[n], positions'[n])
    <3> DEFINE q == [positions[m] EXCEPT !.withdrawn = TRUE]
    <3>1. positions' = [positions EXCEPT ![m] = q] /\ Active(positions[m])
      BY <2>3 DEF Withdraw, Active
    <3>2. q.live = positions[m].live
      BY DEF TypeOK, PositionType
    <3> HIDE DEF q
    <3> QED
      BY <2>2, <3>1, <3>2
  <2>4. ASSUME NEW maker \in Accounts, NEW m \in Nonces, ClaimPayout(maker, m)
        PROVE  StaysSettled(n, positions[n], positions'[n])
    <3> DEFINE q == [positions[m] EXCEPT !.claimed = TRUE, !.payout_amount =
                        LesserOf(DueTo(positions[m]).payout, Available)]
    <3>1. positions' = [positions EXCEPT ![m] = q] /\ Active(positions[m])
      BY <2>4 DEF ClaimPayout, Active
    <3>2. q.live = positions[m].live
      BY DEF TypeOK, PositionType
    <3> HIDE DEF q
    <3> QED
      BY <2>2, <3>1, <3>2
  <2>5. ASSUME NEW maker \in Accounts, NEW m \in Nonces, Refund(maker, m)
        PROVE  StaysSettled(n, positions[n], positions'[n])
    <3> DEFINE q == [positions[m] EXCEPT !.claimed = TRUE,
                                         !.payout_amount = positions[m].amount]
    <3>1. positions' = [positions EXCEPT ![m] = q] /\ Active(positions[m])
      BY <2>5 DEF Refund, Active
    <3>2. q.live = positions[m].live
      BY DEF TypeOK, PositionType
    <3> HIDE DEF q
    <3> QED
      BY <2>2, <3>1, <3>2
  <2>6. ASSUME NEW maker \in Accounts, NEW m \in Nonces, ClosePosition(maker, m)
        PROVE  StaysSettled(n, positions[n], positions'[n])
    <3>1. CASE n # m
      BY <1>1, <2>6, <3>1 DEF ClosePosition, TypeOK
    <3>2. CASE n = m
      <4>1. Settled(positions[n]) /\ positions'[n] = NoPosition /\ positions[n].live
        BY <2>6, <3>2 DEF ClosePosition, TypeOK
      <4> QED
        BY <4>1 DEF StaysSettled, Settled, NoPosition
    <3> QED
      BY <3>1, <3>2
  <2> QED
    BY <1>4, <2>1, <2>3, <2>4, <2>5, <2>6 DEF MakerStep
<1>5. CASE ResolveMarket
  BY <1>1, <1>5 DEF ResolveMarket, Finalise
<1>6. CASE AuthorityStep
  BY <1>1, <1>6
  DEF AuthorityStep, AdminResolve, Finalise, InvalidateMarket, CollectFees, ClaimCreatorFees
<1> QED
  BY <1>2, <1>3, <1>4, <1>5, <1>6 DEF Next

(* Every deposit is settled once: by a withdrawal, a claim or a refund,    *)
(* after which only close_position touches the account, and a nonce is     *)
(* never given out again.                                                  *)
THEOREM SettledCorrect == Spec => SettledOnce
<1>1. TypeOK /\ LedgerInv /\ [Next]_vars =>
          [\A n \in Nonces :
              LET p == positions[n]  q == positions'[n]
              IN  /\ p.live /\ ~ q.live => p.claimed \/ p.withdrawn
                  /\ ~ p.live /\ q.live => n = position_count
                  /\ p.live /\ q.live /\ ~ Active(p) => q = p]_vars
  BY SettledStep DEF StaysSettled
<1> QED
  BY <1>1, TypeCorrect, LedgerHolds, PTL DEF Spec, SettledOnce

-----------------------------------------------------------------------------
(* A side that counts a position holds its stake.                          *)
LEMMA CountedSideHolds ==
    ASSUME TypeOK, LedgerInv, status = "Open", NEW s \in Sides, side_position_counts[s] > 0
    PROVE  pools[s] > 0
<1> DEFINE stakes == StakeOn(positions, s)
           counts == CountOn(positions, s)
<1>1. /\ pools[s] = SumUpTo(stakes, MAX_POSITIONS) /\ pools[s] \in Nat
      /\ side_position_counts[s] = SumUpTo(counts, MAX_POSITIONS)
  BY DEF LedgerInv, LedgerMatchesPositions, TypeOK
<1>2. stakes \in [Nonces -> Nat] /\ counts \in [Nonces -> Nat]
  BY SummandTypes DEF TypeOK
<1>3. SUFFICES ASSUME pools[s] = 0 PROVE FALSE
  BY <1>1
<1>4. ASSUME NEW n \in Nonces
      PROVE  counts[n] = 0
  <2>1. stakes[n] <= 0 /\ stakes[n] \in Nat
    <3>1. stakes[n] <= SumUpTo(stakes, MAX_POSITIONS)
      BY <1>2, EntryChange
    <3> QED
      BY <1>1, <1>2, <1>3, <3>1
  <2>2. ActiveOn(positions[n], s) => stakes[n] >= MIN_DEPOSIT_LAMPORTS
    BY DEF StakeOn, LedgerInv, Bookkeeping, ActiveOn, Active
  <2>3. ~ ActiveOn(positions[n], s)
    <3> HIDE DEF stakes
    <3> QED
      BY <2>1, <2>2, EscrowAssumption
  <2> QED
    BY <2>3 DEF CountOn
<1>5. SumUpTo(counts, MAX_POSITIONS) = 0
  BY <1>2, <1>4, SumOfNothing
<1> QED
  BY <1>1, <1>5

LEMMA ResolvedStep ==
    ASSUME TypeOK, LedgerInv, ResolveMarket
    PROVE  pools'[outcome'.winner - 1] > 0
<1> DEFINE tracker == UpdateTwd(twd, pools, config.num_sides, clock)
           winner == DetermineWinner(config.num_sides, tracker, pools, weighted_pools,
                                     first_deposit_at)
<1>1. /\ config.num_sides \in 2 .. MAX_SIDES /\ pools \in [Sides -> Nat]
      /\ status = "Open" /\ TwoSidesHold(side_position_counts, config.num_sides)
  BY DEF TypeOK, ResolveMarket
<1>2. PICK i, j \in 0 .. (config.num_sides - 1) :
          i # j /\ side_position_counts[i] > 0 /\ side_position_counts[j] > 0
  BY <1>1 DEF TwoSidesHold
<1>3. i \in Sides /\ j \in Sides
  BY <1>1, <1>2, MathAssumption DEF Sides
<1>4. pools[i] > 0 /\ pools[j] > 0
  BY <1>1, <1>2, <1>3, CountedSideHolds
<1>5. winner \in 0 .. (config.num_sides - 1)
  BY <1>1, WinnerIsASide
<1>6. pools' = pools /\ outcome'.winner = winner + 1
  BY DEF ResolveMarket, Finalise, ledger_vars
<1>7. pools[winner] > 0
  <2>1. CASE config.num_sides > 2
    <3>1. winner = LargestPool(pools, config.num_sides)
      BY <2>1 DEF DetermineWinner, IsMultiOption
    <3>2. pools[winner] >= pools[i]
      BY <1>1, <1>2, <3>1, LargestPoolExists
    <3>3. winner \in Sides
      BY <1>1, <1>5, MathAssumption DEF Sides
    <3> HIDE DEF winner
    <3>4. pools[winner] \in Nat /\ pools[i] \in Nat
      BY <1>1, <1>3, <3>3
    <3> QED
      BY <1>4, <3>2, <3>4
  <2>2. CASE config.num_sides = 2
    <3> HIDE DEF winner
    <3>1. winner = i \/ winner = j
      BY <1>2, <1>5, <2>2
    <3> QED
      BY <1>4, <3>1
  <2> QED
    BY <1>1, <2>1, <2>2
<1> HIDE DEF winner
<1> QED
  BY <1>5, <1>6, <1>7

(* In a binary market the two counted sides are all there are.             *)
LEMMA AdminResolvedStep ==
    ASSUME TypeOK, LedgerInv, config.num_sides = 2,
           NEW signer, NEW winner \in 1 .. MAX_SIDES, AdminResolve(signer, winner)
    PROVE  pools'[outcome'.winner - 1] > 0
<1>1. /\ status = "Open" /\ winner - 1 \in {0, 1}
      /\ TwoSidesHold(side_position_counts, 2)
  BY DEF AdminResolve
<1>2. PICK i, j \in 0 .. 1 : i # j /\ side_position_counts[i] > 0 /\ side_position_counts[j] > 0
  BY <1>1 DEF TwoSidesHold
<1>3. i \in Sides /\ j \in Sides
  BY <1>2, MathAssumption DEF Sides
<1>4. pools[i] > 0 /\ pools[j] > 0
  BY <1>1, <1>2, <1>3, CountedSideHolds
<1>5. pools' = pools /\ outcome'.winner = (winner - 1) + 1
  BY DEF AdminResolve, Finalise, ledger_vars
<1>6. outcome'.winner - 1 = i \/ outcome'.winner - 1 = j
  BY <1>1, <1>2, <1>5
<1> QED
  BY <1>4, <1>5, <1>6

LEMMA ResolutionStep ==
    ASSUME TypeOK, LedgerInv, Next, status = "Open", status' = "Resolved",
           ResolveMarket \/ config.num_sides = 2
    PROVE  pools'[outcome'.winner - 1] > 0
<1>1. CASE ResolveMarket
  BY <1>1, ResolvedStep
<1>2. CASE ~ ResolveMarket
  <2>1. AuthorityStep
    BY <1>2
    DEF Next, Tick, Create, CreateMarket, MakerStep, Deposit, Withdraw, ClaimPayout, Refund,
        ClosePosition
  <2>2. PICK signer \in Accounts, winner \in 1 .. MAX_SIDES : AdminResolve(signer, winner)
    BY <2>1 DEF AuthorityStep, InvalidateMarket, CollectFees, ClaimCreatorFees
  <2> QED
    BY <1>2, <2>2, AdminResolvedStep
<1> QED
  BY <1>1, <1>2

(* resolve_market never names a side that nobody backs any more, even when *)
(* the dominance that decides was built up by stake since withdrawn; in a  *)
(* binary market neither does admin_resolve.                               *)
THEOREM ResolutionCorrect == Spec => ResolvedWinnerHasStake
<1>1. TypeOK /\ LedgerInv /\ [Next]_vars =>
          [/\ status = "Open" /\ status' = "Resolved"
           /\ ResolveMarket \/ config.num_sides = 2
           => pools'[outcome'.winner - 1] > 0]_vars
  BY ResolutionStep
<1> QED
  BY <1>1, TypeCorrect, LedgerHolds, PTL DEF Spec, ResolvedWinnerHasStake

-----------------------------------------------------------------------------
(* Where the lockout holds the program refuses what it locks out.          *)
LEMMA LockoutRefuses ==
    ASSUME TypeOK, config.enable_lockout, InLockout
    PROVE  ~ NotLockedOut
<1> DEFINE left == (EndTime - clock) * PRECISION
           duration == config.resolution_duration
           lockout == ComputeLockout(pools, config.num_sides, TotalPositions)
<1>1. /\ duration \in Nat /\ duration > 0 /\ clock \in Nat /\ EndTime \in Int
      /\ config.num_sides \in 2 .. MAX_SIDES /\ config.num_sides \in 0 .. MAX_SIDES
      /\ pools \in [Sides -> Nat] /\ side_position_counts \in [Sides -> Nat]
  BY DEF TypeOK, EndTime
<1>2. lockout \in Nat
  BY <1>1, SumPoolsType, LockoutType DEF TotalPositions
<1>3. left < duration * lockout
  BY DEF InLockout
<1> HIDE DEF lockout
<1>4. SUFFICES ASSUME clock <= EndTime, left \div duration >= lockout
               PROVE  FALSE
  BY DEF NotLockedOut, FractionRemaining, lockout
<1>5. left \in Nat
  BY <1>1, <1>4, Scale, ProductNat
<1> HIDE DEF left, duration
<1>6. left \div duration \in Nat /\ duration * (left \div duration) <= left
  BY <1>1, <1>5, DivBounds
<1> DEFINE fraction == left \div duration
<1> HIDE DEF fraction
<1>7. fraction \in Nat /\ lockout <= fraction /\ duration * fraction <= left
  BY <1>4, <1>6 DEF fraction
<1>8. duration * lockout <= duration * fraction
  BY <1>1, <1>2, <1>7, ProductMonotone
<1> QED
  BY <1>1, <1>2, <1>3, <1>5, <1>7, <1>8, ProductNat

(* Time brings a market no further out of the lockout.                     *)
LEMMA LockoutTicks ==
    ASSUME TypeOK, InLockout, Tick
    PROVE  InLockout'
<1> DEFINE need == config.resolution_duration
                       * ComputeLockout(pools, config.num_sides, TotalPositions)
<1>1. clock \in Nat /\ EndTime \in Int /\ need \in Int
  <2>1. /\ config.num_sides \in 2 .. MAX_SIDES /\ config.num_sides \in 0 .. MAX_SIDES
        /\ pools \in [Sides -> Nat] /\ side_position_counts \in [Sides -> Nat]
        /\ config.resolution_duration \in Nat
    BY DEF TypeOK
  <2>2. ComputeLockout(pools, config.num_sides, TotalPositions) \in Nat
    BY <2>1, SumPoolsType, LockoutType DEF TotalPositions
  <2> QED
    BY <2>1, <2>2, ProductNat DEF TypeOK, EndTime
<1>2. EndTime' = EndTime /\ need' = need
  BY DEF Tick, EndTime, TotalPositions, ledger_vars
<1>3. PICK gone \in Nat : clock' = clock + gone
  BY EscrowAssumption DEF Tick
<1>4. (EndTime - clock) * PRECISION < need
  BY DEF InLockout
<1>5. (EndTime' - clock') * PRECISION < need'
  <2> HIDE DEF need
  <2>1. gone * PRECISION \in Nat
    BY Scale, ProductNat
  <2>2. (EndTime - (clock + gone)) * PRECISION
            = (EndTime - clock) * PRECISION - gone * PRECISION
    BY <1>1, Scale
  <2> DEFINE before == (EndTime - clock) * PRECISION
  <2>3. before \in Int
    BY <1>1, Scale
  <2> HIDE DEF before
  <2>4. before - gone * PRECISION < need
    BY <1>1, <1>4, <2>1, <2>3 DEF before
  <2> QED
    BY <1>2, <1>3, <2>2, <2>4 DEF before
<1> QED
  BY <1>5 DEF InLockout

Locked == status = "Open" /\ config.enable_lockout /\ InLockout

StaysLocked ==
    /\ UNCHANGED <<ledger_vars, counter_vars, penalty_pool, vault>>
    /\ status' = "Open" => InLockout'

LEMMA LockoutStep == TypeOK /\ LedgerInv /\ [Next]_vars /\ Locked => StaysLocked
<1> SUFFICES ASSUME TypeOK, LedgerInv, [Next]_vars, Locked
             PROVE  StaysLocked
  OBVIOUS
<1>1. /\ status = "Open" /\ ~ NotLockedOut /\ InLockout
      /\ protocol_fee_collected = 0 /\ creator_account.fee_collected = 0
  BY LockoutRefuses DEF Locked, LedgerInv, Bookkeeping
<1>2. ASSUME UNCHANGED <<clock, config, ledger_vars>>
      PROVE  InLockout'
  BY <1>1, <1>2 DEF InLockout, EndTime, TotalPositions, ledger_vars
<1>3. CASE UNCHANGED vars
  BY <1>2, <1>3 DEF vars, StaysLocked
<1>4. CASE Tick
  BY <1>1, <1>4, LockoutTicks DEF Tick, StaysLocked
<1>5. CASE Create
  BY <1>1, <1>5 DEF Create, CreateMarket
<1>6. CASE MakerStep
  <2>1. PICK n \in Nonces, maker \in Accounts : ClosePosition(maker, n)
    BY <1>1, <1>6 DEF MakerStep, Deposit, Withdraw, ClaimPayout, Refund
  <2> QED
    BY <1>2, <2>1 DEF ClosePosition, StaysLocked
<1>7. CASE ResolveMarket
  BY <1>7 DEF ResolveMarket, Finalise, StaysLocked
<1>8. CASE AuthorityStep
  BY <1>1, <1>8
  DEF AuthorityStep, AdminResolve, Finalise, InvalidateMarket, CollectFees, ClaimCreatorFees,
      StaysLocked
<1> QED
  BY <1>3, <1>4, <1>5, <1>6, <1>7, <1>8 DEF Next

(* Whatever the pools were when it came to hold, the lockout keeps every   *)
(* deposit and every withdrawal out until the market closes, after the end *)
(* of the market as well.                                                  *)
THEOREM LockoutCorrect == Spec => LockoutIsFinal
<1>1. TypeOK /\ LedgerInv /\ [Next]_vars =>
          [status = "Open" /\ config.enable_lockout /\ InLockout =>
              /\ UNCHANGED <<ledger_vars, counter_vars, penalty_pool, vault>>
              /\ status' = "Open" => InLockout']_vars
  BY LockoutStep DEF Locked, StaysLocked
<1> QED
  BY <1>1, TypeCorrect, LedgerHolds, PTL DEF Spec, LockoutIsFinal

-----------------------------------------------------------------------------
(* Entry weights decay: of the live positions the later one has no more    *)
(* weight, and while deposits are taken none has less than a new one gets. *)
CurrentWeight == ComputeEntryWeight(FractionRemaining, config.resolution_duration)

Decaying ==
    /\ \A m, n \in Nonces : m < n /\ positions[m].live /\ positions[n].live =>
          positions[m].entry_weight >= positions[n].entry_weight
    /\ status = "Open" /\ clock < EndTime =>
          \A n \in Nonces : positions[n].live => positions[n].entry_weight >= CurrentWeight

LEMMA WeightDecays ==
    ASSUME TypeOK, clock' \in Nat, clock <= clock', config' = config, clock' < EndTime'
    PROVE  CurrentWeight' <= CurrentWeight /\ clock < EndTime
<1> DEFINE duration == config.resolution_duration
           less == (EndTime - clock') * PRECISION
           more == (EndTime - clock) * PRECISION
<1>1. /\ config.created_at \in Nat /\ duration \in Nat \ {0} /\ clock \in Nat
  BY DEF TypeOK
<1>2. EndTime' = EndTime /\ EndTime \in Nat
  BY <1>1 DEF EndTime
<1>3. /\ EndTime - clock' \in Nat /\ EndTime - clock \in Nat
      /\ EndTime - clock' <= EndTime - clock /\ clock < EndTime
  <2>1. \A x, y, e \in Nat : x <= y /\ y < e =>
            e - x \in Nat /\ e - y \in Nat /\ e - y <= e - x /\ x < e
    OBVIOUS
  <2> QED
    BY <1>1, <1>2, <2>1
<1>4. less \in Nat /\ more \in Nat /\ less <= more
  BY <1>3, Scale, ProductNat, ProductMonotone
<1>5. FractionRemaining = more \div duration /\ FractionRemaining' = less \div duration
  BY <1>2 DEF FractionRemaining
<1> HIDE DEF less, more
<1>6. less \div duration \in Nat /\ more \div duration \in Nat
  BY <1>1, <1>4, DivBounds
<1>7. less \div duration <= more \div duration
  BY <1>1, <1>4, DivOrdered
<1>8. ComputeEntryWeight(less \div duration, duration)
          <= ComputeEntryWeight(more \div duration, duration)
  BY <1>1, <1>6, <1>7, EntryWeightOrdered
<1> QED
  BY <1>3, <1>5, <1>8 DEF CurrentWeight

(* It is kept by whatever neither creates a position nor changes one that  *)
(* stays, and does not turn the clock back.                                *)
LEMMA DecayingFrame ==
    ASSUME TypeOK, TypeOK', Decaying, clock <= clock', config' = config,
           status' = "Open" => status = "Open",
           \A n \in Nonces : positions'[n].live =>
               positions[n].live /\ positions'[n].entry_weight = positions[n].entry_weight
    PROVE  Decaying'
<1>1. \A n \in Nonces : positions[n].entry_weight \in Nat
  BY Scale DEF TypeOK, PositionType, Weights
<1>2. ASSUME status' = "Open", clock' < EndTime'
      PROVE  \A n \in Nonces : positions'[n].live => positions'[n].entry_weight >= CurrentWeight'
  <2>1. clock' \in Nat
    BY DEF TypeOK
  <2>2. CurrentWeight' <= CurrentWeight /\ clock < EndTime
    BY <1>2, <2>1, WeightDecays
  <2>3. CurrentWeight \in Nat /\ CurrentWeight' \in Nat
    <3>1. TypeOK /\ clock < EndTime => CurrentWeight \in Nat
      BY DepositWeight DEF CurrentWeight
    <3>2. (TypeOK /\ clock < EndTime => CurrentWeight \in Nat)'
      BY DepositWeight, PTL DEF CurrentWeight
    <3> QED
      BY <1>2, <2>2, <3>1, <3>2
  <2> QED
    BY <1>1, <1>2, <2>2, <2>3 DEF Decaying
<1> QED
  BY <1>2 DEF Decaying

LEMMA DecayingStep == TypeOK /\ TypeOK' /\ LedgerInv /\ Decaying /\ [Next]_vars => Decaying'
<1> SUFFICES ASSUME TypeOK, TypeOK', LedgerInv, Decaying, [Next]_vars
             PROVE  Decaying'
  OBVIOUS
<1>1. positions \in [Nonces -> PositionType] /\ clock \in Nat
  BY DEF TypeOK
<1>2. ASSUME clock' = clock, config' = config, status' = "Open" => status = "Open",
             NEW m \in Nonces, NEW q, positions' = [positions EXCEPT ![m] = q],
             q.live => positions[m].live /\ q.entry_weight = positions[m].entry_weight
      PROVE  Decaying'
  <2>1. \A n \in Nonces : positions'[n].live =>
            positions[n].live /\ positions'[n].entry_weight = positions[n].entry_weight
    BY <1>1, <1>2
  <2> QED
    BY <1>1, <1>2, <2>1, DecayingFrame
<1>3. CASE Tick \/ UNCHANGED vars
  <2>1. clock <= clock' /\ UNCHANGED <<config, status, positions>>
    <3>1. CASE Tick
      <4>1. PICK step \in ClockSteps : clock' = clock + step
        BY <3>1 DEF Tick
      <4>2. step \in Nat
        BY EscrowAssumption
      <4> QED
        BY <1>1, <3>1, <4>1, <4>2 DEF Tick
    <3>2. CASE UNCHANGED vars
      BY <1>1, <3>2 DEF vars
    <3> QED
      BY <1>3, <3>1, <3>2
  <2> QED
    BY <2>1, DecayingFrame
<1>4. CASE Create
  <2>1. status = "Uninit" /\ positions' = positions
    BY <1>4 DEF Create, CreateMarket
  <2>2. \A n \in Nonces : ~ positions[n].live
    BY <2>1 DEF LedgerInv, Bookkeeping
  <2> QED
    BY <2>1, <2>2 DEF Decaying
<1>5. CASE MakerStep
  <2>1. ASSUME NEW maker \in Accounts, NEW side \in Sides, NEW amount \in Amounts,
               NEW min_weight \in MinWeights, Deposit(maker, side, amount, min_weight)
        PROVE  Decaying'
    <3> DEFINE n == position_count
               p == [NoPosition EXCEPT !.live = TRUE, !.maker = maker, !.side = side,
                                       !.amount = amount, !.entry_weight = CurrentWeight]
    <3>1. /\ status = "Open" /\ clock < EndTime /\ n \in Nonces
          /\ UNCHANGED <<clock, config, status>>
      BY <2>1, EscrowAssumption DEF Deposit, Nonces, TypeOK
    <3>2. positions' = [positions EXCEPT ![n] = p]
      BY <2>1 DEF Deposit, CurrentWeight
    <3>3. p.entry_weight = CurrentWeight
      BY DEF NoPosition
    <3>4. CurrentWeight' = CurrentWeight /\ EndTime' = EndTime
      BY <3>1 DEF CurrentWeight, FractionRemaining, EndTime
    <3>5. CurrentWeight \in Nat
      BY <3>1, DepositWeight DEF CurrentWeight
    <3> HIDE DEF p
    <3>6. positions'[n] = p /\ \A m \in Nonces : m # n => positions'[m] = positions[m]
      BY <1>1, <3>1, <3>2
    <3>7. \A m \in Nonces : positions[m].live => m < n /\ positions[m].entry_weight >= CurrentWeight
      BY <3>1 DEF LedgerInv, Bookkeeping, Decaying
    <3>8. \A m \in Nonces : positions'[m].live => positions'[m].entry_weight >= CurrentWeight
      BY <3>3, <3>5, <3>6, <3>7
    <3>9. ASSUME NEW k \in Nonces, NEW m \in Nonces, k < m, positions'[k].live, positions'[m].live
          PROVE  positions'[k].entry_weight >= positions'[m].entry_weight
      <4>1. CASE m = n
        BY <3>3, <3>6, <3>8, <3>9, <4>1
      <4>2. CASE m # n
        <5>1. positions'[m] = positions[m] /\ m < n
          BY <3>6, <3>7, <3>9, <4>2
        <5>2. k # n
          BY <3>1, <3>9, <5>1 DEF Nonces
        <5> QED
          BY <3>6, <3>9, <5>1, <5>2 DEF Decaying
      <4> QED
        BY <4>1, <4>2
    <3> QED
      BY <3>4, <3>8, <3>9 DEF Decaying
  <2>2. ASSUME NEW maker, NEW m \in Nonces, Withdraw(maker, m)
        PROVE  Decaying'
    <3>1. positions' = [positions EXCEPT ![m] = [positions[m] EXCEPT !.withdrawn = TRUE]]
      BY <2>2 DEF Withdraw
    <3> QED
      BY <1>1, <1>2, <2>2, <3>1 DEF Withdraw, PositionType
  <2>3. ASSUME NEW maker, NEW m \in Nonces, ClaimPayout(maker, m)
        PROVE  Decaying'
    <3> DEFINE paid == LesserOf(DueTo(positions[m]).payout, Available)
    <3>1. positions' = [positions EXCEPT ![m] =
                            [positions[m] EXCEPT !.claimed = TRUE, !.payout_amount = paid]]
      BY <2>3 DEF ClaimPayout
    <3> HIDE DEF paid
    <3> QED
      BY <1>1, <1>2, <2>3, <3>1 DEF ClaimPayout, PositionType
  <2>4. ASSUME NEW maker, NEW m \in Nonces, Refund(maker, m)
        PROVE  Decaying'
    <3> DEFINE paid == positions[m].amount
    <3>1. positions' = [positions EXCEPT ![m] =
                            [positions[m] EXCEPT !.claimed = TRUE, !.payout_amount = paid]]
      BY <2>4 DEF Refund
    <3> HIDE DEF paid
    <3> QED
      BY <1>1, <1>2, <2>4, <3>1 DEF Refund, PositionType
  <2>5. ASSUME NEW maker, NEW m \in Nonces, ClosePosition(maker, m)
        PROVE  Decaying'
    <3>1. positions' = [positions EXCEPT ![m] = NoPosition]
      BY <2>5 DEF ClosePosition
    <3> QED
      BY <1>2, <2>5, <3>1 DEF ClosePosition, NoPosition
  <2> QED
    BY <1>5, <2>1, <2>2, <2>3, <2>4, <2>5 DEF MakerStep
<1>6. CASE ResolveMarket \/ AuthorityStep
  <2>1. /\ UNCHANGED <<clock, config, positions>>
        /\ status' = "Open" => status = "Open"
    BY <1>6 DEF ResolveMarket, AuthorityStep, AdminResolve, Finalise, InvalidateMarket,
                CollectFees, ClaimCreatorFees
  <2> QED
    BY <1>1, <2>1, DecayingFrame
<1> QED
  BY <1>3, <1>4, <1>5, <1>6 DEF Next

(* Then of two equal deposits on a side the earlier is due no less.        *)
LEMMA EarlierFinds == TypeOK /\ Decaying => EarlierIsNoWorse
<1> SUFFICES ASSUME TypeOK, Decaying, NEW m \in Nonces, NEW n \in Nonces, m < n,
                    Active(positions[m]), Active(positions[n]),
                    positions[m].side = positions[n].side,
                    positions[m].amount = positions[n].amount
             PROVE  DueTo(positions[m]).payout + (IF CreatorFeeBps = 0 THEN 0 ELSE 1)
                        >= DueTo(positions[n]).payout
  BY DEF EarlierIsNoWorse
<1> DEFINE amount == positions[m].amount
           side == positions[m].side
           pool == pools[side]
           weighted == weighted_pools[side]
           less == positions[n].entry_weight
           more == positions[m].entry_weight
           share == outcome.winner_payout_share
           total == TotalDistributable
           bps == CreatorFeeBps
           extra == IF bps = 0 THEN 0 ELSE 1
<1>1. /\ amount \in Nat /\ side \in Sides /\ less \in Nat /\ more \in Nat
      /\ share \in 0 .. PRECISION
  BY Scale DEF TypeOK, PositionType, Weights
<1>2. total \in Nat /\ bps \in {0, CREATOR_FEE_BPS}
  BY DistributableType
<1>3. less <= more
  BY <1>1 DEF Decaying, Active
<1>4. pool \in Nat /\ weighted \in Nat
  BY <1>1 DEF TypeOK
<1>5. CASE side = outcome.winner - 1
  <2> DEFINE Due(w) == ComputeWinnerPayout(amount, w, pool, weighted, share, total, bps)
  <2>1. DueTo(positions[m]) = Due(more) /\ DueTo(positions[n]) = Due(less)
    BY <1>5 DEF DueTo, IsWinner
  <2>2. /\ Due(less).payout <= Due(more).payout + 1
        /\ bps = 0 => Due(less).payout <= Due(more).payout
    <3> HIDE DEF amount, side, pool, weighted, less, more, share, total, bps
    <3> QED
      BY <1>1, <1>2, <1>3, <1>4, WinnerPayoutOrdered
  <2>3. Due(less).payout \in Nat /\ Due(more).payout \in Nat /\ extra \in Nat
    <3>1. DueTo(positions[m]) \in DueType /\ DueTo(positions[n]) \in DueType
      BY DueToType
    <3> QED
      BY <2>1, <3>1 DEF DueType
  <2> HIDE DEF Due, bps
  <2>4. Due(less).payout <= Due(more).payout + extra
    BY <2>2, <2>3
  <2> QED
    BY <2>1, <2>4 DEF bps
<1>6. CASE side # outcome.winner - 1
  <2> DEFINE Due(w) == ComputeLoserPayout(amount, w, weighted, share, total)
  <2>1. DueTo(positions[m]).payout = Due(more) /\ DueTo(positions[n]).payout = Due(less)
    BY <1>6 DEF DueTo, IsWinner, NothingDue
  <2>2. Due(less) <= Due(more)
    <3> HIDE DEF amount, side, pool, weighted, less, more, share, total
    <3> QED
      BY <1>1, <1>2, <1>3, <1>4, LoserPayoutOrdered
  <2>3. Due(less) \in Nat /\ Due(more) \in Nat /\ extra \in Nat
    <3>1. DueTo(positions[m]) \in DueType /\ DueTo(positions[n]) \in DueType
      BY DueToType
    <3> QED
      BY <2>1, <3>1 DEF DueType
  <2> HIDE DEF Due
  <2> QED
    BY <2>1, <2>2, <2>3
<1> QED
  BY <1>5, <1>6

(* Conviction pays: whatever trades, withdrawals and claims come between,  *)
(* the earlier of two equal deposits on a side is never due less than the  *)
(* later one, but for a lamport of fee rounding.                           *)
THEOREM EarlierCorrect == Spec => []EarlierIsNoWorse
<1>1. Init => Decaying
  BY DEF Init, Decaying, NoPosition
<1> QED
  BY <1>1, TypeCorrect, LedgerHolds, DecayingStep, EarlierFinds, PTL DEF Spec
=============================================================================
