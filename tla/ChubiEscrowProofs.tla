------------------------- MODULE ChubiEscrowProofs -------------------------
(***************************************************************************)
(* Type correctness of the escrow program and of its ledger, for any       *)
(* accounts, amounts, durations, rent and bounds that satisfy the          *)
(* assumptions.                                                            *)
(***************************************************************************)
EXTENDS ChubiEscrow, EscrowMathTheorems

(* The distributable total and the basis points are what the lemmas about  *)
(* the arithmetic ask for.                                                 *)
LEMMA DistributableType ==
    ASSUME TypeOK
    PROVE  /\ TotalDistributable \in Nat
           /\ CreatorFeeBps \in {0, CREATOR_FEE_BPS}
<1>1. config.num_sides \in 0 .. MAX_SIDES
  BY MathAssumption DEF TypeOK
<1>2. SumPools(pools, config.num_sides) \in Nat
  BY <1>1, SumPoolsType DEF TypeOK
<1> QED
  BY <1>2 DEF TypeOK, TotalDistributable, CreatorFeeBps

(* What a position is due has its type.                                    *)
LEMMA DueToType ==
    ASSUME TypeOK, NEW n \in Nonces
    PROVE  DueTo(positions[n]) \in DueType
<1> DEFINE p == positions[n]
           share == outcome.winner_payout_share
           lost == ComputeLoserPayout(p.amount, p.entry_weight, weighted_pools[p.side],
                                      share, TotalDistributable)
<1>1. /\ p.amount \in Nat /\ p.side \in Sides /\ p.entry_weight \in Nat
      /\ pools[p.side] \in Nat /\ weighted_pools[p.side] \in Nat
      /\ share \in 0 .. PRECISION
  BY Scale DEF TypeOK, PositionType, Weights
<1> HIDE DEF p, share
<1>2. TotalDistributable \in Nat /\ CreatorFeeBps \in {0, CREATOR_FEE_BPS}
  BY DistributableType
<1>3. CASE IsWinner(p)
  <2>1. DueTo(p) = ComputeWinnerPayout(p.amount, p.entry_weight, pools[p.side],
                       weighted_pools[p.side], share, TotalDistributable, CreatorFeeBps)
    BY <1>3 DEF DueTo, share
  <2>2. ComputeWinnerPayout(p.amount, p.entry_weight, pools[p.side],
            weighted_pools[p.side], share, TotalDistributable, CreatorFeeBps) \in DueType
    BY <1>1, <1>2, WinnerPayout DEF WinnerDue
  <2> QED
    BY <2>1, <2>2 DEF p
<1>4. CASE ~ IsWinner(p)
  <2>1. DueTo(p) = [NothingDue EXCEPT !.payout = lost]
    BY <1>4 DEF DueTo, share
  <2>2. lost \in Nat
    BY <1>1, <1>2, LoserPayout
  <2> HIDE DEF lost
  <2> QED
    BY <2>1, <2>2 DEF NothingDue, DueType, p
<1> QED
  BY <1>3, <1>4

(* The tracker that an instruction leaves behind has its type.             *)
LEMMA TrackerType ==
    ASSUME TypeOK
    PROVE  /\ UpdateTwd(twd, pools, config.num_sides, clock) \in TwdType
           /\ \A newPools : TwdAfter(newPools) \in TwdType
<1>1. UpdateTwd(twd, pools, config.num_sides, clock) \in TwdType
  BY UpdateTwdType DEF TypeOK, TwdType
<1>2. \A newPools : TwoSidesHold(newPools, config.num_sides) \in BOOLEAN
  BY DEF TwoSidesHold
<1>3. \A t \in TwdType, b \in BOOLEAN : [t EXCEPT !.has_both_sides = b] \in TwdType
  BY DEF TwdType
<1> QED
  BY <1>1, <1>2, <1>3 DEF TwdAfter

LEMMA InitType == Init => TypeOK
<1> SUFFICES ASSUME Init PROVE TypeOK
  OBVIOUS
<1>1. NoPosition \in PositionType
  BY MathAssumption DEF NoPosition, PositionType, Sides
<1>2. Zeros \in [Sides -> Nat]
  BY DEF Zeros
<1> QED
  BY <1>1, <1>2, MathAssumption, EscrowAssumption, Scale
  DEF Init, TypeOK, NoConfig, NoOutcome, FreshTwd

LEMMA CreateType ==
    ASSUME TypeOK, NEW signer \in Accounts, NEW creator \in Accounts \cup {NoKey},
           NEW duration \in Durations, NEW num_sides \in 2 .. MAX_SIDES,
           NEW allow \in BOOLEAN, NEW lockout \in BOOLEAN,
           CreateMarket(signer, creator, duration, num_sides, allow, lockout)
    PROVE  TypeOK'
<1>1. duration \in Nat \ {0}
  BY EscrowAssumption DEF CreateMarket
<1>2. Zeros \in [Sides -> Nat]
  BY DEF Zeros
<1> QED
  BY <1>1, <1>2, MathAssumption, EscrowAssumption, Scale
  DEF CreateMarket, TypeOK, NoOutcome, FreshTwd

(* The weight that a deposit is given before the end of the market.        *)
LEMMA DepositWeight ==
    ASSUME TypeOK, clock < EndTime
    PROVE  /\ ComputeEntryWeight(FractionRemaining, config.resolution_duration) \in Weights
           /\ ComputeEntryWeight(FractionRemaining, config.resolution_duration) \in Nat
<1>1. /\ config.created_at \in Nat /\ config.resolution_duration \in Nat \ {0}
      /\ config.resolution_duration \in Int /\ clock \in Nat
  BY DEF TypeOK
<1>2. EndTime - clock \in Nat
  BY <1>1 DEF EndTime
<1>3. (EndTime - clock) * PRECISION \in Nat
  BY <1>2, Scale, ProductNat
<1>4. FractionRemaining \in Nat
  BY <1>1, <1>3, DivBounds DEF FractionRemaining
<1>5. ComputeEntryWeight(FractionRemaining, config.resolution_duration)
          \in MIN_WEIGHT_FLOOR .. PRECISION
  BY <1>1, <1>4, EntryWeightBounds
<1> HIDE DEF FractionRemaining
<1> QED
  BY <1>5, Scale DEF Weights

LEMMA DepositType ==
    ASSUME TypeOK, NEW maker \in Accounts, NEW side \in Sides, NEW amount \in Amounts,
           NEW min_weight \in MinWeights, Deposit(maker, side, amount, min_weight)
    PROVE  TypeOK'
<1> DEFINE weight == ComputeEntryWeight(FractionRemaining, config.resolution_duration)
           p == [NoPosition EXCEPT !.live = TRUE, !.maker = maker, !.side = side,
                                   !.amount = amount, !.entry_weight = weight]
<1>1. amount \in Nat
  BY EscrowAssumption
<1>2. clock < EndTime
  BY DEF Deposit
<1>3. weight \in Weights /\ weight \in Nat
  BY <1>2, DepositWeight
<1> HIDE DEF weight
<1>4. p \in PositionType
  BY <1>1, <1>3 DEF NoPosition, PositionType
<1>5. amount * weight \in Nat
  BY <1>1, <1>3, ProductNat
<1>6. /\ pools' \in [Sides -> Nat] /\ weighted_pools' \in [Sides -> Nat]
      /\ side_position_counts' \in [Sides -> Nat]
  BY <1>1, <1>5 DEF Deposit, AddStake, TypeOK, weight
<1>7. positions' \in [Nonces -> PositionType]
  <2>1. positions' = [positions EXCEPT ![position_count] = p]
    BY DEF Deposit, p, weight
  <2> QED
    BY <1>4, <2>1 DEF TypeOK
<1>8. twd' \in TwdType
  BY TrackerType DEF Deposit
<1>9. first_deposit_at' \in [Sides -> Nat]
  BY DEF Deposit, TypeOK
<1>10. total_deposited' \in 0 .. U64_MAX /\ position_count' \in 0 .. MAX_POSITIONS /\ vault' \in Nat
  BY <1>1, MathAssumption, EscrowAssumption DEF Deposit, TypeOK
<1> QED
  BY <1>6, <1>7, <1>8, <1>9, <1>10 DEF Deposit, TypeOK, TwdType, fee_vars

LEMMA WithdrawType ==
    ASSUME TypeOK, NEW maker \in Accounts, NEW n \in Nonces, Withdraw(maker, n)
    PROVE  TypeOK'
<1> DEFINE p == positions[n]
<1>1. p \in PositionType /\ p.side \in Sides /\ p.amount \in Nat /\ p.entry_weight \in Nat
  BY Scale DEF TypeOK, PositionType, Weights
<1>2. Penalty(p) \in Nat /\ Penalty(p) <= p.amount
  <2>1. clock - config.created_at \in Int /\ config.resolution_duration \in Int
    BY DEF TypeOK
  <2> HIDE DEF p
  <2> QED
    BY <1>1, <2>1, PenaltyBounds DEF Penalty
<1>3. vault' \in Nat
  <2>1. Returned(p) <= vault /\ vault' = vault - Returned(p) /\ vault \in Nat
    BY DEF Withdraw, CanDebit, TypeOK
  <2> QED
    BY <1>1, <1>2, <2>1 DEF Returned
<1>4. penalty_pool' \in Nat
  BY <1>2 DEF Withdraw, TypeOK
<1>5. p.amount * p.entry_weight \in Nat
  BY <1>1, ProductNat
<1>6. /\ pools' \in [Sides -> Nat] /\ weighted_pools' \in [Sides -> Nat]
      /\ side_position_counts' \in [Sides -> Nat]
  <2>1. RemoveStake(p.side, p.amount, p.entry_weight)
    BY DEF Withdraw
  <2> HIDE DEF p
  <2> QED
    BY <1>1, <1>5, <2>1 DEF RemoveStake, SatSub, TypeOK
<1>7. positions' \in [Nonces -> PositionType]
  <2>1. [p EXCEPT !.withdrawn = TRUE] \in PositionType
    BY <1>1 DEF PositionType
  <2>2. positions' = [positions EXCEPT ![n] = [p EXCEPT !.withdrawn = TRUE]]
    BY DEF Withdraw
  <2> HIDE DEF p
  <2> QED
    BY <2>1, <2>2 DEF TypeOK
<1>8. twd' \in TwdType
  BY TrackerType DEF Withdraw
<1> QED
  BY <1>3, <1>4, <1>6, <1>7, <1>8 DEF Withdraw, TypeOK, TwdType, fee_vars, counter_vars

LEMMA FinaliseType ==
    ASSUME TypeOK, NEW winner \in 0 .. (config.num_sides - 1), Finalise(winner)
    PROVE  TypeOK'
<1> DEFINE final == UpdateTwd(twd, pools, config.num_sides, clock)
           share == ComputeTwcd(winner, FinalTwd(final), pools, config.num_sides)
<1>1. final \in TwdType
  BY TrackerType
<1>2. config.num_sides \in 2 .. MAX_SIDES /\ MAX_SIDES \in Nat
  BY MathAssumption DEF TypeOK
<1>3. winner \in Sides /\ winner + 1 \in 0 .. MAX_SIDES
  BY <1>2 DEF Sides
<1> HIDE DEF final
<1>4. FinalTwd(final) \in Nat
  BY <1>1, FinalTwdType
<1>5. share \in 0 .. PRECISION
  BY <1>2, <1>3, <1>4, TwcdBounds DEF TypeOK
<1>6. /\ twd' = final
      /\ outcome' = [winner |-> winner + 1, twd_0 |-> FinalTwd(final),
                     winner_payout_share |-> share]
  BY DEF Finalise, final
<1> HIDE DEF share
<1> QED
  BY <1>1, <1>3, <1>4, <1>5, <1>6
  DEF Finalise, TypeOK, TwdType, ledger_vars, counter_vars, fee_vars

LEMMA ClaimType ==
    ASSUME TypeOK, NEW maker \in Accounts, NEW n \in Nonces, ClaimPayout(maker, n)
    PROVE  TypeOK'
<1> DEFINE p == positions[n]
           due == DueTo(p)
           actual == LesserOf(due.payout, Available)
<1>1. p \in PositionType
  BY DEF TypeOK
<1>2. due \in DueType
  BY DueToType
<1>3. /\ actual > 0 /\ actual <= vault /\ vault' = vault - actual
      /\ positions' = [positions EXCEPT ![n] =
             [p EXCEPT !.claimed = TRUE, !.payout_amount = actual]]
      /\ total_claimed' = total_claimed + actual
      /\ protocol_fee_collected' = protocol_fee_collected + due.fee
      /\ creator_account' = [creator_account EXCEPT !.fee_collected = @ + due.creator_fee]
  BY DEF ClaimPayout, CanDebit
<1> HIDE DEF p, due
<1>4. actual \in Nat /\ due.fee \in Nat /\ due.creator_fee \in Nat
  BY <1>2, <1>3, EscrowAssumption DEF DueType, LesserOf, Available, SatSub, TypeOK
<1> HIDE DEF actual
<1>5. [p EXCEPT !.claimed = TRUE, !.payout_amount = actual] \in PositionType
  BY <1>1, <1>4 DEF PositionType
<1>6. positions' \in [Nonces -> PositionType]
  BY <1>3, <1>5 DEF TypeOK
<1>7. vault' \in Nat /\ total_claimed' \in Nat /\ protocol_fee_collected' \in Nat
  BY <1>3, <1>4 DEF TypeOK
<1>8. creator_account' \in [creator : Accounts \cup {NoKey}, fee_collected : Nat,
                            fee_claimed : Nat]
  BY <1>3, <1>4 DEF TypeOK
<1> QED
  BY <1>6, <1>7, <1>8 DEF ClaimPayout, TypeOK, ledger_vars, counter_vars

LEMMA RefundType ==
    ASSUME TypeOK, NEW maker \in Accounts, NEW n \in Nonces, Refund(maker, n)
    PROVE  TypeOK'
<1> DEFINE p == positions[n]
<1>1. p \in PositionType /\ p.amount \in Nat
  BY DEF TypeOK, PositionType
<1>2. /\ p.amount <= vault /\ vault' = vault - p.amount
      /\ positions' = [positions EXCEPT ![n] =
             [p EXCEPT !.claimed = TRUE, !.payout_amount = p.amount]]
      /\ total_claimed' = total_claimed + p.amount
  BY DEF Refund, CanDebit
<1> HIDE DEF p
<1>3. [p EXCEPT !.claimed = TRUE, !.payout_amount = p.amount] \in PositionType
  BY <1>1 DEF PositionType
<1>4. positions' \in [Nonces -> PositionType]
  BY <1>2, <1>3 DEF TypeOK
<1>5. vault' \in Nat /\ total_claimed' \in Nat
  BY <1>1, <1>2 DEF TypeOK
<1> QED
  BY <1>4, <1>5 DEF Refund, TypeOK, ledger_vars, counter_vars, fee_vars

LEMMA CloseType ==
    ASSUME TypeOK, NEW maker \in Accounts, NEW n \in Nonces, ClosePosition(maker, n)
    PROVE  TypeOK'
<1>1. NoPosition \in PositionType
  BY MathAssumption DEF NoPosition, PositionType, Sides
<1> QED
  BY <1>1 DEF ClosePosition, TypeOK, ledger_vars, counter_vars, fee_vars

LEMMA CollectType ==
    ASSUME TypeOK, NEW signer \in Accounts, CollectFees(signer)
    PROVE  TypeOK'
<1>1. vault' \in Nat /\ protocol_fee_collected' \in Nat
  BY DEF CollectFees, CanDebit, SweptFees, LesserOf, SatSub, TypeOK
<1> QED
  BY <1>1 DEF CollectFees, TypeOK, ledger_vars, counter_vars

LEMMA ClaimCreatorType ==
    ASSUME TypeOK, NEW signer \in Accounts, ClaimCreatorFees(signer)
    PROVE  TypeOK'
<1> DEFINE actual == LesserOf(creator_account.fee_collected, Available)
<1>1. /\ actual > 0 /\ actual <= vault /\ vault' = vault - actual
      /\ creator_account' = [creator_account EXCEPT !.fee_collected = @ - actual,
                                                    !.fee_claimed = @ + actual]
  BY DEF ClaimCreatorFees, CanDebit
<1>2. creator_account.fee_collected \in Nat /\ creator_account.fee_claimed \in Nat
  BY DEF TypeOK
<1>3. actual \in Nat /\ actual <= creator_account.fee_collected
  BY <1>1, <1>2, EscrowAssumption DEF LesserOf, Available, SatSub, TypeOK
<1> HIDE DEF actual
<1>4. vault' \in Nat
  BY <1>1, <1>3 DEF TypeOK
<1>5. creator_account' \in [creator : Accounts \cup {NoKey}, fee_collected : Nat,
                            fee_claimed : Nat]
  <2>1. /\ creator_account.fee_collected - actual \in Nat
        /\ creator_account.fee_claimed + actual \in Nat
    BY <1>2, <1>3
  <2>2. creator_account \in [creator : Accounts \cup {NoKey}, fee_collected : Nat,
                             fee_claimed : Nat]
    BY DEF TypeOK
  <2> QED
    BY <1>1, <2>1, <2>2
<1> QED
  BY <1>4, <1>5 DEF ClaimCreatorFees, TypeOK, ledger_vars, counter_vars

LEMMA TypeStep == TypeOK /\ [Next]_vars => TypeOK'
<1> SUFFICES ASSUME TypeOK, [Next]_vars
             PROVE  TypeOK'
  OBVIOUS
<1>1. CASE Tick
  BY <1>1, EscrowAssumption DEF Tick, TypeOK, ledger_vars, counter_vars, fee_vars
<1>2. CASE Create
  BY <1>2, CreateType DEF Create
<1>3. CASE MakerStep
  BY <1>3, DepositType, WithdrawType, ClaimType, RefundType, CloseType DEF MakerStep
<1>4. CASE ResolveMarket
  <2>1. PICK winner \in 0 .. (config.num_sides - 1) : Finalise(winner)
    BY <1>4, WinnerIsASide DEF ResolveMarket, TypeOK
  <2> QED
    BY <2>1, FinaliseType
<1>5. CASE AuthorityStep
  <2>1. ASSUME NEW signer \in Accounts, NEW winner \in 1 .. MAX_SIDES,
               AdminResolve(signer, winner)
        PROVE  TypeOK'
    <3>1. winner - 1 \in 0 .. (config.num_sides - 1)
      BY <2>1, MathAssumption DEF AdminResolve, TypeOK
    <3> QED
      BY <2>1, <3>1, FinaliseType DEF AdminResolve
  <2>2. ASSUME NEW signer \in Accounts, InvalidateMarket(signer)
        PROVE  TypeOK'
    BY <2>2, MathAssumption
    DEF InvalidateMarket, TypeOK, ledger_vars, counter_vars, fee_vars
  <2> QED
    BY <1>5, <2>1, <2>2, CollectType, ClaimCreatorType DEF AuthorityStep
<1>6. CASE UNCHANGED vars
  BY <1>6 DEF vars, TypeOK, ledger_vars, counter_vars, fee_vars
<1> QED
  BY <1>1, <1>2, <1>3, <1>4, <1>5, <1>6 DEF Next

(* The program keeps every field within its type: in particular the vault  *)
(* and the fees are never negative, and an entry weight never leaves its   *)
(* band.                                                                   *)
THEOREM TypeCorrect == Spec => []TypeOK
BY InitType, TypeStep, PTL DEF Spec

-----------------------------------------------------------------------------
(* The running totals of a market are the sums they stand for, and its     *)
(* vault holds what the open positions put in.  The argument is an         *)
(* induction over the steps: each instruction changes one position, so     *)
(* that each sum moves by what that position contributed before and        *)
(* contributes after (SumsMove), and the totals move by the same amount.   *)


(* What one position contributes to the sums.                              *)
StakeOf(p, s)  == IF ActiveOn(p, s) THEN p.amount ELSE 0
WeightOf(p, s) == IF ActiveOn(p, s) THEN p.amount * p.entry_weight ELSE 0
CountOf(p, s)  == IF ActiveOn(p, s) THEN 1 ELSE 0
HeldOf(p)      == IF Active(p) THEN p.amount ELSE 0

(* A sum over the nonces moves with the one entry that changes.            *)
LEMMA EntryChange ==
    ASSUME NEW f \in [Nonces -> Nat], NEW g \in [Nonces -> Nat], NEW n \in Nonces,
           \A m \in Nonces : m # n => g[m] = f[m]
    PROVE  /\ SumUpTo(f, MAX_POSITIONS) \in Nat /\ SumUpTo(g, MAX_POSITIONS) \in Nat
           /\ f[n] <= SumUpTo(f, MAX_POSITIONS)
           /\ SumUpTo(g, MAX_POSITIONS) = SumUpTo(f, MAX_POSITIONS) + (g[n] - f[n])
<1>1. MAX_POSITIONS \in Nat /\ MAX_POSITIONS \in 0 .. MAX_POSITIONS
  BY EscrowAssumption
<1>2. /\ f \in [0 .. (MAX_POSITIONS - 1) -> Nat] /\ f \in [0 .. (MAX_POSITIONS - 1) -> Int]
      /\ g \in [0 .. (MAX_POSITIONS - 1) -> Nat] /\ g \in [0 .. (MAX_POSITIONS - 1) -> Int]
      /\ n \in 0 .. (MAX_POSITIONS - 1)
      /\ \A m \in 0 .. (MAX_POSITIONS - 1) : m # n => g[m] = f[m]
  BY DEF Nonces
<1>3. SumUpTo(f, MAX_POSITIONS) \in Nat /\ SumUpTo(g, MAX_POSITIONS) \in Nat
  BY <1>1, <1>2, SumUpToNat
<1>4. f[n] <= SumUpTo(f, MAX_POSITIONS)
  BY <1>1, <1>2, SumUpToBoundsEntry
<1>5. \A k \in 0 .. MAX_POSITIONS :
          SumUpTo(g, k) = SumUpTo(f, k) + IF k <= n THEN 0 ELSE g[n] - f[n]
  BY <1>1, <1>2, SumUpToUpdate
<1>6. ~ (MAX_POSITIONS <= n)
  BY <1>1, <1>2
<1>7. SumUpTo(g, MAX_POSITIONS) = SumUpTo(f, MAX_POSITIONS) + (g[n] - f[n])
  BY <1>1, <1>5, <1>6
<1> QED
  BY <1>3, <1>4, <1>7

(* The functions that are summed have natural values.                      *)
LEMMA SummandTypes ==
    ASSUME NEW ps \in [Nonces -> PositionType], NEW s \in Sides
    PROVE  /\ StakeOn(ps, s) \in [Nonces -> Nat] /\ WeightOn(ps, s) \in [Nonces -> Nat]
           /\ CountOn(ps, s) \in [Nonces -> Nat] /\ ActiveStake(ps) \in [Nonces -> Nat]
           /\ \A n \in Nonces :
                 /\ StakeOn(ps, s)[n] = StakeOf(ps[n], s)
                 /\ WeightOn(ps, s)[n] = WeightOf(ps[n], s)
                 /\ CountOn(ps, s)[n] = CountOf(ps[n], s)
                 /\ ActiveStake(ps)[n] = HeldOf(ps[n])
<1>1. \A n \in Nonces : /\ ps[n].amount \in Nat /\ ps[n].entry_weight \in Nat
                        /\ ps[n].amount * ps[n].entry_weight \in Nat
  <2> TAKE n \in Nonces
  <2>1. ps[n].amount \in Nat /\ ps[n].entry_weight \in Nat
    BY Scale DEF PositionType, Weights
  <2> QED
    BY <2>1, ProductNat
<1> QED
  BY <1>1 DEF StakeOn, WeightOn, CountOn, ActiveStake, StakeOf, WeightOf, CountOf, HeldOf

(* If one position changes, each sum moves by the change of what that      *)
(* position contributes.                                                   *)
LEMMA SumsMove ==
    ASSUME NEW ps \in [Nonces -> PositionType], NEW qs \in [Nonces -> PositionType],
           NEW n \in Nonces, \A m \in Nonces : m # n => qs[m] = ps[m]
    PROVE  /\ \A s \in Sides :
                 /\ SumUpTo(StakeOn(qs, s), MAX_POSITIONS) =
                        SumUpTo(StakeOn(ps, s), MAX_POSITIONS)
                            + (StakeOf(qs[n], s) - StakeOf(ps[n], s))
                 /\ SumUpTo(WeightOn(qs, s), MAX_POSITIONS) =
                        SumUpTo(WeightOn(ps, s), MAX_POSITIONS)
                            + (WeightOf(qs[n], s) - WeightOf(ps[n], s))
                 /\ SumUpTo(CountOn(qs, s), MAX_POSITIONS) =
                        SumUpTo(CountOn(ps, s), MAX_POSITIONS)
                            + (CountOf(qs[n], s) - CountOf(ps[n], s))
                 /\ StakeOf(ps[n], s) <= SumUpTo(StakeOn(ps, s), MAX_POSITIONS)
                 /\ WeightOf(ps[n], s) <= SumUpTo(WeightOn(ps, s), MAX_POSITIONS)
                 /\ CountOf(ps[n], s) <= SumUpTo(CountOn(ps, s), MAX_POSITIONS)
           /\ SumUpTo(ActiveStake(ps), MAX_POSITIONS) \in Nat
           /\ SumUpTo(ActiveStake(qs), MAX_POSITIONS) =
                  SumUpTo(ActiveStake(ps), MAX_POSITIONS) + (HeldOf(qs[n]) - HeldOf(ps[n]))
           /\ HeldOf(ps[n]) <= SumUpTo(ActiveStake(ps), MAX_POSITIONS)
<1>1. ASSUME NEW s \in Sides
      PROVE  \A m \in Nonces : m # n =>
                 /\ StakeOn(qs, s)[m] = StakeOn(ps, s)[m]
                 /\ WeightOn(qs, s)[m] = WeightOn(ps, s)[m]
                 /\ CountOn(qs, s)[m] = CountOn(ps, s)[m]
                 /\ ActiveStake(qs)[m] = ActiveStake(ps)[m]
  BY DEF StakeOn, WeightOn, CountOn, ActiveStake
<1>2. 0 \in Sides
  BY MathAssumption DEF Sides
<1>3. ASSUME NEW s \in Sides
      PROVE  /\ SumUpTo(StakeOn(ps, s), MAX_POSITIONS) \in Nat
             /\ StakeOn(ps, s)[n] <= SumUpTo(StakeOn(ps, s), MAX_POSITIONS)
             /\ SumUpTo(StakeOn(qs, s), MAX_POSITIONS) =
                    SumUpTo(StakeOn(ps, s), MAX_POSITIONS) + (StakeOn(qs, s)[n] - StakeOn(ps, s)[n])
  <2>1. StakeOn(ps, s) \in [Nonces -> Nat] /\ StakeOn(qs, s) \in [Nonces -> Nat]
    BY <1>3, SummandTypes
  <2>2. \A m \in Nonces : m # n => StakeOn(qs, s)[m] = StakeOn(ps, s)[m]
    BY <1>1, <1>3
  <2> QED
    BY <2>1, <2>2, EntryChange
<1>4. ASSUME NEW s \in Sides
      PROVE  /\ SumUpTo(WeightOn(ps, s), MAX_POSITIONS) \in Nat
             /\ WeightOn(ps, s)[n] <= SumUpTo(WeightOn(ps, s), MAX_POSITIONS)
             /\ SumUpTo(WeightOn(qs, s), MAX_POSITIONS) =
                    SumUpTo(WeightOn(ps, s), MAX_POSITIONS) + (WeightOn(qs, s)[n] - WeightOn(ps, s)[n])
  <2>1. WeightOn(ps, s) \in [Nonces -> Nat] /\ WeightOn(qs, s) \in [Nonces -> Nat]
    BY <1>4, SummandTypes
  <2>2. \A m \in Nonces : m # n => WeightOn(qs, s)[m] = WeightOn(ps, s)[m]
    BY <1>1, <1>4
  <2> QED
    BY <2>1, <2>2, EntryChange
<1>5. ASSUME NEW s \in Sides
      PROVE  /\ SumUpTo(CountOn(ps, s), MAX_POSITIONS) \in Nat
             /\ CountOn(ps, s)[n] <= SumUpTo(CountOn(ps, s), MAX_POSITIONS)
             /\ SumUpTo(CountOn(qs, s), MAX_POSITIONS) =
                    SumUpTo(CountOn(ps, s), MAX_POSITIONS) + (CountOn(qs, s)[n] - CountOn(ps, s)[n])
  <2>1. CountOn(ps, s) \in [Nonces -> Nat] /\ CountOn(qs, s) \in [Nonces -> Nat]
    BY <1>5, SummandTypes
  <2>2. \A m \in Nonces : m # n => CountOn(qs, s)[m] = CountOn(ps, s)[m]
    BY <1>1, <1>5
  <2> QED
    BY <2>1, <2>2, EntryChange
<1>6. ASSUME NEW s \in Sides
      PROVE  /\ SumUpTo(ActiveStake(ps), MAX_POSITIONS) \in Nat
             /\ ActiveStake(ps)[n] <= SumUpTo(ActiveStake(ps), MAX_POSITIONS)
             /\ SumUpTo(ActiveStake(qs), MAX_POSITIONS) =
                    SumUpTo(ActiveStake(ps), MAX_POSITIONS) + (ActiveStake(qs)[n] - ActiveStake(ps)[n])
  <2>1. ActiveStake(ps) \in [Nonces -> Nat] /\ ActiveStake(qs) \in [Nonces -> Nat]
    BY <1>6, SummandTypes
  <2>2. \A m \in Nonces : m # n => ActiveStake(qs)[m] = ActiveStake(ps)[m]
    BY <1>1, <1>6
  <2> QED
    BY <2>1, <2>2, EntryChange
<1> QED
  BY <1>2, <1>3, <1>4, <1>5, <1>6, SummandTypes

(* Sums over the nonces of two functions, and of none.                     *)
LEMMA SumOfTwo ==
    ASSUME NEW f \in [Nonces -> Nat], NEW g \in [Nonces -> Nat], NEW h \in [Nonces -> Nat],
           \A n \in Nonces : h[n] = f[n] + g[n]
    PROVE  SumUpTo(h, MAX_POSITIONS) = SumUpTo(f, MAX_POSITIONS) + SumUpTo(g, MAX_POSITIONS)
<1>1. MAX_POSITIONS \in Nat /\ MAX_POSITIONS \in 0 .. MAX_POSITIONS
  BY EscrowAssumption
<1>2. /\ f \in [0 .. (MAX_POSITIONS - 1) -> Int] /\ g \in [0 .. (MAX_POSITIONS - 1) -> Int]
      /\ h \in [0 .. (MAX_POSITIONS - 1) -> Int]
      /\ \A i \in 0 .. (MAX_POSITIONS - 1) : h[i] = f[i] + g[i]
  BY DEF Nonces
<1> QED
  BY <1>1, <1>2, SumUpToAdd

LEMMA SumOfNothing ==
    ASSUME NEW f \in [Nonces -> Nat], \A n \in Nonces : f[n] = 0
    PROVE  SumUpTo(f, MAX_POSITIONS) = 0
<1>1. /\ f \in [Nonces -> Nat] /\ \A n \in Nonces : f[n] = f[n] + f[n]
  OBVIOUS
<1>2. SumUpTo(f, MAX_POSITIONS) = SumUpTo(f, MAX_POSITIONS) + SumUpTo(f, MAX_POSITIONS)
  BY <1>1, SumOfTwo
<1>3. SumUpTo(f, MAX_POSITIONS) \in Nat
  <2>1. MAX_POSITIONS \in Nat /\ MAX_POSITIONS \in 0 .. MAX_POSITIONS
    BY EscrowAssumption
  <2>2. f \in [0 .. (MAX_POSITIONS - 1) -> Nat]
    BY DEF Nonces
  <2> QED
    BY <2>1, <2>2, SumUpToNat
<1>4. \A x \in Nat : x = x + x => x = 0
  OBVIOUS
<1> QED
  BY <1>2, <1>3, <1>4

(* Without active positions there is nothing to sum.                       *)
LEMMA NothingActive ==
    ASSUME NEW ps \in [Nonces -> PositionType], \A n \in Nonces : ~ Active(ps[n])
    PROVE  /\ \A s \in Sides : /\ SumUpTo(StakeOn(ps, s), MAX_POSITIONS) = 0
                               /\ SumUpTo(WeightOn(ps, s), MAX_POSITIONS) = 0
                               /\ SumUpTo(CountOn(ps, s), MAX_POSITIONS) = 0
           /\ SumUpTo(ActiveStake(ps), MAX_POSITIONS) = 0
<1>1. \A f \in [Nonces -> Nat] :
          (\A n \in Nonces : f[n] = 0) => SumUpTo(f, MAX_POSITIONS) = 0
  BY SumOfNothing
<1>2. \A n \in Nonces : /\ HeldOf(ps[n]) = 0
                        /\ \A s \in Sides : /\ StakeOf(ps[n], s) = 0
                                            /\ WeightOf(ps[n], s) = 0
                                            /\ CountOf(ps[n], s) = 0
  BY DEF HeldOf, StakeOf, WeightOf, CountOf, ActiveOn
<1>3. 0 \in Sides
  BY MathAssumption DEF Sides
<1> QED
  BY <1>1, <1>2, <1>3, SummandTypes

-----------------------------------------------------------------------------
LedgerInv == Bookkeeping /\ LedgerMatchesPositions /\ VaultCovered

(* A step that leaves alone all that the invariant speaks of.              *)
LEMMA LedgerFrame ==
    ASSUME LedgerInv,
           UNCHANGED <<status, config, ledger_vars, total_deposited, position_count,
                       penalty_pool, twd, fee_vars, positions, vault>>
    PROVE  LedgerInv'
BY DEF LedgerInv, Bookkeeping, LedgerMatchesPositions, VaultCovered, ledger_vars, fee_vars

(* In a resolved market the invariant only asks that positions stay put.   *)
LEMMA LedgerResolved ==
    ASSUME LedgerInv, status \in {"Open", "Resolved"}, status' = "Resolved",
           UNCHANGED <<config, pools, penalty_pool, total_deposited, position_count>>,
           \A n \in Nonces : positions'[n].live =>
               /\ positions[n].live /\ positions'[n].side = positions[n].side
               /\ positions'[n].amount = positions[n].amount
               /\ positions'[n].entry_weight = positions[n].entry_weight
    PROVE  LedgerInv'
BY DEF LedgerInv, Bookkeeping, LedgerMatchesPositions, VaultCovered

LEMMA InitLedger == Init => LedgerInv
<1> SUFFICES ASSUME Init PROVE LedgerInv
  OBVIOUS
<1>1. TypeOK
  BY InitType
<1>2. \A n \in Nonces : ~ positions[n].live
  BY DEF Init, NoPosition
<1>3. SumUpTo(ActiveStake(positions), MAX_POSITIONS) = 0
  BY <1>1, <1>2, NothingActive DEF TypeOK, Active
<1> QED
  BY <1>2, <1>3 DEF Init, LedgerInv, Bookkeeping, LedgerMatchesPositions, VaultCovered

LEMMA CreateLedger ==
    ASSUME TypeOK, LedgerInv, NEW signer \in Accounts, NEW creator \in Accounts \cup {NoKey},
           NEW duration \in Durations, NEW num_sides \in 2 .. MAX_SIDES,
           NEW allow \in BOOLEAN, NEW lockout \in BOOLEAN,
           CreateMarket(signer, creator, duration, num_sides, allow, lockout)
    PROVE  LedgerInv'
<1>1. /\ status = "Uninit" /\ status' = "Open" /\ positions' = positions
      /\ vault' = vault /\ penalty_pool' = 0 /\ total_deposited' = 0
      /\ pools' = Zeros /\ weighted_pools' = Zeros /\ side_position_counts' = Zeros
      /\ config'.num_sides = num_sides /\ twd'.has_both_sides = FALSE
      /\ protocol_fee_collected' = 0 /\ creator_account'.fee_collected = 0
  BY DEF CreateMarket, FreshTwd
<1>2. \A n \in Nonces : ~ positions[n].live
  BY <1>1 DEF LedgerInv, Bookkeeping
<1>3. positions \in [Nonces -> PositionType]
  BY DEF TypeOK
<1>4. /\ \A s \in Sides : /\ SumUpTo(StakeOn(positions, s), MAX_POSITIONS) = 0
                          /\ SumUpTo(WeightOn(positions, s), MAX_POSITIONS) = 0
                          /\ SumUpTo(CountOn(positions, s), MAX_POSITIONS) = 0
      /\ SumUpTo(ActiveStake(positions), MAX_POSITIONS) = 0
  BY <1>2, <1>3, NothingActive DEF Active
<1>5. SumUpTo(Zeros, num_sides) = 0
  <2>1. /\ Zeros \in [0 .. (MAX_SIDES - 1) -> Int] /\ MAX_SIDES \in Nat
        /\ num_sides \in 0 .. MAX_SIDES /\ 0 \in 0 .. (MAX_SIDES - 1)
        /\ \A i \in 0 .. (MAX_SIDES - 1) : Zeros[i] = 0
    BY MathAssumption DEF Zeros, Sides
  <2>2. \A n \in 0 .. MAX_SIDES : SumUpTo(Zeros, n) = IF n <= 0 THEN 0 ELSE Zeros[0]
    BY <2>1, SumUpToSpike
  <2> QED
    BY <2>1, <2>2
<1>6. TwoSidesHold(Zeros, num_sides) = FALSE
  BY MathAssumption DEF TwoSidesHold, Zeros, Sides
<1>7. \A s \in Sides : Zeros[s] = 0
  BY DEF Zeros
<1>8. vault = 0
  BY <1>1 DEF LedgerInv, Bookkeeping
<1>9. Bookkeeping'
  BY <1>1, <1>2, <1>4, <1>5 DEF Bookkeeping
<1>10. LedgerMatchesPositions'
  <2>1. twd'.has_both_sides = TwoSidesHold(pools', config'.num_sides)
    BY <1>1, <1>6
  <2>2. \A s \in Sides :
            /\ pools'[s] = SumUpTo(StakeOn(positions', s), MAX_POSITIONS)
            /\ weighted_pools'[s] = SumUpTo(WeightOn(positions', s), MAX_POSITIONS)
            /\ side_position_counts'[s] = SumUpTo(CountOn(positions', s), MAX_POSITIONS)
    BY <1>1, <1>4, <1>7
  <2> QED
    BY <2>1, <2>2 DEF LedgerMatchesPositions
<1>11. VaultCovered'
  BY <1>1, <1>4, <1>8 DEF VaultCovered
<1> QED
  BY <1>9, <1>10, <1>11 DEF LedgerInv

(* The total of the pools moves with the one pool that changes.            *)
LEMMA PoolChange ==
    ASSUME NEW f \in [Sides -> Nat], NEW g \in [Sides -> Nat],
           NEW num_sides \in 2 .. MAX_SIDES, NEW side \in Sides, side < num_sides,
           \A s \in Sides : s # side => g[s] = f[s]
    PROVE  /\ SumUpTo(f, num_sides) \in Nat
           /\ SumUpTo(g, num_sides) = SumUpTo(f, num_sides) + (g[side] - f[side])
<1>1. /\ MAX_SIDES \in Nat /\ num_sides \in 0 .. MAX_SIDES /\ ~ (num_sides <= side)
      /\ f \in [0 .. (MAX_SIDES - 1) -> Int] /\ g \in [0 .. (MAX_SIDES - 1) -> Int]
      /\ f \in [0 .. (MAX_SIDES - 1) -> Nat]
      /\ side \in 0 .. (MAX_SIDES - 1)
      /\ \A s \in 0 .. (MAX_SIDES - 1) : s # side => g[s] = f[s]
  BY MathAssumption DEF Sides
<1>2. \A k \in 0 .. MAX_SIDES :
          SumUpTo(g, k) = SumUpTo(f, k) + IF k <= side THEN 0 ELSE g[side] - f[side]
  BY <1>1, SumUpToUpdate
<1>3. SumUpTo(f, num_sides) \in Nat
  BY <1>1, SumUpToNat
<1> QED
  BY <1>1, <1>2, <1>3

LEMMA DepositLedger ==
    ASSUME TypeOK, LedgerInv, NEW maker \in Accounts, NEW side \in Sides,
           NEW amount \in Amounts, NEW min_weight \in MinWeights,
           Deposit(maker, side, amount, min_weight)
    PROVE  LedgerInv'
<1> DEFINE weight == ComputeEntryWeight(FractionRemaining, config.resolution_duration)
           n == position_count
           p == [NoPosition EXCEPT !.live = TRUE, !.maker = maker, !.side = side,
                                   !.amount = amount, !.entry_weight = weight]
<1>1. weight \in Weights /\ weight \in Nat
  BY DepositWeight DEF Deposit
<1>2. /\ status = "Open" /\ status' = "Open" /\ config' = config
      /\ side < config.num_sides /\ amount >= MIN_DEPOSIT_LAMPORTS
      /\ positions' = [positions EXCEPT ![n] = p]
      /\ vault' = vault + amount /\ penalty_pool' = penalty_pool
      /\ total_deposited' = total_deposited + amount
      /\ position_count' = position_count + 1 /\ position_count < MAX_POSITIONS
      /\ protocol_fee_collected' = protocol_fee_collected
      /\ creator_account' = creator_account
      /\ pools' = [pools EXCEPT ![side] = @ + amount]
      /\ weighted_pools' = [weighted_pools EXCEPT ![side] = @ + amount * weight]
      /\ side_position_counts' = [side_position_counts EXCEPT ![side] = @ + 1]
      /\ twd'.has_both_sides = TwoSidesHold(pools', config.num_sides)
  BY TrackerType DEF Deposit, AddStake, fee_vars, TwdAfter, TwdType, weight
<1>3. /\ p.live /\ Active(p) /\ p.side = side /\ p.amount = amount
      /\ p.entry_weight = weight /\ p.claimed = FALSE
  BY DEF NoPosition, Active
<1>4. TypeOK'
  BY DepositType
<1> HIDE DEF weight, p
<1>5. amount \in Nat /\ amount * weight \in Nat
  BY <1>1, EscrowAssumption, ProductNat
<1>6. /\ n \in Nonces /\ position_count \in Nat
      /\ positions \in [Nonces -> PositionType] /\ positions' \in [Nonces -> PositionType]
      /\ positions'[n] = p /\ \A m \in Nonces : m # n => positions'[m] = positions[m]
  <2>1. positions \in [Nonces -> PositionType] /\ positions' \in [Nonces -> PositionType]
    BY <1>4 DEF TypeOK
  <2>2. n \in Nonces /\ position_count \in Nat
    BY <1>2, EscrowAssumption DEF TypeOK, Nonces
  <2> QED
    BY <1>2, <2>1, <2>2
<1>7. ~ Active(positions[n])
  <2>1. \A m \in Nonces : positions[m].live => m < position_count
    BY DEF LedgerInv, Bookkeeping
  <2>2. ~ positions[n].live
    BY <1>6, <2>1
  <2> QED
    BY <2>2 DEF Active
<1>8. /\ HeldOf(positions[n]) = 0 /\ HeldOf(positions'[n]) = amount
      /\ \A s \in Sides :
            /\ StakeOf(positions[n], s) = 0 /\ WeightOf(positions[n], s) = 0
            /\ CountOf(positions[n], s) = 0
            /\ StakeOf(positions'[n], s) = IF s = side THEN amount ELSE 0
            /\ WeightOf(positions'[n], s) = IF s = side THEN amount * weight ELSE 0
            /\ CountOf(positions'[n], s) = IF s = side THEN 1 ELSE 0
  BY <1>3, <1>6, <1>7 DEF HeldOf, StakeOf, WeightOf, CountOf, ActiveOn
<1>9. /\ \A s \in Sides :
            /\ SumUpTo(StakeOn(positions', s), MAX_POSITIONS) =
                   SumUpTo(StakeOn(positions, s), MAX_POSITIONS)
                       + (StakeOf(positions'[n], s) - StakeOf(positions[n], s))
            /\ SumUpTo(WeightOn(positions', s), MAX_POSITIONS) =
                   SumUpTo(WeightOn(positions, s), MAX_POSITIONS)
                       + (WeightOf(positions'[n], s) - WeightOf(positions[n], s))
            /\ SumUpTo(CountOn(positions', s), MAX_POSITIONS) =
                   SumUpTo(CountOn(positions, s), MAX_POSITIONS)
                       + (CountOf(positions'[n], s) - CountOf(positions[n], s))
      /\ SumUpTo(ActiveStake(positions), MAX_POSITIONS) \in Nat
      /\ SumUpTo(ActiveStake(positions'), MAX_POSITIONS) =
             SumUpTo(ActiveStake(positions), MAX_POSITIONS)
                 + (HeldOf(positions'[n]) - HeldOf(positions[n]))
  BY <1>6, SumsMove
<1>10. LedgerMatchesPositions'
  <2>1. ASSUME NEW s \in Sides
        PROVE  /\ pools'[s] = SumUpTo(StakeOn(positions', s), MAX_POSITIONS)
               /\ weighted_pools'[s] = SumUpTo(WeightOn(positions', s), MAX_POSITIONS)
               /\ side_position_counts'[s] = SumUpTo(CountOn(positions', s), MAX_POSITIONS)
    <3>1. /\ pools[s] = SumUpTo(StakeOn(positions, s), MAX_POSITIONS)
          /\ weighted_pools[s] = SumUpTo(WeightOn(positions, s), MAX_POSITIONS)
          /\ side_position_counts[s] = SumUpTo(CountOn(positions, s), MAX_POSITIONS)
      BY <1>2, <2>1 DEF LedgerInv, LedgerMatchesPositions
    <3>2. /\ pools'[s] = pools[s] + IF s = side THEN amount ELSE 0
          /\ weighted_pools'[s] = weighted_pools[s] + IF s = side THEN amount * weight ELSE 0
          /\ side_position_counts'[s] = side_position_counts[s] + IF s = side THEN 1 ELSE 0
      BY <1>2, <1>5, <2>1 DEF TypeOK
    <3> QED
      BY <1>5, <1>8, <1>9, <2>1, <3>1, <3>2
  <2> QED
    BY <1>2, <2>1 DEF LedgerMatchesPositions
<1>11. /\ SumUpTo(pools', config.num_sides) = SumUpTo(pools, config.num_sides) + amount
       /\ SumUpTo(pools, config.num_sides) \in Nat
  <2>1. /\ pools \in [Sides -> Nat] /\ pools' \in [Sides -> Nat]
        /\ config.num_sides \in 2 .. MAX_SIDES
    BY <1>4 DEF TypeOK
  <2>2. /\ pools'[side] = pools[side] + amount /\ pools[side] \in Nat
        /\ \A s \in Sides : s # side => pools'[s] = pools[s]
    BY <1>2, <2>1
  <2>3. side < config.num_sides
    BY <1>2
  <2>4. /\ SumUpTo(pools, config.num_sides) \in Nat
        /\ SumUpTo(pools', config.num_sides) =
               SumUpTo(pools, config.num_sides) + (pools'[side] - pools[side])
    BY <2>1, <2>2, <2>3, PoolChange
  <2> QED
    BY <1>5, <2>2, <2>4
<1>12. Bookkeeping'
  <2>1. ASSUME NEW m \in Nonces, positions'[m].live
        PROVE  /\ m < position_count' /\ positions'[m].side < config.num_sides
               /\ positions'[m].amount >= MIN_DEPOSIT_LAMPORTS
               /\ positions'[m].amount <= total_deposited'
               /\ positions'[m].entry_weight \in Weights
               /\ positions'[m].claimed => FALSE
    <3>1. CASE m = n
      BY <1>1, <1>2, <1>3, <1>5, <1>6, <3>1, MathAssumption DEF TypeOK
    <3>2. CASE m # n
      <4>1. /\ positions[m] = positions'[m] /\ positions[m].amount \in Nat
            /\ total_deposited \in Nat /\ m \in Nat
        <5>1. positions[m] = positions'[m] /\ positions[m] \in PositionType
          BY <1>6, <3>2
        <5>2. positions[m].amount \in Nat
          BY <5>1 DEF PositionType
        <5>3. total_deposited \in Nat /\ m \in Nat
          BY MathAssumption DEF TypeOK, Nonces
        <5> QED
          BY <5>1, <5>2, <5>3
      <4>2. positions[m].amount <= total_deposited /\ m < position_count
        BY <2>1, <4>1 DEF LedgerInv, Bookkeeping
      <4> QED
        BY <1>2, <1>5, <1>6, <2>1, <4>1, <4>2 DEF LedgerInv, Bookkeeping
    <3> QED
      BY <3>1, <3>2
  <2>2. /\ SumUpTo(pools', config.num_sides) = SumUpTo(ActiveStake(positions'), MAX_POSITIONS)
        /\ SumUpTo(pools', config.num_sides) + penalty_pool' <= total_deposited'
    <3>1. /\ SumUpTo(pools, config.num_sides) = SumUpTo(ActiveStake(positions), MAX_POSITIONS)
          /\ SumUpTo(pools, config.num_sides) + penalty_pool <= total_deposited
          /\ total_deposited \in Nat /\ penalty_pool \in Nat
      BY <1>2, MathAssumption DEF LedgerInv, Bookkeeping, TypeOK
    <3> QED
      BY <1>2, <1>5, <1>8, <1>9, <1>11, <3>1
  <2>3. protocol_fee_collected' = 0 /\ creator_account'.fee_collected = 0
    BY <1>2 DEF LedgerInv, Bookkeeping
  <2>4. status' # "Uninit" /\ status' = "Open" /\ config' = config
    BY <1>2
  <2> QED
    BY <2>1, <2>2, <2>3, <2>4 DEF Bookkeeping
<1>13. VaultCovered'
  <2>1. /\ vault = SumUpTo(ActiveStake(positions), MAX_POSITIONS) + penalty_pool
        /\ penalty_pool \in Nat
    BY <1>2 DEF LedgerInv, VaultCovered, TypeOK
  <2>2. vault' = SumUpTo(ActiveStake(positions'), MAX_POSITIONS) + penalty_pool'
    BY <1>2, <1>5, <1>8, <1>9, <2>1
  <2> QED
    BY <2>2 DEF VaultCovered
<1> QED
  BY <1>10, <1>12, <1>13 DEF LedgerInv

LEMMA WithdrawLedger ==
    ASSUME TypeOK, LedgerInv, NEW maker \in Accounts, NEW n \in Nonces, Withdraw(maker, n)
    PROVE  LedgerInv'
<1> DEFINE p == positions[n]
           q == positions'[n]
<1>1. /\ p.side \in Sides /\ p.amount \in Nat /\ p.entry_weight \in Nat
      /\ p.amount * p.entry_weight \in Nat
      /\ positions \in [Nonces -> PositionType] /\ vault \in Nat /\ penalty_pool \in Nat
      /\ pools \in [Sides -> Nat] /\ weighted_pools \in [Sides -> Nat]
      /\ side_position_counts \in [Sides -> Nat] /\ config.num_sides \in 2 .. MAX_SIDES
  <2>1. p \in PositionType
    BY DEF TypeOK
  <2>2. p.side \in Sides /\ p.amount \in Nat /\ p.entry_weight \in Nat
    BY <2>1, Scale DEF PositionType, Weights
  <2>3. p.amount * p.entry_weight \in Nat
    BY <2>2, ProductNat
  <2> QED
    BY <2>2, <2>3 DEF TypeOK
<1>2. /\ status = "Open" /\ status' = "Open" /\ config' = config
      /\ p.live /\ Active(p)
      /\ vault' = vault - Returned(p) /\ penalty_pool' = penalty_pool + Penalty(p)
      /\ RemoveStake(p.side, p.amount, p.entry_weight)
      /\ positions' = [positions EXCEPT ![n] = [p EXCEPT !.withdrawn = TRUE]]
      /\ total_deposited' = total_deposited /\ position_count' = position_count
      /\ protocol_fee_collected' = protocol_fee_collected
      /\ creator_account' = creator_account
      /\ twd'.has_both_sides = TwoSidesHold(pools', config.num_sides)
  BY TrackerType DEF Withdraw, fee_vars, counter_vars, TwdAfter, TwdType, Active
<1>3. /\ positions' \in [Nonces -> PositionType] /\ pools' \in [Sides -> Nat]
      /\ \A m \in Nonces : m # n => positions'[m] = positions[m]
      /\ q.live = p.live /\ q.side = p.side /\ q.amount = p.amount
      /\ q.entry_weight = p.entry_weight /\ q.claimed = p.claimed /\ q.withdrawn = TRUE
  <2>1. TypeOK'
    BY WithdrawType
  <2>2. p \in PositionType
    BY DEF TypeOK
  <2>3. q = [p EXCEPT !.withdrawn = TRUE]
    BY <1>1, <1>2
  <2>4. /\ q.live = p.live /\ q.side = p.side /\ q.amount = p.amount
        /\ q.entry_weight = p.entry_weight /\ q.claimed = p.claimed /\ q.withdrawn = TRUE
    BY <2>2, <2>3 DEF PositionType
  <2> QED
    BY <1>1, <1>2, <2>1, <2>4 DEF TypeOK
<1>4. Penalty(p) \in Nat /\ Penalty(p) <= p.amount /\ Returned(p) = p.amount - Penalty(p)
  <2>1. clock - config.created_at \in Int /\ config.resolution_duration \in Int
    BY DEF TypeOK
  <2> HIDE DEF p
  <2> QED
    BY <1>1, <2>1, PenaltyBounds DEF Penalty, Returned
<1>5. /\ HeldOf(p) = p.amount /\ HeldOf(q) = 0
      /\ \A s \in Sides :
            /\ StakeOf(p, s) = IF s = p.side THEN p.amount ELSE 0
            /\ WeightOf(p, s) = IF s = p.side THEN p.amount * p.entry_weight ELSE 0
            /\ CountOf(p, s) = IF s = p.side THEN 1 ELSE 0
            /\ StakeOf(q, s) = 0 /\ WeightOf(q, s) = 0 /\ CountOf(q, s) = 0
  <2>1. ~ Active(q)
    BY <1>3 DEF Active
  <2> HIDE DEF p, q
  <2> QED
    BY <1>2, <2>1 DEF HeldOf, StakeOf, WeightOf, CountOf, ActiveOn
<1>6. /\ \A s \in Sides :
            /\ SumUpTo(StakeOn(positions', s), MAX_POSITIONS) =
                   SumUpTo(StakeOn(positions, s), MAX_POSITIONS) + (StakeOf(q, s) - StakeOf(p, s))
            /\ SumUpTo(WeightOn(positions', s), MAX_POSITIONS) =
                   SumUpTo(WeightOn(positions, s), MAX_POSITIONS)
                       + (WeightOf(q, s) - WeightOf(p, s))
            /\ SumUpTo(CountOn(positions', s), MAX_POSITIONS) =
                   SumUpTo(CountOn(positions, s), MAX_POSITIONS) + (CountOf(q, s) - CountOf(p, s))
            /\ StakeOf(p, s) <= SumUpTo(StakeOn(positions, s), MAX_POSITIONS)
            /\ WeightOf(p, s) <= SumUpTo(WeightOn(positions, s), MAX_POSITIONS)
            /\ CountOf(p, s) <= SumUpTo(CountOn(positions, s), MAX_POSITIONS)
      /\ SumUpTo(ActiveStake(positions), MAX_POSITIONS) \in Nat
      /\ SumUpTo(ActiveStake(positions'), MAX_POSITIONS) =
             SumUpTo(ActiveStake(positions), MAX_POSITIONS) + (HeldOf(q) - HeldOf(p))
      /\ HeldOf(p) <= SumUpTo(ActiveStake(positions), MAX_POSITIONS)
  BY <1>1, <1>3, SumsMove
<1> HIDE DEF p, q
<1>7. \A s \in Sides :
          /\ pools[s] = SumUpTo(StakeOn(positions, s), MAX_POSITIONS)
          /\ weighted_pools[s] = SumUpTo(WeightOn(positions, s), MAX_POSITIONS)
          /\ side_position_counts[s] = SumUpTo(CountOn(positions, s), MAX_POSITIONS)
  BY <1>2 DEF LedgerInv, LedgerMatchesPositions
<1>8. /\ \A s \in Sides :
            /\ pools'[s] = pools[s] - StakeOf(p, s)
            /\ weighted_pools'[s] = weighted_pools[s] - WeightOf(p, s)
            /\ side_position_counts'[s] = side_position_counts[s] - CountOf(p, s)
  <2> SUFFICES ASSUME NEW s \in Sides
               PROVE  /\ pools'[s] = pools[s] - StakeOf(p, s)
                      /\ weighted_pools'[s] = weighted_pools[s] - WeightOf(p, s)
                      /\ side_position_counts'[s] = side_position_counts[s] - CountOf(p, s)
    OBVIOUS
  <2>1. /\ pools'[s] = IF s = p.side THEN SatSub(pools[s], p.amount) ELSE pools[s]
        /\ weighted_pools'[s] = IF s = p.side
                                THEN SatSub(weighted_pools[s], p.amount * p.entry_weight)
                                ELSE weighted_pools[s]
        /\ side_position_counts'[s] = IF s = p.side THEN SatSub(side_position_counts[s], 1)
                                      ELSE side_position_counts[s]
    BY <1>1, <1>2 DEF RemoveStake
  <2>2. /\ pools[s] \in Nat /\ weighted_pools[s] \in Nat /\ side_position_counts[s] \in Nat
        /\ StakeOf(p, s) <= pools[s] /\ WeightOf(p, s) <= weighted_pools[s]
        /\ CountOf(p, s) <= side_position_counts[s]
    BY <1>1, <1>6, <1>7
  <2> QED
    BY <1>1, <1>5, <2>1, <2>2 DEF SatSub
<1>9. LedgerMatchesPositions'
  <2>1. ASSUME NEW s \in Sides
        PROVE  /\ pools'[s] = SumUpTo(StakeOn(positions', s), MAX_POSITIONS)
               /\ weighted_pools'[s] = SumUpTo(WeightOn(positions', s), MAX_POSITIONS)
               /\ side_position_counts'[s] = SumUpTo(CountOn(positions', s), MAX_POSITIONS)
    <3>1. pools[s] \in Nat /\ weighted_pools[s] \in Nat /\ side_position_counts[s] \in Nat
      BY <1>1, <2>1
    <3> QED
      BY <1>1, <1>5, <1>6, <1>7, <1>8, <2>1, <3>1
  <2> QED
    BY <1>2, <2>1 DEF LedgerMatchesPositions
<1>10. /\ SumUpTo(pools', config.num_sides) = SumUpTo(pools, config.num_sides) - p.amount
       /\ SumUpTo(pools, config.num_sides) \in Nat
  <2>1. p.side < config.num_sides
    BY <1>2 DEF LedgerInv, Bookkeeping, p
  <2>2. /\ pools'[p.side] = pools[p.side] - p.amount /\ pools[p.side] \in Nat
        /\ \A s \in Sides : s # p.side => pools'[s] = pools[s]
    BY <1>1, <1>5, <1>8
  <2>3. /\ SumUpTo(pools, config.num_sides) \in Nat
        /\ SumUpTo(pools', config.num_sides) =
               SumUpTo(pools, config.num_sides) + (pools'[p.side] - pools[p.side])
    BY <1>1, <1>3, <2>1, <2>2, PoolChange
  <2> QED
    BY <1>1, <2>2, <2>3
<1>11. Bookkeeping'
  <2>1. ASSUME NEW m \in Nonces, positions'[m].live
        PROVE  /\ m < position_count' /\ positions'[m].side < config.num_sides
               /\ positions'[m].amount >= MIN_DEPOSIT_LAMPORTS
               /\ positions'[m].amount <= total_deposited'
               /\ positions'[m].entry_weight \in Weights
               /\ positions'[m].claimed => FALSE
    <3>1. /\ positions[m].live /\ positions'[m].side = positions[m].side
          /\ positions'[m].amount = positions[m].amount
          /\ positions'[m].entry_weight = positions[m].entry_weight
          /\ positions'[m].claimed = positions[m].claimed
      BY <1>3, <2>1 DEF p, q
    <3> QED
      BY <1>2, <2>1, <3>1 DEF LedgerInv, Bookkeeping
  <2>2. /\ SumUpTo(pools', config.num_sides) = SumUpTo(ActiveStake(positions'), MAX_POSITIONS)
        /\ SumUpTo(pools', config.num_sides) + penalty_pool' <= total_deposited'
    <3>1. /\ SumUpTo(pools, config.num_sides) = SumUpTo(ActiveStake(positions), MAX_POSITIONS)
          /\ SumUpTo(pools, config.num_sides) + penalty_pool <= total_deposited
          /\ total_deposited \in Nat /\ penalty_pool \in Nat
      BY <1>2, MathAssumption DEF LedgerInv, Bookkeeping, TypeOK
    <3> QED
      BY <1>1, <1>2, <1>4, <1>5, <1>6, <1>10, <3>1
  <2>3. protocol_fee_collected' = 0 /\ creator_account'.fee_collected = 0
    BY <1>2 DEF LedgerInv, Bookkeeping
  <2>4. status' # "Uninit" /\ status' = "Open" /\ config' = config
    BY <1>2
  <2> QED
    BY <2>1, <2>2, <2>3, <2>4 DEF Bookkeeping
<1>12. VaultCovered'
  <2>1. vault = SumUpTo(ActiveStake(positions), MAX_POSITIONS) + penalty_pool
    BY <1>2 DEF LedgerInv, VaultCovered
  <2>2. vault' = SumUpTo(ActiveStake(positions'), MAX_POSITIONS) + penalty_pool'
    BY <1>1, <1>2, <1>4, <1>5, <1>6, <2>1
  <2> QED
    BY <2>2 DEF VaultCovered
<1> QED
  BY <1>9, <1>11, <1>12 DEF LedgerInv

LEMMA InvalidateLedger ==
    ASSUME TypeOK, LedgerInv, NEW signer \in Accounts, InvalidateMarket(signer)
    PROVE  LedgerInv'
<1>1. /\ status = "Open" /\ status' = "Invalid"
      /\ UNCHANGED <<config, total_deposited, position_count, penalty_pool, fee_vars,
                     positions, vault>>
  BY DEF InvalidateMarket, counter_vars
<1>2. Bookkeeping'
  BY <1>1 DEF LedgerInv, Bookkeeping, fee_vars
<1>3. LedgerMatchesPositions'
  BY <1>1 DEF LedgerMatchesPositions
<1>4. VaultCovered'
  BY <1>1 DEF LedgerInv, VaultCovered
<1> QED
  BY <1>2, <1>3, <1>4 DEF LedgerInv

LEMMA RefundLedger ==
    ASSUME TypeOK, LedgerInv, NEW maker \in Accounts, NEW n \in Nonces, Refund(maker, n)
    PROVE  LedgerInv'
<1> DEFINE p == positions[n]
           q == positions'[n]
<1>1. /\ status = "Invalid" /\ status' = "Invalid" /\ Active(p) /\ p.live
      /\ vault' = vault - p.amount
      /\ positions' = [positions EXCEPT ![n] =
             [p EXCEPT !.claimed = TRUE, !.payout_amount = p.amount]]
      /\ UNCHANGED <<config, total_deposited, position_count, penalty_pool,
                     protocol_fee_collected, creator_account>>
  BY DEF Refund, Active, counter_vars, fee_vars
<1>2. /\ positions \in [Nonces -> PositionType] /\ positions' \in [Nonces -> PositionType]
      /\ vault \in Nat /\ penalty_pool \in Nat
  <2>1. TypeOK'
    BY RefundType
  <2> QED
    BY <2>1 DEF TypeOK
<1>3. /\ \A m \in Nonces : m # n => positions'[m] = positions[m]
      /\ q.live = p.live /\ q.side = p.side /\ q.amount = p.amount
      /\ q.entry_weight = p.entry_weight /\ q.claimed = TRUE
  <2>1. p \in PositionType /\ q = [p EXCEPT !.claimed = TRUE, !.payout_amount = p.amount]
    BY <1>1, <1>2
  <2>2. /\ q.live = p.live /\ q.side = p.side /\ q.amount = p.amount
        /\ q.entry_weight = p.entry_weight /\ q.claimed = TRUE
    BY <2>1 DEF PositionType
  <2> QED
    BY <1>1, <1>2, <2>2
<1>4. HeldOf(p) = p.amount /\ HeldOf(q) = 0 /\ p.amount \in Nat
  <2>1. ~ Active(q)
    BY <1>3 DEF Active
  <2>2. p.amount \in Nat
    BY <1>2 DEF PositionType
  <2> QED
    BY <1>1, <2>1, <2>2 DEF HeldOf
<1>5. /\ SumUpTo(ActiveStake(positions), MAX_POSITIONS) \in Nat
      /\ SumUpTo(ActiveStake(positions'), MAX_POSITIONS) =
             SumUpTo(ActiveStake(positions), MAX_POSITIONS) + (HeldOf(q) - HeldOf(p))
  BY <1>2, <1>3, SumsMove
<1> HIDE DEF p, q
<1>6. Bookkeeping'
  <2>1. \A m \in Nonces : positions'[m].live =>
            /\ positions[m].live /\ positions'[m].side = positions[m].side
            /\ positions'[m].amount = positions[m].amount
            /\ positions'[m].entry_weight = positions[m].entry_weight
    BY <1>3 DEF p, q
  <2> QED
    BY <1>1, <2>1 DEF LedgerInv, Bookkeeping
<1>7. VaultCovered'
  <2>1. vault = SumUpTo(ActiveStake(positions), MAX_POSITIONS) + penalty_pool
    BY <1>1 DEF LedgerInv, VaultCovered
  <2>2. vault' = SumUpTo(ActiveStake(positions'), MAX_POSITIONS) + penalty_pool'
    BY <1>1, <1>2, <1>4, <1>5, <2>1
  <2> QED
    BY <2>2 DEF VaultCovered
<1>8. LedgerMatchesPositions'
  BY <1>1 DEF LedgerMatchesPositions
<1> QED
  BY <1>6, <1>7, <1>8 DEF LedgerInv

LEMMA CloseLedger ==
    ASSUME TypeOK, LedgerInv, NEW maker \in Accounts, NEW n \in Nonces, ClosePosition(maker, n)
    PROVE  LedgerInv'
<1> DEFINE p == positions[n]
           q == positions'[n]
<1>1. /\ ~ Active(p) /\ p.live /\ q = NoPosition
      /\ positions' = [positions EXCEPT ![n] = NoPosition]
      /\ UNCHANGED <<status, config, pools, weighted_pools, side_position_counts,
                     total_deposited, position_count, penalty_pool, twd,
                     protocol_fee_collected, creator_account, vault>>
  BY DEF ClosePosition, Settled, Active, ledger_vars, counter_vars, fee_vars, TypeOK
<1>2. positions \in [Nonces -> PositionType] /\ positions' \in [Nonces -> PositionType]
  <2>1. TypeOK'
    BY CloseType
  <2> QED
    BY <2>1 DEF TypeOK
<1>3. \A m \in Nonces : m # n => positions'[m] = positions[m]
  BY <1>1, <1>2
<1>4. ~ q.live /\ ~ Active(q)
  BY <1>1 DEF NoPosition, Active
<1>5. /\ HeldOf(p) = 0 /\ HeldOf(q) = 0
      /\ \A s \in Sides : /\ StakeOf(p, s) = 0 /\ WeightOf(p, s) = 0 /\ CountOf(p, s) = 0
                          /\ StakeOf(q, s) = 0 /\ WeightOf(q, s) = 0 /\ CountOf(q, s) = 0
  BY <1>1, <1>4 DEF HeldOf, StakeOf, WeightOf, CountOf, ActiveOn
<1>6. /\ \A s \in Sides :
            /\ SumUpTo(StakeOn(positions', s), MAX_POSITIONS) =
                   SumUpTo(StakeOn(positions, s), MAX_POSITIONS) + (StakeOf(q, s) - StakeOf(p, s))
            /\ SumUpTo(WeightOn(positions', s), MAX_POSITIONS) =
                   SumUpTo(WeightOn(positions, s), MAX_POSITIONS)
                       + (WeightOf(q, s) - WeightOf(p, s))
            /\ SumUpTo(CountOn(positions', s), MAX_POSITIONS) =
                   SumUpTo(CountOn(positions, s), MAX_POSITIONS) + (CountOf(q, s) - CountOf(p, s))
      /\ SumUpTo(ActiveStake(positions), MAX_POSITIONS) \in Nat
      /\ SumUpTo(ActiveStake(positions'), MAX_POSITIONS) =
             SumUpTo(ActiveStake(positions), MAX_POSITIONS) + (HeldOf(q) - HeldOf(p))
  BY <1>2, <1>3, SumsMove
<1> HIDE DEF p, q
<1>7. SumUpTo(ActiveStake(positions'), MAX_POSITIONS)
          = SumUpTo(ActiveStake(positions), MAX_POSITIONS)
  BY <1>5, <1>6
<1>8. Bookkeeping'
  <2>1. \A m \in Nonces : positions'[m].live => positions'[m] = positions[m]
    BY <1>3, <1>4 DEF q
  <2> QED
    BY <1>1, <1>7, <2>1 DEF LedgerInv, Bookkeeping
<1>9. LedgerMatchesPositions'
  <2>1. ASSUME status = "Open", NEW s \in Sides
        PROVE  /\ pools[s] = SumUpTo(StakeOn(positions', s), MAX_POSITIONS)
               /\ weighted_pools[s] = SumUpTo(WeightOn(positions', s), MAX_POSITIONS)
               /\ side_position_counts[s] = SumUpTo(CountOn(positions', s), MAX_POSITIONS)
    <3>1. /\ pools[s] \in Nat /\ weighted_pools[s] \in Nat /\ side_position_counts[s] \in Nat
      BY <2>1 DEF TypeOK
    <3>2. /\ pools[s] = SumUpTo(StakeOn(positions, s), MAX_POSITIONS)
          /\ weighted_pools[s] = SumUpTo(WeightOn(positions, s), MAX_POSITIONS)
          /\ side_position_counts[s] = SumUpTo(CountOn(positions, s), MAX_POSITIONS)
      BY <2>1 DEF LedgerInv, LedgerMatchesPositions
    <3> QED
      BY <1>5, <1>6, <2>1, <3>1, <3>2
  <2> QED
    BY <1>1, <2>1 DEF LedgerInv, LedgerMatchesPositions
<1>10. VaultCovered'
  BY <1>1, <1>7 DEF LedgerInv, VaultCovered
<1> QED
  BY <1>8, <1>9, <1>10 DEF LedgerInv

LEMMA ClaimLedger ==
    ASSUME TypeOK, LedgerInv, NEW maker \in Accounts, NEW n \in Nonces, ClaimPayout(maker, n)
    PROVE  LedgerInv'
<1> DEFINE p == positions[n]
           actual == LesserOf(DueTo(p).payout, Available)
<1>1. /\ status = "Resolved" /\ status' = "Resolved" /\ p.live
      /\ positions' = [positions EXCEPT ![n] =
             [p EXCEPT !.claimed = TRUE, !.payout_amount = actual]]
      /\ UNCHANGED <<config, pools, penalty_pool, total_deposited, position_count>>
  BY DEF ClaimPayout, ledger_vars, counter_vars
<1>2. positions \in [Nonces -> PositionType] /\ p \in PositionType
  BY DEF TypeOK
<1> HIDE DEF actual
<1>3. ASSUME NEW m \in Nonces, positions'[m].live
      PROVE  /\ positions[m].live /\ positions'[m].side = positions[m].side
             /\ positions'[m].amount = positions[m].amount
             /\ positions'[m].entry_weight = positions[m].entry_weight
  <2>1. CASE m = n
    BY <1>1, <1>2, <2>1 DEF PositionType
  <2>2. CASE m # n
    BY <1>1, <1>2, <1>3, <2>2
  <2> QED
    BY <2>1, <2>2
<1> QED
  BY <1>1, <1>3, LedgerResolved

(* Fees exist in resolved markets only.                                    *)
LEMMA FeesLedger ==
    ASSUME TypeOK, LedgerInv,
           \/ protocol_fee_collected > 0
           \/ creator_account.fee_collected > 0,
           UNCHANGED <<status, config, pools, penalty_pool, total_deposited, position_count,
                       positions>>
    PROVE  LedgerInv'
<1>1. status = "Resolved"
  BY DEF LedgerInv, Bookkeeping
<1> QED
  BY <1>1, LedgerResolved

-----------------------------------------------------------------------------
LEMMA LedgerStep == TypeOK /\ LedgerInv /\ [Next]_vars => LedgerInv'
<1> SUFFICES ASSUME TypeOK, LedgerInv, [Next]_vars
             PROVE  LedgerInv'
  OBVIOUS
<1>1. CASE Tick
  BY <1>1, LedgerFrame DEF Tick, counter_vars
<1>2. CASE Create
  BY <1>2, CreateLedger DEF Create
<1>3. CASE MakerStep
  BY <1>3, DepositLedger, WithdrawLedger, ClaimLedger, RefundLedger, CloseLedger DEF MakerStep
<1>4. ASSUME NEW winner, Finalise(winner), status = "Open"
      PROVE  LedgerInv'
  BY <1>4, LedgerResolved DEF Finalise, ledger_vars, counter_vars
<1>5. CASE ResolveMarket
  BY <1>4, <1>5 DEF ResolveMarket
<1>6. CASE AuthorityStep
  <2>1. ASSUME NEW signer \in Accounts, CollectFees(signer)
        PROVE  LedgerInv'
    BY <2>1, FeesLedger DEF CollectFees, ledger_vars, counter_vars
  <2>2. ASSUME NEW signer \in Accounts, ClaimCreatorFees(signer)
        PROVE  LedgerInv'
    BY <2>2, FeesLedger DEF ClaimCreatorFees, ledger_vars, counter_vars
  <2> QED
    BY <1>4, <1>6, <2>1, <2>2, InvalidateLedger DEF AuthorityStep, AdminResolve
<1>7. CASE UNCHANGED vars
  BY <1>7, LedgerFrame DEF vars, counter_vars
<1> QED
  BY <1>1, <1>2, <1>3, <1>5, <1>6, <1>7 DEF Next

(* The whole invariant of this module holds throughout.                    *)
LEMMA LedgerHolds == Spec => []LedgerInv
BY InitLedger, LedgerStep, TypeCorrect, PTL DEF Spec

LEMMA LedgerParts ==
    LedgerInv => Bookkeeping /\ LedgerMatchesPositions /\ VaultCovered
BY DEF LedgerInv

(* The facts the other invariants rest on: no position above               *)
(* position_count or off the sides of the market, no claim in an open      *)
(* market, no fee before resolution.                                       *)
THEOREM BookkeepingCorrect == Spec => []Bookkeeping
BY LedgerHolds, LedgerParts, PTL

(* The totals that deposit.rs and withdraw.rs maintain incrementally are   *)
(* the sums over the active positions, in every reachable state of an open *)
(* market: no saturating subtraction ever saturates.                       *)
THEOREM LedgerCorrect == Spec => []LedgerMatchesPositions
BY LedgerHolds, LedgerParts, PTL

(* Until a market is resolved the vault holds exactly the active stake and *)
(* the penalties withheld (deposit.rs, withdraw.rs, refund.rs).            *)
THEOREM VaultCorrect == Spec => []VaultCovered
BY LedgerHolds, LedgerParts, PTL

-----------------------------------------------------------------------------
(* The active stake is the stake of one position, and at least the stake   *)
(* of two.                                                                 *)
LEMMA StakeOfTwo ==
    ASSUME NEW ps \in [Nonces -> PositionType], NEW n \in Nonces, Active(ps[n])
    PROVE  /\ SumUpTo(ActiveStake(ps), MAX_POSITIONS) \in Nat
           /\ \A m \in Nonces : m # n /\ Active(ps[m]) =>
                 ps[n].amount + ps[m].amount <= SumUpTo(ActiveStake(ps), MAX_POSITIONS)
           /\ (\A m \in Nonces : m # n => ~ Active(ps[m])) =>
                 SumUpTo(ActiveStake(ps), MAX_POSITIONS) = ps[n].amount
<1> DEFINE f == ActiveStake(ps)
           without(m) == [k \in Nonces |-> IF k = m THEN 0 ELSE f[k]]
<1>1. /\ f \in [Nonces -> Nat] /\ f[n] = ps[n].amount
      /\ \A m \in Nonces : f[m] = IF Active(ps[m]) THEN ps[m].amount ELSE 0
  <2>1. 0 \in Sides
    BY MathAssumption DEF Sides
  <2>2. f \in [Nonces -> Nat]
    BY <2>1, SummandTypes
  <2> QED
    BY <2>2 DEF ActiveStake
<1> HIDE DEF f
<1>2. ASSUME NEW m \in Nonces
      PROVE  /\ SumUpTo(f, MAX_POSITIONS) \in Nat
             /\ SumUpTo(without(m), MAX_POSITIONS) \in Nat
             /\ SumUpTo(without(m), MAX_POSITIONS) = SumUpTo(f, MAX_POSITIONS) - f[m]
             /\ \A k \in Nonces : without(m)[k] <= SumUpTo(without(m), MAX_POSITIONS)
  <2> DEFINE g == without(m)
  <2>1. /\ g \in [Nonces -> Nat] /\ g[m] = 0
        /\ \A k \in Nonces : k # m => g[k] = f[k]
    BY <1>1
  <2> HIDE DEF g
  <2>2. /\ SumUpTo(f, MAX_POSITIONS) \in Nat /\ SumUpTo(g, MAX_POSITIONS) \in Nat
        /\ SumUpTo(g, MAX_POSITIONS) = SumUpTo(f, MAX_POSITIONS) + (g[m] - f[m])
    BY <1>1, <2>1, EntryChange
  <2>3. \A k \in Nonces : g[k] <= SumUpTo(g, MAX_POSITIONS)
    BY <2>1, EntryChange
  <2>4. SumUpTo(g, MAX_POSITIONS) = SumUpTo(f, MAX_POSITIONS) - f[m]
    BY <1>1, <2>1, <2>2
  <2> QED
    BY <2>2, <2>3, <2>4 DEF g
<1>3. ASSUME NEW m \in Nonces, m # n, Active(ps[m])
      PROVE  ps[n].amount + ps[m].amount <= SumUpTo(f, MAX_POSITIONS)
  <2>1. without(m)[n] = f[n] /\ f[m] = ps[m].amount /\ f[m] \in Nat /\ f[n] \in Nat
    BY <1>1, <1>3
  <2>2. without(m)[n] <= SumUpTo(f, MAX_POSITIONS) - f[m] /\ SumUpTo(f, MAX_POSITIONS) \in Nat
    BY <1>2
  <2> HIDE DEF without
  <2> QED
    BY <1>1, <2>1, <2>2
<1>4. ASSUME \A m \in Nonces : m # n => ~ Active(ps[m])
      PROVE  SumUpTo(f, MAX_POSITIONS) = ps[n].amount
  <2> DEFINE g == without(n)
  <2>1. g \in [Nonces -> Nat] /\ \A m \in Nonces : g[m] = 0
    BY <1>1, <1>4
  <2> HIDE DEF g
  <2>2. SumUpTo(g, MAX_POSITIONS) = 0
    BY <2>1, SumOfNothing
  <2>3. SumUpTo(f, MAX_POSITIONS) - f[n] = 0 /\ SumUpTo(f, MAX_POSITIONS) \in Nat
    BY <1>2, <2>2 DEF g
  <2>4. f[n] \in Nat
    BY <1>1
  <2> QED
    BY <1>1, <2>3, <2>4
<1>5. SumUpTo(f, MAX_POSITIONS) \in Nat
  BY <1>2
<1> QED
  BY <1>3, <1>4, <1>5 DEF f

(* What is left after a payback is the stake of the others and the         *)
(* penalties, and the stake of a single position exceeds the rent minimum. *)
LEMMA PaybackFinds == TypeOK /\ LedgerInv => OnlyDustBlocksPayback
<1> SUFFICES ASSUME TypeOK, LedgerInv, NEW n \in Nonces, Active(positions[n])
             PROVE  LET p == positions[n]
                    IN  /\ status = "Open" =>
                              \/ CanDebit(Returned(p))
                              \/ OnlyActive(n) /\ IsDust(penalty_pool + Penalty(p))
                        /\ status = "Invalid" =>
                              \/ CanDebit(p.amount)
                              \/ OnlyActive(n) /\ IsDust(penalty_pool)
  BY DEF OnlyDustBlocksPayback
<1> DEFINE p == positions[n]
           stake == SumUpTo(ActiveStake(positions), MAX_POSITIONS)
<1>1. /\ positions \in [Nonces -> PositionType] /\ vault \in Nat /\ penalty_pool \in Nat
      /\ p.amount \in Nat
  BY DEF TypeOK, PositionType
<1>2. Penalty(p) \in Nat /\ Penalty(p) <= p.amount
  <2>1. clock - config.created_at \in Int /\ config.resolution_duration \in Int
    BY DEF TypeOK
  <2> HIDE DEF p
  <2> QED
    BY <1>1, <2>1, PenaltyBounds DEF Penalty
<1>3. /\ stake \in Nat
      /\ \A m \in Nonces : m # n /\ Active(positions[m]) =>
             p.amount + positions[m].amount <= stake
      /\ OnlyActive(n) => stake = p.amount
  BY <1>1, StakeOfTwo DEF OnlyActive
<1>4. status \in {"Open", "Invalid"} => vault = stake + penalty_pool
  BY DEF LedgerInv, VaultCovered
<1>5. ~ OnlyActive(n) => p.amount + MIN_RENT <= stake
  <2>1. SUFFICES ASSUME NEW m \in Nonces, m # n, Active(positions[m])
                 PROVE  p.amount + MIN_RENT <= stake
    BY DEF OnlyActive
  <2>2. positions[m].amount >= MIN_DEPOSIT_LAMPORTS /\ positions[m].amount \in Nat
    BY <1>1, <2>1 DEF LedgerInv, Bookkeeping, Active, PositionType
  <2>3. p.amount + positions[m].amount <= stake
    BY <1>3, <2>1
  <2> HIDE DEF p, stake
  <2> QED
    BY <1>1, <1>3, <2>2, <2>3, EscrowAssumption
<1> HIDE DEF p, stake
<1>6. ASSUME NEW back \in Nat, NEW kept \in Nat, back + kept = p.amount,
             vault = stake + penalty_pool
      PROVE  \/ CanDebit(back)
             \/ OnlyActive(n) /\ IsDust(penalty_pool + kept)
  BY <1>1, <1>3, <1>5, <1>6, EscrowAssumption DEF CanDebit, IsDust
<1>7. /\ Returned(p) \in Nat /\ Returned(p) + Penalty(p) = p.amount
      /\ p.amount + 0 = p.amount /\ penalty_pool + 0 = penalty_pool
  BY <1>1, <1>2 DEF Returned
<1>8. status = "Open" => \/ CanDebit(Returned(p))
                         \/ OnlyActive(n) /\ IsDust(penalty_pool + Penalty(p))
  BY <1>2, <1>4, <1>6, <1>7
<1>9. status = "Invalid" => \/ CanDebit(p.amount)
                            \/ OnlyActive(n) /\ IsDust(penalty_pool)
  BY <1>1, <1>4, <1>6, <1>7
<1> QED
  BY <1>8, <1>9 DEF p

(* The runtime refuses a withdrawal or a refund in one case only, the last *)
(* position of a market in which penalties below the rent minimum remain   *)
(* (withdraw.rs:77-90, refund.rs:55-66).                                   *)
THEOREM PaybackCorrect == Spec => []OnlyDustBlocksPayback
BY TypeCorrect, LedgerHolds, PaybackFinds, PTL
=============================================================================
