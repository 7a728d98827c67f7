----------------------- MODULE EscrowRefinementProofs -----------------------
(***************************************************************************)
(* The escrow program implements the ideal dominance meter and the custody *)
(* of stakes: its initial states map to initial states of each, and every  *)
(* step maps to a step of the meter, and of the custody, or leaves it      *)
(* alone.  The meter and the verdict stay within rounding of the exact     *)
(* integral.  And the clients that deposit over an unreliable network,     *)
(* whose specification implements the market's, deposit each request once. *)
(***************************************************************************)
EXTENDS EscrowSettlementProofs, DominanceHistory, EscrowCustody, DepositClients

(* The reading of the tracker after another e seconds with the same pools. *)
Credit(e) == IF TwoSidesHold(pools, config.num_sides)
             THEN ((pools[0] * PRECISION) \div SumUpTo(pools, config.num_sides)) * e
             ELSE 0

(* The tracker's fields, and the meter's sums, which are the program's.    *)
LEMMA TwdFields ==
    ASSUME TypeOK
    PROVE  /\ twd.cumulative_twd_0 \in Nat /\ twd.cumulative_time \in Nat
           /\ twd.last_snapshot_at \in Nat
<1>1. twd \in TwdType
  BY DEF TypeOK, TwdType
<1> QED
  BY <1>1 DEF TwdType

LEMMA SameSums == \A f, n : Meter!SumUpTo(f, n) = SumUpTo(f, n)
BY DEF Meter!SumUpTo, Meter!PartialSums, SumUpTo, PartialSums

(* The snapshot was taken in the past, and dominance needs time.           *)
TrackerSound ==
    status = "Open" => /\ twd.last_snapshot_at <= clock
                       /\ twd.cumulative_time = 0 => twd.cumulative_twd_0 = 0

LEMMA DominanceTakesTime ==
    ASSUME NEW t, NEW ps, NEW n, NEW now \in Nat, t.last_snapshot_at \in Nat,
           t.cumulative_time \in Nat, t.cumulative_time = 0 => t.cumulative_twd_0 = 0,
           t.cumulative_twd_0 \in Nat
    PROVE  LET r == UpdateTwd(t, ps, n, now)
           IN  r.cumulative_time = 0 => r.cumulative_twd_0 = 0
<1> DEFINE elapsed == now - t.last_snapshot_at
           tracked == elapsed > 0 /\ t.has_both_sides /\ SumPools(ps, n) > 0
           gain == ((ps[0] * PRECISION) \div SumPools(ps, n)) * elapsed
<1>1. /\ UpdateTwd(t, ps, n, now).cumulative_twd_0
             = t.cumulative_twd_0 + IF tracked THEN gain ELSE 0
      /\ UpdateTwd(t, ps, n, now).cumulative_time
             = t.cumulative_time + IF tracked THEN elapsed ELSE 0
  BY DEF UpdateTwd
<1>2. tracked => elapsed \in Nat /\ elapsed > 0
  OBVIOUS
<1> HIDE DEF elapsed, tracked, gain
<1>3. CASE tracked
  BY <1>1, <1>2, <1>3
<1>4. CASE ~ tracked
  BY <1>1, <1>4
<1> QED
  BY <1>3, <1>4

LEMMA TrackerStep == TypeOK /\ TrackerSound /\ [Next]_vars => TrackerSound'
<1> SUFFICES ASSUME TypeOK, TrackerSound, [Next]_vars
             PROVE  TrackerSound'
  OBVIOUS
<1> DEFINE Sound(t) == /\ t.last_snapshot_at = clock
                       /\ t.cumulative_time = 0 => t.cumulative_twd_0 = 0
<1>1. status = "Open" => Sound(UpdateTwd(twd, pools, config.num_sides, clock))
  <2>1. UpdateTwd(twd, pools, config.num_sides, clock).last_snapshot_at = clock
    BY DEF UpdateTwd
  <2> QED
    BY <2>1, TwdFields, DominanceTakesTime DEF TrackerSound, TypeOK
<1>2. status = "Open" => \A newPools : Sound(TwdAfter(newPools))
  BY <1>1, TrackerType DEF TwdAfter, TwdType
<1>3. CASE Tick
  BY <1>3, EscrowAssumption DEF Tick, TrackerSound, TypeOK
<1>4. CASE Create
  BY <1>4 DEF Create, CreateMarket, FreshTwd, TrackerSound, TypeOK
<1>5. CASE MakerStep
  <2>1. ASSUME NEW maker, NEW side, NEW amount, NEW min_weight,
               Deposit(maker, side, amount, min_weight)
        PROVE  TrackerSound'
    BY <1>2, <2>1 DEF Deposit, TrackerSound, TypeOK
  <2>2. ASSUME NEW maker, NEW n \in Nonces, Withdraw(maker, n)
        PROVE  TrackerSound'
    BY <1>2, <2>2 DEF Withdraw, TrackerSound, TypeOK
  <2> QED
    BY <1>5, <2>1, <2>2
    DEF MakerStep, ClaimPayout, Refund, ClosePosition, TrackerSound
<1>6. CASE ResolveMarket \/ AuthorityStep \/ UNCHANGED vars
  BY <1>6 DEF ResolveMarket, AuthorityStep, AdminResolve, Finalise, InvalidateMarket,
              CollectFees, ClaimCreatorFees, vars, TrackerSound
<1> QED
  BY <1>3, <1>4, <1>5, <1>6 DEF Next

LEMMA TrackerHolds == Spec => []TrackerSound
<1>1. Init => TrackerSound
  BY DEF Init, TrackerSound
<1> QED
  BY <1>1, TrackerStep, TypeCorrect, PTL DEF Spec

-----------------------------------------------------------------------------
(* The tracker of an open market credits the time since its snapshot with  *)
(* the present share: its cache is right, and the total is not saturated.  *)
LEMMA TrackerReads ==
    ASSUME TypeOK, LedgerInv, TrackerSound, status = "Open", NEW t \in Nat, clock <= t
    PROVE  LET reading == UpdateTwd(twd, pools, config.num_sides, t)
               elapsed == t - twd.last_snapshot_at
           IN  /\ elapsed \in Nat
               /\ reading.cumulative_twd_0 = twd.cumulative_twd_0 + Credit(elapsed)
               /\ reading.cumulative_time = twd.cumulative_time
                      + IF TwoSidesHold(pools, config.num_sides) THEN elapsed ELSE 0
               /\ TwoSidesHold(pools, config.num_sides) =>
                      (pools[0] * PRECISION) \div SumUpTo(pools, config.num_sides) \in Nat
<1> DEFINE elapsed == t - twd.last_snapshot_at
           total == SumUpTo(pools, config.num_sides)
           share == (pools[0] * PRECISION) \div total
           both == TwoSidesHold(pools, config.num_sides)
<1>1. /\ elapsed \in Nat /\ twd.cumulative_twd_0 \in Nat /\ twd.cumulative_time \in Nat
      /\ pools \in [Sides -> Nat] /\ config.num_sides \in 2 .. MAX_SIDES
      /\ config.num_sides \in 0 .. MAX_SIDES /\ 0 \in Sides
      /\ total_deposited \in 0 .. U64_MAX /\ penalty_pool \in Nat
  <2>1. /\ twd.cumulative_twd_0 \in Nat /\ twd.cumulative_time \in Nat
        /\ twd.last_snapshot_at \in Nat
    BY TwdFields
  <2>2. /\ pools \in [Sides -> Nat] /\ config.num_sides \in 2 .. MAX_SIDES
        /\ total_deposited \in 0 .. U64_MAX /\ penalty_pool \in Nat
    BY DEF TypeOK
  <2>3. elapsed \in Nat
    <3>1. twd.last_snapshot_at <= clock /\ clock \in Nat
      BY DEF TrackerSound, TypeOK
    <3> QED
      BY <2>1, <3>1
  <2>4. config.num_sides \in 0 .. MAX_SIDES /\ 0 \in Sides
    BY <2>2, MathAssumption DEF Sides
  <2> QED
    BY <2>1, <2>2, <2>3, <2>4
<1>2. twd.has_both_sides = both
  BY DEF LedgerInv, LedgerMatchesPositions
<1>3. total \in Nat /\ total + penalty_pool <= total_deposited
  BY <1>1, SumPoolsType DEF LedgerInv, Bookkeeping
<1>4. SumPools(pools, config.num_sides) = total
  BY <1>1, <1>3, MathAssumption DEF SumPools, LesserOf
<1>5. both => total > 0
  <2>1. SUFFICES ASSUME NEW i \in 0 .. (config.num_sides - 1), pools[i] > 0
                 PROVE  total > 0
    BY DEF TwoSidesHold
  <2>2. /\ pools \in [0 .. (MAX_SIDES - 1) -> Nat] /\ MAX_SIDES \in Nat
        /\ i \in 0 .. (config.num_sides - 1)
    BY <1>1, MathAssumption DEF Sides
  <2>3. pools[i] <= total
    BY <1>1, <2>2, SumUpToBoundsEntry
  <2>4. pools[i] \in Nat
    BY <1>1, <2>2
  <2> HIDE DEF total
  <2> QED
    BY <1>3, <2>1, <2>3, <2>4
<1>6. total > 0 => share \in Nat
  <2>1. pools[0] * PRECISION \in Nat
    BY <1>1, Scale, ProductNat
  <2> HIDE DEF total
  <2> QED
    BY <1>3, <2>1, DivBounds
<1>7. both \in BOOLEAN
  BY DEF TwoSidesHold
<1>8. /\ UpdateTwd(twd, pools, config.num_sides, t).cumulative_twd_0 = twd.cumulative_twd_0
             + IF elapsed > 0 /\ both /\ total > 0 THEN share * elapsed ELSE 0
      /\ UpdateTwd(twd, pools, config.num_sides, t).cumulative_time = twd.cumulative_time
             + IF elapsed > 0 /\ both /\ total > 0 THEN elapsed ELSE 0
  BY <1>2, <1>4 DEF UpdateTwd
<1>9. Credit(elapsed) = IF both THEN share * elapsed ELSE 0
  BY DEF Credit
<1>10. \A x \in Nat : x * 0 = 0
  OBVIOUS
<1> HIDE DEF elapsed, total, share, both
<1>11. CASE elapsed > 0
  BY <1>1, <1>5, <1>6, <1>8, <1>9, <1>11 DEF elapsed, both, share, total
<1>12. CASE elapsed = 0
  BY <1>1, <1>5, <1>6, <1>8, <1>9, <1>10, <1>12 DEF elapsed, both, share, total
<1> QED
  BY <1>1, <1>11, <1>12

(* A tracker that was just brought up to date reads what it stores.        *)
LEMMA FreshReading ==
    ASSUME NEW t, NEW ps, NEW n, NEW now \in Int, t.last_snapshot_at = now,
           t.cumulative_twd_0 \in Nat, t.cumulative_time \in Nat
    PROVE  /\ UpdateTwd(t, ps, n, now).cumulative_twd_0 = t.cumulative_twd_0
           /\ UpdateTwd(t, ps, n, now).cumulative_time = t.cumulative_time
BY DEF UpdateTwd

LEMMA TickMeters ==
    ASSUME TypeOK, LedgerInv, TrackerSound, Tick
    PROVE  Meter!Elapse
<1>1. /\ clock \in Nat /\ clock' \in Nat /\ clock' > clock /\ status' = status
      /\ UNCHANGED <<config, pools, twd, outcome>>
  BY EscrowAssumption DEF Tick, TypeOK, ledger_vars
<1>2. CASE status # "Open"
  BY <1>1, <1>2 DEF Meter!Elapse, MeterReading
<1>3. CASE status = "Open"
  <2> DEFINE before == UpdateTwd(twd, pools, config.num_sides, clock)
             after == UpdateTwd(twd, pools, config.num_sides, clock')
             passed == clock' - clock
             share == (pools[0] * PRECISION) \div SumUpTo(pools, config.num_sides)
             e == clock - twd.last_snapshot_at
             f == clock' - twd.last_snapshot_at
             both == TwoSidesHold(pools, config.num_sides)
  <2>1. /\ e \in Nat
        /\ before.cumulative_twd_0 = twd.cumulative_twd_0 + Credit(e)
        /\ before.cumulative_time = twd.cumulative_time + IF both THEN e ELSE 0
    BY <1>1, <1>3, TrackerReads
  <2>2. /\ f \in Nat
        /\ after.cumulative_twd_0 = twd.cumulative_twd_0 + Credit(f)
        /\ after.cumulative_time = twd.cumulative_time + IF both THEN f ELSE 0
    BY <1>1, <1>3, TrackerReads
  <2>3. f = e + passed /\ passed \in Nat /\ passed > 0 /\ twd.last_snapshot_at \in Nat
    <3>1. \A x, y, z \in Nat : y > x =>
              z - y \in Int /\ y - z = (x - z) + (y - x) /\ y - x \in Nat /\ y - x > 0
      OBVIOUS
    <3> QED
      BY <1>1, <3>1, TwdFields
  <2>4. twd.cumulative_twd_0 \in Nat /\ twd.cumulative_time \in Nat
    BY TwdFields
  <2>5. both => share \in Int
    BY <1>1, <1>3, TrackerReads
  <2>6. /\ Credit(e) = IF both THEN share * e ELSE 0
        /\ Credit(f) = IF both THEN share * f ELSE 0
    BY DEF Credit
  <2>7. \A x, y, z \in Int : x * (y + z) = x * y + x * z
    OBVIOUS
  <2>8. \A x, y \in Int : x * y \in Int
    OBVIOUS
  <2> HIDE DEF before, after, passed, share, e, f, both
  <2>9. /\ after.cumulative_twd_0 = before.cumulative_twd_0 + IF both THEN share * passed ELSE 0
        /\ after.cumulative_time = before.cumulative_time + IF both THEN passed ELSE 0
    BY <2>1, <2>2, <2>3, <2>4, <2>5, <2>6, <2>7, <2>8
  <2>12. before.cumulative_twd_0 \in Int /\ before.cumulative_time \in Int
    BY <2>1, <2>4, <2>5, <2>6, <2>8
  <2>10. MeterReading = before /\ MeterReading' = after
    BY <1>1, <1>3 DEF MeterReading, before, after
  <2>11. both = Meter!Contested /\ share = Meter!Share0
    BY SameSums DEF both, share, TwoSidesHold, Meter!Contested, Meter!Share0
  <2> QED
    <3>1. /\ MeterReading'.cumulative_twd_0 = MeterReading.cumulative_twd_0
                 + IF Meter!Contested THEN Meter!Share0 * (clock' - clock) ELSE 0
          /\ MeterReading'.cumulative_time = MeterReading.cumulative_time
                 + IF Meter!Contested THEN clock' - clock ELSE 0
          /\ MeterReading.cumulative_twd_0 \in Int /\ MeterReading.cumulative_time \in Int
      BY <2>1, <2>4, <2>9, <2>10, <2>11, <2>12 DEF passed
    <3> QED
      BY <1>1, <1>3, <3>1 DEF Meter!Elapse
<1> QED
  BY <1>2, <1>3

(* Trades leave the meter alone: the tracker catches up first.             *)
LEMMA TradeMeters ==
    ASSUME TypeOK, status = "Open", status' = "Open", NEW newPools,
           twd' = TwdAfter(newPools), UNCHANGED <<clock, config, outcome>>
    PROVE  Meter!Trade
<1> DEFINE reading == UpdateTwd(twd, pools, config.num_sides, clock)
<1>1. /\ reading \in TwdType /\ reading.last_snapshot_at = clock
  BY TrackerType DEF UpdateTwd
<1> HIDE DEF reading
<1>2. /\ twd'.cumulative_twd_0 = reading.cumulative_twd_0
      /\ twd'.cumulative_time = reading.cumulative_time
      /\ twd'.last_snapshot_at = clock
      /\ reading.cumulative_twd_0 \in Nat /\ reading.cumulative_time \in Nat
  BY <1>1 DEF TwdAfter, TwdType, reading
<1>3. clock' = clock /\ clock \in Int
  BY DEF TypeOK
<1>4. /\ UpdateTwd(twd', pools', config'.num_sides, clock').cumulative_twd_0
             = reading.cumulative_twd_0
      /\ UpdateTwd(twd', pools', config'.num_sides, clock').cumulative_time
             = reading.cumulative_time
  BY <1>2, <1>3, FreshReading
<1>5. /\ MeterReading = reading
      /\ MeterReading' = UpdateTwd(twd', pools', config'.num_sides, clock')
  BY DEF MeterReading, reading
<1> QED
  BY <1>4, <1>5 DEF Meter!Trade

(* A resolution reads the meter.                                           *)
LEMMA FinaliseMeters ==
    ASSUME TypeOK, status = "Open", NEW winner, Finalise(winner)
    PROVE  Meter!Stop
<1> DEFINE reading == UpdateTwd(twd, pools, config.num_sides, clock)
<1>1. /\ status' = "Resolved" /\ twd' = reading /\ outcome'.twd_0 = FinalTwd(reading)
      /\ UNCHANGED <<clock, config, pools>>
  BY DEF Finalise, ledger_vars
<1>2. MeterReading = reading /\ MeterReading' = reading
  BY <1>1 DEF MeterReading
<1> HIDE DEF reading
<1> QED
  BY <1>1, <1>2 DEF Meter!Stop, FinalTwd

LEMMA CreateMeters ==
    ASSUME TypeOK, Create
    PROVE  Meter!Start
<1>1. /\ status = "Uninit" /\ status' = "Open" /\ pools' = Zeros
      /\ twd' = FreshTwd(clock) /\ outcome' = NoOutcome /\ clock' = clock /\ clock \in Int
  BY DEF Create, CreateMarket, TypeOK
<1>2. /\ UpdateTwd(twd', pools', config'.num_sides, clock').cumulative_twd_0 = 0
      /\ UpdateTwd(twd', pools', config'.num_sides, clock').cumulative_time = 0
  BY <1>1 DEF UpdateTwd, FreshTwd
<1>3. MeterReading' = UpdateTwd(twd', pools', config'.num_sides, clock')
  BY <1>1 DEF MeterReading
<1> QED
  BY <1>1, <1>2, <1>3 DEF Meter!Start, Zeros, NoOutcome

(* A step that leaves alone what the mapping reads.                        *)
LEMMA MeterStutters ==
    ASSUME UNCHANGED <<clock, status, config, pools, twd, outcome>>
    PROVE  UNCHANGED Meter!meter_vars
BY DEF Meter!meter_vars, MeterReading

LEMMA MeterStep ==
    ASSUME TypeOK, LedgerInv, TrackerSound, [Next]_vars
    PROVE  [Meter!Next]_(Meter!meter_vars)
<1>1. CASE Tick
  BY <1>1, TickMeters DEF Meter!Next
<1>2. CASE Create
  BY <1>2, CreateMeters DEF Meter!Next
<1>3. CASE MakerStep
  <2>1. ASSUME NEW maker, NEW side, NEW amount, NEW min_weight,
               Deposit(maker, side, amount, min_weight)
        PROVE  Meter!Trade
    BY <2>1, TradeMeters DEF Deposit
  <2>2. ASSUME NEW maker, NEW n, Withdraw(maker, n)
        PROVE  Meter!Trade
    BY <2>2, TradeMeters DEF Withdraw
  <2>3. ASSUME NEW maker, NEW n,
               ClaimPayout(maker, n) \/ Refund(maker, n) \/ ClosePosition(maker, n)
        PROVE  UNCHANGED Meter!meter_vars
    BY <2>3, MeterStutters DEF ClaimPayout, Refund, ClosePosition, ledger_vars
  <2> QED
    BY <1>3, <2>1, <2>2, <2>3 DEF MakerStep, Meter!Next
<1>4. CASE ResolveMarket
  BY <1>4, FinaliseMeters DEF ResolveMarket, Meter!Next
<1>5. CASE AuthorityStep
  <2>1. ASSUME NEW signer, NEW winner, AdminResolve(signer, winner)
        PROVE  Meter!Stop
    BY <2>1, FinaliseMeters DEF AdminResolve
  <2>2. ASSUME NEW signer, InvalidateMarket(signer)
        PROVE  Meter!Abandon
    <3>1. /\ status = "Open" /\ status' = "Invalid" /\ outcome'.twd_0 = outcome.twd_0
          /\ UNCHANGED <<clock, config, pools>>
      BY <2>2 DEF InvalidateMarket, ledger_vars, TypeOK
    <3>2. MeterReading' = FreshTwd(0)
      BY <3>1 DEF MeterReading
    <3> QED
      BY <3>1, <3>2 DEF Meter!Abandon, FreshTwd
  <2>3. ASSUME NEW signer, CollectFees(signer) \/ ClaimCreatorFees(signer)
        PROVE  UNCHANGED Meter!meter_vars
    BY <2>3, MeterStutters DEF CollectFees, ClaimCreatorFees, ledger_vars
  <2> QED
    BY <1>5, <2>1, <2>2, <2>3 DEF AuthorityStep, Meter!Next
<1>6. CASE UNCHANGED vars
  BY <1>6, MeterStutters DEF vars, ledger_vars
<1> QED
  BY <1>1, <1>2, <1>3, <1>4, <1>5, <1>6 DEF Next

(* The snapshot that deposit.rs, withdraw.rs and the two resolutions keep  *)
(* is, for every market and every interleaving, the integral of the share  *)
(* of side 0 over the time in which two sides were funded.                 *)
THEOREM DominanceCorrect == Spec => ImplementsMeter
<1>1. Init => Meter!Init
  BY DEF Init, Meter!Init, MeterReading, FreshTwd, NoOutcome
<1> QED
  BY <1>1, MeterStep, TypeCorrect, LedgerHolds, TrackerHolds, PTL
  DEF Spec, ImplementsMeter, Meter!Spec

-----------------------------------------------------------------------------
(* A mean that gains d seconds at share s passes h only towards s.         *)
LEMMA MeanRises ==
    ASSUME NEW c \in Nat, NEW t \in Nat, NEW s \in Nat, NEW d \in Nat, NEW h \in Nat,
           d > 0, c <= (h + 1) * t, (h + 1) * (t + d) <= c + s * d
    PROVE  s > h
<1>1. /\ (h + 1) * (t + d) = (h + 1) * t + (h * d + d)
      /\ (h + 1) * t \in Nat /\ h * d \in Nat /\ s * d \in Nat
  OBVIOUS
<1>2. h * d < s * d
  BY <1>1
<1>3. s <= h => s * d <= h * d
  BY ProductMonotone
<1> QED
  BY <1>1, <1>2, <1>3

LEMMA MeanFalls ==
    ASSUME NEW c \in Nat, NEW t \in Nat, NEW s \in Nat, NEW d \in Nat, NEW h \in Nat,
           d > 0, h * t <= c, c + s * d < h * (t + d)
    PROVE  s < h
<1>1. /\ h * (t + d) = h * t + h * d
      /\ h * t \in Nat /\ h * d \in Nat /\ s * d \in Nat
  OBVIOUS
<1>2. s * d < h * d
  BY <1>1
<1>3. h <= s => h * d <= s * d
  BY ProductMonotone
<1> QED
  BY <1>1, <1>2, <1>3

(* A truncated mean compared with a threshold.                             *)
LEMMA MeanCompared ==
    ASSUME NEW c \in Nat, NEW t \in Nat, NEW h \in Nat, t > 0
    PROVE  /\ c \div t > h => (h + 1) * t <= c
           /\ c \div t <= h => c < (h + 1) * t
           /\ c \div t < h => c < h * t
           /\ c \div t >= h => h * t <= c
<1> DEFINE q == c \div t
<1>1. q \in Nat /\ t * q <= c /\ c < t * q + t
  BY DivBounds
<1> HIDE DEF q
<1>2. \A x \in Nat : /\ x <= q => x * t <= c
                    /\ q + 1 <= x => c < x * t
  <2> TAKE x \in Nat
  <2>1. /\ x <= q => t * x <= t * q
        /\ q + 1 <= x => t * (q + 1) <= t * x
    BY <1>1, ProductMonotone
  <2>2. /\ t * x = x * t /\ t * (q + 1) = t * q + t
        /\ t * x \in Nat /\ t * q \in Nat
    BY <1>1
  <2> QED
    BY <1>1, <2>1, <2>2
<1>3. /\ q > h => h + 1 <= q
      /\ q <= h => q + 1 <= h + 1
      /\ q < h => q + 1 <= h
      /\ h + 1 \in Nat
  BY <1>1
<1> QED
  BY <1>1, <1>2, <1>3 DEF q

(* The side with more than half of the total has the larger pool.          *)
LEMMA ShareCompared ==
    ASSUME NEW a \in Nat, NEW b \in Nat, a + b > 0
    PROVE  LET share == (a * PRECISION) \div (a + b)
               half  == PRECISION \div 2
           IN  /\ share > half => a >= b
               /\ share < half => b >= a
<1> DEFINE share == (a * PRECISION) \div (a + b)
           half  == PRECISION \div 2
<1>1. half \in Nat /\ 2 * half = PRECISION /\ a + b \in Nat /\ a * PRECISION \in Nat
  BY Scale, ProductNat
<1>2. /\ share > half => (half + 1) * (a + b) <= a * PRECISION
      /\ share < half => a * PRECISION < half * (a + b)
  BY <1>1, MeanCompared
<1> HIDE DEF share, half
<1>3. /\ a * PRECISION = half * a + half * a
      /\ (half + 1) * (a + b) = half * a + half * b + a + b
      /\ half * (a + b) = half * a + half * b
      /\ half * a \in Nat /\ half * b \in Nat
  BY <1>1
<1>4. /\ a <= b => half * a <= half * b
      /\ b <= a => half * b <= half * a
  BY <1>1, ProductMonotone
<1>5. share > half => a >= b
  BY <1>2, <1>3, <1>4
<1>6. share < half => b >= a
  BY <1>2, <1>3, <1>4
<1> QED
  BY <1>5, <1>6 DEF share, half

(* The winner of a binary market as a function of its dominance.           *)
LEMMA BinaryWinnerIs ==
    ASSUME NEW t, NEW ps \in [Sides -> Nat], NEW ws, NEW first
    PROVE  LET winner == BinaryWinner(t, ps, ws, first)
               half == PRECISION \div 2
           IN  /\ winner \in {0, 1}
               /\ FinalTwd(t) \in Nat /\ FinalTwd(t) > half => winner = 0
               /\ FinalTwd(t) \in Nat /\ FinalTwd(t) < half => winner = 1
               /\ FinalTwd(t) = half => ps[winner] >= ps[0] /\ ps[winner] >= ps[1]
<1>1. ps[0] \in Nat /\ ps[1] \in Nat
  BY MathAssumption DEF Sides
<1>2. PRECISION \div 2 \in Nat
  BY Scale
<1> QED
  BY <1>1, <1>2 DEF BinaryWinner

LEMMA WaitingStep ==
    ASSUME TypeOK, LedgerInv, TrackerSound, status = "Open", Tick
    PROVE  pools[Prospect'] >= pools[Prospect]
<1> DEFINE before == UpdateTwd(twd, pools, config.num_sides, clock)
           after == UpdateTwd(twd, pools, config.num_sides, clock')
           passed == clock' - clock
           share == (pools[0] * PRECISION) \div SumUpTo(pools, config.num_sides)
           both == TwoSidesHold(pools, config.num_sides)
           half == PRECISION \div 2
           c == before.cumulative_twd_0
           t == before.cumulative_time
<1>1. /\ clock \in Nat /\ clock' \in Nat /\ clock' > clock
      /\ UNCHANGED <<config, pools, weighted_pools, first_deposit_at, twd>>
  BY EscrowAssumption DEF Tick, TypeOK, ledger_vars, counter_vars
<1>2. /\ pools \in [Sides -> Nat] /\ config.num_sides \in 2 .. MAX_SIDES /\ half \in Nat
      /\ passed \in Nat /\ passed > 0
  <2>1. pools \in [Sides -> Nat] /\ config.num_sides \in 2 .. MAX_SIDES
    BY DEF TypeOK
  <2>2. half \in Nat
    BY Scale
  <2>3. \A x, y \in Nat : y > x => y - x \in Nat /\ y - x > 0
    OBVIOUS
  <2>4. passed \in Nat /\ passed > 0
    BY <1>1, <2>3
  <2> QED
    BY <2>1, <2>2, <2>4
<1>3. /\ Prospect = DetermineWinner(config.num_sides, before, pools, weighted_pools,
                                   first_deposit_at)
      /\ Prospect' = DetermineWinner(config.num_sides, after, pools, weighted_pools,
                                    first_deposit_at)
  BY <1>1 DEF Prospect
<1>4. /\ Prospect \in Sides /\ pools[Prospect] \in Nat
  <2>1. Prospect \in 0 .. (config.num_sides - 1)
    BY <1>2, <1>3, WinnerIsASide
  <2> HIDE DEF before, after
  <2> QED
    BY <1>2, <2>1, MathAssumption DEF Sides
<1>5. CASE config.num_sides > 2
  <2>1. Prospect' = Prospect
    BY <1>3, <1>5 DEF DetermineWinner, IsMultiOption
  <2> QED
    BY <1>4, <2>1
<1>6. /\ c \in Nat /\ t \in Nat
      /\ t = 0 => c = 0
      /\ after.cumulative_twd_0 = c + IF both THEN share * passed ELSE 0
      /\ after.cumulative_time = t + IF both THEN passed ELSE 0
      /\ both => share \in Nat
  <2>1. /\ c \in Nat /\ t \in Nat
    BY TrackerType DEF TwdType
  <2>2. t = 0 => c = 0
    BY <1>1, TwdFields, DominanceTakesTime DEF TrackerSound
  <2>3. both => share \in Nat
    BY <1>1, TrackerReads
  <2>4. /\ MeterReading = before /\ MeterReading' = after
    BY <1>1 DEF MeterReading, Tick
  <2>5. /\ both = Meter!Contested /\ share = Meter!Share0
    BY SameSums DEF TwoSidesHold, Meter!Contested, Meter!Share0
  <2>6. Meter!Elapse
    BY TickMeters
  <2>7. IF both THEN /\ after.cumulative_twd_0 = c + share * passed
                     /\ after.cumulative_time = t + passed
                ELSE /\ after.cumulative_twd_0 = c
                     /\ after.cumulative_time = t
    BY <2>4, <2>5, <2>6 DEF Meter!Elapse
  <2> HIDE DEF c, t, before, after, both, share, passed
  <2> QED
    BY <2>1, <2>2, <2>3, <2>7
<1>7. CASE config.num_sides = 2 /\ ~ both
  <2>1. FinalTwd(after) = FinalTwd(before)
    <3>1. /\ after.cumulative_twd_0 = c /\ after.cumulative_time = t
      <4> HIDE DEF before, after, both, share, passed, c, t
      <4> QED
        BY <1>6, <1>7
    <3> HIDE DEF before, after, both
    <3> QED
      BY <3>1 DEF FinalTwd
  <2>2. Prospect' = Prospect
    <3> HIDE DEF before, after, both
    <3> QED
      BY <1>3, <1>7, <2>1 DEF DetermineWinner, IsMultiOption, BinaryWinner
  <2> QED
    BY <1>4, <2>2
<1>8. CASE config.num_sides = 2 /\ both
  <2> DEFINE w == FinalTwd(before)
             v == FinalTwd(after)
  <2>1. /\ Prospect = BinaryWinner(before, pools, weighted_pools, first_deposit_at)
        /\ Prospect' = BinaryWinner(after, pools, weighted_pools, first_deposit_at)
    BY <1>3, <1>8 DEF DetermineWinner, IsMultiOption
  <2>2. SumUpTo(pools, config.num_sides) = pools[0] + pools[1]
    <3>1. pools \in [0 .. (MAX_SIDES - 1) -> Int] /\ MAX_SIDES \in Nat /\ MAX_SIDES >= 2
      BY <1>2, MathAssumption DEF Sides
    <3>2. /\ SumUpTo(pools, 0) = 0 /\ SumUpTo(pools, 0 + 1) = SumUpTo(pools, 0) + pools[0]
          /\ SumUpTo(pools, 1 + 1) = SumUpTo(pools, 1) + pools[1]
      BY <3>1, SumUpToStep
    <3>3. pools[0] \in Int /\ pools[1] \in Int
      BY <3>1
    <3> QED
      BY <1>8, <3>2, <3>3
  <2>3. pools[0] \in Nat /\ pools[1] \in Nat /\ pools[0] + pools[1] > 0
    BY <1>2, <1>8, MathAssumption DEF Sides, TwoSidesHold
  <2>4. /\ share > half => pools[0] >= pools[1]
        /\ share < half => pools[1] >= pools[0]
    BY <2>2, <2>3, ShareCompared
  <2>5. /\ w \in Nat /\ v \in Nat
        /\ t > 0 => w = c \div t
        /\ v = (c + share * passed) \div (t + passed)
        /\ t + passed \in Nat /\ t + passed > 0
        /\ c + share * passed \in Nat /\ share \in Nat
        /\ t = 0 => w = half
    <3>1. share \in Nat /\ share * passed \in Nat
      BY <1>2, <1>6, <1>8, ProductNat
    <3>2. w \in Nat
      BY TrackerType, FinalTwdType
    <3> HIDE DEF before, after, both, share, passed
    <3>3. c + share * passed \in Nat /\ t + passed \in Nat /\ t + passed > 0
      <4>1. c \in Nat /\ t \in Nat /\ passed \in Nat /\ passed > 0
        BY <1>2, <1>6
      <4> HIDE DEF c, t
      <4> QED
        BY <3>1, <4>1
    <3>4. v = (c + share * passed) \div (t + passed)
      BY <1>6, <1>8, <3>3 DEF FinalTwd
    <3>5. v \in Nat
      BY <3>3, <3>4, DivBounds
    <3>6. (t > 0 => w = c \div t) /\ (t = 0 => w = half)
      BY <1>6 DEF FinalTwd
    <3> QED
      BY <3>1, <3>2, <3>3, <3>4, <3>5, <3>6
  <2> HIDE DEF share, passed, c, t, half, both
  <2>6. ASSUME v > half, w <= half
        PROVE  share > half
    <3>1. (half + 1) * (t + passed) <= c + share * passed
      BY <1>2, <2>5, <2>6, MeanCompared
    <3>2. c <= (half + 1) * t
      <4>1. CASE t = 0
        BY <1>2, <1>6, <4>1
      <4>2. CASE t > 0
        <5>1. c < (half + 1) * t
          BY <1>2, <1>6, <2>5, <2>6, <4>2, MeanCompared
        <5> QED
          BY <1>2, <1>6, <5>1
      <4> QED
        BY <1>6, <4>1, <4>2
    <3> QED
      BY <1>2, <1>6, <2>5, <3>1, <3>2, MeanRises
  <2>7. ASSUME v < half, w >= half
        PROVE  share < half
    <3>1. c + share * passed < half * (t + passed)
      BY <1>2, <2>5, <2>7, MeanCompared
    <3>2. half * t <= c
      <4>1. CASE t = 0
        BY <1>2, <1>6, <4>1
      <4>2. CASE t > 0
        BY <1>2, <1>6, <2>5, <2>7, <4>2, MeanCompared
      <4> QED
        BY <1>6, <4>1, <4>2
    <3> QED
      BY <1>2, <1>6, <2>5, <3>1, <3>2, MeanFalls
  <2>8. /\ Prospect \in {0, 1} /\ Prospect' \in {0, 1}
        /\ w > half => Prospect = 0
        /\ w < half => Prospect = 1
        /\ v > half => Prospect' = 0
        /\ v < half => Prospect' = 1
        /\ v = half => pools[Prospect'] >= pools[0] /\ pools[Prospect'] >= pools[1]
    BY <1>2, <2>1, <2>5, BinaryWinnerIs DEF half
  <2> HIDE DEF w, v
  <2>9. CASE v = half
    BY <2>3, <2>8, <2>9
  <2>10. CASE v > half
    BY <1>2, <2>3, <2>4, <2>5, <2>6, <2>8, <2>10
  <2>11. CASE v < half
    BY <1>2, <2>3, <2>4, <2>5, <2>7, <2>8, <2>11
  <2> QED
    BY <1>2, <2>5, <2>9, <2>10, <2>11
<1> QED
  BY <1>2, <1>5, <1>7, <1>8

(* Nobody can turn a market away from its leading side by delaying         *)
(* resolve_market: the time that passes counts for the present pools.      *)
THEOREM WaitingCorrect == Spec => WaitingFavoursLeader
<1>1. TypeOK /\ LedgerInv /\ TrackerSound /\ [Next]_vars =>
          [status = "Open" /\ Tick => pools[Prospect'] >= pools[Prospect]]_vars
  BY WaitingStep
<1> QED
  BY <1>1, TypeCorrect, LedgerHolds, TrackerHolds, PTL DEF Spec, WaitingFavoursLeader

-----------------------------------------------------------------------------
(* The program against the integral without rounding (DominanceHistory).   *)
LEMMA FactorsOut ==
    ASSUME NEW t \in Nat, NEW x \in Nat, NEW y \in Nat, t > 0, t * x <= t * y
    PROVE  x <= y
<1>1. y + 1 <= x => t * (y + 1) <= t * x
  BY ProductMonotone
<1>2. t * (y + 1) = t * y + t /\ t * x \in Nat /\ t * y \in Nat
  OBVIOUS
<1> QED
  BY <1>1, <1>2

(* The exact share lies between its two roundings in parts of g, and the   *)
(* share in parts of q is at most one part below it.                       *)
LEMMA RoundingsBracket ==
    ASSUME NEW a \in Nat, NEW t \in Nat, NEW g \in Nat, NEW q \in Nat, t > 0
    PROVE  LET share == (a * q) \div t
               below == (a * g) \div t
               above == IF below * t = a * g THEN below ELSE below + 1
           IN  /\ share \in Nat /\ below \in Nat /\ above \in Nat
               /\ g * share <= q * above
               /\ q * below <= g * (share + 1)
<1> DEFINE share == (a * q) \div t
           below == (a * g) \div t
           above == IF below * t = a * g THEN below ELSE below + 1
<1>1. /\ a * q \in Nat /\ a * g \in Nat
      /\ g * (a * q) = q * (a * g)
  BY ProductNat
<1>2. /\ share \in Nat /\ t * share <= a * q /\ a * q < t * share + t
      /\ below \in Nat /\ t * below <= a * g /\ a * g < t * below + t
  BY <1>1, DivBounds
<1> HIDE DEF share, below
<1>3. above \in Nat /\ a * g <= t * above
  <2>1. t * (below + 1) = t * below + t /\ below * t = t * below
    BY <1>2
  <2> QED
    BY <1>1, <1>2, <2>1
<1> HIDE DEF above
<1>4. g * share <= q * above
  <2>1. g * (t * share) <= g * (a * q) /\ q * (a * g) <= q * (t * above)
    BY <1>1, <1>2, <1>3, ProductNat, ProductMonotone
  <2>2. /\ g * (t * share) = t * (g * share) /\ q * (t * above) = t * (q * above)
        /\ g * share \in Nat /\ q * above \in Nat
    BY <1>2, <1>3
  <2>3. t * (g * share) <= t * (q * above)
    BY <1>1, <2>1, <2>2, ProductNat
  <2> QED
    BY <2>2, <2>3, FactorsOut
<1>5. q * below <= g * (share + 1)
  <2>1. t * (share + 1) = t * share + t /\ t * (share + 1) \in Nat
    BY <1>2
  <2>2. q * (t * below) <= q * (a * g) /\ g * (a * q) <= g * (t * (share + 1))
    BY <1>1, <1>2, <2>1, ProductNat, ProductMonotone
  <2>3. /\ q * (t * below) = t * (q * below)
        /\ g * (t * (share + 1)) = t * (g * (share + 1))
        /\ q * below \in Nat /\ g * (share + 1) \in Nat
    BY <1>2
  <2>4. t * (q * below) <= t * (g * (share + 1))
    BY <1>1, <2>2, <2>3, ProductNat
  <2> QED
    BY <2>3, <2>4, FactorsOut
<1> QED
  BY <1>2, <1>3, <1>4, <1>5 DEF share, below, above

(* Both bounds grow with the time that passes.                             *)
LEMMA BoundsGrow ==
    ASSUME NEW g \in Nat, NEW q \in Nat, NEW d \in Nat,
           NEW sum \in Nat, NEW low \in Nat, NEW high \in Nat, NEW time \in Nat,
           NEW share \in Nat, NEW below \in Nat, NEW above \in Nat,
           g * sum <= q * high, g * share <= q * above,
           q * low <= g * (sum + time), q * below <= g * (share + 1)
    PROVE  /\ g * (sum + share * d) <= q * (high + above * d)
           /\ q * (low + below * d) <= g * ((sum + share * d) + (time + d))
<1>1. (g * share) * d <= (q * above) * d /\ (q * below) * d <= (g * (share + 1)) * d
  BY ProductNat, ProductMonotone
<1>2. /\ g * (sum + share * d) = g * sum + (g * share) * d
      /\ q * (high + above * d) = q * high + (q * above) * d
      /\ q * (low + below * d) = q * low + (q * below) * d
      /\ g * ((sum + share * d) + (time + d)) = g * (sum + time) + (g * (share + 1)) * d
  OBVIOUS
<1>3. /\ g * sum \in Nat /\ (g * share) * d \in Nat /\ q * high \in Nat
      /\ (q * above) * d \in Nat /\ q * low \in Nat /\ (q * below) * d \in Nat
      /\ g * (sum + time) \in Nat /\ (g * (share + 1)) * d \in Nat
  OBVIOUS
<1> QED
  BY <1>1, <1>2, <1>3

(* The history variable's inductive invariant: nothing is counted before   *)
(* the market opens.                                                       *)
ExactTyped == exact \in [low : Nat, high : Nat, time : Nat]

HistoryInv ==
    /\ ExactTyped
    /\ status = "Uninit" => exact = [low |-> 0, high |-> 0, time |-> 0]
    /\ ReadingIsBetween

(* A contested market has stake to take shares of.                         *)
LEMMA ContestedShares ==
    ASSUME TypeOK, Contested
    PROVE  /\ ShareBelow \in Nat /\ ShareAbove \in Nat /\ Meter!Share0 \in Nat
           /\ GRAIN * Meter!Share0 <= PRECISION * ShareAbove
           /\ PRECISION * ShareBelow <= GRAIN * (Meter!Share0 + 1)
<1> DEFINE total == SumUpTo(pools, config.num_sides)
<1>1. /\ pools \in [0 .. (MAX_SIDES - 1) -> Nat] /\ MAX_SIDES \in Nat
      /\ config.num_sides \in 2 .. MAX_SIDES /\ config.num_sides \in 0 .. MAX_SIDES
  <2>1. pools \in [Sides -> Nat] /\ config.num_sides \in 2 .. MAX_SIDES
    BY DEF TypeOK
  <2> QED
    BY <2>1, MathAssumption DEF Sides
<1>2. total \in Nat
  BY <1>1, SumUpToNat
<1>3. total > 0
  <2>1. PICK i \in 0 .. (config.num_sides - 1) : pools[i] > 0
    BY DEF Contested, TwoSidesHold
  <2>2. pools[i] <= total /\ pools[i] \in Nat
    BY <1>1, SumUpToBoundsEntry
  <2> HIDE DEF total
  <2> QED
    BY <1>2, <2>1, <2>2
<1>4. pools[0] \in Nat /\ GRAIN \in Nat /\ PRECISION \in Nat
  BY <1>1, MathAssumption, GrainAssumption, Scale
<1>5. Meter!Share0 = (pools[0] * PRECISION) \div total
  BY SameSums DEF Meter!Share0
<1> HIDE DEF total
<1> QED
  BY <1>2, <1>3, <1>4, <1>5, RoundingsBracket DEF ShareBelow, ShareAbove, total

(* While no time passes nothing is counted.                                *)
LEMMA ExactStands ==
    ASSUME TypeOK, ExactTyped, NextHistory, clock' = clock
    PROVE  exact' = exact
<1>1. CASE Contested
  <2>1. /\ exact.low \in Nat /\ exact.high \in Nat /\ exact.time \in Nat
        /\ exact = [low |-> exact.low, high |-> exact.high, time |-> exact.time]
    BY DEF ExactTyped
  <2>2. clock' - clock = 0
    BY DEF TypeOK
  <2>3. \A x \in Nat, y \in Nat : y + x * 0 = y /\ y + 0 = y
    OBVIOUS
  <2>4. exact' = [low  |-> exact.low  + ShareBelow * 0,
                  high |-> exact.high + ShareAbove * 0,
                  time |-> exact.time + 0]
    BY <1>1, <2>2 DEF NextHistory
  <2> QED
    BY <1>1, <2>1, <2>3, <2>4, ContestedShares
<1>2. CASE ~ Contested
  BY <1>2 DEF NextHistory
<1> QED
  BY <1>1, <1>2

(* Nothing but Tick moves the clock, and nothing but Create opens.         *)
LEMMA OthersStand ==
    ASSUME [Next]_vars, ~ Tick, ~ Create
    PROVE  /\ clock' = clock
           /\ status' = "Open" => status = "Open"
           /\ status' = "Uninit" => status = "Uninit"
<1>1. CASE MakerStep
  BY <1>1 DEF MakerStep, Deposit, Withdraw, ClaimPayout, Refund, ClosePosition, ledger_vars
<1>2. CASE ResolveMarket \/ AuthorityStep \/ UNCHANGED vars
  BY <1>2 DEF ResolveMarket, AuthorityStep, AdminResolve, Finalise, InvalidateMarket,
              CollectFees, ClaimCreatorFees, vars, ledger_vars
<1> QED
  BY <1>1, <1>2 DEF Next

(* Time passes: the reading and both bounds grow by a share each.          *)
LEMMA TickCounts ==
    ASSUME TypeOK, LedgerInv, TrackerSound, HistoryInv, NextHistory, Tick
    PROVE  HistoryInv'
<1>1. /\ clock \in Nat /\ clock' \in Nat /\ clock' > clock /\ status' = status
      /\ clock' - clock \in Nat
  BY EscrowAssumption DEF Tick, TypeOK
<1>2. Meter!Elapse
  BY TickMeters
<1>3. exact.low \in Nat /\ exact.high \in Nat /\ exact.time \in Nat
  BY DEF HistoryInv, ExactTyped
<1>4. CASE Contested
  <2> DEFINE d == clock' - clock
  <2>1. status = "Open" /\ Meter!Contested
    BY <1>4 DEF Contested, TwoSidesHold, Meter!Contested
  <2>2. exact' = [low  |-> exact.low  + ShareBelow * d,
                  high |-> exact.high + ShareAbove * d,
                  time |-> exact.time + d]
    BY <1>4 DEF NextHistory
  <2>3. /\ MeterReading.cumulative_twd_0' = MeterReading.cumulative_twd_0 + Meter!Share0 * d
        /\ MeterReading.cumulative_time' = MeterReading.cumulative_time + d
    BY <1>2, <2>1 DEF Meter!Elapse
  <2>4. MeterReading.cumulative_twd_0 \in Nat
    BY <2>1, TrackerType DEF MeterReading, TwdType
  <2> HIDE DEF d
  <2>5. /\ ShareBelow \in Nat /\ ShareAbove \in Nat /\ Meter!Share0 \in Nat /\ d \in Nat
        /\ GRAIN \in Nat /\ PRECISION \in Nat
    BY <1>1, <1>4, ContestedShares, GrainAssumption, Scale DEF d
  <2>6. /\ exact'.low = exact.low + ShareBelow * d
        /\ exact'.high = exact.high + ShareAbove * d
        /\ exact'.time = exact.time + d
    BY <2>2
  <2>7. ExactTyped'
    BY <1>3, <2>2, <2>5, ProductNat DEF ExactTyped
  <2>8. /\ GRAIN * (MeterReading.cumulative_twd_0 + Meter!Share0 * d)
               <= PRECISION * (exact.high + ShareAbove * d)
        /\ PRECISION * (exact.low + ShareBelow * d)
               <= GRAIN * ((MeterReading.cumulative_twd_0 + Meter!Share0 * d)
                               + (exact.time + d))
    BY <1>3, <1>4, <2>1, <2>4, <2>5, ContestedShares, BoundsGrow DEF HistoryInv, ReadingIsBetween
  <2>9. ReadingIsBetween'
    BY <2>1, <2>3, <2>6, <2>8 DEF HistoryInv, ReadingIsBetween, PRECISION
  <2> QED
    BY <1>1, <2>1, <2>7, <2>9 DEF HistoryInv
<1>5. CASE ~ Contested
  <2>1. exact' = exact
    BY <1>5 DEF NextHistory
  <2>2. ~ (status = "Open" /\ Meter!Contested)
    BY <1>5 DEF Contested, TwoSidesHold, Meter!Contested
  <2>3. UNCHANGED <<MeterReading.cumulative_twd_0, MeterReading.cumulative_time>>
    BY <1>2, <2>2 DEF Meter!Elapse
  <2> QED
    BY <1>1, <2>1, <2>3 DEF HistoryInv, ExactTyped, ReadingIsBetween, PRECISION
<1> QED
  BY <1>4, <1>5

LEMMA HistoryStep ==
    ASSUME TypeOK, LedgerInv, TrackerSound, HistoryInv, [NextHistory]_<<vars, exact>>
    PROVE  HistoryInv'
<1>1. CASE NextHistory /\ Tick
  BY <1>1, TickCounts
<1>2. CASE NextHistory /\ ~ Tick /\ Create
  <2>1. /\ status = "Uninit" /\ status' = "Open" /\ clock' = clock
    BY <1>2 DEF Create, CreateMarket
  <2>2. exact' = [low |-> 0, high |-> 0, time |-> 0]
    BY <1>2, <2>1, ExactStands DEF HistoryInv
  <2>3. MeterReading'.cumulative_twd_0 = 0 /\ MeterReading'.cumulative_time = 0
    BY <1>2, CreateMeters DEF Meter!Start
  <2>4. GRAIN * 0 <= PRECISION * 0 /\ PRECISION * 0 <= GRAIN * (0 + 0)
    BY GrainAssumption, Scale
  <2> QED
    BY <2>1, <2>2, <2>3, <2>4 DEF HistoryInv, ExactTyped, ReadingIsBetween, PRECISION
<1>3. CASE NextHistory /\ ~ Tick /\ ~ Create
  <2>1. /\ clock' = clock
        /\ status' = "Open" => status = "Open"
        /\ status' = "Uninit" => status = "Uninit"
    BY <1>3, OthersStand DEF NextHistory
  <2>2. exact' = exact
    BY <1>3, <2>1, ExactStands DEF HistoryInv
  <2>3. [Meter!Next]_(Meter!meter_vars)
    BY <1>3, MeterStep DEF NextHistory
  <2>4. ASSUME status' = "Open"
        PROVE  UNCHANGED <<MeterReading.cumulative_twd_0, MeterReading.cumulative_time>>
    BY <2>1, <2>3, <2>4
    DEF TypeOK, Meter!Next, Meter!Start, Meter!Elapse, Meter!Trade, Meter!Stop,
        Meter!Abandon, Meter!meter_vars
  <2> QED
    BY <2>1, <2>2, <2>4 DEF HistoryInv, ExactTyped, ReadingIsBetween, PRECISION
<1>4. CASE UNCHANGED <<vars, exact>>
  <2>1. UNCHANGED <<status, MeterReading, exact>>
    BY <1>4 DEF vars, MeterReading, ledger_vars
  <2> QED
    BY <2>1 DEF HistoryInv, ExactTyped, ReadingIsBetween, PRECISION
<1> QED
  BY <1>1, <1>2, <1>3, <1>4

LEMMA HistoryHolds == SpecHistory => Spec /\ []HistoryInv
<1>1. InitHistory => Init /\ HistoryInv
  <2>1. InitHistory => Init /\ status = "Uninit"
                       /\ exact = [low |-> 0, high |-> 0, time |-> 0]
    BY DEF InitHistory, Init
  <2> QED
    BY <2>1 DEF HistoryInv, ExactTyped, ReadingIsBetween
<1>2. [NextHistory]_<<vars, exact>> => [Next]_vars
  BY DEF NextHistory
<1>3. SpecHistory => Spec
  BY <1>1, <1>2, PTL DEF SpecHistory, Spec
<1> QED
  BY <1>1, <1>3, HistoryStep, TypeCorrect, LedgerHolds, TrackerHolds, PTL DEF SpecHistory

(* For every grain and every sequence of trades, the tracker of an open    *)
(* market has counted the contested seconds exactly and is below their     *)
(* integral by less than a part in PRECISION for each (math.rs:56-70).     *)
THEOREM ReadingCorrect == SpecHistory => []ReadingIsBetween
<1>1. HistoryInv => ReadingIsBetween
  BY DEF HistoryInv
<1> QED
  BY <1>1, HistoryHolds, PTL

(* What a mean on either side of a half says of the exact bounds.          *)
LEMMA VerdictIsFair ==
    ASSUME NEW g \in Nat, NEW h \in Nat, NEW sum \in Nat, NEW time \in Nat,
           NEW low \in Nat, NEW high \in Nat, g > 0, h > 0, time > 0,
           g * sum <= (2 * h) * high, (2 * h) * low <= g * (sum + time)
    PROVE  /\ sum \div time >= h => 2 * high >= g * time
           /\ sum \div time <= h => 2 * (2 * h) * low < (2 * h + 4) * g * time
<1>1. ASSUME sum \div time >= h
      PROVE  2 * high >= g * time
  <2>1. h * time <= sum
    BY <1>1, MeanCompared
  <2>2. g * (h * time) <= g * sum
    BY <2>1, ProductNat, ProductMonotone
  <2>3. /\ g * (h * time) = h * (g * time) /\ (2 * h) * high = h * (2 * high)
        /\ g * time \in Nat /\ 2 * high \in Nat /\ g * sum \in Nat
        /\ h * (g * time) \in Nat /\ h * (2 * high) \in Nat
    OBVIOUS
  <2>4. h * (g * time) <= h * (2 * high)
    BY <2>2, <2>3
  <2> QED
    BY <2>3, <2>4, FactorsOut
<1>2. ASSUME sum \div time <= h
      PROVE  2 * (2 * h) * low < (2 * h + 4) * g * time
  <2>1. sum < (h + 1) * time
    BY <1>2, MeanCompared
  <2>2. (sum + time) + 1 <= (h + 2) * time /\ (h + 2) * time \in Nat
    <3>1. (h + 2) * time = (h + 1) * time + time /\ (h + 1) * time \in Nat
      OBVIOUS
    <3> QED
      BY <2>1, <3>1
  <2>3. g * ((sum + time) + 1) <= g * ((h + 2) * time)
    BY <2>2, ProductMonotone
  <2>4. /\ g * ((sum + time) + 1) = g * (sum + time) + g
        /\ 2 * (2 * h) * low = 2 * ((2 * h) * low)
        /\ (2 * h + 4) * g * time = 2 * (g * ((h + 2) * time))
        /\ g * (sum + time) \in Nat /\ (2 * h) * low \in Nat /\ g * ((h + 2) * time) \in Nat
    OBVIOUS
  <2> QED
    BY <2>3, <2>4
<1> QED
  BY <1>1, <1>2

LEMMA ResolutionIsFair ==
    ASSUME TypeOK, HistoryInv, ResolveMarket, config.num_sides = 2, exact.time > 0
    PROVE  IF outcome'.winner = 1
           THEN 2 * exact.high >= GRAIN * exact.time
           ELSE 2 * PRECISION * exact.low < (PRECISION + 4) * GRAIN * exact.time
<1> DEFINE half == PRECISION \div 2
           sum == MeterReading.cumulative_twd_0
           winner == BinaryWinner(MeterReading, pools, weighted_pools, first_deposit_at)
<1>1. /\ status = "Open" /\ outcome'.winner = winner + 1
  BY DEF ResolveMarket, Finalise, DetermineWinner, IsMultiOption, MeterReading
<1>2. /\ exact.low \in Nat /\ exact.high \in Nat /\ exact.time \in Nat
      /\ MeterReading.cumulative_time = exact.time
      /\ GRAIN * sum <= PRECISION * exact.high
      /\ PRECISION * exact.low <= GRAIN * (sum + exact.time)
  BY <1>1 DEF HistoryInv, ExactTyped, ReadingIsBetween
<1>3. sum \in Nat /\ MeterReading \in TwdType
  BY <1>1, TrackerType DEF MeterReading, TwdType
<1>4. FinalTwd(MeterReading) = sum \div exact.time
  BY <1>2 DEF FinalTwd
<1>5. FinalTwd(MeterReading) \in Nat
  BY <1>3, FinalTwdType
<1>6. pools \in [Sides -> Nat]
  BY DEF TypeOK
<1>7. /\ winner \in {0, 1}
      /\ FinalTwd(MeterReading) > half => winner = 0
      /\ FinalTwd(MeterReading) < half => winner = 1
  BY <1>5, <1>6, BinaryWinnerIs
<1>8. /\ half \in Nat /\ half > 0 /\ PRECISION = 2 * half
      /\ GRAIN \in Nat /\ GRAIN > 0
  BY Scale, GrainAssumption
<1> HIDE DEF half, sum, winner
<1>9. /\ sum \div exact.time >= half => 2 * exact.high >= GRAIN * exact.time
      /\ sum \div exact.time <= half =>
             2 * PRECISION * exact.low < (PRECISION + 4) * GRAIN * exact.time
  BY <1>2, <1>3, <1>8, VerdictIsFair
<1>10. CASE winner = 0
  <2>1. sum \div exact.time >= half
    BY <1>4, <1>5, <1>7, <1>8, <1>10
  <2> QED
    BY <1>1, <1>9, <1>10, <2>1
<1>11. CASE winner = 1
  <2>1. sum \div exact.time <= half
    BY <1>4, <1>5, <1>7, <1>8, <1>11
  <2> QED
    BY <1>1, <1>9, <1>11, <2>1
<1> QED
  BY <1>7, <1>10, <1>11

(* The side that led a binary market in the exact mean, by any margin that *)
(* two parts in PRECISION do not swallow, is the side that wins it.        *)
THEOREM LeaderCorrect == SpecHistory => LeaderWins
<1>1. TypeOK /\ HistoryInv =>
          [ResolveMarket /\ config.num_sides = 2 /\ exact.time > 0 =>
              IF outcome'.winner = 1
              THEN 2 * exact.high >= GRAIN * exact.time
              ELSE 2 * PRECISION * exact.low < (PRECISION + 4) * GRAIN * exact.time
          ]_<<vars, exact>>
  BY ResolutionIsFair
<1> QED
  BY <1>1, HistoryHolds, TypeCorrect, PTL DEF LeaderWins

-----------------------------------------------------------------------------
(* The custody's sums are the program's.                                   *)
LEMMA SameCustodySums == \A f, n : Custodian!SumUpTo(f, n) = SumUpTo(f, n)
BY DEF Custodian!SumUpTo, Custodian!PartialSums, SumUpTo, PartialSums

(* No position is counted before there is a market.                        *)
FreshMarket == status = "Uninit" => position_count = 0

LEMMA FreshHolds == Spec => []FreshMarket
<1>1. Init => FreshMarket
  BY DEF Init, FreshMarket
<1>2. FreshMarket /\ [Next]_vars => FreshMarket'
  <2> SUFFICES ASSUME FreshMarket, [Next]_vars PROVE FreshMarket'
    OBVIOUS
  <2>1. \/ status' # "Uninit"
        \/ status' = status /\ position_count' = position_count
    <3>1. CASE Tick \/ UNCHANGED vars
      BY <3>1 DEF Tick, vars, counter_vars
    <3>4. CASE Create
      BY <3>4 DEF Create, CreateMarket
    <3>5. CASE ResolveMarket
      BY <3>5 DEF ResolveMarket, Finalise
    <3>2. CASE MakerStep
      BY <3>2 DEF MakerStep, Deposit, Withdraw, ClaimPayout, Refund, ClosePosition, counter_vars
    <3>3. CASE AuthorityStep
      BY <3>3 DEF AuthorityStep, AdminResolve, Finalise, InvalidateMarket, CollectFees,
                  ClaimCreatorFees, counter_vars
    <3> QED
      BY <3>1, <3>2, <3>3, <3>4, <3>5 DEF Next
  <2> QED
    BY <2>1 DEF FreshMarket
<1> QED
  BY <1>1, <1>2, PTL DEF Spec

CustodySound == /\ TypeOK /\ TypeOK' /\ LedgerInv /\ SettlementInv /\ FreshMarket

(* A step of which the mapping sees nothing.                               *)
LEMMA CustodyStutters ==
    ASSUME UNCHANGED <<status, config, outcome, pools, weighted_pools, penalty_pool,
                       position_count, fee_vars, positions, vault>>
    PROVE  UNCHANGED Custodian!custody_vars
<1>1. /\ UNCHANGED <<Phase, Holding, FeesBooked, vault>>
      /\ ActiveStake(positions') = ActiveStake(positions)
  BY DEF Phase, Holding, FeesBooked, fee_vars, ActiveStake
<1>2. Owed' = Owed
  <2>1. Frozen /\ positions' = positions
    BY DEF Frozen, fee_vars
  <2>2. \A n \in Nonces : DueTo(positions[n])' = DueTo(positions[n])
    BY <2>1, DueFrozen
  <2> QED
    BY <2>1, <2>2 DEF Owed
<1>3. Dues' = Dues
  BY <1>2 DEF Dues
<1> QED
  BY <1>1, <1>3 DEF Custodian!custody_vars

LEMMA CreateIsUnseen ==
    ASSUME CustodySound, Create
    PROVE  UNCHANGED Custodian!custody_vars
<1>1. /\ status = "Uninit" /\ status' = "Open" /\ positions' = positions /\ vault' = vault
      /\ position_count = 0 /\ position_count' = 0
      /\ protocol_fee_collected = 0 /\ creator_account.fee_collected = 0
      /\ protocol_fee_collected' = 0 /\ creator_account'.fee_collected = 0
  BY DEF CustodySound, Create, CreateMarket, LedgerInv, Bookkeeping, FreshMarket
<1>2. Phase' = Phase /\ Dues' = Dues /\ FeesBooked' = FeesBooked
  BY <1>1 DEF Phase, Dues, FeesBooked, NothingOwed
<1>3. Holding' = Holding /\ ActiveStake(positions') = ActiveStake(positions)
  BY <1>1 DEF Holding
<1> QED
  BY <1>1, <1>2, <1>3 DEF Custodian!custody_vars

-----------------------------------------------------------------------------
(* The position of slot n stops being active and the others stay.          *)
Released(n) == /\ Active(positions[n]) /\ ~ Active(positions'[n])
               /\ \A m \in Nonces : m # n => positions'[m] = positions[m]
               /\ position_count' = position_count

LEMMA SlotLeaves ==
    ASSUME CustodySound, NEW n \in Nonces, Released(n), status' = status
    PROVE  Custodian!Leaves(n)
<1>1. n < position_count
  BY DEF CustodySound, LedgerInv, Bookkeeping, Released, Active
<1>2. Holding[n] = "in" /\ Holding' = [Holding EXCEPT ![n] = "out"]
  <2>1. \A m \in Nonces : Holding'[m] = IF m = n THEN "out" ELSE Holding[m]
    BY <1>1 DEF Holding, Released
  <2> QED
    BY <2>1 DEF Holding, Released
<1>3. ActiveStake(positions') = [ActiveStake(positions) EXCEPT ![n] = 0]
  BY DEF ActiveStake, Released
<1>4. Phase' = Phase
  BY DEF Phase
<1> QED
  BY <1>2, <1>3, <1>4 DEF Custodian!Leaves

LEMMA DepositPutsIn ==
    ASSUME CustodySound, NEW maker \in Accounts, NEW side \in Sides, NEW amount \in Amounts,
           NEW min_weight \in MinWeights, Deposit(maker, side, amount, min_weight)
    PROVE  Custodian!PutIn(position_count)
<1> DEFINE n == position_count
           weight == ComputeEntryWeight(FractionRemaining, config.resolution_duration)
           p == [NoPosition EXCEPT !.live = TRUE, !.maker = maker, !.side = side,
                                   !.amount = amount, !.entry_weight = weight]
<1>1. /\ status = "Open" /\ status' = "Open" /\ amount >= MIN_DEPOSIT_LAMPORTS
      /\ position_count < MAX_POSITIONS /\ position_count' = position_count + 1
      /\ vault' = vault + amount /\ positions' = [positions EXCEPT ![n] = p]
      /\ protocol_fee_collected' = protocol_fee_collected
      /\ creator_account' = creator_account
  BY DEF Deposit, fee_vars
<1>2. /\ n \in Nonces /\ amount \in Nat /\ amount > 0
      /\ positions \in [Nonces -> PositionType] /\ n \in Nat
  <2>1. n \in Nat /\ positions \in [Nonces -> PositionType]
    BY DEF CustodySound, TypeOK
  <2>2. amount \in Nat /\ amount > 0
    BY <1>1, EscrowAssumption
  <2> QED
    BY <1>1, <2>1, <2>2, EscrowAssumption DEF Nonces
<1>3. ~ positions[n].live
  BY <1>2 DEF CustodySound, LedgerInv, Bookkeeping
<1>4. /\ p.amount = amount /\ Active(p)
      /\ positions'[n] = p /\ \A m \in Nonces : m # n => positions'[m] = positions[m]
  <2> HIDE DEF weight
  <2> QED
    BY <1>1, <1>2 DEF NoPosition, Active
<1> HIDE DEF p
<1>5. ActiveStake(positions')[n] = amount
      /\ ActiveStake(positions') = [ActiveStake(positions) EXCEPT ![n] = ActiveStake(positions')[n]]
  BY <1>2, <1>4 DEF ActiveStake
<1>6. Holding[n] = "free" /\ Holding' = [Holding EXCEPT ![n] = "in"]
  <2>1. Holding[n] = "free"
    BY <1>2, <1>3 DEF Holding, Active
  <2>2. ASSUME NEW m \in Nonces PROVE Holding'[m] = IF m = n THEN "in" ELSE Holding[m]
    BY <1>1, <1>2, <1>4 DEF Holding, Nonces
  <2> QED
    BY <2>1, <2>2, <1>2 DEF Holding
<1>7. Phase = "open" /\ Phase' = Phase /\ Dues' = Dues /\ FeesBooked' = FeesBooked
  BY <1>1 DEF Phase, Dues, FeesBooked, NothingOwed
<1>8. ActiveStake(positions')[n] \in Nat \ {0} /\ vault' = vault + ActiveStake(positions')[n]
  BY <1>1, <1>2, <1>5
<1> QED
  BY <1>5, <1>6, <1>7, <1>8 DEF Custodian!PutIn

LEMMA WithdrawTakesOut ==
    ASSUME CustodySound, NEW maker \in Accounts, NEW n \in Nonces, Withdraw(maker, n)
    PROVE  Custodian!TakeOut(n)
<1> DEFINE p == positions[n]
<1>1. /\ status = "Open" /\ status' = "Open" /\ Active(p)
      /\ vault' = vault - Returned(p)
      /\ positions' = [positions EXCEPT ![n].withdrawn = TRUE]
      /\ position_count' = position_count
      /\ protocol_fee_collected' = protocol_fee_collected
      /\ creator_account' = creator_account
  BY DEF Withdraw, Active, counter_vars, fee_vars
<1>2. /\ positions \in [Nonces -> PositionType] /\ vault \in Nat /\ p.amount \in Nat
      /\ clock - config.created_at \in Int /\ config.resolution_duration \in Int
  BY DEF CustodySound, TypeOK, PositionType
<1>3. Released(n)
  BY <1>1, <1>2 DEF Released, Active, PositionType
<1>4. Penalty(p) \in Nat /\ Penalty(p) <= p.amount
  BY <1>2, PenaltyBounds DEF Penalty
<1>5. ActiveStake(positions)[n] = p.amount
  BY <1>1 DEF ActiveStake
<1>6. vault - ActiveStake(positions)[n] <= vault' /\ vault' <= vault
  <2>1. \A v, a, x \in Nat : x <= a => v - a <= v - (a - x) /\ v - (a - x) <= v
    OBVIOUS
  <2>2. vault' = vault - (p.amount - Penalty(p))
    BY <1>1 DEF Returned
  <2> HIDE DEF p
  <2> QED
    BY <1>2, <1>4, <1>5, <2>1, <2>2
<1>7. Phase = "open" /\ Dues' = Dues /\ FeesBooked' = FeesBooked
  BY <1>1 DEF Phase, Dues, FeesBooked, NothingOwed
<1> QED
  BY <1>1, <1>3, <1>6, <1>7, SlotLeaves DEF Custodian!TakeOut

LEMMA RefundReturns ==
    ASSUME CustodySound, NEW maker \in Accounts, NEW n \in Nonces, Refund(maker, n)
    PROVE  Custodian!ReturnStake(n)
<1> DEFINE p == positions[n]
<1>1. /\ status = "Invalid" /\ status' = "Invalid" /\ Active(p)
      /\ vault' = vault - p.amount
      /\ positions' = [positions EXCEPT ![n].claimed = TRUE, ![n].payout_amount = p.amount]
      /\ position_count' = position_count
      /\ protocol_fee_collected' = protocol_fee_collected
      /\ creator_account' = creator_account
  BY DEF Refund, Active, counter_vars, fee_vars
<1>2. positions \in [Nonces -> PositionType]
  BY DEF CustodySound, TypeOK
<1>3. Released(n)
  BY <1>1, <1>2 DEF Released, Active, PositionType
<1>4. vault' = vault - ActiveStake(positions)[n]
  BY <1>1 DEF ActiveStake
<1>5. Phase = "void" /\ Dues' = Dues /\ FeesBooked' = FeesBooked
  BY <1>1 DEF Phase, Dues, FeesBooked, NothingOwed
<1> QED
  BY <1>1, <1>3, <1>4, <1>5, SlotLeaves DEF Custodian!ReturnStake

(* A resolution: the dues that it makes computable fit into the vault.     *)
LEMMA FinaliseSettlesDues ==
    ASSUME CustodySound, status = "Open",
           NEW winner \in 0 .. (config.num_sides - 1), Finalise(winner)
    PROVE  Custodian!Settle
<1>1. /\ status' = "Resolved" /\ UNCHANGED <<vault, positions, position_count>>
      /\ protocol_fee_collected' = protocol_fee_collected
      /\ creator_account' = creator_account
  BY DEF Finalise, counter_vars, fee_vars
<1>2. /\ Phase = "open" /\ Phase' = "settled" /\ Dues' = Owed'
      /\ FeesBooked' = FeesBooked /\ Holding' = Holding
      /\ ActiveStake(positions') = ActiveStake(positions)
  BY <1>1 DEF Phase, Dues, FeesBooked, Holding
<1>3. OwedTyped'
  BY OwedTypedNext DEF CustodySound
<1>4. Owed' \in [Nonces -> Nat] /\ \A n \in Nonces : Owed'[n] > 0 => Holding[n] = "in"
  <2>1. \A n \in Nonces : Owed'[n] # 0 => Active(positions'[n])
    BY DEF Owed
  <2> QED
    BY <1>1, <1>3, <2>1 DEF Holding, OwedTyped
<1>5. SumUpTo(Owed', MAX_POSITIONS) <= vault
  <2>1. /\ Affordable' /\ vault' = TotalDistributable'
    BY FinaliseFacts, FreshlyResolvedNext DEF CustodySound
  <2> QED
    BY <1>1, <2>1 DEF Affordable
<1> QED
  BY <1>1, <1>2, <1>4, <1>5, SameCustodySums DEF Custodian!Settle

LEMMA InvalidateVoids ==
    ASSUME CustodySound, NEW signer \in Accounts, InvalidateMarket(signer)
    PROVE  Custodian!Void
<1>1. /\ status = "Open" /\ status' = "Invalid"
      /\ UNCHANGED <<vault, positions, position_count>>
      /\ protocol_fee_collected' = protocol_fee_collected
      /\ creator_account' = creator_account
  BY DEF InvalidateMarket, counter_vars, fee_vars
<1>2. /\ Phase = "open" /\ Phase' = "void" /\ Dues' = Dues
      /\ FeesBooked' = FeesBooked /\ Holding' = Holding
      /\ ActiveStake(positions') = ActiveStake(positions)
  BY <1>1 DEF Phase, Dues, FeesBooked, Holding, NothingOwed
<1> QED
  BY <1>1, <1>2 DEF Custodian!Void

(* While claims are open the dues of the positions that stay are what they *)
(* were, and that of a position that is not active is none.                *)
LEMMA OthersKeepDues ==
    ASSUME status = "Resolved", status' = "Resolved", Frozen, NEW n \in Nonces,
           \A m \in Nonces : m # n => positions'[m] = positions[m],
           ~ Active(positions'[n])
    PROVE  Dues' = [Dues EXCEPT ![n] = 0]
<1>1. ASSUME NEW m \in Nonces, m # n
      PROVE  Owed'[m] = Owed[m]
  <2>1. positions'[m] = positions[m] /\ DueTo(positions[m])' = DueTo(positions[m])
    BY <1>1, DueFrozen
  <2> QED
    BY <2>1 DEF Owed
<1>2. Owed'[n] = 0
  BY DEF Owed
<1>3. Owed' = [Owed EXCEPT ![n] = 0]
  <2>1. \A m \in Nonces : Owed'[m] = IF m = n THEN 0 ELSE Owed[m]
    BY <1>1, <1>2
  <2>2. Owed = [m \in Nonces |-> Owed[m]] /\ Owed' = [m \in Nonces |-> Owed'[m]]
    BY DEF Owed
  <2> QED
    BY <2>1, <2>2
<1> QED
  BY <1>3 DEF Dues

LEMMA CloseIsUnseen ==
    ASSUME CustodySound, NEW maker \in Accounts, NEW n \in Nonces, ClosePosition(maker, n)
    PROVE  UNCHANGED Custodian!custody_vars
<1>1. /\ positions[n].live /\ ~ Active(positions[n])
      /\ positions' = [positions EXCEPT ![n] = NoPosition]
      /\ UNCHANGED <<status, config, outcome, pools, weighted_pools, penalty_pool,
                     position_count, protocol_fee_collected, creator_account, vault>>
  BY DEF ClosePosition, Settled, Active, ledger_vars, fee_vars, counter_vars
<1>2. /\ positions \in [Nonces -> PositionType] /\ n < position_count
  BY <1>1 DEF CustodySound, TypeOK, LedgerInv, Bookkeeping
<1>3. /\ ~ Active(positions'[n]) /\ \A m \in Nonces : m # n => positions'[m] = positions[m]
  BY <1>1, <1>2 DEF Active, NoPosition
<1>4. ActiveStake(positions') = ActiveStake(positions) /\ Holding' = Holding
  BY <1>1, <1>3 DEF ActiveStake, Holding
<1>5. Phase' = Phase /\ FeesBooked' = FeesBooked
  BY <1>1 DEF Phase, FeesBooked
<1>6. Dues' = Dues
  <2>1. CASE status = "Resolved"
    <3>1. Frozen
      BY <1>1 DEF Frozen
    <3>2. Dues' = [Dues EXCEPT ![n] = 0]
      BY <1>1, <1>3, <2>1, <3>1, OthersKeepDues
    <3>3. Dues = Owed /\ Owed[n] = 0 /\ Owed = [m \in Nonces |-> Owed[m]]
      BY <1>1, <2>1 DEF Dues, Owed
    <3> QED
      BY <3>2, <3>3
  <2>2. CASE status # "Resolved"
    BY <1>1, <2>2 DEF Dues, NothingOwed
  <2> QED
    BY <2>1, <2>2
<1> QED
  BY <1>1, <1>4, <1>5, <1>6 DEF Custodian!custody_vars

LEMMA ClaimPays ==
    ASSUME CustodySound, NEW maker \in Accounts, NEW n \in Nonces, ClaimPayout(maker, n)
    PROVE  Custodian!Pay(n)
<1> DEFINE p == positions[n]
           due == DueTo(p)
           actual == LesserOf(due.payout, Available)
           q == [p EXCEPT !.claimed = TRUE, !.payout_amount = actual]
<1>1. /\ status = "Resolved" /\ status' = "Resolved" /\ Active(p)
      /\ actual > 0 /\ actual <= vault /\ vault' = vault - actual
      /\ positions' = [positions EXCEPT ![n] = q]
      /\ protocol_fee_collected' = protocol_fee_collected + due.fee
      /\ creator_account' = [creator_account EXCEPT !.fee_collected = @ + due.creator_fee]
      /\ UNCHANGED <<config, outcome, pools, weighted_pools, penalty_pool, position_count>>
  BY DEF ClaimPayout, CanDebit, Active, ledger_vars, counter_vars
<1>2. /\ OwedTyped /\ positions \in [Nonces -> PositionType] /\ vault \in Nat
      /\ protocol_fee_collected \in Nat
      /\ creator_account \in [creator : Accounts \cup {NoKey}, fee_collected : Nat,
                              fee_claimed : Nat]
  BY OwedTypedNow DEF CustodySound, TypeOK
<1>3. /\ due.payout \in Nat /\ due.fee \in Nat /\ due.creator_fee \in Nat
      /\ Owed \in [Nonces -> Nat] /\ Owed[n] = due.payout + due.fee + due.creator_fee
  <2>1. due \in DueType /\ Owed[n] = OwedOf(p)
    BY <1>2 DEF OwedTyped
  <2>2. due.payout \in Nat /\ due.fee \in Nat /\ due.creator_fee \in Nat
    BY <2>1 DEF DueType
  <2> QED
    BY <1>1, <1>2, <2>1, <2>2 DEF OwedOf, OwedTyped
<1> HIDE DEF due
<1>4. /\ creator_account'.creator = creator_account.creator
      /\ creator_account'.fee_collected = creator_account.fee_collected + due.creator_fee
      /\ creator_account.fee_collected \in Nat
  BY <1>1, <1>2
<1>5. /\ actual \in Nat /\ Available \in Nat
      /\ actual = due.payout \/ (actual < due.payout /\ actual = vault - MIN_RENT)
  BY <1>1, <1>2, <1>3, EscrowAssumption DEF LesserOf, Available, SatSub
<1> HIDE DEF actual
<1>6. /\ ~ Active(positions'[n]) /\ \A m \in Nonces : m # n => positions'[m] = positions[m]
  BY <1>1, <1>2 DEF Active, PositionType
<1>7. Frozen /\ Released(n)
  BY <1>1, <1>4, <1>6 DEF Frozen, Released
<1>8. Dues' = [Dues EXCEPT ![n] = 0] /\ Dues = Owed
  BY <1>1, <1>6, <1>7, OthersKeepDues DEF Dues
<1>9. vault >= protocol_fee_collected + creator_account.fee_collected
                   + SumUpTo(Owed, MAX_POSITIONS)
      /\ SumUpTo(Owed, MAX_POSITIONS) \in Nat /\ Owed[n] <= SumUpTo(Owed, MAX_POSITIONS)
  <2>2. /\ SumUpTo(Owed, MAX_POSITIONS) \in Nat /\ Owed[n] <= SumUpTo(Owed, MAX_POSITIONS)
    BY <1>3, EntryChange
  <2> QED
    BY <1>1, <2>2 DEF CustodySound, SettlementInv, Solvent
<1> DEFINE given == (vault - vault') + (FeesBooked' - FeesBooked)
<1>10. /\ given = actual + due.fee + due.creator_fee
       /\ vault' <= vault /\ FeesBooked' >= FeesBooked
  BY <1>1, <1>2, <1>3, <1>4, <1>5 DEF FeesBooked
<1>11. \/ given = Dues[n]
       \/ given < Dues[n] /\ Dues[n] - given <= MIN_RENT /\ vault' = MIN_RENT
  <2>1. CASE actual = due.payout
    BY <1>3, <1>8, <1>10, <2>1
  <2>2. CASE actual < due.payout /\ actual = vault - MIN_RENT
    <3>1. due.payout <= vault
      BY <1>2, <1>3, <1>4, <1>9
    <3>2. given < Dues[n] /\ Dues[n] - given = due.payout - actual
      BY <1>3, <1>5, <1>8, <1>10, <2>2
    <3> QED
      BY <1>1, <1>2, <1>3, <1>5, <2>2, <3>1, <3>2, EscrowAssumption
  <2> QED
    BY <1>5, <2>1, <2>2
<1>12. Phase = "settled" /\ Custodian!Leaves(n)
  BY <1>1, <1>7, SlotLeaves DEF Phase
<1> QED
  BY <1>8, <1>10, <1>11, <1>12 DEF Custodian!Pay

(* Fees that were booked leave the vault.                                  *)
LEMMA SweepLeaves ==
    ASSUME CustodySound, Frozen, NEW taken \in Nat \ {0}, taken <= FeesBooked,
           UNCHANGED <<status, positions, position_count>>,
           vault' = vault - taken, FeesBooked' = FeesBooked - taken
    PROVE  Custodian!Sweep
<1>1. Phase' = Phase /\ Holding' = Holding /\ ActiveStake(positions') = ActiveStake(positions)
  BY DEF Phase, Holding
<1>2. Dues' = Dues
  <2>1. \A n \in Nonces : DueTo(positions[n])' = DueTo(positions[n])
    BY DueFrozen
  <2> QED
    BY <2>1 DEF Dues, Owed, NothingOwed
<1>3. vault \in Nat /\ FeesBooked \in Nat
  BY DEF CustodySound, TypeOK, FeesBooked
<1>4. FeesBooked' >= 0 /\ FeesBooked' < FeesBooked /\ vault' = vault - (FeesBooked - FeesBooked')
  BY <1>3
<1> QED
  BY <1>1, <1>2, <1>4 DEF Custodian!Sweep

LEMMA CollectSweeps ==
    ASSUME CustodySound, NEW signer \in Accounts, CollectFees(signer)
    PROVE  Custodian!Sweep
<1>1. /\ protocol_fee_collected > 0 /\ vault' = vault - SweptFees
      /\ protocol_fee_collected' = SatSub(protocol_fee_collected, SweptFees)
      /\ UNCHANGED <<status, config, outcome, pools, weighted_pools, penalty_pool,
                     positions, position_count, creator_account>>
  BY DEF CollectFees, ledger_vars, counter_vars
<1>2. /\ vault \in Nat /\ protocol_fee_collected \in Nat
      /\ creator_account.fee_collected \in Nat
  BY DEF CustodySound, TypeOK
<1>3. vault >= protocol_fee_collected + creator_account.fee_collected
                   + SumUpTo(Owed, MAX_POSITIONS)
      /\ SumUpTo(Owed, MAX_POSITIONS) \in Nat
  <2>1. status = "Resolved"
    BY <1>1, <1>2 DEF CustodySound, LedgerInv, Bookkeeping
  <2>2. Owed \in [Nonces -> Nat]
    BY OwedTypedNow DEF CustodySound, OwedTyped
  <2>3. SumUpTo(Owed, MAX_POSITIONS) \in Nat
    BY <2>2, EscrowAssumption, SumUpToNat DEF Nonces
  <2> QED
    BY <2>1, <2>3 DEF CustodySound, SettlementInv, Solvent
<1>4. SweptFees = protocol_fee_collected
  BY <1>2, <1>3 DEF SweptFees, LesserOf
<1>5. FeesBooked' = FeesBooked - protocol_fee_collected
      /\ protocol_fee_collected <= FeesBooked
  BY <1>1, <1>2, <1>4 DEF FeesBooked, SatSub
<1>6. Frozen
  BY <1>1 DEF Frozen
<1> QED
  BY <1>1, <1>2, <1>4, <1>5, <1>6, SweepLeaves

LEMMA CreatorSweeps ==
    ASSUME CustodySound, NEW signer \in Accounts, ClaimCreatorFees(signer)
    PROVE  Custodian!Sweep
<1> DEFINE actual == LesserOf(creator_account.fee_collected, Available)
<1>1. /\ actual > 0 /\ vault' = vault - actual
      /\ creator_account' = [creator_account EXCEPT !.fee_collected = @ - actual,
                                                   !.fee_claimed = @ + actual]
      /\ protocol_fee_collected' = protocol_fee_collected
      /\ UNCHANGED <<status, config, outcome, pools, weighted_pools, penalty_pool,
                     positions, position_count>>
  BY DEF ClaimCreatorFees, ledger_vars, counter_vars
<1>2. /\ vault \in Nat /\ protocol_fee_collected \in Nat /\ Available \in Nat
      /\ creator_account \in [creator : Accounts \cup {NoKey}, fee_collected : Nat,
                              fee_claimed : Nat]
  BY EscrowAssumption DEF CustodySound, TypeOK, Available, SatSub
<1>3. actual \in Nat /\ actual <= creator_account.fee_collected
  BY <1>2 DEF LesserOf
<1> HIDE DEF actual
<1>4. /\ creator_account'.creator = creator_account.creator
      /\ creator_account'.fee_collected = creator_account.fee_collected - actual
      /\ creator_account.fee_collected \in Nat
  BY <1>1, <1>2
<1>5. FeesBooked' = FeesBooked - actual /\ actual <= FeesBooked
  BY <1>1, <1>2, <1>3, <1>4 DEF FeesBooked
<1>6. Frozen
  BY <1>1, <1>4 DEF Frozen
<1> QED
  BY <1>1, <1>3, <1>5, <1>6, SweepLeaves

-----------------------------------------------------------------------------
LEMMA CustodyStep ==
    ASSUME CustodySound, [Next]_vars
    PROVE  [Custodian!Next]_(Custodian!custody_vars)
<1>1. CASE Tick
  BY <1>1, CustodyStutters DEF Tick, ledger_vars, counter_vars
<1>2. CASE Create
  BY <1>2, CreateIsUnseen
<1>3. CASE MakerStep
  <2>1. ASSUME NEW maker \in Accounts, NEW side \in Sides, NEW amount \in Amounts,
               NEW min_weight \in MinWeights, Deposit(maker, side, amount, min_weight)
        PROVE  Custodian!Next
    <3>1. position_count \in Nonces
      BY <2>1, EscrowAssumption DEF Deposit, CustodySound, TypeOK, Nonces
    <3> QED
      BY <2>1, <3>1, DepositPutsIn DEF Custodian!Next
  <2>2. ASSUME NEW maker \in Accounts, NEW n \in Nonces,
               Withdraw(maker, n) \/ ClaimPayout(maker, n) \/ Refund(maker, n)
        PROVE  Custodian!Next
    BY <2>2, WithdrawTakesOut, ClaimPays, RefundReturns DEF Custodian!Next
  <2> QED
    BY <1>3, <2>1, <2>2, CloseIsUnseen DEF MakerStep
<1>4. CASE ResolveMarket
  <2>1. PICK winner \in 0 .. (config.num_sides - 1) : Finalise(winner)
    BY <1>4, WinnerIsASide DEF ResolveMarket, CustodySound, TypeOK
  <2> QED
    BY <1>4, <2>1, FinaliseSettlesDues DEF ResolveMarket, Custodian!Next
<1>5. CASE AuthorityStep
  <2>1. ASSUME NEW signer \in Accounts, NEW winner \in 1 .. MAX_SIDES,
               AdminResolve(signer, winner)
        PROVE  Custodian!Next
    <3>1. winner - 1 \in 0 .. (config.num_sides - 1)
      BY <2>1, MathAssumption DEF AdminResolve, CustodySound, TypeOK
    <3> QED
      BY <2>1, <3>1, FinaliseSettlesDues DEF AdminResolve, Custodian!Next
  <2> QED
    BY <1>5, <2>1, InvalidateVoids, CollectSweeps, CreatorSweeps
    DEF AuthorityStep, Custodian!Next
<1>6. CASE UNCHANGED vars
  BY <1>6, CustodyStutters DEF vars, ledger_vars, counter_vars
<1> QED
  BY <1>1, <1>2, <1>3, <1>4, <1>5, <1>6 DEF Next

(* The program keeps custody of the stakes: for every market and every     *)
(* interleaving of makers, authority and creator, a resolution fixes dues  *)
(* within the vault, a claim pays or books its own due and changes no      *)
(* other, a stake leaves once, and fees leave only if they were booked.    *)
THEOREM CustodyCorrect == Spec => ImplementsCustody
<1>1. Init => Custodian!Init
  <2> SUFFICES ASSUME Init PROVE Custodian!Init
    OBVIOUS
  <2>1. /\ status = "Uninit" /\ position_count = 0 /\ vault = 0
        /\ protocol_fee_collected = 0 /\ creator_account.fee_collected = 0
        /\ \A n \in Nonces : ~ Active(positions[n])
    BY DEF Init, NoPosition, Active
  <2>2. Phase = "open" /\ Dues = NothingOwed /\ FeesBooked = 0
    BY <2>1 DEF Phase, Dues, FeesBooked
  <2>3. Holding = [n \in Nonces |-> "free"] /\ ActiveStake(positions) = NothingOwed
    BY <2>1 DEF Holding, ActiveStake, NothingOwed, Nonces
  <2> QED
    BY <2>1, <2>2, <2>3 DEF Custodian!Init, Custodian!Nothing, NothingOwed
<1>2. /\ TypeOK /\ TypeOK' /\ LedgerInv /\ SettlementInv /\ FreshMarket /\ [Next]_vars
      => [Custodian!Next]_(Custodian!custody_vars)
  BY CustodyStep DEF CustodySound
<1> QED
  BY <1>1, <1>2, TypeCorrect, LedgerHolds, SettlementHolds, FreshHolds, PTL
  DEF Spec, ImplementsCustody, Custodian!Spec

-----------------------------------------------------------------------------
(* What clients and network hold.                                          *)
TxType  == [nonce : Nonces, side : Sides, amount : Amounts, min_weight : Nat]
AnyTx   == [nonce : Nat, side : Sides, amount : Nat, min_weight : Nat]

ClientTyped ==
    /\ client \in [Accounts -> [waiting : BOOLEAN, tx : AnyTx, landed : Int]]
    /\ network \subseteq [maker : Accounts, tx : TxType]
    /\ \A maker \in Accounts : client[maker].waiting => client[maker].tx \in TxType

(* The least weight that a quote of this instant accepts.                  *)
LeastNow == SatSub(CurrentWeight, TOLERANCE)

LEMMA QuoteType ==
    ASSUME TypeOK, Quotable, NEW side \in Sides, NEW amount \in Amounts
    PROVE  /\ Quoted(side, amount) \in TxType /\ Quoted(side, amount) \in AnyTx
           /\ Quoted(side, amount) = [nonce |-> position_count, side |-> side,
                                      amount |-> amount, min_weight |-> LeastNow]
           /\ LeastNow \in Nat
<1>1. Quoted(side, amount) = [nonce |-> position_count, side |-> side,
                              amount |-> amount, min_weight |-> LeastNow]
  BY DEF Quoted, LeastNow, CurrentWeight
<1>2. CurrentWeight \in Nat
  BY DepositWeight DEF Quotable, CurrentWeight
<1>3. LeastNow \in Nat
  BY <1>2, ClientAssumption DEF LeastNow, SatSub
<1>4. position_count \in Nonces /\ position_count \in Nat
  <2>1. position_count \in 0 .. MAX_POSITIONS /\ position_count < MAX_POSITIONS
    BY DEF TypeOK, Quotable
  <2> QED
    BY <2>1, EscrowAssumption DEF Nonces
<1>5. amount \in Nat
  BY EscrowAssumption
<1> QED
  BY <1>1, <1>3, <1>4, <1>5 DEF TxType, AnyTx

LEMMA SubmitTyped ==
    ASSUME ClientTyped, NEW maker \in Accounts, NEW tx \in TxType, tx \in AnyTx,
           Submit(maker, tx)
    PROVE  /\ ClientTyped'
           /\ network' = network \cup {[maker |-> maker, tx |-> tx]}
           /\ client' = [client EXCEPT ![maker] = [@ EXCEPT !.waiting = TRUE, !.tx = tx]]
           /\ client'[maker].waiting = TRUE /\ client'[maker].tx = tx
           /\ client'[maker].landed = client[maker].landed
           /\ \A other \in Accounts : other # maker => client'[other] = client[other]
<1>1. /\ client' = [client EXCEPT ![maker] = [@ EXCEPT !.waiting = TRUE, !.tx = tx]]
      /\ network' = network \cup {[maker |-> maker, tx |-> tx]}
  BY DEF Submit
<1>2. /\ client \in [Accounts -> [waiting : BOOLEAN, tx : AnyTx, landed : Int]]
      /\ client[maker] \in [waiting : BOOLEAN, tx : AnyTx, landed : Int]
  BY DEF ClientTyped
<1>3. /\ client'[maker] = [client[maker] EXCEPT !.waiting = TRUE, !.tx = tx]
      /\ \A other \in Accounts : other # maker => client'[other] = client[other]
  BY <1>1, <1>2
<1>4. /\ client'[maker].waiting = TRUE /\ client'[maker].tx = tx
      /\ client'[maker].landed = client[maker].landed
  BY <1>2, <1>3
<1>5. client' \in [Accounts -> [waiting : BOOLEAN, tx : AnyTx, landed : Int]]
  BY <1>1, <1>2
<1>6. network' \subseteq [maker : Accounts, tx : TxType]
  BY <1>1 DEF ClientTyped
<1>7. \A other \in Accounts : client'[other].waiting => client'[other].tx \in TxType
  BY <1>3, <1>4 DEF ClientTyped
<1> QED
  BY <1>1, <1>3, <1>4, <1>5, <1>6, <1>7 DEF ClientTyped

(* A client that stops waiting, and one whose transaction has landed.      *)
LEMMA ClientSet ==
    ASSUME ClientTyped, NEW maker \in Accounts,
           NEW c \in [waiting : BOOLEAN, tx : AnyTx, landed : Int],
           c.waiting => c.tx \in TxType,
           client' = [client EXCEPT ![maker] = c], network' = network
    PROVE  /\ ClientTyped' /\ client'[maker] = c
           /\ \A other \in Accounts : other # maker => client'[other] = client[other]
<1>1. client \in [Accounts -> [waiting : BOOLEAN, tx : AnyTx, landed : Int]]
  BY DEF ClientTyped
<1>2. /\ client'[maker] = c
      /\ \A other \in Accounts : other # maker => client'[other] = client[other]
  BY <1>1
<1>3. client' \in [Accounts -> [waiting : BOOLEAN, tx : AnyTx, landed : Int]]
  BY <1>1
<1> QED
  BY <1>2, <1>3 DEF ClientTyped

LEMMA IdleTyped == \A n \in Int : [Idle EXCEPT !.landed = n] \in
                       [waiting : BOOLEAN, tx : AnyTx, landed : Int]
                   /\ [Idle EXCEPT !.landed = n].waiting = FALSE
                   /\ [Idle EXCEPT !.landed = n].landed = n
<1>1. 0 \in Sides
  BY MathAssumption DEF Sides
<1> QED
  BY <1>1 DEF Idle, AnyTx

LEMMA LandIsDeposit ==
    ASSUME TypeOK, ClientTyped, NEW m \in network, Land(m.maker, m.tx)
    PROVE  /\ [Next]_vars /\ m.maker \in Accounts /\ m.tx \in TxType
           /\ client' = [client EXCEPT ![m.maker].landed = @ + 1]
           /\ ClientTyped'
<1>1. m.maker \in Accounts /\ m.tx \in TxType
  BY DEF ClientTyped
<1>2. /\ Deposit(m.maker, m.tx.side, m.tx.amount, m.tx.min_weight)
      /\ client' = [client EXCEPT ![m.maker].landed = @ + 1]
      /\ network' = network
  BY DEF Land
<1>3. [Next]_vars
  <2>1. m.tx.side \in Sides /\ m.tx.amount \in Amounts /\ m.tx.min_weight \in Nat
    BY <1>1 DEF TxType
  <2>2. CurrentWeight >= 0
    BY <1>2, DepositWeight DEF Deposit, CurrentWeight
  <2>3. Deposit(m.maker, m.tx.side, m.tx.amount, 0)
    BY <1>2, <2>2 DEF Deposit, WithinSlippage, CurrentWeight
  <2> QED
    BY <1>1, <2>1, <2>3, ClientAssumption DEF Next, MakerStep
<1>4. ClientTyped'
  <2> DEFINE c == [client[m.maker] EXCEPT !.landed = @ + 1]
  <2>1. client[m.maker] \in [waiting : BOOLEAN, tx : AnyTx, landed : Int]
    BY <1>1 DEF ClientTyped
  <2>2. /\ c \in [waiting : BOOLEAN, tx : AnyTx, landed : Int]
        /\ c.waiting = client[m.maker].waiting /\ c.tx = client[m.maker].tx
    BY <2>1
  <2>3. c.waiting => c.tx \in TxType
    BY <1>1, <2>2 DEF ClientTyped
  <2>4. client' = [client EXCEPT ![m.maker] = c]
    BY <1>2
  <2> HIDE DEF c
  <2> QED
    BY <1>1, <1>2, <2>2, <2>3, <2>4, ClientSet
<1> QED
  BY <1>1, <1>2, <1>3, <1>4

LEMMA MarketStepIsStep ==
    ASSUME TypeOK, ClientTyped, MarketStep
    PROVE  Next /\ ClientTyped'
<1>1. CASE Open
  <2>1. PICK duration \in Durations :
            /\ clock + duration <= MAX_CLOCK
            /\ CreateMarket(Authority, NoKey, duration, 2, TRUE, FALSE)
    BY <1>1 DEF Open
  <2> QED
    <3>1. 2 \in 2 .. MAX_SIDES /\ NoKey \in Accounts \cup {NoKey} /\ Authority \in Accounts
      BY MathAssumption, ClientAssumption
    <3>2. Create
      BY <2>1, <3>1 DEF Create
    <3> QED
      BY <3>2 DEF Next, MarketStep, ClientTyped
<1>2. CASE status = "Open" /\ Tick
  BY <1>2 DEF Next, MarketStep, ClientTyped
<1>3. CASE InvalidateMarket(Authority)
  BY <1>3, ClientAssumption DEF Next, AuthorityStep, MarketStep, ClientTyped
<1>4. CASE \E maker \in Accounts, n \in Nonces :
               ~ client[maker].waiting /\ (Withdraw(maker, n) \/ ClosePosition(maker, n))
  BY <1>4 DEF Next, MakerStep, MarketStep, ClientTyped
<1> QED
  BY <1>1, <1>2, <1>3, <1>4 DEF MarketStep

LEMMA ClientsTakeSteps ==
    ASSUME TypeOK, ClientTyped, [NextClients]_client_vars
    PROVE  [Next]_vars /\ ClientTyped'
<1>1. CASE ClientStep
  <2>1. ASSUME NEW maker \in Accounts, NEW side \in Sides, NEW amount \in Amounts,
               Quotable, Submit(maker, Quoted(side, amount))
        PROVE  [Next]_vars /\ ClientTyped'
    <3> DEFINE tx == Quoted(side, amount)
    <3>1. tx \in TxType /\ tx \in AnyTx
      BY <2>1, QuoteType
    <3>2. Submit(maker, tx)
      BY <2>1
    <3> HIDE DEF tx
    <3>3. ClientTyped'
      BY <3>1, <3>2, SubmitTyped
    <3> QED
      BY <3>2, <3>3 DEF Submit
  <2>2. ASSUME NEW maker \in Accounts, Retry(maker)
        PROVE  [Next]_vars /\ ClientTyped'
    <3>1. client[maker].tx.side \in Sides /\ client[maker].tx.amount \in Amounts
      BY <2>2 DEF Retry, ClientTyped, TxType
    <3> QED
      BY <2>1, <2>2, <3>1 DEF Retry
  <2>3. ASSUME NEW maker \in Accounts, NEW n \in Int, UNCHANGED <<vars, network>>,
               client' = [client EXCEPT ![maker] = [Idle EXCEPT !.landed = n]]
        PROVE  [Next]_vars /\ ClientTyped'
    BY <2>3, IdleTyped, ClientSet
  <2>4. ASSUME NEW maker \in Accounts, Confirm(maker) \/ GiveUp(maker)
        PROVE  [Next]_vars /\ ClientTyped'
    <3>1. client[maker].landed \in Int /\ client[maker].landed - 1 \in Int
      BY DEF ClientTyped
    <3> QED
      BY <2>3, <2>4, <3>1 DEF Confirm, GiveUp
  <2> QED
    BY <1>1, <2>1, <2>2, <2>4 DEF ClientStep, Ask
<1>2. CASE NetworkStep
  BY <1>2, LandIsDeposit DEF NetworkStep, Lose, ClientTyped
<1>3. CASE MarketStep
  BY <1>3, MarketStepIsStep
<1>4. CASE UNCHANGED client_vars
  BY <1>4 DEF client_vars, ClientTyped
<1> QED
  BY <1>1, <1>2, <1>3, <1>4 DEF NextClients

LEMMA InitClientsTyped == InitClients => TypeOK /\ ClientTyped
<1> SUFFICES ASSUME InitClients PROVE TypeOK /\ ClientTyped
  OBVIOUS
<1>1. Idle \in [waiting : BOOLEAN, tx : AnyTx, landed : Int] /\ ~ Idle.waiting
  BY MathAssumption DEF Idle, AnyTx, Sides
<1> QED
  BY <1>1, InitType DEF InitClients, ClientTyped

(* Clients and network only take steps that the market allows.             *)
LEMMA ClientsImplement == SpecClients => Spec /\ []ClientTyped
<1>1. InitClients => Init
  BY DEF InitClients
<1> QED
  BY <1>1, InitClientsTyped, ClientsTakeSteps, TypeStep, PTL DEF SpecClients, Spec

-----------------------------------------------------------------------------
(* A transaction that would deposit what the client waits for.             *)
Fulfils(tx, wanted) ==
    /\ tx.nonce = wanted.nonce /\ tx.side = wanted.side /\ tx.amount = wanted.amount
    /\ tx.min_weight >= wanted.min_weight

WaitsSoundly(maker) ==
    LET c == client[maker]  p == positions[c.tx.nonce]
    IN  /\ c.landed = IF Arrived(maker) THEN 1 ELSE 0
        /\ \A m \in InFlight(maker) : m.tx.nonce = position_count => Fulfils(m.tx, c.tx)
        /\ Arrived(maker) => /\ p.side = c.tx.side /\ p.amount = c.tx.amount
                             /\ p.entry_weight >= c.tx.min_weight

RestsSoundly(maker) ==
    /\ client[maker].landed = 0
    /\ \A m \in InFlight(maker) : m.tx.nonce < position_count

ClientSound(maker) == /\ client[maker].waiting => WaitsSoundly(maker)
                      /\ ~ client[maker].waiting => RestsSoundly(maker)

ClientsSound == \A maker \in Accounts : ClientSound(maker)

(* No transaction names a nonce that is yet to come, and each was quoted   *)
(* at a weight that has not risen since.                                   *)
NetworkSound ==
    /\ \A m \in network : m.tx.nonce <= position_count
    /\ status = "Uninit" => network = {} /\ \A maker \in Accounts : ~ client[maker].waiting
    /\ status = "Open" /\ clock < EndTime => \A m \in network : m.tx.min_weight >= LeastNow

ClientInv == ClientsSound /\ NetworkSound

LEMMA InitClientInv == InitClients => ClientInv
BY DEF InitClients, Init, ClientInv, ClientsSound, ClientSound, NetworkSound, RestsSoundly,
       InFlight, Idle

(* The least acceptable weight falls with time.                            *)
LEMMA LeastFalls ==
    ASSUME TypeOK, TypeOK', config' = config, clock <= clock', clock' < EndTime'
    PROVE  /\ clock < EndTime /\ LeastNow' <= LeastNow
           /\ LeastNow \in Nat /\ LeastNow' \in Nat
<1>1. clock' \in Nat
  BY DEF TypeOK
<1>2. CurrentWeight' <= CurrentWeight /\ clock < EndTime
  BY <1>1, WeightDecays
<1>3. CurrentWeight \in Nat /\ CurrentWeight' \in Nat
  <2>1. TypeOK /\ clock < EndTime => CurrentWeight \in Nat
    BY DepositWeight DEF CurrentWeight
  <2>2. (TypeOK /\ clock < EndTime => CurrentWeight \in Nat)'
    BY DepositWeight, PTL DEF CurrentWeight
  <2> QED
    BY <1>2, <2>1, <2>2
<1>4. \A x, y, t \in Nat : x <= y => /\ SatSub(x, t) <= SatSub(y, t)
                                     /\ SatSub(x, t) \in Nat /\ SatSub(y, t) \in Nat
  BY DEF SatSub
<1>5. LeastNow = SatSub(CurrentWeight, TOLERANCE) /\ LeastNow' = SatSub(CurrentWeight', TOLERANCE)
  BY DEF LeastNow
<1> QED
  BY <1>2, <1>3, <1>4, <1>5, ClientAssumption

(* The position at the nonce that a waiting client watches is kept as it   *)
(* is: then the client is none the wiser.                                  *)
Watches(maker) ==
    LET n == client[maker].tx.nonce  p == positions[n]  q == positions'[n]
    IN  /\ (q.live /\ q.maker = maker) <=> (p.live /\ p.maker = maker)
        /\ p.live /\ p.maker = maker =>
              q.side = p.side /\ q.amount = p.amount /\ q.entry_weight = p.entry_weight

LEMMA MarketFrame ==
    ASSUME TypeOK, TypeOK', ClientTyped, ClientInv, status # "Uninit" \/ position_count' = 0,
           UNCHANGED <<client, network>>, status' # "Uninit",
           status # "Uninit" => position_count' = position_count,
           status' = "Open" /\ status # "Uninit" =>
               status = "Open" /\ config' = config /\ clock <= clock',
           \A maker \in Accounts : client[maker].waiting => Watches(maker)
    PROVE  ClientInv'
<1>1. CASE status = "Uninit"
  <2>1. network = {} /\ \A maker \in Accounts : ~ client[maker].waiting
    BY <1>1 DEF ClientInv, NetworkSound
  <2>2. \A maker \in Accounts : client[maker].landed = 0
    BY <2>1 DEF ClientInv, ClientsSound, ClientSound, RestsSoundly
  <2> QED
    BY <2>1, <2>2 DEF ClientInv, ClientsSound, ClientSound, NetworkSound, RestsSoundly, InFlight
<1>2. CASE status # "Uninit"
  <2>1. position_count' = position_count
    BY <1>2
  <2>2. ASSUME NEW maker \in Accounts, client[maker].waiting
        PROVE  WaitsSoundly(maker)'
    <3>1. WaitsSoundly(maker) /\ Watches(maker)
      BY <2>2 DEF ClientInv, ClientsSound, ClientSound
    <3> QED
      BY <2>1, <3>1 DEF WaitsSoundly, Watches, Arrived, InFlight
  <2>3. ClientsSound'
    BY <2>1, <2>2 DEF ClientInv, ClientsSound, ClientSound, RestsSoundly, InFlight
  <2>4. ASSUME status' = "Open", clock' < EndTime', NEW m \in network
        PROVE  m.tx.min_weight >= LeastNow'
    <3>1. status = "Open" /\ clock < EndTime /\ LeastNow' <= LeastNow
          /\ LeastNow \in Nat /\ LeastNow' \in Nat
      BY <1>2, <2>4, LeastFalls
    <3>2. m.tx.min_weight >= LeastNow /\ m.tx.min_weight \in Nat
      BY <3>1 DEF ClientInv, NetworkSound, ClientTyped, TxType
    <3> QED
      BY <3>1, <3>2
  <2> QED
    BY <2>1, <2>3, <2>4 DEF ClientInv, NetworkSound
<1> QED
  BY <1>1, <1>2

LEMMA MarketKeeps ==
    ASSUME TypeOK, TypeOK', ClientTyped, ClientInv, LedgerInv, MarketStep
    PROVE  ClientInv'
<1>1. UNCHANGED <<client, network>>
  BY DEF MarketStep
<1>2. ASSUME positions' = positions
      PROVE  \A maker \in Accounts : client[maker].waiting => Watches(maker)
  BY <1>2 DEF Watches
<1>3. CASE Open
  <2>1. /\ status = "Uninit" /\ status' = "Open" /\ position_count' = 0
        /\ positions' = positions
    BY <1>3 DEF Open, CreateMarket
  <2> QED
    BY <1>1, <1>2, <2>1, MarketFrame
<1>4. CASE status = "Open" /\ Tick
  <2>1. /\ UNCHANGED <<status, config, position_count, positions>> /\ clock <= clock'
    <3>1. clock \in Nat /\ \A s \in ClockSteps : s \in Nat
      BY EscrowAssumption DEF TypeOK
    <3> QED
      BY <1>4, <3>1 DEF Tick, counter_vars
  <2> QED
    BY <1>1, <1>2, <1>4, <2>1, MarketFrame
<1>5. CASE InvalidateMarket(Authority)
  <2>1. /\ status = "Open" /\ status' = "Invalid"
        /\ UNCHANGED <<position_count, positions>>
    BY <1>5 DEF InvalidateMarket, counter_vars
  <2> QED
    BY <1>1, <1>2, <2>1, MarketFrame
<1>6. ASSUME NEW maker \in Accounts, NEW n \in Nonces, ~ client[maker].waiting,
             Withdraw(maker, n) \/ ClosePosition(maker, n)
      PROVE  ClientInv'
  <2>1. /\ positions[n].live /\ positions[n].maker = maker
        /\ UNCHANGED <<config, position_count, clock>>
        /\ status' = status
    BY <1>6 DEF Withdraw, ClosePosition, counter_vars
  <2>2. status # "Uninit"
    BY <2>1 DEF LedgerInv, Bookkeeping
  <2>3. positions \in [Nonces -> PositionType]
    BY DEF TypeOK
  <2>4. /\ \A k \in Nonces : k # n => positions'[k] = positions[k]
        /\ positions'[n].live => positions'[n].maker = maker
    <3>1. CASE Withdraw(maker, n)
      BY <2>1, <2>3, <3>1 DEF Withdraw, PositionType
    <3>2. CASE ClosePosition(maker, n)
      BY <2>3, <3>2 DEF ClosePosition, NoPosition
    <3> QED
      BY <1>6, <3>1, <3>2
  <2>5. ASSUME NEW other \in Accounts, client[other].waiting
        PROVE  Watches(other)
    <3>1. client[other].tx.nonce \in Nonces /\ other # maker
      BY <1>6, <2>5 DEF ClientTyped, TxType
    <3> QED
      BY <2>1, <2>4, <3>1 DEF Watches
  <2>6. clock <= clock'
    BY <2>1 DEF TypeOK
  <2>7. \A other \in Accounts : client[other].waiting => Watches(other)
    BY <2>5
  <2> QED
    BY <1>1, <2>1, <2>2, <2>6, <2>7, MarketFrame
<1> QED
  BY <1>3, <1>4, <1>5, <1>6 DEF MarketStep

(* A client that a step does not concern stays sound.                      *)
LEMMA Unconcerned ==
    ASSUME NEW maker \in Accounts, ClientSound(maker), UNCHANGED <<positions, position_count>>,
           client'[maker] = client[maker], InFlight(maker)' \subseteq InFlight(maker)
    PROVE  ClientSound(maker)'
<1>1. Arrived(maker)' <=> Arrived(maker)
  BY DEF Arrived
<1> QED
  BY <1>1 DEF ClientSound, WaitsSoundly, RestsSoundly

LEMMA SubmitKeeps ==
    ASSUME TypeOK, ClientTyped, ClientInv, LedgerInv, Quotable,
           NEW maker \in Accounts, NEW side \in Sides, NEW amount \in Amounts,
           Submit(maker, Quoted(side, amount)),
           client[maker].waiting => /\ ~ Arrived(maker)
                                    /\ side = client[maker].tx.side
                                    /\ amount = client[maker].tx.amount
    PROVE  ClientInv'
<1> DEFINE tx == Quoted(side, amount)
           sent == [maker |-> maker, tx |-> tx]
<1>1. /\ tx \in TxType /\ tx \in AnyTx /\ tx.nonce = position_count /\ tx.side = side
      /\ tx.amount = amount /\ tx.min_weight = LeastNow /\ LeastNow \in Nat
  BY QuoteType
<1>2. Submit(maker, tx)
  OBVIOUS
<1> HIDE DEF tx
<1>3. /\ network' = network \cup {sent}
      /\ client'[maker].waiting = TRUE /\ client'[maker].tx = tx
      /\ client'[maker].landed = client[maker].landed
      /\ \A other \in Accounts : other # maker => client'[other] = client[other]
  BY <1>1, <1>2, SubmitTyped
<1>4. UNCHANGED vars
  BY <1>2 DEF Submit
<1>5. /\ UNCHANGED <<positions, position_count, status, clock, config>>
      /\ LeastNow' = LeastNow /\ EndTime' = EndTime
  BY <1>4 DEF vars, counter_vars, LeastNow, CurrentWeight, FractionRemaining, EndTime
<1>6. status = "Open" /\ clock < EndTime
  BY DEF Quotable
<1>7. ClientsSound'
  <2>1. ASSUME NEW other \in Accounts, other # maker
        PROVE  ClientSound(other)'
    <3>1. InFlight(other)' \subseteq InFlight(other)
      BY <1>3, <2>1 DEF InFlight
    <3>2. ClientSound(other)
      BY DEF ClientInv, ClientsSound, ClientSound
    <3> QED
      BY <1>3, <1>5, <2>1, <3>1, <3>2, Unconcerned
  <2>2. ClientSound(maker)'
    <3>1. ~ positions[position_count].live
      <4>1. position_count \in Nonces /\ position_count \in Nat
        BY <1>1 DEF TxType, AnyTx
      <4> QED
        BY <4>1 DEF LedgerInv, Bookkeeping
    <3>2. ~ Arrived(maker)'
      BY <1>1, <1>3, <1>5, <3>1 DEF Arrived
    <3>3. client'[maker].landed = 0
      BY <1>3 DEF ClientInv, ClientsSound, ClientSound, WaitsSoundly, RestsSoundly
    <3>4. ASSUME NEW m \in InFlight(maker)', m.tx.nonce = position_count
          PROVE  Fulfils(m.tx, tx)
      <4>1. CASE m = sent
        BY <1>1, <4>1 DEF Fulfils
      <4>2. CASE m \in InFlight(maker)
        <5>1. /\ m \in network /\ m.tx.min_weight >= LeastNow /\ position_count \in Nat
          BY <1>6, <4>2 DEF InFlight, ClientInv, NetworkSound, TypeOK
        <5>2. client[maker].waiting
          BY <3>4, <4>2, <5>1 DEF ClientInv, ClientsSound, ClientSound, RestsSoundly
        <5>3. Fulfils(m.tx, client[maker].tx)
          BY <3>4, <4>2, <5>2 DEF ClientInv, ClientsSound, ClientSound, WaitsSoundly
        <5> QED
          BY <1>1, <3>4, <5>1, <5>2, <5>3 DEF Fulfils
      <4>3. m = sent \/ m \in InFlight(maker)
        BY <1>3 DEF InFlight
      <4> QED
        BY <4>1, <4>2, <4>3
    <3>5. WaitsSoundly(maker)'
      BY <1>3, <1>5, <3>2, <3>3, <3>4 DEF WaitsSoundly
    <3> QED
      BY <1>3, <3>5 DEF ClientSound
  <2> QED
    BY <2>1, <2>2 DEF ClientsSound
<1>8. NetworkSound'
  <2>1. ASSUME NEW m \in network'
        PROVE  m.tx.nonce <= position_count /\ m.tx.min_weight >= LeastNow
    <3>1. CASE m = sent
      BY <1>1, <3>1 DEF TypeOK
    <3>2. CASE m \in network
      BY <1>6, <3>2 DEF ClientInv, NetworkSound
    <3> QED
      BY <1>3, <3>1, <3>2
  <2> QED
    BY <1>5, <1>6, <2>1 DEF NetworkSound
<1> QED
  BY <1>7, <1>8 DEF ClientInv

(* A client that stops waiting leaves nothing that could still land.       *)
LEMMA RestKeeps ==
    ASSUME TypeOK, ClientTyped, ClientInv, LedgerInv, NEW maker \in Accounts,
           Confirm(maker) \/ GiveUp(maker)
    PROVE  ClientInv'
<1> DEFINE c == client[maker]
           left == IF Arrived(maker) THEN c.landed - 1 ELSE c.landed
<1>1. /\ UNCHANGED vars /\ network' = network /\ c.waiting
      /\ client' = [client EXCEPT ![maker] = [Idle EXCEPT !.landed = left]]
      /\ ~ Arrived(maker) => InFlight(maker) = {}
  BY DEF Confirm, GiveUp
<1>2. /\ UNCHANGED <<positions, position_count, status, clock, config>>
      /\ LeastNow' = LeastNow /\ EndTime' = EndTime
  BY <1>1 DEF vars, counter_vars, LeastNow, CurrentWeight, FractionRemaining, EndTime
<1>3. WaitsSoundly(maker)
  BY <1>1 DEF ClientInv, ClientsSound, ClientSound
<1>4. left = 0
  BY <1>3 DEF WaitsSoundly
<1> HIDE DEF left
<1>5. /\ client'[maker].waiting = FALSE /\ client'[maker].landed = 0
      /\ \A other \in Accounts : other # maker => client'[other] = client[other]
  BY <1>1, <1>4, IdleTyped DEF ClientTyped
<1>6. \A m \in InFlight(maker) : m.tx.nonce < position_count
  <2>1. CASE Arrived(maker)
    <3>1. c.tx.nonce < position_count
      <4>1. c.tx.nonce \in Nonces
        BY <1>1 DEF ClientTyped, TxType
      <4> QED
        BY <2>1, <4>1 DEF LedgerInv, Bookkeeping, Arrived
    <3>2. ASSUME NEW m \in InFlight(maker)
          PROVE  m.tx.nonce < position_count
      <4>1. /\ m.tx.nonce <= position_count /\ m.tx.nonce \in Int /\ position_count \in Int
        <5>1. m \in network
          BY DEF InFlight
        <5>2. m.tx \in TxType
          BY <5>1 DEF ClientTyped
        <5>3. m.tx.nonce <= position_count
          BY <5>1 DEF ClientInv, NetworkSound
        <5> QED
          BY <5>2, <5>3 DEF TxType, TypeOK, Nonces
      <4>2. m.tx.nonce # position_count
        BY <1>3, <3>1, <4>1 DEF WaitsSoundly, Fulfils
      <4> QED
        BY <4>1, <4>2
    <3> QED
      BY <3>2
  <2>2. CASE ~ Arrived(maker)
    BY <1>1, <2>2
  <2> QED
    BY <2>1, <2>2
<1>7. ClientSound(maker)'
  BY <1>1, <1>2, <1>5, <1>6 DEF ClientSound, RestsSoundly, InFlight
<1>8. ASSUME NEW other \in Accounts, other # maker
      PROVE  ClientSound(other)'
  <2>1. ClientSound(other) /\ InFlight(other)' \subseteq InFlight(other)
    BY <1>1 DEF ClientInv, ClientsSound, ClientSound, InFlight
  <2> QED
    BY <1>2, <1>5, <1>8, <2>1, Unconcerned
<1>9. ClientsSound'
  BY <1>7, <1>8 DEF ClientsSound
<1>10. NetworkSound'
  BY <1>1, <1>2, <1>5 DEF ClientInv, NetworkSound
<1> QED
  BY <1>9, <1>10 DEF ClientInv

LEMMA LoseKeeps ==
    ASSUME TypeOK, ClientTyped, ClientInv, NEW m \in network, Lose(m)
    PROVE  ClientInv'
<1>1. UNCHANGED vars /\ client' = client /\ network' \subseteq network
  BY DEF Lose
<1>2. /\ UNCHANGED <<positions, position_count, status, clock, config>>
      /\ LeastNow' = LeastNow /\ EndTime' = EndTime
  BY <1>1 DEF vars, counter_vars, LeastNow, CurrentWeight, FractionRemaining, EndTime
<1>3. ASSUME NEW maker \in Accounts
      PROVE  ClientSound(maker)'
  <2>1. ClientSound(maker) /\ InFlight(maker)' \subseteq InFlight(maker)
    BY <1>1 DEF ClientInv, ClientsSound, ClientSound, InFlight
  <2> QED
    BY <1>1, <1>2, <2>1, Unconcerned
<1>4. ClientsSound'
  BY <1>3 DEF ClientsSound
<1>5. NetworkSound'
  BY <1>1, <1>2 DEF ClientInv, NetworkSound
<1> QED
  BY <1>4, <1>5 DEF ClientInv

(* A transaction that lands is one its client waits for: the count that    *)
(* seeds the account is the one that was read, and has not moved since.    *)
LEMMA LandKeeps ==
    ASSUME TypeOK, ClientTyped, ClientInv, LedgerInv, NEW m \in network, Land(m.maker, m.tx)
    PROVE  ClientInv'
<1> DEFINE maker == m.maker
           c == client[maker]
           n == position_count
           p == [NoPosition EXCEPT !.live = TRUE, !.maker = maker, !.side = m.tx.side,
                     !.amount = m.tx.amount, !.entry_weight = CurrentWeight]
<1>1. /\ maker \in Accounts /\ m.tx \in TxType /\ m.tx.nonce = n /\ n \in Nonces /\ n \in Nat
      /\ client' = [client EXCEPT ![maker].landed = @ + 1] /\ network' = network
      /\ positions' = [positions EXCEPT ![n] = p] /\ position_count' = n + 1
      /\ status = "Open" /\ UNCHANGED <<status, clock, config>>
      /\ CurrentWeight >= m.tx.min_weight
  <2>1. maker \in Accounts /\ m.tx \in TxType
    BY DEF ClientTyped
  <2>2. m.tx.nonce = n /\ n \in Nonces /\ n \in Nat
    BY <2>1 DEF Land, SeedsMatch, TxType, TypeOK
  <2>3. /\ Deposit(maker, m.tx.side, m.tx.amount, m.tx.min_weight)
        /\ client' = [client EXCEPT ![maker].landed = @ + 1] /\ network' = network
    BY DEF Land
  <2> QED
    BY <2>1, <2>2, <2>3 DEF Deposit, WithinSlippage, CurrentWeight
<1>2. LeastNow' = LeastNow /\ EndTime' = EndTime
  BY <1>1 DEF LeastNow, CurrentWeight, FractionRemaining, EndTime
<1>3. /\ ~ positions[n].live /\ positions'[n] = p
      /\ \A k \in Nonces : k # n => positions'[k] = positions[k]
  BY <1>1 DEF LedgerInv, Bookkeeping, TypeOK
<1>4. /\ p.live = TRUE /\ p.maker = maker /\ p.side = m.tx.side /\ p.amount = m.tx.amount
      /\ p.entry_weight = CurrentWeight
  BY DEF NoPosition
<1> HIDE DEF p
<1>5. c.waiting /\ Fulfils(m.tx, c.tx) /\ c.landed = 0
  <2>1. m \in InFlight(maker)
    BY DEF InFlight
  <2>2. c.waiting
    BY <1>1, <2>1 DEF ClientInv, ClientsSound, ClientSound, RestsSoundly
  <2>3. WaitsSoundly(maker)
    BY <1>1, <2>2 DEF ClientInv, ClientsSound, ClientSound
  <2>4. Fulfils(m.tx, c.tx)
    BY <1>1, <2>1, <2>3 DEF WaitsSoundly
  <2>5. ~ Arrived(maker)
    BY <1>1, <1>3, <2>4 DEF Arrived, Fulfils
  <2> QED
    BY <2>2, <2>3, <2>4, <2>5 DEF WaitsSoundly
<1>6. /\ client'[maker].waiting = c.waiting /\ client'[maker].tx = c.tx
      /\ client'[maker].landed = 1
      /\ \A other \in Accounts : other # maker => client'[other] = client[other]
  <2>1. /\ client \in [Accounts -> [waiting : BOOLEAN, tx : AnyTx, landed : Int]]
        /\ c \in [waiting : BOOLEAN, tx : AnyTx, landed : Int]
    BY <1>1 DEF ClientTyped
  <2>2. /\ client'[maker] = [c EXCEPT !.landed = c.landed + 1]
        /\ \A other \in Accounts : other # maker => client'[other] = client[other]
    BY <1>1, <2>1
  <2>3. c.landed = 0
    BY <1>5
  <2> HIDE DEF c
  <2>4. client'[maker] = [c EXCEPT !.landed = 1]
    BY <2>2, <2>3
  <2> QED
    BY <2>1, <2>2, <2>4
<1>7. \A k \in network : k.tx.nonce < position_count'
  <2>1. ASSUME NEW k \in network PROVE k.tx.nonce < n + 1
    <3>1. k.tx.nonce <= n /\ k.tx.nonce \in Int
      BY DEF ClientInv, NetworkSound, ClientTyped, TxType, Nonces
    <3> QED
      BY <1>1, <3>1
  <2> QED
    BY <1>1, <2>1
<1>8. \A k \in network : k.tx.nonce # position_count'
  <2>1. ASSUME NEW k \in network PROVE k.tx.nonce # n + 1
    <3>1. k.tx.nonce < n + 1 /\ k.tx.nonce \in Int
      BY <1>1, <1>7 DEF ClientTyped, TxType, Nonces
    <3> QED
      BY <1>1, <3>1
  <2> QED
    BY <1>1, <2>1
<1>9. ClientSound(maker)'
  <2>1. positions'[c.tx.nonce] = p /\ Arrived(maker)'
    BY <1>1, <1>3, <1>4, <1>5, <1>6 DEF Fulfils, Arrived
  <2>2. p.side = c.tx.side /\ p.amount = c.tx.amount /\ p.entry_weight >= c.tx.min_weight
    <3>1. /\ CurrentWeight >= m.tx.min_weight /\ m.tx.min_weight >= c.tx.min_weight
          /\ m.tx.min_weight \in Nat /\ c.tx.min_weight \in Nat /\ CurrentWeight \in Nat
      <4>1. CurrentWeight \in Nat
        BY DepositWeight DEF Land, Deposit, CurrentWeight
      <4> QED
        BY <1>1, <1>5, <4>1 DEF Fulfils, ClientTyped, TxType
    <3> QED
      BY <1>4, <1>5, <3>1 DEF Fulfils
  <2>3. WaitsSoundly(maker)'
    BY <1>1, <1>6, <1>8, <2>1, <2>2 DEF WaitsSoundly, InFlight
  <2> QED
    BY <1>5, <1>6, <2>3 DEF ClientSound
<1>10. ASSUME NEW other \in Accounts, other # maker
       PROVE  ClientSound(other)'
  <2>1. CASE client[other].waiting
    <3>1. WaitsSoundly(other) /\ client[other].tx.nonce \in Nonces
      BY <2>1 DEF ClientInv, ClientsSound, ClientSound, ClientTyped, TxType
    <3>2. /\ Arrived(other)' <=> Arrived(other)
          /\ Arrived(other) => positions'[client[other].tx.nonce]
                                   = positions[client[other].tx.nonce]
      BY <1>3, <1>4, <1>6, <1>10, <3>1 DEF Arrived
    <3>3. WaitsSoundly(other)'
      BY <1>1, <1>6, <1>8, <1>10, <3>1, <3>2 DEF WaitsSoundly, InFlight
    <3> QED
      BY <1>6, <1>10, <2>1, <3>3 DEF ClientSound
  <2>2. CASE ~ client[other].waiting
    BY <1>1, <1>6, <1>7, <1>10, <2>2
    DEF ClientInv, ClientsSound, ClientSound, RestsSoundly, InFlight
  <2> QED
    BY <2>1, <2>2
<1>11. ClientsSound'
  BY <1>9, <1>10 DEF ClientsSound
<1>12. NetworkSound'
  <2>1. \A k \in network : k.tx.nonce <= position_count'
    <3>1. ASSUME NEW k \in network PROVE k.tx.nonce <= n + 1
      <4>1. k.tx.nonce <= n /\ k.tx.nonce \in Int
        BY DEF ClientInv, NetworkSound, ClientTyped, TxType, Nonces
      <4> QED
        BY <1>1, <4>1
    <3> QED
      BY <1>1, <3>1
  <2> QED
    BY <1>1, <1>2, <2>1 DEF ClientInv, NetworkSound
<1> QED
  BY <1>11, <1>12 DEF ClientInv

LEMMA ClientsStep ==
    ASSUME TypeOK, TypeOK', ClientTyped, ClientInv, LedgerInv, [NextClients]_client_vars
    PROVE  ClientInv'
<1>1. CASE ClientStep
  <2>1. ASSUME NEW maker \in Accounts, Retry(maker)
        PROVE  ClientInv'
    <3>1. client[maker].tx.side \in Sides /\ client[maker].tx.amount \in Amounts
      BY <2>1 DEF Retry, ClientTyped, TxType
    <3> QED
      BY <2>1, <3>1, SubmitKeeps DEF Retry
  <2>2. ASSUME NEW maker \in Accounts, NEW side \in Sides, NEW amount \in Amounts,
               Ask(maker, side, amount)
        PROVE  ClientInv'
    BY <2>2, SubmitKeeps DEF Ask
  <2> QED
    BY <1>1, <2>1, <2>2, RestKeeps DEF ClientStep
<1>2. CASE NetworkStep
  BY <1>2, LandKeeps, LoseKeeps DEF NetworkStep
<1>3. CASE MarketStep
  BY <1>3, MarketKeeps
<1>4. CASE UNCHANGED client_vars
  <2>1. /\ UNCHANGED <<positions, position_count, status, clock, config, client, network>>
        /\ LeastNow' = LeastNow /\ EndTime' = EndTime
    BY <1>4 DEF client_vars, vars, counter_vars, LeastNow, CurrentWeight, FractionRemaining,
                EndTime
  <2>2. ASSUME NEW maker \in Accounts
        PROVE  ClientSound(maker)'
    <3>1. ClientSound(maker) /\ InFlight(maker)' \subseteq InFlight(maker)
      BY <2>1 DEF ClientInv, ClientsSound, ClientSound, InFlight
    <3> QED
      BY <2>1, <3>1, Unconcerned
  <2>3. ClientsSound'
    BY <2>2 DEF ClientsSound
  <2>4. NetworkSound'
    <3>1. NetworkSound
      BY DEF ClientInv
    <3> QED
      BY <2>1, <3>1 DEF NetworkSound
  <2> QED
    BY <2>3, <2>4 DEF ClientInv
<1> QED
  BY <1>1, <1>2, <1>3, <1>4 DEF NextClients

LEMMA ClientInvHolds == SpecClients => []ClientInv
<1>1. SpecClients => []TypeOK /\ []LedgerInv /\ []ClientTyped
  BY ClientsImplement, TypeCorrect, LedgerHolds, PTL
<1>2. TypeOK /\ TypeOK' /\ ClientTyped /\ ClientInv /\ LedgerInv /\ [NextClients]_client_vars
          => ClientInv'
  BY ClientsStep
<1> QED
  BY <1>1, <1>2, InitClientInv, PTL DEF SpecClients

(* A network that delays, repeats and loses transactions, and clients that *)
(* retry as they please, never make one request deposit twice: for any     *)
(* number of clients, transactions and positions.                          *)
THEOREM LandsOnceCorrect == SpecClients => []DepositsLandOnce
<1>1. ClientInv => DepositsLandOnce
  BY DEF ClientInv, ClientsSound, ClientSound, WaitsSoundly, RestsSoundly, DepositsLandOnce
<1> QED
  BY <1>1, ClientInvHolds, PTL

(* And what a waiting client finds at the address it derived is its own    *)
(* request, at a weight within the tolerance of its last quote.            *)
THEOREM QuoteCorrect == SpecClients => []DepositIsAsQuoted
<1>1. ClientInv => DepositIsAsQuoted
  BY DEF ClientInv, ClientsSound, ClientSound, WaitsSoundly, DepositIsAsQuoted
<1> QED
  BY <1>1, ClientInvHolds, PTL
=============================================================================
