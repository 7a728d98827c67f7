-------------------------- MODULE ChubiPerpProofs --------------------------
(***************************************************************************)
(* The custody of the perpetual program, for any accounts, amounts, rates, *)
(* rent and bounds that satisfy the assumptions.  First what its           *)
(* arithmetic returns, then types, then the ledger: each instruction       *)
(* changes one position, so a sum over positions moves by what that one    *)
(* contributes, and what the books lose the vault pays out.                *)
(***************************************************************************)
EXTENDS ChubiPerp, FixedPointTheorems

LEMMA PerpScale ==
    /\ PRECISION \in Nat /\ PRECISION > 0
    /\ MIN_WEIGHT_FLOOR \in Nat /\ MIN_WEIGHT_FLOOR > 0 /\ MIN_WEIGHT_FLOOR < PRECISION
    /\ 0 \in Sides /\ 1 \in Sides /\ \A s \in Sides : s = 0 \/ s = 1
BY PerpMathAssumption DEF PRECISION, MIN_WEIGHT_FLOOR, Sides, NUM_SIDES

(* An entry weight lies between the floor and PRECISION.                   *)
LEMMA PerpEntryWeight ==
    ASSUME NEW elapsed \in Int
    PROVE  ComputeEntryWeight(elapsed) \in Weights /\ ComputeEntryWeight(elapsed) \in Nat
<1> DEFINE fraction == ((REFERENCE_WINDOW_SECS - elapsed) * PRECISION) \div REFERENCE_WINDOW_SECS
           squared  == (fraction * fraction) \div PRECISION
           range    == PRECISION - MIN_WEIGHT_FLOOR
           bonus    == (range * squared) \div PRECISION
<1>1. CASE elapsed > 0 /\ elapsed < REFERENCE_WINDOW_SECS
  <2>1. REFERENCE_WINDOW_SECS - elapsed \in Nat /\ REFERENCE_WINDOW_SECS \in Nat
        /\ REFERENCE_WINDOW_SECS > 0
    BY <1>1, PerpMathAssumption
  <2>2. fraction \in Nat
    <3>1. (REFERENCE_WINDOW_SECS - elapsed) * PRECISION \in Nat
      BY <2>1, PerpScale, ProductNat
    <3> QED
      BY <2>1, <3>1, DivBounds
  <2> HIDE DEF fraction
  <2>3. squared \in Nat
    BY <2>2, PerpScale, ProductNat, DivBounds
  <2> HIDE DEF squared
  <2>4. range \in Nat
    BY PerpScale
  <2> HIDE DEF range
  <2>5. bonus \in Nat
    BY <2>3, <2>4, PerpScale, ProductNat, DivBounds
  <2> HIDE DEF bonus
  <2>6. ComputeEntryWeight(elapsed) = LesserOf(PRECISION, MIN_WEIGHT_FLOOR + bonus)
    BY <1>1, PerpMathAssumption DEF ComputeEntryWeight, bonus, range, squared, fraction
  <2> QED
    BY <2>5, <2>6, PerpScale DEF LesserOf, Weights
<1>2. CASE ~ (elapsed > 0 /\ elapsed < REFERENCE_WINDOW_SECS)
  BY <1>2, PerpScale, PerpMathAssumption DEF ComputeEntryWeight, Weights
<1> QED
  BY <1>1, <1>2

-----------------------------------------------------------------------------
(* A quarter in the smaller pool is where the product of the smaller pool  *)
(* and the difference is largest for a given total.                        *)
LEMMA QuarterIsWorst ==
    ASSUME NEW x \in Nat, NEW y \in Nat
    PROVE  8 * (x * (y - x)) <= (x + y) * (x + y)
<1>1. \A z \in Int : z * z >= 0
  OBVIOUS
<1>2. y - 3 * x \in Int
  OBVIOUS
<1>3. (x + y) * (x + y) - 8 * (x * (y - x)) = (y - 3 * x) * (y - 3 * x)
  OBVIOUS
<1>4. (y - 3 * x) * (y - 3 * x) >= 0
  BY <1>1, <1>2
<1> QED
  BY <1>3, <1>4

LEMMA CancelFactor ==
    ASSUME NEW a \in Int, NEW b \in Int, NEW c \in Nat, c > 0, a * c <= b * c
    PROVE  a <= b
OBVIOUS

(* Funding is a natural and at most an eighth of the base rate on the      *)
(* total of the pools.                                                     *)
LEMMA FundingFacts ==
    ASSUME NEW amounts \in [Sides -> Nat]
    PROVE  /\ FundingWinner(amounts) \in Sides /\ 1 - FundingWinner(amounts) \in Sides
           /\ FundingWinner(amounts) # 1 - FundingWinner(amounts)
           /\ ComputeFunding(amounts) \in Nat
           /\ 8 * BPS_SCALE * ComputeFunding(amounts)
                  <= FUNDING_RATE_BPS * (amounts[0] + amounts[1])
<1> DEFINE w == FundingWinner(amounts)
           x == amounts[1 - w]
           y == amounts[w]
           t == amounts[0] + amounts[1]
           i == ImbalanceBps(amounts)
           f == ComputeFunding(amounts)
           r == FUNDING_RATE_BPS
<1>1. /\ w \in Sides /\ 1 - w \in Sides /\ w # 1 - w
      /\ x \in Nat /\ y \in Nat /\ x <= y /\ t = x + y /\ t \in Nat /\ r \in Nat
  BY PerpScale, PerpMathAssumption DEF FundingWinner
<1>2. CASE amounts[0] = 0 \/ amounts[1] = 0
  <2>1. f = 0
    BY <1>2 DEF ComputeFunding
  <2>2. r * t \in Nat
    BY <1>1, ProductNat
  <2> HIDE DEF f, r, t
  <2> QED
    BY <1>1, <2>1, <2>2 DEF BPS_SCALE, f, r, t
<1>3. CASE ~ (amounts[0] = 0 \/ amounts[1] = 0)
  <2>1. t > 0
    BY <1>1, <1>3, PerpScale
  <2>2. i = ((y - x) * 10000) \div t
    BY <1>1 DEF ImbalanceBps, BPS_SCALE
  <2>3. f = (x * r * i) \div 100000000
    BY <1>3 DEF ComputeFunding, BPS_SCALE
  <2> HIDE DEF w, x, y, t, i, f, r
  <2>4. i \in Nat /\ t * i <= (y - x) * 10000
    BY <1>1, <2>1, <2>2, DivBounds
  <2>5. x * r \in Nat /\ x * r * i \in Nat
    BY <1>1, <2>4, ProductNat
  <2>6. f \in Nat /\ 100000000 * f <= x * r * i
    BY <2>3, <2>5, DivBounds
  <2>7. (x * r) * (t * i) <= (x * r) * ((y - x) * 10000)
    <3>1. t * i \in Nat /\ (y - x) * 10000 \in Nat
      BY <1>1, <2>4, ProductNat
    <3> QED
      BY <2>4, <2>5, <3>1, ProductMonotone
  <2>8. (100000000 * f) * t <= (x * r * i) * t
    <3>1. 100000000 * f \in Nat
      BY <2>6
    <3> QED
      BY <1>1, <2>5, <2>6, <3>1, ProductMonotone
  <2>9. 10000 * (f * t) <= r * (x * (y - x))
    <3>1. (x * r * i) * t = (x * r) * (t * i)
      BY <1>1, <2>4
    <3>2. (x * r) * ((y - x) * 10000) = (r * (x * (y - x))) * 10000
      BY <1>1
    <3>3. (100000000 * f) * t = (10000 * (f * t)) * 10000
      BY <1>1, <2>6
    <3>4. r * (x * (y - x)) \in Int /\ 10000 * (f * t) \in Int
      BY <1>1, <2>6
    <3>5. (100000000 * f) * t <= (x * r) * ((y - x) * 10000)
      <4>1. /\ (100000000 * f) * t \in Int /\ (x * r * i) * t \in Int
            /\ (x * r) * ((y - x) * 10000) \in Int
        BY <1>1, <2>5, <2>6
      <4>2. (x * r * i) * t <= (x * r) * ((y - x) * 10000)
        BY <2>7, <3>1
      <4> QED
        BY <2>8, <4>1, <4>2
    <3>6. (10000 * (f * t)) * 10000 <= (r * (x * (y - x))) * 10000
      BY <3>2, <3>3, <3>5
    <3> QED
      BY <3>4, <3>6, CancelFactor
  <2>10. 8 * (r * (x * (y - x))) <= r * (t * t)
    <3>1. 8 * (x * (y - x)) <= t * t
      BY <1>1, QuarterIsWorst
    <3>2. 8 * (x * (y - x)) \in Nat /\ t * t \in Nat
      <4>1. y - x \in Nat
        BY <1>1
      <4>2. x * (y - x) \in Nat
        BY <1>1, <4>1, ProductNat
      <4> QED
        BY <1>1, <4>2, ProductNat
    <3>3. r * (8 * (x * (y - x))) <= r * (t * t)
      BY <1>1, <3>1, <3>2, ProductMonotone
    <3> QED
      BY <1>1, <3>3
  <2>11. (80000 * f) * t <= (r * t) * t
    <3>1. /\ (80000 * f) * t = 8 * (10000 * (f * t))
          /\ (r * t) * t = r * (t * t)
      BY <1>1, <2>6
    <3>2. f * t \in Nat /\ r * (x * (y - x)) \in Int /\ r * (t * t) \in Int
      BY <1>1, <2>6, ProductNat
    <3> QED
      BY <2>9, <2>10, <3>1, <3>2
  <2>12. 80000 * f <= r * t
    <3>1. 80000 * f \in Nat /\ r * t \in Nat
      BY <1>1, <2>6, ProductNat
    <3> QED
      BY <1>1, <2>1, <2>11, <3>1, CancelFactor
  <2> QED
    BY <1>1, <2>6, <2>12 DEF BPS_SCALE, w, x, y, t, f, r
<1> QED
  BY <1>2, <1>3

-----------------------------------------------------------------------------
(* The two fees are naturals and at most the profit.                       *)
LEMMA FeeFacts ==
    ASSUME NEW profit \in Nat, NEW a \in Nat, NEW b \in Nat, a + b <= BPS_SCALE
    PROVE  /\ FeeOn(profit, a) \in Nat /\ FeeOn(profit, b) \in Nat
           /\ FeeOn(profit, a) + FeeOn(profit, b) <= profit
<1> DEFINE u == (profit * a) \div 10000
           v == (profit * b) \div 10000
<1>1. profit * a \in Nat /\ profit * b \in Nat
  BY ProductNat
<1>2. /\ u \in Nat /\ v \in Nat
      /\ 10000 * u <= profit * a /\ 10000 * v <= profit * b
  BY <1>1, DivBounds
<1>3. profit * (a + b) <= profit * 10000
  BY ProductMonotone DEF BPS_SCALE
<1>4. profit * (a + b) = profit * a + profit * b
  OBVIOUS
<1> HIDE DEF u, v
<1>5. u + v <= profit
  BY <1>1, <1>2, <1>3, <1>4
<1> QED
  BY <1>2, <1>5 DEF FeeOn, BPS_SCALE, u, v

LEMMA CancelLess ==
    ASSUME NEW d \in Nat, NEW i \in Nat, NEW j \in Nat, d * i < d * j
    PROVE  i < j
<1>1. ASSUME j <= i
      PROVE  d * j <= d * i
  BY <1>1, ProductMonotone
<1> QED
  BY <1>1, ProductNat

(* The parts of a sum, each divided with truncation, add up to the divided *)
(* sum but for one.                                                        *)
LEMMA DivSum ==
    ASSUME NEW a \in Nat, NEW b \in Nat, NEW d \in Nat, d > 0
    PROVE  /\ (a \div d) + (b \div d) <= (a + b) \div d
           /\ (a + b) \div d <= (a \div d) + (b \div d) + 1
<1> DEFINE u == a \div d
           v == b \div d
           w == (a + b) \div d
<1>1. /\ u \in Nat /\ d * u <= a /\ a < d * u + d
      /\ v \in Nat /\ d * v <= b /\ b < d * v + d
      /\ w \in Nat /\ d * w <= a + b /\ a + b < d * w + d
  <2>1. a + b \in Nat
    OBVIOUS
  <2> QED
    BY <2>1, DivBounds
<1> HIDE DEF u, v, w
<1>2. /\ d * u \in Nat /\ d * v \in Nat /\ d * w \in Nat
      /\ d * (u + v) = d * u + d * v /\ d * (u + v + 2) = d * u + d * v + 2 * d
      /\ d * (w + 1) = d * w + d
  BY <1>1, ProductNat
<1>3. d * (u + v) < d * (w + 1) /\ d * w < d * (u + v + 2)
  BY <1>1, <1>2
<1>4. u + v < w + 1 /\ w < u + v + 2
  <2>1. u + v \in Nat /\ w + 1 \in Nat /\ u + v + 2 \in Nat
    BY <1>1
  <2> QED
    BY <1>1, <1>3, <2>1, CancelLess
<1> QED
  BY <1>1, <1>4 DEF u, v, w

(* If a payout of net is cut to x, the whole and the two fees scaled by    *)
(* x / net still add up, but for one.                                      *)
LEMMA ScaledParts ==
    ASSUME NEW net \in Nat, NEW x \in Nat, NEW pf \in Nat, NEW cf \in Nat, x < net
    PROVE  LET g == ((net + pf + cf) * x) \div net
               p == (pf * x) \div net
               c == (cf * x) \div net
           IN  /\ g \in Nat /\ p \in Nat /\ c \in Nat
               /\ x + p + c <= g /\ g <= x + p + c + 1
               /\ g <= net + pf + cf
<1> DEFINE g == ((net + pf + cf) * x) \div net
           p == (pf * x) \div net
           c == (cf * x) \div net
           r == ((pf + cf) * x) \div net
<1>1. /\ pf * x \in Nat /\ cf * x \in Nat /\ (pf + cf) * x \in Nat /\ net * x \in Nat
      /\ (net + pf + cf) * x \in Nat
      /\ (pf + cf) * x = pf * x + cf * x
      /\ (net + pf + cf) * x = net * x + (pf + cf) * x
  BY ProductNat
<1>2. p \in Nat /\ c \in Nat /\ r \in Nat /\ g \in Nat
  BY <1>1, DivBounds
<1>3. p + c <= r /\ r <= p + c + 1
  BY <1>1, DivSum
<1>4. g = x + r
  <2> DEFINE q == (pf + cf) * x
  <2>1. \A k \in Nat : (net * x + k) \div net = x + (k \div net)
    <3> TAKE k \in Nat
    <3>1. /\ k \div net \in Nat /\ net * (k \div net) <= k
          /\ k < net * (k \div net) + net
      BY DivBounds
    <3>2. /\ net * x + k \in Nat
          /\ (net * x + k) \div net \in Nat
          /\ net * ((net * x + k) \div net) <= net * x + k
          /\ net * x + k < net * ((net * x + k) \div net) + net
      BY <1>1, DivBounds
    <3> DEFINE a == (net * x + k) \div net
               b == x + (k \div net)
    <3>3. net * b = net * x + net * (k \div net) /\ a \in Nat /\ b \in Nat
      BY <3>1, <3>2
    <3>4. /\ net * a \in Nat /\ net * b \in Nat /\ net * (k \div net) \in Nat
          /\ net * (a + 1) = net * a + net /\ net * (b + 1) = net * b + net
      BY <3>1, <3>3, ProductNat
    <3>5. net * a < net * (b + 1) /\ net * b < net * (a + 1)
      BY <1>1, <3>1, <3>2, <3>3, <3>4
    <3>6. a < b + 1 /\ b < a + 1
      <4>1. a + 1 \in Nat /\ b + 1 \in Nat
        BY <3>3
      <4> HIDE DEF a, b
      <4> QED
        BY <3>3, <3>5, <4>1, CancelLess
    <3> HIDE DEF a, b
    <3>7. a = b
      BY <3>3, <3>6
    <3> QED
      BY <3>7 DEF a, b
  <2>2. g = (net * x + q) \div net /\ q \in Nat
    BY <1>1
  <2> HIDE DEF q, g
  <2>3. g = x + (q \div net)
    BY <2>1, <2>2
  <2> QED
    BY <2>3 DEF q
<1>5. r <= pf + cf
  <2>1. (pf + cf) * x <= (pf + cf) * net
    BY ProductMonotone
  <2> QED
    BY <1>1, <2>1, DivMonotone
<1> HIDE DEF g, p, c, r
<1>6. /\ g \in Nat /\ p \in Nat /\ c \in Nat
      /\ x + p + c <= g /\ g <= x + p + c + 1 /\ g <= net + pf + cf
  BY <1>2, <1>3, <1>4, <1>5
<1> QED
  BY <1>6 DEF g, p, c

-----------------------------------------------------------------------------
(* What exit_perpetual owes and pays to a position: naturals, in which the *)
(* net value and the fees make up the gross value, and the part that is    *)
(* paid leaves no more than a lamport of the books unaccounted for.        *)
LEMMA ExitTypes ==
    ASSUME TypeOK, NEW n \in Nonces
    PROVE  LET p == positions[n]
           IN  /\ p.side \in Sides /\ p.amount \in Nat /\ p.entry_weight \in Nat
               /\ p.amount * p.entry_weight \in Nat
               /\ Gross(p) \in Nat /\ ProtocolFee(p) \in Nat /\ CreatorFee(p) \in Nat
               /\ Net(p) \in Nat /\ Net(p) + ProtocolFee(p) + CreatorFee(p) = Gross(p)
               /\ Available \in Nat /\ Available <= vault
               /\ Payout(p) \in Nat /\ Payout(p) <= Net(p) /\ Payout(p) <= Available
               /\ Paid(p, Gross(p)) \in Nat /\ Paid(p, Gross(p)) <= Gross(p)
               /\ Paid(p, ProtocolFee(p)) \in Nat /\ Paid(p, CreatorFee(p)) \in Nat
               /\ Payout(p) + Paid(p, ProtocolFee(p)) + Paid(p, CreatorFee(p))
                      <= Paid(p, Gross(p))
               /\ Paid(p, Gross(p))
                      <= Payout(p) + Paid(p, ProtocolFee(p)) + Paid(p, CreatorFee(p)) + 1
<1> DEFINE p == positions[n]
<1>1. /\ p.side \in Sides /\ p.amount \in Nat /\ p.entry_weight \in Nat
      /\ pools[p.side] \in Nat /\ weighted_pools[p.side] \in Nat
      /\ vault \in Nat
  BY PerpScale DEF TypeOK, PositionType, Weights
<1> HIDE DEF p
<1>2. p.amount * p.entry_weight \in Nat
  BY <1>1, ProductNat
<1>3. Gross(p) \in Nat
  <2>1. p.amount * p.entry_weight * pools[p.side] \in Nat
    BY <1>1, <1>2, ProductNat
  <2>2. weighted_pools[p.side] # 0 =>
            (p.amount * p.entry_weight * pools[p.side]) \div weighted_pools[p.side] \in Nat
    BY <1>1, <2>1, DivBounds
  <2> QED
    BY <2>2 DEF Gross, ComputeExitValue
<1>4. Profit(p) \in Nat /\ Profit(p) <= Gross(p)
  BY <1>1, <1>3 DEF Profit, SatSub
<1>5. /\ ProtocolFee(p) \in Nat /\ CreatorFee(p) \in Nat
      /\ ProtocolFee(p) + CreatorFee(p) <= Profit(p)
  <2>1. /\ PROTOCOL_FEE_BPS \in Nat /\ CreatorFeeBps \in Nat
        /\ PROTOCOL_FEE_BPS + CreatorFeeBps <= BPS_SCALE
    BY PerpMathAssumption DEF CreatorFeeBps, BPS_SCALE
  <2> QED
    BY <1>4, <2>1, FeeFacts DEF ProtocolFee, CreatorFee
<1>6. Net(p) \in Nat /\ Net(p) + ProtocolFee(p) + CreatorFee(p) = Gross(p)
  BY <1>3, <1>4, <1>5 DEF Net
<1>7. Available \in Nat /\ Available <= vault
  BY <1>1, PerpAssumption DEF Available, SatSub
<1>8. Payout(p) \in Nat /\ Payout(p) <= Net(p) /\ Payout(p) <= Available
  BY <1>6, <1>7 DEF Payout, LesserOf
<1>9. /\ Paid(p, Gross(p)) \in Nat /\ Paid(p, Gross(p)) <= Gross(p)
      /\ Paid(p, ProtocolFee(p)) \in Nat /\ Paid(p, CreatorFee(p)) \in Nat
      /\ Payout(p) + Paid(p, ProtocolFee(p)) + Paid(p, CreatorFee(p)) <= Paid(p, Gross(p))
      /\ Paid(p, Gross(p))
             <= Payout(p) + Paid(p, ProtocolFee(p)) + Paid(p, CreatorFee(p)) + 1
  <2>1. CASE Payout(p) < Net(p)
    <3>1. \A due : Paid(p, due) = (due * Payout(p)) \div Net(p)
      BY <2>1 DEF Paid
    <3>2. Paid(p, Gross(p))
              = ((Net(p) + ProtocolFee(p) + CreatorFee(p)) * Payout(p)) \div Net(p)
      BY <1>6, <3>1
    <3> QED
      BY <1>5, <1>6, <1>8, <2>1, <3>1, <3>2, ScaledParts
  <2>2. CASE ~ (Payout(p) < Net(p))
    <3>1. Payout(p) = Net(p)
      BY <1>6, <1>8, <2>2
    <3>2. \A due : Paid(p, due) = due
      BY <2>2 DEF Paid
    <3> QED
      BY <1>3, <1>5, <1>6, <3>1, <3>2
  <2> QED
    BY <2>1, <2>2
<1> QED
  BY <1>1, <1>2, <1>3, <1>5, <1>6, <1>7, <1>8, <1>9 DEF p

-----------------------------------------------------------------------------
LEMMA PerpInitType == Init => TypeOK
<1> SUFFICES ASSUME Init PROVE TypeOK
  OBVIOUS
<1>1. /\ pools \in [Sides -> Nat] /\ weighted_pools \in [Sides -> Nat]
      /\ side_position_counts \in [Sides -> Nat] /\ first_deposit_at \in [Sides -> Nat]
  BY DEF Init, Zeros
<1>2. positions \in [Nonces -> PositionType]
  <2>1. NoPosition \in PositionType
    BY PerpScale DEF NoPosition, PositionType
  <2> QED
    BY <2>1 DEF Init
<1>3. creator_account \in [creator : Accounts \cup {NoKey}, fee_collected : Nat,
                            fee_claimed : Nat]
  BY DEF Init
<1>4. /\ clock \in Nat /\ launched \in BOOLEAN /\ is_closed \in BOOLEAN
      /\ authority \in Accounts \cup {NoKey}
      /\ created_at \in Nat /\ last_epoch_at \in Nat
  BY DEF Init
<1>5. /\ total_deposited \in Nat /\ total_exited \in Nat
      /\ position_count \in 0 .. MAX_POSITIONS
      /\ cumulative_funding_paid \in Nat /\ protocol_fee_collected \in Nat /\ vault \in Nat
  BY PerpAssumption DEF Init
<1> QED
  BY <1>1, <1>2, <1>3, <1>4, <1>5 DEF TypeOK

LEMMA PerpCreateType ==
    ASSUME TypeOK, NEW signer \in Accounts, NEW creator \in Accounts,
           CreatePerpMarket(signer, creator)
    PROVE  TypeOK'
<1>1. /\ pools' \in [Sides -> Nat] /\ weighted_pools' \in [Sides -> Nat]
      /\ side_position_counts' \in [Sides -> Nat] /\ first_deposit_at' \in [Sides -> Nat]
  BY DEF CreatePerpMarket, Zeros
<1>2. creator_account' \in [creator : Accounts \cup {NoKey}, fee_collected : Nat,
                             fee_claimed : Nat]
  BY DEF CreatePerpMarket
<1>3. /\ clock' \in Nat /\ launched' \in BOOLEAN /\ is_closed' \in BOOLEAN
      /\ authority' \in Accounts \cup {NoKey}
      /\ created_at' \in Nat /\ last_epoch_at' \in Nat
  BY DEF CreatePerpMarket, TypeOK
<1>4. /\ total_deposited' \in Nat /\ total_exited' \in Nat
      /\ position_count' \in 0 .. MAX_POSITIONS
      /\ cumulative_funding_paid' \in Nat /\ protocol_fee_collected' \in Nat
  BY PerpAssumption DEF CreatePerpMarket
<1>5. vault' \in Nat /\ positions' \in [Nonces -> PositionType]
  BY DEF CreatePerpMarket, TypeOK
<1> QED
  BY <1>1, <1>2, <1>3, <1>4, <1>5 DEF TypeOK

LEMMA PerpDepositType ==
    ASSUME TypeOK, NEW maker \in Accounts, NEW side \in Sides, NEW amount \in Amounts,
           Deposit(maker, side, amount)
    PROVE  TypeOK'
<1> DEFINE weight == ComputeEntryWeight(clock - created_at)
           p == [live |-> TRUE, maker |-> maker, side |-> side, amount |-> amount,
                 entry_weight |-> weight]
<1>1. amount \in Nat
  BY PerpAssumption
<1>2. weight \in Weights /\ weight \in Nat
  <2>1. clock - created_at \in Int
    BY DEF TypeOK
  <2> QED
    BY <2>1, PerpEntryWeight
<1> HIDE DEF weight
<1>3. p \in PositionType
  BY <1>1, <1>2 DEF PositionType
<1>4. amount * weight \in Nat
  BY <1>1, <1>2, ProductNat
<1>5. /\ pools' \in [Sides -> Nat] /\ weighted_pools' \in [Sides -> Nat]
      /\ side_position_counts' \in [Sides -> Nat] /\ first_deposit_at' \in [Sides -> Nat]
  BY <1>1, <1>4 DEF Deposit, TypeOK, weight
<1>6. positions' \in [Nonces -> PositionType]
  <2>1. positions' = [positions EXCEPT ![position_count] = p]
    BY DEF Deposit, p, weight
  <2> QED
    BY <1>3, <2>1 DEF TypeOK
<1>7. /\ position_count' \in 0 .. MAX_POSITIONS /\ vault' \in Nat /\ total_deposited' \in Nat
  BY <1>1, PerpAssumption DEF Deposit, TypeOK
<1> QED
  BY <1>5, <1>6, <1>7 DEF Deposit, TypeOK, launch_vars, epoch_vars, fee_vars

(* What crank_epoch moves.                                                 *)
LEMMA CrankFacts ==
    ASSUME TypeOK
    PROVE  LET funding == ComputeFunding(pools)
               rebate  == LesserOf(CrankerRebate(funding), Available)
           IN  /\ rebate \in Nat /\ rebate <= funding
               /\ Available \in Nat /\ rebate <= Available /\ Available <= vault
               /\ Credit(funding, rebate) = funding - rebate
               /\ Credit(funding, rebate) \in Nat
<1> DEFINE funding == ComputeFunding(pools)
           rebate  == LesserOf(CrankerRebate(funding), Available)
<1>1. funding \in Nat /\ vault \in Nat
  BY FundingFacts DEF TypeOK
<1> HIDE DEF funding
<1>2. Available \in Nat /\ Available <= vault
  BY <1>1, PerpAssumption DEF Available, SatSub
<1>3. CrankerRebate(funding) \in Nat /\ CrankerRebate(funding) <= funding
  <2>1. CRANKER_REBATE_BPS \in Nat /\ CRANKER_REBATE_BPS <= 10000
    BY PerpMathAssumption DEF BPS_SCALE
  <2>2. funding * CRANKER_REBATE_BPS \in Nat /\ funding * CRANKER_REBATE_BPS <= funding * 10000
    BY <1>1, <2>1, ProductNat, ProductMonotone
  <2> QED
    BY <1>1, <2>2, DivBounds, DivMonotone DEF CrankerRebate, BPS_SCALE
<1>4. /\ rebate \in Nat /\ rebate <= funding /\ rebate <= Available
  BY <1>1, <1>2, <1>3 DEF LesserOf
<1> QED
  BY <1>1, <1>2, <1>4 DEF Credit, funding

LEMMA PerpCrankType ==
    ASSUME TypeOK, CrankEpoch
    PROVE  TypeOK'
<1> DEFINE funding == ComputeFunding(pools)
           winner  == FundingWinner(pools)
           rebate  == LesserOf(CrankerRebate(funding), Available)
<1>1. /\ winner \in Sides /\ 1 - winner \in Sides /\ winner # 1 - winner
      /\ funding \in Nat
  BY FundingFacts DEF TypeOK
<1>2. /\ rebate \in Nat /\ rebate <= vault /\ Credit(funding, rebate) \in Nat
  <2>1. vault \in Nat
    BY DEF TypeOK
  <2> QED
    BY <2>1, CrankFacts
<1>3. /\ funding <= pools[1 - winner]
      /\ pools' = [pools EXCEPT ![1 - winner] = @ - funding,
                                ![winner] = @ + Credit(funding, rebate)]
      /\ vault' = vault - rebate
      /\ cumulative_funding_paid' = cumulative_funding_paid + funding
      /\ last_epoch_at' = clock
  BY DEF CrankEpoch
<1> HIDE DEF funding, winner, rebate
<1>4. pools' \in [Sides -> Nat]
  BY <1>1, <1>2, <1>3 DEF TypeOK
<1>5. vault' \in Nat /\ cumulative_funding_paid' \in Nat /\ last_epoch_at' \in Nat
  BY <1>1, <1>2, <1>3 DEF TypeOK
<1> QED
  BY <1>4, <1>5 DEF CrankEpoch, TypeOK, launch_vars, share_vars, entry_vars, fee_vars

LEMMA PerpExitType ==
    ASSUME TypeOK, NEW maker \in Accounts, NEW n \in Nonces, ExitPerpetual(maker, n)
    PROVE  TypeOK'
<1> DEFINE p == positions[n]
<1>1. /\ p.side \in Sides /\ p.amount * p.entry_weight \in Nat
      /\ Payout(p) \in Nat /\ Payout(p) <= vault
      /\ Paid(p, Gross(p)) \in Nat
      /\ Paid(p, ProtocolFee(p)) \in Nat /\ Paid(p, CreatorFee(p)) \in Nat
  <2>1. vault \in Nat
    BY DEF TypeOK
  <2> QED
    BY <2>1, ExitTypes
<1>2. /\ vault' = vault - Payout(p)
      /\ pools' = [pools EXCEPT ![p.side] = SatSub(@, Paid(p, Gross(p)))]
      /\ weighted_pools' = [weighted_pools EXCEPT ![p.side] = RemainingShares(@, p)]
      /\ side_position_counts' = [side_position_counts EXCEPT ![p.side] = SatSub(@, 1)]
      /\ total_exited' = total_exited + Payout(p)
      /\ protocol_fee_collected' = protocol_fee_collected + Paid(p, ProtocolFee(p))
      /\ creator_account' = [creator_account EXCEPT
             !.fee_collected = @ + Paid(p, CreatorFee(p))]
      /\ positions' = [positions EXCEPT ![n] = NoPosition]
  BY DEF ExitPerpetual
<1> HIDE DEF p
<1>3. /\ pools' \in [Sides -> Nat] /\ weighted_pools' \in [Sides -> Nat]
      /\ side_position_counts' \in [Sides -> Nat]
  BY <1>1, <1>2 DEF TypeOK, SatSub, RemainingShares
<1>4. /\ vault' \in Nat /\ total_exited' \in Nat /\ protocol_fee_collected' \in Nat
      /\ creator_account' \in [creator : Accounts \cup {NoKey}, fee_collected : Nat,
                               fee_claimed : Nat]
  BY <1>1, <1>2 DEF TypeOK
<1>5. positions' \in [Nonces -> PositionType]
  <2>1. NoPosition \in PositionType
    BY PerpScale DEF NoPosition, PositionType
  <2> QED
    BY <1>2, <2>1 DEF TypeOK
<1> QED
  BY <1>3, <1>4, <1>5 DEF ExitPerpetual, TypeOK, launch_vars, epoch_vars, entry_vars

(* The fee sweeps leave naturals behind.                                   *)
LEMMA PerpSweepType ==
    ASSUME TypeOK, NEW signer \in Accounts,
           CollectFees(signer) \/ ClaimCreatorFees(signer)
    PROVE  TypeOK'
<1>1. /\ vault \in Nat /\ protocol_fee_collected \in Nat
      /\ creator_account.fee_collected \in Nat /\ creator_account.fee_claimed \in Nat
  BY DEF TypeOK
<1>2. Available \in Nat /\ Available <= vault
  BY <1>1, PerpAssumption DEF Available, SatSub
<1>3. CASE CollectFees(signer)
  BY <1>1, <1>2, <1>3
  DEF CollectFees, SweptFees, LesserOf, SatSub, TypeOK, launch_vars, epoch_vars, share_vars,
      entry_vars
<1>4. CASE ClaimCreatorFees(signer)
  <2> DEFINE actual == LesserOf(creator_account.fee_collected, Available)
  <2>1. actual \in Nat /\ actual <= creator_account.fee_collected /\ actual <= vault
    BY <1>1, <1>2 DEF LesserOf
  <2>2. /\ vault' = vault - actual
        /\ creator_account' = [creator_account EXCEPT !.fee_collected = @ - actual,
                                                      !.fee_claimed = @ + actual]
    BY <1>4 DEF ClaimCreatorFees
  <2> HIDE DEF actual
  <2>3. creator_account' \in [creator : Accounts \cup {NoKey}, fee_collected : Nat,
                               fee_claimed : Nat]
    <3>1. creator_account \in [creator : Accounts \cup {NoKey}, fee_collected : Nat,
                               fee_claimed : Nat]
      BY DEF TypeOK
    <3> DEFINE owed    == creator_account.fee_collected - actual
               claimed == creator_account.fee_claimed + actual
    <3>2. owed \in Nat /\ claimed \in Nat
      BY <1>1, <2>1
    <3>3. creator_account' = [[creator_account EXCEPT !.fee_collected = owed]
                                               EXCEPT !.fee_claimed = claimed]
      BY <2>2, <3>1
    <3> HIDE DEF owed, claimed
    <3> QED
      BY <3>1, <3>2, <3>3
  <2>4. vault' \in Nat
    BY <1>1, <2>1, <2>2
  <2> QED
    BY <1>4, <2>3, <2>4
    DEF ClaimCreatorFees, TypeOK, launch_vars, epoch_vars, share_vars, entry_vars
<1> QED
  BY <1>3, <1>4

LEMMA PerpTypeStep ==
    ASSUME TypeOK, [Next]_vars
    PROVE  TypeOK'
<1>1. CASE Tick
  BY <1>1 DEF Tick, TypeOK, launch_vars, epoch_vars, share_vars, entry_vars, fee_vars
<1>2. CASE MakerStep
  BY <1>2, PerpDepositType, PerpExitType DEF MakerStep
<1>3. CASE CrankEpoch
  BY <1>3, PerpCrankType
<1>4. CASE AuthorityStep
  <2>1. ASSUME NEW signer \in Accounts, ClosePerpMarket(signer)
        PROVE  TypeOK'
    BY <2>1 DEF ClosePerpMarket, TypeOK, launch_vars, epoch_vars, share_vars, entry_vars, fee_vars
  <2> QED
    BY <1>4, <2>1, PerpCreateType, PerpSweepType DEF AuthorityStep
<1>5. CASE UNCHANGED vars
  BY <1>5 DEF vars, TypeOK, launch_vars, epoch_vars, share_vars, entry_vars, fee_vars
<1> QED
  BY <1>1, <1>2, <1>3, <1>4, <1>5 DEF Next

(* The fields of the perpetual's accounts keep their types: no pool, fee   *)
(* or balance goes below zero and every weight is between the floor and    *)
(* PRECISION.                                                              *)
THEOREM PerpTypeCorrect == Spec => []TypeOK
<1>1. TypeOK /\ [Next]_vars => TypeOK'
  BY PerpTypeStep
<1> QED
  BY <1>1, PerpInitType, PTL DEF Spec
=============================================================================
