---------------------------- MODULE Mmcm_proofs ----------------------------
(***************************************************************************)
(* Lemmas about the functions of Mmcm, for every frequency and reference   *)
(* clock: the candidates of find_mode are modes the clock manager has, its *)
(* 32-bit arithmetic does not wrap, the registers of a mode hold what was  *)
(* put into them, find_mode picks a best candidate, and asked for the      *)
(* frequency it answered it answers the same.                              *)
(***************************************************************************)
EXTENDS Mmcm, WellFoundedInduction, TLAPS

-----------------------------------------------------------------------------
(* What matters of the limits *)

\* The limits are natural numbers, and none that divides is 0.
LEMMA Limits ==
  /\ VCOMIN \in Nat /\ VCOMAX \in Nat
  /\ PFDMIN \in Nat \ {0} /\ PFDMAX \in Nat
  /\ OUTMIN \in Nat \ {0} /\ OUTMAX \in Nat /\ OUTMIN <= OUTMAX
  BY SMT DEF VCOMIN, VCOMAX, PFDMIN, PFDMAX, OUTMIN, OUTMAX

\* The limits in numbers, apart from the small ones: not every prover takes
\* large numerals.
LEMMA LargeLimits ==
  OUTMIN = 4000 /\ OUTMAX = 800000 /\ VCOMIN = 600000 /\ VCOMAX = 1200000
  BY SMT DEF OUTMIN, OUTMAX, VCOMIN, VCOMAX

\* The small limits.
LEMMA SmallLimits ==
  DIVMAX = 106 /\ FBMIN = 2 /\ FBMAX = 64 /\ CLKDIVMIN = 1 /\ CLKDIVMAX = 128
  BY DEF DIVMAX, FBMIN, FBMAX, CLKDIVMIN, CLKDIVMAX

-----------------------------------------------------------------------------
(* Arithmetic *)

\* Division rounds down.
LEMMA DivFloor ==
  ASSUME NEW n \in Nat, NEW k \in Nat \ {0}
  PROVE  n \div k \in Nat /\ k * (n \div k) <= n /\ n < k * (n \div k) + k
  <1>1. n = k * (n \div k) + (n % k) /\ n % k \in 0 .. k - 1
    BY Z3
  <1> QED
    BY <1>1, Z3

\* The lower half of DivFloor.
LEMMA DivBounds ==
  ASSUME NEW n \in Nat, NEW k \in Nat \ {0}
  PROVE  n \div k \in Nat /\ k * (n \div k) <= n
  <1>1. n = k * (n \div k) + (n % k) /\ n % k \in 0 .. k - 1
    BY Z3
  <1> QED
    BY <1>1, Z3

\* A factor keeps an inequality.
LEMMA MulMono ==
  ASSUME NEW a \in Nat, NEW b \in Nat, NEW k \in Nat, a <= b
  PROVE  k * a <= k * b
  <1>1. PICK c \in Nat : b = a + c
    <2>1. b - a \in Nat /\ b = a + (b - a)
      OBVIOUS
    <2> QED BY <2>1
  <1>2. k * b = k * a + k * c
    BY <1>1, Z3
  <1>3. k * c \in Nat /\ k * a \in Nat
    BY Z3
  <1> QED BY <1>2, <1>3

\* A common factor of an inequality can be left out.
LEMMA LessFactor ==
  ASSUME NEW a \in Nat, NEW b \in Nat, NEW k \in Nat, k * a < k * b
  PROVE  a < b
  <1>1. ASSUME b <= a PROVE FALSE
    <2>1. k * b <= k * a
      BY <1>1, MulMono
    <2>2. k * a \in Nat /\ k * b \in Nat
      BY Z3
    <2> QED BY <2>1, <2>2
  <1> QED BY <1>1

\* DivRoundUp(n, k) is the least multiple of k that reaches n, in units of k.
LEMMA RoundUpReaches ==
  ASSUME NEW n \in Nat, NEW k \in Nat \ {0}
  PROVE  DivRoundUp(n, k) \in Nat /\ n <= k * DivRoundUp(n, k)
  <1> DEFINE m == n + k - 1
  <1>1. m \in Nat
    OBVIOUS
  <1>2. m = k * (m \div k) + (m % k) /\ m % k \in 0 .. k - 1 /\ m \div k \in Nat
    BY <1>1, Z3
  <1>3. k * (m \div k) \in Nat
    BY <1>2, Z3
  <1>4. n <= k * (m \div k)
    BY <1>2, <1>3
  <1> QED BY <1>2, <1>4 DEF DivRoundUp

-----------------------------------------------------------------------------
(* Every candidate is within the limits *)

\* The frequency of a mode is a number.
LEMMA OutputType ==
  ASSUME NEW p \in Nat, NEW div \in Nat \ {0}, NEW fb \in Nat,
         NEW clkdiv \in Nat \ {0}
  PROVE  Output(p, div, fb, clkdiv) \in Nat
  <1>1. p * fb \in Nat
    BY Z3
  <1>2. (p * fb) \div div \in Nat
    BY <1>1, DivBounds
  <1> QED BY <1>2, DivBounds DEF Output

\* A clamped number is in the range.
LEMMA ClampRange ==
  ASSUME NEW n \in Int, NEW lo \in Int, NEW hi \in Int, lo <= hi
  PROVE  Clamp(n, lo, hi) \in lo .. hi
  BY DEF Clamp

\* The output divider tried is one the clock manager has.
LEMMA ClkDivRange ==
  ASSUME NEW f \in Nat \ {0}, NEW p \in Nat, NEW div \in Nat \ {0}, NEW fb \in Nat
  PROVE  ClkDiv(f, p, div, fb) \in CLKDIVMIN .. CLKDIVMAX
  <1> DEFINE divVal == div * f
             n      == p * 1000 + divVal \div 2
             mult   == n \div divVal
  <1>1. divVal \in Nat \ {0}
    BY Z3
  <1>2. n \in Nat
    BY <1>1
  <1>3. mult \in Nat
    BY <1>1, <1>2, DivBounds
  <1>4. mult * fb \in Nat
    BY <1>3, Z3
  <1>5. (mult * fb + 500) \div 1000 \in Int
    BY <1>4
  <1>6. ClkDiv(f, p, div, fb) =
          Clamp((mult * fb + 500) \div 1000, CLKDIVMIN, CLKDIVMAX)
    BY Zenon DEF ClkDiv
  <1>7. CLKDIVMIN \in Int /\ CLKDIVMAX \in Int /\ CLKDIVMIN <= CLKDIVMAX
    BY SmallLimits
  <1> DEFINE ratio == (mult * fb + 500) \div 1000
  <1>8. ratio \in Int
    BY <1>5
  <1> HIDE DEF ratio, mult
  <1>9. Clamp(ratio, CLKDIVMIN, CLKDIVMAX) \in CLKDIVMIN .. CLKDIVMAX
    BY <1>7, <1>8, ClampRange
  <1> QED BY <1>6, <1>9, Zenon DEF ratio

\* The range of the outer loop keeps the phase detector within its limits.
LEMMA DividerLegal ==
  ASSUME NEW p \in Nat \ {0}, NEW div \in Nat,
         FirstDiv(p) <= div, div <= MaxDiv(p)
  PROVE  /\ div \in 1 .. DIVMAX
         /\ PFDMIN * div <= p
         /\ p <= 2 * PFDMAX => p <= PFDMAX * div
  <1>1. p \div 10000 \in Nat /\ 10000 * (p \div 10000) <= p
    BY SMT
  <1> QED BY <1>1, SMT DEF FirstDiv, MaxDiv, DIVMAX, PFDMIN, PFDMAX

\* The range of the inner loop keeps the VCO within its limits.
LEMMA FeedbackLegal ==
  ASSUME NEW p \in Nat \ {0}, NEW div \in Nat \ {0}, NEW fb \in Nat,
         MinFb(p, div) <= fb, fb <= MaxFb(p, div)
  PROVE  /\ fb \in FBMIN .. FBMAX
         /\ VCOMIN * div <= p * fb
         /\ p * fb <= VCOMAX * div
  <1> DEFINE lo == DivRoundUp(VCOMIN, p)
             hi == VCOMAX \div p
  <1>1. lo \in Nat /\ VCOMIN <= p * lo
    BY Limits, RoundUpReaches
  <1>2. hi \in Nat /\ p * hi <= VCOMAX
    BY Limits, DivBounds
  <1>3. div * lo \in Nat /\ div * hi \in Nat /\ p * lo \in Nat /\ p * hi \in Nat
    BY <1>1, <1>2, Z3
  <1>4. /\ div * lo <= fb /\ fb <= div * hi
        /\ fb \in FBMIN .. FBMAX
    BY <1>3, SmallLimits DEF MinFb, MaxFb
  <1> HIDE DEF lo, hi
  <1>5. VCOMIN * div <= p * fb
    <2>1. div * VCOMIN <= div * (p * lo)
      BY <1>1, <1>3, Limits, MulMono
    <2>2. p * (div * lo) <= p * fb
      BY <1>3, <1>4, MulMono
    <2>3. div * (p * lo) = p * (div * lo)
      BY <1>1, Z3
    <2>4. p * fb \in Nat /\ div * (p * lo) \in Nat /\ div * VCOMIN = VCOMIN * div
          /\ div * VCOMIN \in Nat
      BY <1>1, <1>3, Limits, Z3
    <2> QED BY <2>1, <2>2, <2>3, <2>4
  <1>6. p * fb <= VCOMAX * div
    <2>1. div * (p * hi) <= div * VCOMAX
      BY <1>2, <1>3, Limits, MulMono
    <2>2. p * fb <= p * (div * hi)
      BY <1>3, <1>4, MulMono
    <2>3. div * (p * hi) = p * (div * hi)
      BY <1>2, Z3
    <2>4. p * fb \in Nat /\ div * (p * hi) \in Nat /\ div * VCOMAX = VCOMAX * div
          /\ div * VCOMAX \in Nat
      BY <1>2, <1>3, Limits, Z3
    <2> QED BY <2>1, <2>2, <2>3, <2>4
  <1> QED BY <1>4, <1>5, <1>6

\* What the ranges of the two loops make of a mode: it exists, and oscillator and
\* phase detector are in range, but that the first divider tried, at most 2, is
\* large enough for the detector only up to a reference of twice its maximum.
WithinLoops(p, m) ==
  /\ ModeExists(m)
  /\ VcoInRange(p, m)
  /\ PFDMIN * m.maindiv <= p
  /\ p <= 2 * PFDMAX => PfdInRange(p, m)

\* Every pair in the ranges of the two loops gives such a mode.
LEMMA CandidateLegal ==
  ASSUME NEW f \in Nat \ {0}, NEW p \in Nat \ {0}, NEW div \in Nat, NEW fb \in Nat,
         FirstDiv(p) <= div, div <= MaxDiv(p),
         MinFb(p, div) <= fb, fb <= MaxFb(p, div)
  PROVE  LET c == Candidate(f, p, div, fb)
         IN  /\ WithinLoops(p, c)
             /\ c.freq = Output(p, c.maindiv, c.fbmult, c.clkdiv)
             /\ c \in Modes
  <1>1. /\ div \in 1 .. DIVMAX
        /\ PFDMIN * div <= p
        /\ p <= 2 * PFDMAX => p <= PFDMAX * div
    BY DividerLegal
  <1>2. div \in Nat \ {0}
    BY <1>1
  <1>3. /\ fb \in FBMIN .. FBMAX
        /\ VCOMIN * div <= p * fb
        /\ p * fb <= VCOMAX * div
    BY <1>2, FeedbackLegal
  <1>4. ClkDiv(f, p, div, fb) \in CLKDIVMIN .. CLKDIVMAX
    BY <1>2, ClkDivRange
  <1>5. Output(p, div, fb, ClkDiv(f, p, div, fb)) \in Nat
    <2>1. ClkDiv(f, p, div, fb) \in Nat \ {0}
      BY <1>4, SmallLimits
    <2> QED BY <1>2, <2>1, OutputType
  <1>6. /\ fb \in 0 .. FBMAX
        /\ ClkDiv(f, p, div, fb) \in 0 .. CLKDIVMAX
        /\ div \in 0 .. DIVMAX
    BY <1>1, <1>3, <1>4 DEF FBMIN, FBMAX, CLKDIVMIN, CLKDIVMAX, DIVMAX
  <1> QED BY <1>1, <1>3, <1>4, <1>5, <1>6, Zenon
     DEF Candidate, WithinLoops, ModeExists, VcoInRange, PfdInRange, Modes

-----------------------------------------------------------------------------
(* The width of the integers: the driver computes in u32, the model in Int *)

U32 == 4294967296

\* No product, sum or quotient of find_mode's loops wraps, for a reference
\* clock that has candidates.
THEOREM ArithmeticFits ==
  ASSUME NEW f \in Nat, OUTMIN <= f, f <= OUTMAX, NEW p \in Nat, p <= VCOMAX,
         NEW div \in 1 .. DIVMAX, NEW fb \in FBMIN .. FBMAX
  PROVE  LET divVal == div * f
             n      == p * 1000 + divVal \div 2
             mult   == n \div divVal
         IN  /\ divVal \in Nat \ {0} /\ divVal < U32
             /\ n \in Nat /\ n < U32
             /\ mult * fb + 500 \in Nat /\ mult * fb + 500 < U32
             /\ p * fb \in Nat /\ p * fb < U32
  <1> DEFINE divVal == div * f
             n      == p * 1000 + divVal \div 2
             mult   == n \div divVal
  <1>1. /\ f \in Nat /\ 4000 <= f /\ f <= 800000 /\ p <= 1200000
        /\ div \in Nat /\ 1 <= div /\ div <= 106
        /\ fb \in Nat /\ 2 <= fb /\ fb <= 64
    <2>1. div \in 1 .. 106 /\ fb \in 2 .. 64
      BY SmallLimits, Zenon
    <2> QED BY <2>1, LargeLimits, SMT
  <1>2. divVal \in Nat /\ 4000 <= divVal /\ divVal <= 84800000
    BY <1>1, SMT
  <1> HIDE DEF divVal
  <1>3. n \in Nat /\ n <= 1242400000
    BY <1>1, <1>2, SMT
  <1> HIDE DEF n
  <1>4. mult \in Nat /\ divVal * mult <= n
    BY <1>2, <1>3, SMT, DivBounds
  <1> HIDE DEF mult
  <1>5. mult <= 310600
    <2>1. 4000 * mult <= divVal * mult
      BY <1>2, <1>4, SMT
    <2>2. divVal * mult \in Nat
      BY <1>2, <1>4, SMT
    <2> QED BY <1>3, <1>4, <2>1, <2>2, SMT
  <1>6. mult * fb \in Nat /\ mult * fb <= 310600 * 64
    BY <1>1, <1>4, <1>5, SMT
  <1>7. p * fb \in Nat /\ p * fb <= 1200000 * 64
    BY <1>1, SMT
  <1>8. /\ divVal \in Nat \ {0} /\ divVal < U32
        /\ n \in Nat /\ n < U32
        /\ mult * fb + 500 \in Nat /\ mult * fb + 500 < U32
        /\ p * fb \in Nat /\ p * fb < U32
    BY <1>2, <1>3, <1>6, <1>7, SMT DEF U32
  <1> HIDE DEF U32
  <1> QED BY <1>8, SMT DEF divVal, n, mult

\* For any other reference clock no candidate is tried, wrapped or not.
LEMMA NoCandidateAbove ==
  ASSUME NEW p \in Nat, p > VCOMAX, NEW div \in Nat
  PROVE  MaxFb(p, div) < MinFb(p, div)
  <1>1. 0 = VCOMAX \div p
    BY SMT DEF VCOMAX
  <1>2. MaxFb(p, div) = 0
    BY <1>1, SMT DEF MaxFb, FBMAX
  <1>3. MinFb(p, div) >= 2
    <2>1. DivRoundUp(VCOMIN, p) \in Nat
      BY Limits, RoundUpReaches
    <2>2. div * DivRoundUp(VCOMIN, p) \in Nat
      BY <2>1, Z3
    <2> QED BY <2>2, SMT DEF MinFb, FBMIN
  <1>4. MinFb(p, div) \in Int
    <2>1. DivRoundUp(VCOMIN, p) \in Nat
      BY Limits, RoundUpReaches
    <2>2. div * DivRoundUp(VCOMIN, p) \in Nat
      BY <2>1, Z3
    <2> QED BY <2>2, SMT DEF MinFb, FBMIN
  <1> QED BY <1>2, <1>3, <1>4, SMT

-----------------------------------------------------------------------------
(* The registers hold what was put into them *)

\* Every divider the clock manager has fits in a counter and is read back.
LEMMA DividerRoundTrip ==
  ASSUME NEW d \in 1 .. 128
  PROVE  /\ Divider(d) \in Nat /\ Divider(d) < 16384
         /\ Divider(d) # ERR_CLKDIVIDER
         /\ DividerOf(Divider(d)) = d
  <1>1. CASE d = 1
    BY <1>1, SMT DEF Divider, DividerOf, Counter, ERR_CLKDIVIDER, WEDGE, NOCOUNT
  <1>2. CASE d # 1
    <2> DEFINE high == d \div 2
               odd  == d % 2
               low  == high + odd
               x    == odd * 8192 + (low % 64) + 64 * (high % 64)
    <2>1. high \in 1 .. 64 /\ odd \in 0 .. 1 /\ d = 2 * high + odd
      BY <1>2, SMT
    <2>2. low \in 1 .. 64
      BY <2>1, SMT
    <2>3. /\ high % 64 = IF high = 64 THEN 0 ELSE high
          /\ low % 64 = IF low = 64 THEN 0 ELSE low
      BY <2>1, <2>2, SMT
    <2>4. Divider(d) = x
      BY <1>2, <2>1, <2>2, SMT DEF Divider, WEDGE
    <2>5. /\ x % 64 = low % 64
          /\ (x \div 64) % 64 = high % 64
          /\ (x \div 4096) % 2 = 0
          /\ x \in Nat /\ x < 12288
      BY <2>1, <2>2, <2>3, SMT
    <2>6. Ticks(low % 64) = low /\ Ticks(high % 64) = high
      BY <2>1, <2>2, <2>3, SMT DEF Ticks
    <2> HIDE DEF x
    <2>7. DividerOf(x) = Ticks(low % 64) + Ticks(high % 64)
      BY <2>5, SMT DEF DividerOf, Counter
    <2>8. low + high = d
      BY <2>1, SMT
    <2>9. x # ERR_CLKDIVIDER
      BY <2>5, SMT DEF ERR_CLKDIVIDER, WEDGE, NOCOUNT
    <2>10. x \in Nat /\ x < 16384
      BY <2>5, SMT
    <2> HIDE DEF low, high
    <2> QED BY <2>4, <2>6, <2>7, <2>8, <2>9, <2>10, SMT
  <1> QED BY <1>1, <1>2, SMT

\* ... also in the layout of the output and feedback counters.
LEMMA CountRoundTrip ==
  ASSUME NEW d \in 1 .. 128
  PROVE  CountCalc(d) # ERR_CLKCOUNTCALC /\ CountOf(CountCalc(d)) = d
  <1> DEFINE x == Divider(d)
             y == (x % 4096) + 4194304 * ((x \div 4096) % 4)
  <1>1. x \in Nat /\ x < 16384 /\ x # ERR_CLKDIVIDER /\ DividerOf(x) = d
    BY DividerRoundTrip, SMT
  <1>2. CountCalc(d) = y
    BY <1>1, SMT DEF CountCalc
  <1> HIDE DEF x
  <1> DEFINE lo == x % 4096
             hi == x \div 4096
  <1>3. lo \in Nat /\ lo < 4096 /\ hi \in 0 .. 3 /\ x = lo + 4096 * hi
    BY <1>1, SMT
  <1>4. y = lo + 4194304 * hi
    BY <1>3, SMT
  <1> HIDE DEF lo, hi, y
  <1>5. x \div 4096 = hi /\ x % 64 = lo % 64 /\ (x \div 64) % 64 = (lo \div 64) % 64
    BY <1>3, SMT
  <1>6. y \div 4194304 = hi /\ y % 64 = lo % 64 /\ (y \div 64) % 64 = (lo \div 64) % 64
    BY <1>3, <1>4, SMT
  <1>7. CountOf(y) = DividerOf(x)
    BY <1>5, <1>6, SMT DEF CountOf, DividerOf, Counter
  <1>8. y # ERR_CLKCOUNTCALC
    BY <1>3, <1>4, SMT DEF ERR_CLKCOUNTCALC
  <1> QED BY <1>1, <1>2, <1>7, <1>8, SMT

\* Whatever mode the clock manager has, find_reg succeeds and the clock manager
\* runs at the mode's frequency.
THEOREM ModesHaveRegisters ==
  ASSUME NEW p \in Nat, NEW m, ModeExists(m)
  PROVE  /\ ~FindReg(m).error
         /\ RunsAt(p, FindReg(m)) = Output(p, m.maindiv, m.fbmult, m.clkdiv)
  <1>1. m.fbmult \in 2 .. 64 /\ m.clkdiv \in 1 .. 128 /\ m.maindiv \in 1 .. 106
    BY DEF ModeExists, FBMIN, FBMAX, CLKDIVMIN, CLKDIVMAX, DIVMAX
  <1>2. m.fbmult \in 1 .. 128 /\ m.maindiv \in 1 .. 128
    BY <1>1
  <1>3. /\ CountCalc(m.clkdiv) # ERR_CLKCOUNTCALC
        /\ CountOf(CountCalc(m.clkdiv)) = m.clkdiv
        /\ CountCalc(m.fbmult) # ERR_CLKCOUNTCALC
        /\ CountOf(CountCalc(m.fbmult)) = m.fbmult
    BY <1>1, <1>2, CountRoundTrip
  <1>4. Divider(m.maindiv) # ERR_CLKDIVIDER /\ DividerOf(Divider(m.maindiv)) = m.maindiv
    BY <1>2, DividerRoundTrip
  <1>5. ~(m.fbmult < 2 \/ m.fbmult > 64)
    BY <1>1
  <1>6. FindReg(m) =
          [error |-> FALSE, clk0L |-> CountCalc(m.clkdiv),
           clkFBL |-> CountCalc(m.fbmult), clkFBH_clk0H |-> 0,
           divclk |-> Divider(m.maindiv), lockL |-> m.fbmult - 1,
           fltr_lockH |-> m.fbmult - 1]
    BY <1>3, <1>4, <1>5, Zenon DEF FindReg
  <1> QED BY <1>3, <1>4, <1>6 DEF RunsAt

-----------------------------------------------------------------------------
(* The best candidate *)

\* The pairs of main divider and multiplier that the loops go through.
PairsOf(p) ==
  {q \in (FirstDiv(p) .. MaxDiv(p)) \X (FBMIN .. FBMAX) :
     q[2] \in MinFb(p, q[1]) .. MaxFb(p, q[1])}

\* How far the candidate of a pair is from the request f.
ErrorOf(f, p, q) == Error(f, Candidate(f, p, q[1], q[2]).freq)

\* Pair q is met before r, or is closer.
Precedes(f, p, q, r) ==
  \/ ErrorOf(f, p, q) < ErrorOf(f, p, r)
  \/ ErrorOf(f, p, q) = ErrorOf(f, p, r) /\ q[1] < r[1]
  \/ ErrorOf(f, p, q) = ErrorOf(f, p, r) /\ q[1] = r[1] /\ q[2] <= r[2]

\* The first of the pairs whose candidate is closest.
IsBest(f, p, q) == q \in PairsOf(p) /\ \A r \in PairsOf(p) : Precedes(f, p, q, r)

\* A set of natural numbers has a least one.
LEMMA LeastNat ==
  ASSUME NEW T \in SUBSET Nat, T # {}
  PROVE  \E x \in T : \A y \in T : x <= y
  <1>1. PICK x \in T : \A y \in T : <<y, x>> \notin OpToRel(<, Nat)
    BY NatLessThanWellFounded, WFMin
  <1>2. \A y \in T : ~(y < x)
    BY <1>1 DEF OpToRel
  <1> QED BY <1>2

\* What find_mode tries for a pair is a mode of the clock manager.
LEMMA PairType ==
  ASSUME NEW f \in Nat \ {0}, NEW p \in Nat \ {0}, NEW q \in PairsOf(p)
  PROVE  /\ q[1] \in Nat /\ q[2] \in Nat /\ q = <<q[1], q[2]>>
         /\ WithinLoops(p, Candidate(f, p, q[1], q[2]))
         /\ Candidate(f, p, q[1], q[2]).freq \in Nat
         /\ Candidate(f, p, q[1], q[2]).freq =
              Output(p, Candidate(f, p, q[1], q[2]).maindiv,
                        Candidate(f, p, q[1], q[2]).fbmult,
                        Candidate(f, p, q[1], q[2]).clkdiv)
         /\ ErrorOf(f, p, q) \in Nat
  <1>1. p \div PFDMIN \in Nat
    BY Limits, DivBounds
  <1>2. FirstDiv(p) \in 1 .. 2 /\ MaxDiv(p) \in Nat
    BY <1>1, SmallLimits DEF FirstDiv, MaxDiv
  <1>3. /\ q[1] \in FirstDiv(p) .. MaxDiv(p) /\ q[2] \in FBMIN .. FBMAX
        /\ q[2] \in MinFb(p, q[1]) .. MaxFb(p, q[1]) /\ q = <<q[1], q[2]>>
    BY DEF PairsOf
  <1>4. /\ q[1] \in Nat /\ q[2] \in Nat
        /\ FirstDiv(p) <= q[1] /\ q[1] <= MaxDiv(p)
        /\ MinFb(p, q[1]) <= q[2] /\ q[2] <= MaxFb(p, q[1])
    BY <1>2, <1>3, SmallLimits
  <1> DEFINE c == Candidate(f, p, q[1], q[2])
  <1>5. WithinLoops(p, c) /\ c \in Modes /\ c.freq = Output(p, c.maindiv, c.fbmult, c.clkdiv)
    BY <1>4, CandidateLegal
  <1>6. c.freq \in Nat
    BY <1>5 DEF Modes
  <1>7. ErrorOf(f, p, q) \in Nat
    BY <1>6 DEF ErrorOf, Error
  <1> QED BY <1>3, <1>4, <1>5, <1>6, <1>7

\* The VCO frequency of a pair, and the divider's effect on it.
LEMMA OutputBounds ==
  ASSUME NEW p \in Nat \ {0}, NEW d \in Nat \ {0}, NEW fb \in Nat, NEW k \in Nat \ {0},
         VCOMIN * d <= p * fb, p * fb <= VCOMAX * d
  PROVE  LET w == (p * fb) \div d
         IN  /\ w \in VCOMIN .. VCOMAX
             /\ w * d <= p * fb /\ p * fb < w * d + d
             /\ Output(p, d, fb, k) \in Nat
             /\ k * Output(p, d, fb, k) <= w /\ w < k * Output(p, d, fb, k) + k
  <1> DEFINE w == (p * fb) \div d
             o == w \div k
  <1>1. p * fb \in Nat
    BY Z3
  <1>2. w \in Nat /\ d * w <= p * fb /\ p * fb < d * w + d
    BY <1>1, DivFloor
  <1>3. o \in Nat /\ k * o <= w /\ w < k * o + k
    BY <1>2, DivFloor
  <1>4. Output(p, d, fb, k) = o
    BY DEF Output
  <1> HIDE DEF w, o
  <1>5. d * w = w * d /\ d * w \in Nat
    BY <1>2, Z3
  <1>6. w \in VCOMIN .. VCOMAX
    <2>1. ~(w + 1 <= VCOMIN)
      <3> SUFFICES ASSUME w + 1 <= VCOMIN PROVE FALSE
        OBVIOUS
      <3>1. d * (w + 1) <= d * VCOMIN
        BY <1>2, Limits, MulMono
      <3>2. d * (w + 1) = d * w + d /\ d * VCOMIN = VCOMIN * d /\ d * VCOMIN \in Nat
        BY <1>2, Limits, Z3
      <3> QED BY <1>1, <1>2, <1>5, <3>1, <3>2
    <2>2. ~(VCOMAX + 1 <= w)
      <3> SUFFICES ASSUME VCOMAX + 1 <= w PROVE FALSE
        OBVIOUS
      <3>1. d * (VCOMAX + 1) <= d * w
        BY <1>2, Limits, MulMono
      <3>2. d * (VCOMAX + 1) = d * VCOMAX + d /\ d * VCOMAX = VCOMAX * d /\ d * VCOMAX \in Nat
        BY Limits, Z3
      <3> QED BY <1>1, <1>2, <1>5, <3>1, <3>2
    <2> QED BY <1>2, <2>1, <2>2, Limits
  <1> QED BY <1>2, <1>3, <1>4, <1>5, <1>6 DEF w

\* An output divider of 1 is chosen for requests near the VCO frequency only.
LEMMA ClkDivOne ==
  ASSUME NEW f \in Nat \ {0}, NEW p \in Nat \ {0}, NEW d \in Nat \ {0},
         NEW fb \in FBMIN .. FBMAX, ClkDiv(f, p, d, fb) = 1
  PROVE  1000 * ((p * fb) \div d) < 1564 * f
  <1> DEFINE D == d * f
             n == p * 1000 + D \div 2
             mult == n \div D
             w == (p * fb) \div d
  <1>0. fb \in 2 .. 64
    BY SmallLimits, SMT
  <1>1. D \in Nat \ {0}
    BY Z3
  <1>2. n \in Nat /\ 1000 * p <= n
    BY <1>1, SMT
  <1>3. mult \in Nat /\ n < D * mult + D
    <2> HIDE DEF n, D
    <2> QED BY <1>1, <1>2, DivFloor
  <1>4. mult * fb \in Nat
    BY <1>0, <1>3, Z3
  <1> HIDE DEF mult
  <1>5. mult * fb < 1500
    <2>1. ClkDiv(f, p, d, fb) = Clamp((mult * fb + 500) \div 1000, CLKDIVMIN, CLKDIVMAX)
      BY Z3 DEF ClkDiv, mult
    <2>2. (mult * fb + 500) \div 1000 \in Int
      BY <1>4, SMT
    <2>3. (mult * fb + 500) \div 1000 <= 1
      BY <2>1, <2>2, SmallLimits, SMT DEF Clamp
    <2> QED BY <1>4, <2>3, SMT
  <1>6. p * fb \in Nat /\ w \in Nat /\ d * w <= p * fb
    <2>1. p * fb \in Nat
      BY <1>0, Z3
    <2> QED BY <2>1, DivFloor, SMT
  <1> HIDE DEF w, n, D
  <1>7. 1000 * (p * fb) < D * (mult * fb + fb)
    <2>1. 1000 * p + 1 <= D * mult + D
      BY <1>1, <1>2, <1>3, Z3
    <2>2. fb * (1000 * p + 1) <= fb * (D * mult + D)
      <3>1. D * mult + D \in Nat
        BY <1>1, <1>3, Z3
      <3> QED BY <1>0, <2>1, <3>1, MulMono, SMT
    <2>3. fb * (1000 * p + 1) = 1000 * (p * fb) + fb
      BY <1>0, Z3
    <2>4. fb * (D * mult + D) = D * (mult * fb + fb)
      BY <1>0, <1>1, <1>3, Z3
    <2>5. D * (mult * fb + fb) \in Nat
      BY <1>0, <1>1, <1>4, Z3
    <2> QED BY <1>0, <1>6, <2>2, <2>3, <2>4, <2>5, SMT
  <1>8. D * (mult * fb + fb) <= D * 1564
    BY <1>0, <1>1, <1>4, <1>5, MulMono, SMT
  <1>9. 1000 * (d * w) < d * (1564 * f)
    <2>1. D * 1564 = d * (1564 * f) /\ D * 1564 \in Nat
      BY Z3 DEF D
    <2>2. d * w \in Nat /\ D * (mult * fb + fb) \in Nat
      BY <1>0, <1>1, <1>4, <1>6, Z3
    <2> QED BY <1>6, <1>7, <1>8, <2>1, <2>2, SMT
  <1>10. ~(1564 * f <= 1000 * w)
    <2> SUFFICES ASSUME 1564 * f <= 1000 * w PROVE FALSE
      OBVIOUS
    <2>1. d * (1564 * f) <= d * (1000 * w)
      BY <1>6, MulMono, SMT
    <2>2. d * (1000 * w) = 1000 * (d * w) /\ d * (1564 * f) \in Nat /\ d * w \in Nat
      BY <1>6, Z3
    <2> QED BY <1>9, <2>1, <2>2, SMT
  <1> QED BY <1>6, <1>10, SMT DEF w

\* The ranges of a request and of the VCO in numbers, what ClkDivOne says, and
\* the error the search starts with.
IsRequest(f)    == f >= 1 /\ f <= 800000
IsVco(w)        == w >= 600000 /\ w <= 1200000
Fits(f, k, w)   == k >= 1 /\ k <= 128 /\ (k = 1 => 1000 * w < 1564 * f)
IsClose(f, o)   == Error(f, o) < 800000

\* The output of a divider is within OUTMAX of any request it is chosen for.
LEMMA NearEnough ==
  ASSUME NEW f \in Nat, IsRequest(f), NEW w \in Nat, IsVco(w),
         NEW k \in Nat, Fits(f, k, w), NEW o \in Nat,
         k * o <= w, w < k * o + k
  PROVE  IsClose(f, o)
  <1> USE DEF IsRequest, IsVco, Fits, IsClose
  <1>1. o # 0
    BY Z3
  <1>2. k # 1 => o <= 600000
    <2>1. k # 1 => k >= 2
      BY Z3
    <2>2. k >= 2 => 2 * o <= k * o
      BY Z3
    <2> QED BY <2>1, <2>2, Z3
  <1>3. k = 1 => o <= w /\ w < o + 1
    BY Z3
  <1>4. o - f < 800000 /\ f - o < 800000
    <2>1. CASE k = 1
      BY <1>1, <1>3, <2>1, Z3
    <2>2. CASE k # 1
      BY <1>1, <1>2, <2>2, Z3
    <2> QED BY <2>1, <2>2
  <1> QED BY <1>4, SMT DEF Error

\* The limits of a request and of the VCO, in numbers.
LEMMA RangesInNumbers ==
  ASSUME NEW x \in Nat
  PROVE  /\ OUTMIN <= x /\ x <= OUTMAX => IsRequest(x)
         /\ VCOMIN <= x /\ x <= VCOMAX => IsVco(x)
  BY LargeLimits, SMT DEF IsRequest, IsVco

\* Every candidate is closer than the error the search starts with.
LEMMA ErrorBelow ==
  ASSUME NEW f \in Nat, OUTMIN <= f, f <= OUTMAX, NEW p \in Nat \ {0},
         NEW q \in PairsOf(p)
  PROVE  ErrorOf(f, p, q) < OUTMAX
  <1> DEFINE d  == q[1]
             fb == q[2]
             k  == ClkDiv(f, p, d, fb)
             w  == (p * fb) \div d
             o  == Output(p, d, fb, k)
  <1>1. f \in Nat \ {0} /\ f >= 1 /\ f <= 800000
    BY SMT DEF OUTMIN, OUTMAX
  <1>2. /\ d \in Nat \ {0} /\ fb \in FBMIN .. FBMAX /\ k \in 1 .. 128
        /\ VCOMIN * d <= p * fb /\ p * fb <= VCOMAX * d
        /\ Candidate(f, p, d, fb).freq = o
    <2>1. WithinLoops(p, Candidate(f, p, d, fb))
      BY <1>1, PairType, SMT
    <2>2. /\ Candidate(f, p, d, fb).freq = o /\ Candidate(f, p, d, fb).fbmult = fb
          /\ Candidate(f, p, d, fb).clkdiv = k /\ Candidate(f, p, d, fb).maindiv = d
      BY SMT DEF Candidate
    <2> QED BY <2>1, <2>2, SmallLimits, SMT DEF WithinLoops, ModeExists, VcoInRange
  <1>3. fb \in Nat /\ k \in Nat \ {0} /\ k >= 1 /\ k <= 128
    BY <1>2, SmallLimits, SMT
  <1>4. w \in VCOMIN .. VCOMAX /\ o \in Nat /\ k * o <= w /\ w < k * o + k
    <2> HIDE DEF d, fb, k
    <2> QED BY <1>2, <1>3, OutputBounds, Limits, SMT
  <1>5. k = 1 => 1000 * w < 1564 * f
    BY <1>1, <1>2, ClkDivOne, SMT
  <1> HIDE DEF d, fb, k, w, o
  <1>6. Fits(f, k, w)
    BY <1>3, <1>5 DEF Fits
  <1>7. Error(f, o) < OUTMAX
    <2>1. w \in Nat /\ VCOMIN <= w /\ w <= VCOMAX
      BY <1>4, Limits, SMT
    <2>2. IsRequest(f) /\ IsVco(w)
      BY <2>1, RangesInNumbers, Zenon
    <2>3. o \in Nat /\ k * o <= w /\ w < k * o + k /\ k \in Nat
      BY <1>3, <1>4
    <2>4. IsClose(f, o)
      BY <1>6, <2>1, <2>2, <2>3, NearEnough, Zenon
    <2>5. Error(f, o) \in Nat
      BY <2>3, SMT DEF Error
    <2> QED BY <2>4, <2>5, LargeLimits, SMT DEF IsClose
  <1>8. ErrorOf(f, p, q) = Error(f, o)
    BY <1>2, SMT DEF ErrorOf, d, fb
  <1> QED BY <1>7, <1>8, SMT

\* If there is a pair there is a best one.
LEMMA BestExists ==
  ASSUME NEW f \in Nat \ {0}, NEW p \in Nat \ {0}, PairsOf(p) # {}
  PROVE  \E q \in PairsOf(p) : IsBest(f, p, q)
  <1> DEFINE E == {ErrorOf(f, p, q) : q \in PairsOf(p)}
  <1>1. PICK q1 \in PairsOf(p) :
          \A r \in PairsOf(p) : ErrorOf(f, p, q1) <= ErrorOf(f, p, r)
    <2>1. E \in SUBSET Nat /\ E # {}
      BY PairType
    <2>2. PICK e \in E : \A d \in E : e <= d
      BY <2>1, LeastNat
    <2>3. PICK q \in PairsOf(p) : e = ErrorOf(f, p, q)
      OBVIOUS
    <2> QED BY <2>2, <2>3
  <1> DEFINE A == {q \in PairsOf(p) : ErrorOf(f, p, q) = ErrorOf(f, p, q1)}
             D == {q[1] : q \in A}
  <1>2. PICK q2 \in A : \A r \in A : q2[1] <= r[1]
    <2>1. D \in SUBSET Nat /\ D # {}
      BY PairType
    <2>2. PICK d \in D : \A k \in D : d <= k
      BY <2>1, LeastNat
    <2>3. PICK q \in A : d = q[1]
      OBVIOUS
    <2> QED BY <2>2, <2>3
  <1> DEFINE B == {q \in A : q[1] = q2[1]}
             F == {q[2] : q \in B}
  <1>3. PICK q3 \in B : \A r \in B : q3[2] <= r[2]
    <2>1. F \in SUBSET Nat /\ F # {}
      BY PairType
    <2>2. PICK d \in F : \A k \in F : d <= k
      BY <2>1, LeastNat
    <2>3. PICK q \in B : d = q[2]
      OBVIOUS
    <2> QED BY <2>2, <2>3
  <1>4. ASSUME NEW r \in PairsOf(p) PROVE Precedes(f, p, q3, r)
    <2>1. ErrorOf(f, p, q3) = ErrorOf(f, p, q1) /\ q3[1] = q2[1]
      OBVIOUS
    <2>2. ErrorOf(f, p, r) \in Nat /\ ErrorOf(f, p, q3) \in Nat
          /\ r[1] \in Nat /\ q3[1] \in Nat /\ r[2] \in Nat /\ q3[2] \in Nat
      BY PairType
    <2>3. ErrorOf(f, p, q3) <= ErrorOf(f, p, r)
      BY <1>1, <2>1
    <2>4. ErrorOf(f, p, r) = ErrorOf(f, p, q3) => q3[1] <= r[1]
      BY <1>2, <2>1
    <2>5. ErrorOf(f, p, r) = ErrorOf(f, p, q3) /\ r[1] = q3[1] => q3[2] <= r[2]
      BY <1>3, <2>1
    <2> QED BY <2>2, <2>3, <2>4, <2>5 DEF Precedes
  <1> QED BY <1>4 DEF IsBest

\* There is only one.
LEMMA BestUnique ==
  ASSUME NEW f \in Nat \ {0}, NEW p \in Nat \ {0},
         NEW q, IsBest(f, p, q), NEW r, IsBest(f, p, r)
  PROVE  q = r
  <1>1. Precedes(f, p, q, r) /\ Precedes(f, p, r, q) /\ q \in PairsOf(p) /\ r \in PairsOf(p)
    BY DEF IsBest
  <1>2. ErrorOf(f, p, r) \in Nat /\ ErrorOf(f, p, q) \in Nat
        /\ r[1] \in Nat /\ q[1] \in Nat /\ r[2] \in Nat /\ q[2] \in Nat
        /\ q = <<q[1], q[2]>> /\ r = <<r[1], r[2]>>
    BY <1>1, PairType
  <1>3. q[1] = r[1] /\ q[2] = r[2]
    BY <1>1, <1>2 DEF Precedes
  <1> QED BY <1>2, <1>3

\* find_mode fails if there is no pair to try, and otherwise returns the
\* candidate of the best one.
LEMMA FindModeIs ==
  ASSUME NEW freq \in Int, NEW p \in Nat
  PROVE  LET f == Clamp(freq, OUTMIN, OUTMAX)
         IN  /\ p = 0 \/ PairsOf(p) = {} => FindMode(freq, p) = NoMode
             /\ p # 0 => \A q : IsBest(f, p, q) =>
                           FindMode(freq, p) = Candidate(f, p, q[1], q[2])
  <1> DEFINE f == Clamp(freq, OUTMIN, OUTMAX)
             Pairs == {q \in (FirstDiv(p) .. MaxDiv(p)) \X (FBMIN .. FBMAX) :
                         q[2] \in MinFb(p, q[1]) .. MaxFb(p, q[1])}
             Err == [q \in Pairs |-> Error(f, Candidate(f, p, q[1], q[2]).freq)]
             Before(q, r) == \/ Err[q] < Err[r]
                             \/ Err[q] = Err[r] /\ q[1] < r[1]
                             \/ Err[q] = Err[r] /\ q[1] = r[1] /\ q[2] <= r[2]
             best == CHOOSE q \in Pairs : \A r \in Pairs : Before(q, r)
  <1>1. FindMode(freq, p) = IF p = 0 \/ Pairs = {} THEN NoMode
                            ELSE Candidate(f, p, best[1], best[2])
    BY DEF FindMode
  <1>2. Pairs = PairsOf(p)
    BY DEF PairsOf
  <1>3. f \in Nat \ {0}
    BY Limits, ClampRange
  <1>4. ASSUME p # 0, NEW q, IsBest(f, p, q)
        PROVE  FindMode(freq, p) = Candidate(f, p, q[1], q[2])
    <2>1. \A r \in Pairs : Err[r] = ErrorOf(f, p, r)
      BY DEF ErrorOf
    <2> HIDE DEF Err
    <2>2. \A r \in Pairs : IsBest(f, p, r) <=> \A s \in Pairs : Before(r, s)
      BY <1>2, <2>1 DEF IsBest, Precedes
    <2>3. q \in Pairs
      BY <1>2, <1>4 DEF IsBest
    <2> HIDE DEF Pairs, Before, f
    <2>4. best \in Pairs /\ \A s \in Pairs : Before(best, s)
      BY <1>4, <2>2, <2>3
    <2>5. best = q
      BY <1>3, <1>4, <2>2, <2>4, BestUnique
    <2> QED BY <1>1, <1>4, <2>3, <2>5
  <1> QED BY <1>1, <1>2, <1>4

-----------------------------------------------------------------------------
(* Asking for the frequency find_mode answered gives that frequency again *)

\* The multiplier of ClkDiv, in thousandths, for one count of the feedback.
Mult(f, p, d) == (p * 1000 + (d * f) \div 2) \div (d * f)

\* It is the ratio 1000 p / (d f), rounded to the nearest number.
LEMMA MultBounds ==
  ASSUME NEW f \in Nat \ {0}, NEW p \in Nat, NEW d \in Nat \ {0}
  PROVE  /\ Mult(f, p, d) \in Nat
         /\ 2 * ((d * f) * Mult(f, p, d)) <= 2000 * p + d * f
         /\ 2000 * p < 2 * ((d * f) * Mult(f, p, d)) + d * f
  <1> DEFINE D == d * f
             h == D \div 2
             n == p * 1000 + h
             m == n \div D
  <1>0. Mult(f, p, d) = m
    BY Zenon DEF Mult
  <1>1. D \in Nat \ {0}
    BY Z3
  <1>2. h \in Nat /\ 2 * h <= D /\ D <= 2 * h + 1
    BY <1>1, SMT
  <1> HIDE DEF h, D
  <1>3. n \in Nat
    BY <1>2, SMT
  <1> HIDE DEF n
  <1>4. m \in Nat /\ D * m <= n /\ n < D * m + D
    BY <1>1, <1>3, DivFloor
  <1>5. D * m \in Nat
    BY <1>1, <1>4, Z3
  <1> HIDE DEF m
  <1>6. 2 * (D * m) <= 2000 * p + D /\ 2000 * p < 2 * (D * m) + D
    BY <1>1, <1>2, <1>3, <1>4, <1>5, SMT DEF n
  <1>7. /\ Mult(f, p, d) \in Nat
        /\ 2 * (D * Mult(f, p, d)) <= 2000 * p + D
        /\ 2000 * p < 2 * (D * Mult(f, p, d)) + D
    BY <1>0, <1>4, <1>6, Z3
  <1> QED BY <1>7, Z3 DEF D

\* The ratio, in thousandths, that an output divider is rounded from.
Ratio(f, p, d, fb) == Mult(f, p, d) * fb
DividerFrom(x) == Clamp((x + 500) \div 1000, CLKDIVMIN, CLKDIVMAX)

\* x is the ratio of the VCO w to the request f, within 32 thousandths.
IsRatio(x, f, w) == f * x < 1000 * w + 1000 + 32 * f /\ 1000 * w <= f * x + 32 * f

\* o is the frequency that w gives divided by k.
IsFloor(o, w, k) == k * o <= w /\ w < k * o + k

\* What ClkDiv rounds is the ratio of the VCO frequency to the request.
LEMMA RatioBounds ==
  ASSUME NEW f \in Nat \ {0}, NEW p \in Nat \ {0}, NEW d \in Nat \ {0},
         NEW fb \in FBMIN .. FBMAX
  PROVE  /\ Ratio(f, p, d, fb) \in Nat /\ (p * fb) \div d \in Nat
         /\ IsRatio(Ratio(f, p, d, fb), f, (p * fb) \div d)
         /\ ClkDiv(f, p, d, fb) = DividerFrom(Ratio(f, p, d, fb))
  <1> DEFINE m == Mult(f, p, d)
             x == m * fb
             w == (p * fb) \div d
             D == d * f
  <1>1. fb \in Nat /\ fb <= 64
    BY SmallLimits, SMT
  <1>2. D \in Nat \ {0} /\ p * fb \in Nat
    BY <1>1, Z3
  <1>3. m \in Nat /\ 2 * (D * m) <= 2000 * p + D /\ 2000 * p < 2 * (D * m) + D
    BY MultBounds
  <1>4. w \in Nat /\ d * w <= p * fb /\ p * fb < d * w + d
    BY <1>2, DivFloor
  <1>5. ClkDiv(f, p, d, fb) = DividerFrom(x) /\ Ratio(f, p, d, fb) = x
    BY Zenon DEF ClkDiv, Mult, DividerFrom, Ratio
  <1> HIDE DEF m, w
  <1>6. x \in Nat /\ D * m \in Nat /\ f * x \in Nat /\ D * x \in Nat
    BY <1>1, <1>2, <1>3, Z3
  <1>7. D * x = fb * (D * m) /\ D * x = d * (f * x)
    BY <1>1, <1>2, <1>3, Z3
  <1>8. fb * (2 * (D * m)) <= fb * (2000 * p + D)
    <2>1. 2 * (D * m) \in Nat /\ 2000 * p + D \in Nat
      BY <1>2, <1>6, SMT
    <2> QED BY <1>1, <1>3, <2>1, MulMono
  <1>9. fb * (2000 * p) <= fb * (2 * (D * m) + D)
    <2>1. 2 * (D * m) + D \in Nat /\ 2000 * p \in Nat /\ 2000 * p <= 2 * (D * m) + D
      BY <1>2, <1>3, <1>6, SMT
    <2> QED BY <1>1, <2>1, MulMono
  <1>10. fb * D <= 64 * D
    <2>1. D * fb <= D * 64
      BY <1>1, <1>2, MulMono
    <2>2. D * fb = fb * D /\ D * 64 = 64 * D
      BY <1>1, <1>2, Z3
    <2> QED BY <2>1, <2>2
  <1>11. D * x < 1000 * (d * w) + 1000 * d + 32 * D
    <2>1. fb * (2 * (D * m)) = 2 * (D * x) /\ fb * (2000 * p + D) = 2000 * (p * fb) + fb * D
      BY <1>1, <1>2, <1>6, <1>7, Z3
    <2>2. d * w \in Nat /\ fb * D \in Nat
      BY <1>1, <1>2, <1>4, Z3
    <2>3. 2 * (D * x) <= 2000 * (p * fb) + 64 * D
      BY <1>2, <1>6, <1>8, <1>10, <2>1, <2>2, SMT
    <2> QED BY <1>2, <1>4, <1>6, <2>2, <2>3, SMT
  <1>12. 1000 * (d * w) <= D * x + 32 * D
    <2>1. fb * (2000 * p) = 2000 * (p * fb) /\ fb * (2 * (D * m) + D) = 2 * (D * x) + fb * D
      BY <1>1, <1>2, <1>6, <1>7, Z3
    <2>2. d * w \in Nat /\ fb * D \in Nat
      BY <1>1, <1>2, <1>4, Z3
    <2> QED BY <1>2, <1>4, <1>6, <1>9, <1>10, <2>1, <2>2, SMT
  <1>13. f * x < 1000 * w + 1000 + 32 * f
    <2> DEFINE a == f * x
               b == 1000 * w + 1000 + 32 * f
    <2>1. a \in Nat /\ b \in Nat
      BY <1>4, <1>6, SMT
    <2>2. d * b = 1000 * (d * w) + 1000 * d + 32 * D
      BY <1>4, Z3
    <2>3. d * a < d * b
      <3>1. d * a = D * x
        BY <1>7, Zenon
      <3> HIDE DEF a, b, D, x
      <3> QED BY <1>11, <2>2, <3>1, Z3
    <2> HIDE DEF a, b
    <2>4. a < b
      BY <2>1, <2>3, LessFactor
    <2> QED BY <2>4, Z3 DEF a, b
  <1>14. 1000 * w <= f * x + 32 * f
    <2> DEFINE a == f * x + 32 * f + 1
               b == 1000 * w
    <2>1. a \in Nat /\ b \in Nat
      BY <1>4, <1>6, SMT
    <2>2. d * b = 1000 * (d * w) /\ d * a = D * x + 32 * D + d
      <3>1. d * a = d * (f * x) + 32 * (d * f) + d
        BY <1>6, Z3
      <3> QED BY <1>4, <1>7, <3>1, Z3
    <2>3. d * b < d * a
      <3> DEFINE u == d * w
                 v == D * x
      <3>1. u \in Nat /\ v \in Nat /\ 1000 * u <= v + 32 * D
            /\ d * b = 1000 * u /\ d * a = v + 32 * D + d
        BY <1>4, <1>6, <1>12, <2>2, Z3
      <3> HIDE DEF u, v, D, a, b
      <3>2. 1000 * u < v + 32 * D + d
        BY <1>2, <3>1, SMT
      <3> QED BY <3>1, <3>2, Z3
    <2> HIDE DEF a, b
    <2>4. b < a
      BY <2>1, <2>3, LessFactor
    <2>5. f * x \in Nat
      BY <1>6
    <2> QED BY <1>4, <2>4, <2>5, SMT DEF a, b
  <1>15. IsRatio(x, f, w)
    BY <1>13, <1>14, Z3 DEF IsRatio
  <1> HIDE DEF x
  <1> QED BY <1>4, <1>5, <1>6, <1>15, Zenon DEF w

\* A pair that gave the frequency F is tried with the same output divider when F
\* is asked for: the ratio it is rounded from is close to that divider.
LEMMA SameDivider ==
  ASSUME NEW F \in Nat, F >= 4000, NEW x \in Nat, NEW w \in Nat,
         NEW k \in Nat, k >= 1, k <= 128, IsFloor(F, w, k),
         IsRatio(x, F, w)
  PROVE  DividerFrom(x) = k
  <1>0. /\ k * F <= w /\ w < k * F + k
        /\ F * x < 1000 * w + 1000 + 32 * F /\ 1000 * w <= F * x + 32 * F
    BY Z3 DEF IsFloor, IsRatio
  <1>1. k * F \in Nat /\ F * x \in Nat
    BY Z3
  <1>2. 1000 * k < x + 33
    <2>1. F * (1000 * k) = 1000 * (k * F) /\ F * (x + 33) = F * x + 33 * F
      BY Z3
    <2>2. F * (1000 * k) < F * (x + 33)
      BY <1>0, <1>1, <2>1, Z3
    <2> QED BY <2>2, LessFactor
  <1>3. x < 1000 * k + 64
    <2>1. F * (1000 * k + 64) = 1000 * (k * F) + 64 * F
      BY Z3
    <2>2. F * x < F * (1000 * k + 64)
      BY <1>0, <1>1, <2>1, Z3
    <2> QED BY <2>2, LessFactor
  <1>4. (x + 500) \div 1000 = k
    BY <1>2, <1>3, Z3
  <1> QED BY <1>4, SmallLimits DEF Clamp, DividerFrom

\* Asking for more never raises the multiplier ...
LEMMA MultAntitone ==
  ASSUME NEW f \in Nat \ {0}, NEW g \in Nat \ {0}, f <= g, NEW p \in Nat,
         NEW d \in Nat \ {0}
  PROVE  Mult(g, p, d) <= Mult(f, p, d)
  <1> DEFINE D == d * f
             E == d * g
             m == Mult(f, p, d)
             n == Mult(g, p, d)
  <1>0. 2000 * p < 2 * (D * m) + D /\ m \in Nat
    BY MultBounds, Z3
  <1>1. 2 * (E * n) <= 2000 * p + E /\ n \in Nat
    BY MultBounds, Z3
  <1>2. D \in Nat \ {0} /\ E \in Nat /\ D <= E
    BY MulMono, Z3
  <1> HIDE DEF D, E, m, n
  <1>3. ASSUME m + 1 <= n PROVE FALSE
    <2>1. E * (m + 1) <= E * n
      BY <1>0, <1>1, <1>2, <1>3, MulMono
    <2>2. (m + m + 1) * D <= (m + m + 1) * E
      BY <1>0, <1>1, <1>2, MulMono
    <2>3. /\ E * (m + 1) = E * m + E
          /\ (m + m + 1) * D = 2 * (D * m) + D /\ (m + m + 1) * E = 2 * (E * m) + E
          /\ E * m \in Nat /\ E * n \in Nat /\ D * m \in Nat
      BY <1>0, <1>1, <1>2, Z3
    <2> QED BY <1>0, <1>1, <1>2, <2>1, <2>2, <2>3, Z3
  <1>4. n <= m
    BY <1>0, <1>1, <1>3
  <1> QED BY <1>4 DEF n, m

\* ... nor the output divider.
LEMMA ClkDivAntitone ==
  ASSUME NEW f \in Nat \ {0}, NEW g \in Nat \ {0}, f <= g, NEW p \in Nat,
         NEW d \in Nat \ {0}, NEW fb \in Nat
  PROVE  ClkDiv(g, p, d, fb) <= ClkDiv(f, p, d, fb)
  <1> DEFINE m == Mult(f, p, d)
             n == Mult(g, p, d)
  <1>1. m \in Nat /\ n \in Nat /\ n <= m
    <2>1. m \in Nat
      BY MultBounds, Z3
    <2>2. n \in Nat
      BY MultBounds, Z3
    <2>3. n <= m
      BY MultAntitone, Zenon
    <2> QED BY <2>1, <2>2, <2>3
  <1> DEFINE x == m * fb
             y == n * fb
             u == (x + 500) \div 1000
             v == (y + 500) \div 1000
  <1>2. /\ ClkDiv(f, p, d, fb) = Clamp(u, CLKDIVMIN, CLKDIVMAX)
        /\ ClkDiv(g, p, d, fb) = Clamp(v, CLKDIVMIN, CLKDIVMAX)
    BY Zenon DEF ClkDiv, Mult
  <1> HIDE DEF m, n, x, y, u, v
  <1>3. m * fb \in Nat /\ n * fb \in Nat /\ n * fb <= m * fb
    <2>1. fb * n <= fb * m
      BY <1>1, MulMono
    <2>2. fb * n = n * fb /\ fb * m = m * fb /\ m * fb \in Nat /\ n * fb \in Nat
      BY <1>1, Z3
    <2> QED BY <2>1, <2>2
  <1>4. x \in Nat /\ y \in Nat /\ y <= x
    BY <1>3 DEF x, y
  <1>5. u \in Int /\ v \in Int /\ v <= u
    BY <1>4, SMT DEF u, v
  <1>6. Clamp(v, CLKDIVMIN, CLKDIVMAX) <= Clamp(u, CLKDIVMIN, CLKDIVMAX)
    BY <1>5, SmallLimits DEF Clamp
  <1> QED BY <1>2, <1>6, Zenon

\* The VCO frequency of a pair, the output divider tried with it for the request
\* f, and the frequency of that candidate.
Vco(p, q)       == (p * q[2]) \div q[1]
DivOf(f, p, q)  == ClkDiv(f, p, q[1], q[2])
FreqOf(f, p, q) == Candidate(f, p, q[1], q[2]).freq

\* What the smallest output dividers say of the request f and the VCO w.
SmallDividers(f, k, w) ==
  /\ k = 1 => 1000 * w <= 1531 * f
  /\ k = 2 => 1468 * f <= 1000 * w + 1000
  /\ k >= 3 => 2468 * f <= 1000 * w + 1000

\* A ratio of x thousandths rounds to small dividers in these ranges only.
LEMMA SmallRatios ==
  ASSUME NEW f \in Nat, NEW x \in Nat, NEW w \in Nat, NEW k \in Nat,
         IsRatio(x, f, w), k = DividerFrom(x)
  PROVE  SmallDividers(f, k, w)
  <1>1. f * x \in Nat
    BY Z3
  <1>2. /\ k = 1 => x <= 1499
        /\ k = 2 => 1500 <= x
        /\ k >= 3 => 2500 <= x
    <2> DEFINE u == (x + 500) \div 1000
    <2>1. u \in Nat /\ 1000 * u <= x + 500 /\ x + 500 < 1000 * u + 1000
      BY SMT
    <2> HIDE DEF u
    <2>2. /\ k = 1 => u <= 1
          /\ k = 2 => u = 2
          /\ k >= 3 => u >= 3
      <3>1. k = Clamp(u, CLKDIVMIN, CLKDIVMAX)
        BY Zenon DEF u, DividerFrom
      <3> QED BY <2>1, <3>1, SmallLimits DEF Clamp
    <2> QED BY <2>1, <2>2, SMT
  <1>3. k = 1 => f * x <= 1499 * f
    BY <1>2, MulMono, Z3
  <1>4. k = 2 => 1500 * f <= f * x
    BY <1>2, MulMono, Z3
  <1>5. k >= 3 => 2500 * f <= f * x
    BY <1>2, MulMono, Z3
  <1> DEFINE a == f * x
  <1> HIDE DEF a
  <1>6. /\ a \in Nat /\ a < 1000 * w + 1000 + 32 * f /\ 1000 * w <= a + 32 * f
        /\ k = 1 => a <= 1499 * f
        /\ k = 2 => 1500 * f <= a
        /\ k >= 3 => 2500 * f <= a
    BY <1>1, <1>3, <1>4, <1>5, Z3 DEF a, IsRatio
  <1> QED BY <1>6, Z3 DEF SmallDividers

\* What is known of every pair the loops try.
LEMMA PairFacts ==
  ASSUME NEW f \in Nat \ {0}, NEW p \in Nat \ {0}, NEW q \in PairsOf(p)
  PROVE  /\ q[1] \in Nat \ {0} /\ q[2] \in FBMIN .. FBMAX
         /\ Vco(p, q) \in Nat /\ IsVco(Vco(p, q))
         /\ DivOf(f, p, q) \in Nat /\ DivOf(f, p, q) >= 1 /\ DivOf(f, p, q) <= 128
         /\ FreqOf(f, p, q) = Vco(p, q) \div DivOf(f, p, q)
         /\ FreqOf(f, p, q) \in Nat
         /\ IsFloor(FreqOf(f, p, q), Vco(p, q), DivOf(f, p, q))
         /\ ErrorOf(f, p, q) = Error(f, FreqOf(f, p, q))
  <1> DEFINE d  == q[1]
             fb == q[2]
             k  == ClkDiv(f, p, d, fb)
             w  == (p * fb) \div d
             o  == Output(p, d, fb, k)
  <1>1. /\ d \in Nat \ {0} /\ fb \in FBMIN .. FBMAX /\ k \in 1 .. 128
        /\ VCOMIN * d <= p * fb /\ p * fb <= VCOMAX * d
        /\ Candidate(f, p, d, fb).freq = o
    <2>1. WithinLoops(p, Candidate(f, p, d, fb))
      BY PairType
    <2>2. /\ Candidate(f, p, d, fb).freq = o /\ Candidate(f, p, d, fb).fbmult = fb
          /\ Candidate(f, p, d, fb).clkdiv = k /\ Candidate(f, p, d, fb).maindiv = d
      BY SMT DEF Candidate
    <2> QED BY <2>1, <2>2, SmallLimits, SMT DEF WithinLoops, ModeExists, VcoInRange
  <1>2. fb \in Nat /\ k \in Nat \ {0} /\ k >= 1 /\ k <= 128
    BY <1>1, SmallLimits, SMT
  <1>3. o = w \div k
    BY Zenon DEF Output
  <1>4. w \in VCOMIN .. VCOMAX /\ o \in Nat /\ k * o <= w /\ w < k * o + k
    <2> HIDE DEF d, fb, k
    <2> QED BY <1>1, <1>2, OutputBounds, Limits, SMT
  <1>5. Vco(p, q) = w /\ DivOf(f, p, q) = k /\ FreqOf(f, p, q) = o
    BY <1>1, Zenon DEF Vco, DivOf, FreqOf
  <1>6. ErrorOf(f, p, q) = Error(f, FreqOf(f, p, q))
    BY Zenon DEF ErrorOf, FreqOf
  <1> HIDE DEF k, w, o
  <1>7. w \in Nat /\ IsVco(w)
    <2>1. w \in Nat /\ VCOMIN <= w /\ w <= VCOMAX
      BY <1>4, Limits, SMT
    <2> QED BY <2>1, RangesInNumbers, Zenon
  <1>8. IsFloor(o, w, k)
    BY <1>4, Z3 DEF IsFloor
  <1> HIDE DEF d, fb
  <1>9. d \in Nat \ {0} /\ fb \in FBMIN .. FBMAX
    BY <1>1
  <1>10. o \in Nat
    BY <1>4
  <1>11. k \in Nat /\ k >= 1 /\ k <= 128
    BY <1>2
  <1> QED BY <1>3, <1>5, <1>6, <1>7, <1>8, <1>9, <1>10, <1>11 DEF d, fb

\* The small output dividers are tried for requests near the VCO frequency.
LEMMA PairSmall ==
  ASSUME NEW f \in Nat \ {0}, NEW p \in Nat \ {0}, NEW q \in PairsOf(p)
  PROVE  SmallDividers(f, DivOf(f, p, q), Vco(p, q))
  <1> DEFINE d  == q[1]
             fb == q[2]
             x  == Ratio(f, p, d, fb)
             w  == (p * fb) \div d
  <1>1. d \in Nat \ {0} /\ fb \in FBMIN .. FBMAX /\ DivOf(f, p, q) \in Nat
    BY PairFacts
  <1>2. w = Vco(p, q) /\ DivOf(f, p, q) = ClkDiv(f, p, d, fb)
    BY Zenon DEF DivOf, Vco
  <1> HIDE DEF d, fb
  <1>3. x \in Nat /\ w \in Nat /\ IsRatio(x, f, w) /\ ClkDiv(f, p, d, fb) = DividerFrom(x)
    BY <1>1, RatioBounds
  <1> HIDE DEF x, w
  <1>4. SmallDividers(f, DivOf(f, p, q), w)
    BY <1>1, <1>2, <1>3, SmallRatios
  <1> QED BY <1>2, <1>4, Zenon

\* The candidate that gave the frequency F is tried when F is asked for.
LEMMA TriedAgain ==
  ASSUME NEW f \in Nat \ {0}, NEW p \in Nat \ {0}, NEW q \in PairsOf(p),
         NEW F \in Nat, F = FreqOf(f, p, q), OUTMIN <= F
  PROVE  FreqOf(F, p, q) = F
  <1> DEFINE d  == q[1]
             fb == q[2]
             x  == Ratio(F, p, d, fb)
             w  == (p * fb) \div d
             k  == DivOf(f, p, q)
  <1>1. /\ d \in Nat \ {0} /\ fb \in FBMIN .. FBMAX
        /\ k \in Nat /\ k >= 1 /\ k <= 128
        /\ F = Vco(p, q) \div k /\ IsFloor(F, Vco(p, q), k)
    BY PairFacts
  <1>2. F \in Nat \ {0} /\ F >= 4000
    BY LargeLimits, SMT
  <1>3. w = Vco(p, q) /\ DivOf(F, p, q) = ClkDiv(F, p, d, fb)
    BY DEF Vco, DivOf
  <1> HIDE DEF d, fb, k
  <1>4. x \in Nat /\ w \in Nat /\ IsRatio(x, F, w) /\ ClkDiv(F, p, d, fb) = DividerFrom(x)
    <2>1. F \in Nat \ {0}
      BY <1>2
    <2> QED BY <1>1, <2>1, RatioBounds
  <1> HIDE DEF x, w
  <1>5. DivOf(F, p, q) = k
    BY <1>1, <1>2, <1>3, <1>4, SameDivider
  <1>6. FreqOf(F, p, q) = Vco(p, q) \div DivOf(F, p, q)
    <2>1. F \in Nat \ {0}
      BY <1>2
    <2> QED BY <2>1, PairFacts
  <1> QED BY <1>1, <1>5, <1>6

\* A candidate G above OUTMAX was the closest to f; H is the closest to OUTMAX.
\* The candidate of H's pair for f is O: j and k are its dividers for OUTMAX and
\* f, w its VCO frequency, v that of G's pair.
LEMMA AboveMaximum ==
  ASSUME NEW f \in Nat, NEW G \in Nat, NEW H \in Nat, NEW O \in Nat,
         NEW v \in Nat, NEW w \in Nat, NEW j \in Nat, NEW k \in Nat,
         f < OUTMAX, G > OUTMAX, IsVco(w),
         G <= v, SmallDividers(f, 1, v),
         j >= 1, j <= k,
         j = 1 => H = w, j = k => H = O, k = 2 => 2 * O <= w /\ w < 2 * O + 2,
         SmallDividers(f, k, w),
         Error(f, G) <= Error(f, O), Error(OUTMAX, H) <= Error(OUTMAX, G)
  PROVE  H = G
  <1>0. /\ f < 800000 /\ G > 800000 /\ w <= 1200000 /\ 1000 * v <= 1531 * f
        /\ Error(800000, H) <= Error(800000, G)
    BY LargeLimits, Z3 DEF IsVco, SmallDividers
  <1>1. G - f <= O - f \/ G - f <= f - O
    BY <1>0, Z3 DEF Error
  <1>2. H <= G /\ 1600000 - G <= H
    BY <1>0, Z3 DEF Error
  <1>3. ~(k >= 3)
    BY <1>0, Z3 DEF SmallDividers
  <1>4. CASE j = k
    BY <1>0, <1>1, <1>2, <1>4, Z3
  <1>5. CASE j # k
    <2>1. j = 1 /\ k = 2
      BY <1>3, <1>5, Z3
    <2>2. H = w /\ 2 * O <= w /\ w < 2 * O + 2 /\ 1468 * f <= 1000 * w + 1000
      BY <2>1, Z3 DEF SmallDividers
    <2> QED BY <1>0, <1>1, <1>2, <2>2, Z3
  <1> QED BY <1>4, <1>5

\* No candidate is below OUTMIN.
LEMMA HighEnough ==
  ASSUME NEW o \in Nat, NEW w \in Nat, IsVco(w),
         NEW k \in Nat, k >= 1, k <= 128, IsFloor(o, w, k)
  PROVE  OUTMIN <= o
  <1>1. ASSUME o + 1 <= 4000 PROVE FALSE
    <2>1. k * (o + 1) <= k * 4000
      BY <1>1, MulMono
    <2>2. k * (o + 1) = k * o + k /\ k * 4000 <= 512000
      BY Z3
    <2> QED BY <2>1, <2>2, Z3 DEF IsFloor, IsVco
  <1> QED BY <1>1, LargeLimits, SMT

\* What a division by a small divider is.
LEMMA SmallQuotients ==
  ASSUME NEW w \in Nat, NEW o \in Nat, NEW k \in Nat, IsFloor(o, w, k)
  PROVE  /\ k = 1 => o = w
         /\ k = 2 => 2 * o <= w /\ w < 2 * o + 2
  BY Z3 DEF IsFloor

\* The best mode for the frequency of the best mode for f, or for the maximum if
\* that is above it, is a mode of the same frequency.
LEMMA FoundAgain ==
  ASSUME NEW f \in Nat, OUTMIN <= f, f <= OUTMAX, NEW p \in Nat \ {0},
         NEW q, IsBest(f, p, q), NEW g,
         g = Clamp(FreqOf(f, p, q), OUTMIN, OUTMAX),
         NEW r, IsBest(g, p, r)
  PROVE  FreqOf(g, p, r) = FreqOf(f, p, q)
  <1> DEFINE G == FreqOf(f, p, q)
             H == FreqOf(g, p, r)
             O == FreqOf(f, p, r)
             k == DivOf(f, p, r)
             j == DivOf(g, p, r)
             v == Vco(p, q)
             w == Vco(p, r)
  <1>1. q \in PairsOf(p) /\ r \in PairsOf(p)
    BY DEF IsBest
  <1>2. f \in Nat \ {0}
    BY Limits
  <1>3. /\ G \in Nat /\ v \in Nat /\ IsVco(v) /\ IsFloor(G, v, DivOf(f, p, q))
        /\ DivOf(f, p, q) \in Nat /\ DivOf(f, p, q) >= 1 /\ DivOf(f, p, q) <= 128
        /\ ErrorOf(f, p, q) = Error(f, G)
        /\ SmallDividers(f, DivOf(f, p, q), v)
    BY <1>1, <1>2, PairFacts, PairSmall
  <1>4. /\ O \in Nat /\ w \in Nat /\ IsVco(w) /\ IsFloor(O, w, k) /\ O = w \div k
        /\ k \in Nat /\ k >= 1 /\ k <= 128 /\ ErrorOf(f, p, r) = Error(f, O)
        /\ SmallDividers(f, k, w)
    BY <1>1, <1>2, PairFacts, PairSmall
  <1> HIDE DEF G, O, k, v, w
  <1>5. OUTMIN <= G
    BY <1>3, HighEnough
  <1>6. g \in Nat \ {0} /\ g = IF G > OUTMAX THEN OUTMAX ELSE G
    BY <1>3, <1>5, Limits DEF Clamp, G
  <1>7. /\ H \in Nat /\ IsFloor(H, w, j) /\ H = w \div j
        /\ j \in Nat /\ j >= 1 /\ j <= 128 /\ ErrorOf(g, p, r) = Error(g, H)
    BY <1>1, <1>6, PairFacts DEF w
  <1>8. Error(f, G) <= Error(f, O)
    <2>1. Precedes(f, p, q, r)
      BY <1>1 DEF IsBest
    <2>2. ErrorOf(f, p, q) \in Nat /\ ErrorOf(f, p, r) \in Nat
      BY <1>1, <1>2, PairType
    <2> QED BY <1>3, <1>4, <2>1, <2>2 DEF Precedes
  <1>9. Error(g, H) <= Error(g, FreqOf(g, p, q))
    <2>1. Precedes(g, p, r, q)
      BY <1>1 DEF IsBest
    <2>2. /\ ErrorOf(g, p, q) \in Nat /\ ErrorOf(g, p, r) \in Nat
          /\ ErrorOf(g, p, q) = Error(g, FreqOf(g, p, q))
      BY <1>1, <1>6, PairType, PairFacts
    <2> QED BY <1>7, <2>1, <2>2 DEF Precedes
  <1> HIDE DEF H, j
  <1>10. CASE G <= OUTMAX
    <2>1. g = G
      BY <1>3, <1>6, <1>10, Limits
    <2>2. FreqOf(G, p, q) = G
      BY <1>1, <1>2, <1>3, <1>5, TriedAgain DEF G
    <2>3. Error(G, H) <= Error(G, G)
      BY <1>9, <2>1, <2>2
    <2>4. H = G
      BY <1>3, <1>7, <2>3, SMT DEF Error
    <2> QED BY <2>4, Zenon DEF H, G
  <1>11. CASE f = OUTMAX /\ G > OUTMAX
    <2>1. g = f
      BY <1>6, <1>11
    <2>2. r = q
      BY <1>2, <2>1, BestUnique
    <2> QED BY <2>1, <2>2
  <1>12. CASE f # OUTMAX /\ G > OUTMAX
    <2>1. g = OUTMAX /\ f < g
      BY <1>6, <1>12, Limits
    <2>2. DivOf(f, p, q) = 1
      <3>1. ASSUME DivOf(f, p, q) >= 2 PROVE FALSE
        <4> DEFINE i == DivOf(f, p, q)
        <4> HIDE DEF i
        <4>1. i \in Nat /\ i >= 2 /\ IsFloor(G, v, i)
          BY <1>3, <3>1 DEF i
        <4>2. 2 * G <= i * G /\ i * G <= v
          BY <1>3, <4>1, Z3 DEF IsFloor
        <4>3. i * G \in Nat
          BY <1>3, <4>1, Z3
        <4>4. 2 * OUTMAX < 2 * G /\ v <= 2 * OUTMAX
          BY <1>3, <1>12, LargeLimits, SMT DEF IsVco
        <4> DEFINE u == i * G
        <4> HIDE DEF u
        <4>5. 2 * G <= u /\ u <= v /\ u \in Nat
          BY <4>2, <4>3 DEF u
        <4> QED BY <1>3, <4>4, <4>5, Limits, SMT
      <3> QED BY <1>3, <3>1
    <2>3. G = v /\ SmallDividers(f, 1, v)
      BY <1>3, <2>2, SmallQuotients
    <2>4. j <= k /\ DivOf(g, p, q) <= DivOf(f, p, q)
      <3>1. \A s \in PairsOf(p) : DivOf(g, p, s) <= DivOf(f, p, s)
        <4> TAKE s \in PairsOf(p)
        <4>1. s[1] \in Nat \ {0} /\ s[2] \in Nat
          BY <1>2, PairFacts, PairType
        <4>2. f <= g
          BY <2>1, Limits
        <4>3. ClkDiv(g, p, s[1], s[2]) <= ClkDiv(f, p, s[1], s[2])
          BY <1>2, <1>6, <4>1, <4>2, ClkDivAntitone
        <4> QED BY <4>3, Zenon DEF DivOf
      <3> QED BY <1>1, <3>1 DEF j, k
    <2>5. FreqOf(g, p, q) = G
      <3>1. DivOf(g, p, q) \in Nat /\ DivOf(g, p, q) >= 1
            /\ FreqOf(g, p, q) \in Nat /\ IsFloor(FreqOf(g, p, q), v, DivOf(g, p, q))
        BY <1>1, <1>6, PairFacts DEF v
      <3>2. DivOf(g, p, q) = 1
        BY <2>2, <2>4, <3>1
      <3> QED BY <1>3, <2>3, <3>1, <3>2, SmallQuotients
    <2>6. Error(g, H) <= Error(g, G)
      BY <1>9, <2>5
    <2>7. j = 1 => H = w
      BY <1>4, <1>7, SmallQuotients
    <2>8. j = k => H = O
      BY <1>4, <1>7
    <2>9. k = 2 => 2 * O <= w /\ w < 2 * O + 2
      BY <1>4, SmallQuotients
    <2>10. f < OUTMAX
      BY <2>1
    <2>11. G <= v
      BY <1>3, <2>3
    <2>12. Error(OUTMAX, H) <= Error(OUTMAX, G)
      BY <2>1, <2>6
    <2>13. H = G
      BY <1>3, <1>4, <1>7, <1>8, <1>12, <2>3, <2>4, <2>7, <2>8, <2>9, <2>10, <2>11,
         <2>12, AboveMaximum
    <2> QED BY <2>13, Zenon DEF H, G
  <1> QED BY <1>3, <1>10, <1>11, <1>12, Limits

\* What is searched for is within the limits of the output.
LEMMA RequestRange ==
  ASSUME NEW n \in Int
  PROVE  /\ Clamp(n, OUTMIN, OUTMAX) \in Nat \ {0}
         /\ OUTMIN <= Clamp(n, OUTMIN, OUTMAX) /\ Clamp(n, OUTMIN, OUTMAX) <= OUTMAX
  BY Limits DEF Clamp

\* Whatever frequency is asked for, asking find_mode for the one it answered
\* gives that one again.
THEOREM AnswerIsReached ==
  ASSUME NEW freq \in Int, NEW p \in Nat, FindMode(freq, p).freq # 0
  PROVE  FindMode(FindMode(freq, p).freq, p).freq = FindMode(freq, p).freq
  <1> DEFINE f == Clamp(freq, OUTMIN, OUTMAX)
             G == FindMode(freq, p).freq
             g == Clamp(G, OUTMIN, OUTMAX)
  <1>1. f \in Nat /\ f \in Nat \ {0} /\ OUTMIN <= f /\ f <= OUTMAX
    BY RequestRange
  <1>2. p \in Nat \ {0} /\ PairsOf(p) # {}
    BY FindModeIs DEF NoMode
  <1>3. PICK q \in PairsOf(p) : IsBest(f, p, q)
    BY <1>1, <1>2, BestExists
  <1>4. FindMode(freq, p) = Candidate(f, p, q[1], q[2])
    BY <1>2, <1>3, FindModeIs
  <1>5. G = FreqOf(f, p, q) /\ G \in Nat
    BY <1>1, <1>2, <1>4, PairFacts DEF FreqOf
  <1> HIDE DEF f, G
  <1>6. g \in Nat \ {0}
    BY <1>5, RequestRange
  <1>7. PICK r \in PairsOf(p) : IsBest(g, p, r)
    BY <1>2, <1>6, BestExists
  <1>8. FindMode(G, p) = Candidate(g, p, r[1], r[2])
    <2>1. G \in Int
      BY <1>5
    <2> QED BY <1>2, <1>7, <2>1, FindModeIs
  <1>9. FreqOf(g, p, r) = FreqOf(f, p, q)
    BY <1>1, <1>2, <1>3, <1>5, <1>7, FoundAgain
  <1>10. FindMode(G, p).freq = G
    BY <1>5, <1>8, <1>9, Zenon DEF FreqOf
  <1> QED BY <1>10, Zenon DEF G

\* find_mode clamps what it is asked for.
LEMMA FindModeClamps ==
  ASSUME NEW freq \in Int, NEW p \in Nat
  PROVE  FindMode(Clamp(freq, OUTMIN, OUTMAX), p) = FindMode(freq, p)
  <1> DEFINE f == Clamp(freq, OUTMIN, OUTMAX)
  <1>1. f \in Int
    BY Limits, ClampRange
  <1>2. Clamp(f, OUTMIN, OUTMAX) = f
    BY Limits DEF Clamp
  <1>3. CASE p = 0 \/ PairsOf(p) = {}
    BY <1>1, <1>3, FindModeIs
  <1>4. CASE p # 0 /\ PairsOf(p) # {}
    <2>1. f \in Nat \ {0}
      BY Limits, ClampRange
    <2>2. PICK q \in PairsOf(p) : IsBest(f, p, q)
      BY <1>4, <2>1, BestExists
    <2>3. FindMode(freq, p) = Candidate(f, p, q[1], q[2])
      BY <1>4, <2>2, FindModeIs
    <2> HIDE DEF f
    <2>4. FindMode(f, p) = Candidate(f, p, q[1], q[2])
      BY <1>1, <1>2, <1>4, <2>2, FindModeIs
    <2> QED BY <2>3, <2>4 DEF f
  <1> QED BY <1>3, <1>4
=============================================================================
