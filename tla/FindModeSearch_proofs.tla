------------------------ MODULE FindModeSearch_proofs ------------------------
(***************************************************************************)
(* For every request and every reference clock: what find_mode picks is a  *)
(* mode the clock manager has, and the registers computed from it make the *)
(* manager run at the frequency reported; its loops return the first of    *)
(* the closest candidates; and set_rate reaches the rate that round_rate   *)
(* answered.                                                               *)
(***************************************************************************)
EXTENDS FindModeSearch, Mmcm_proofs

-----------------------------------------------------------------------------
(* The search *)

\* The loop variables are in the range of the loops.
InRange ==
  /\ pc # "done" => parentFreq > 0 /\ FirstDiv(parentFreq) <= curDiv
  /\ pc = "inner" => /\ curDiv <= MaxDiv(parentFreq)
                     /\ MinFb(parentFreq, curDiv) <= curFb

\* The mode kept is one that the ranges of the loops allow.
PickWithinLoops == bestPick.freq # 0 => WithinLoops(parentFreq, bestPick)

\* The frequency reported is the output of the mode.
PickOutput ==
  bestPick.freq # 0 =>
    bestPick.freq = Output(parentFreq, bestPick.maindiv, bestPick.fbmult,
                           bestPick.clkdiv)

IInv == TypeOK /\ InRange /\ PickWithinLoops /\ PickOutput

\* The mode of a failed search is none.
LEMMA NoModeType ==
  /\ NoMode \in Modes
  /\ NoMode.freq = 0
  BY SmallLimits DEF NoMode, Modes

\* The first main divider tried is 1 or 2.
LEMMA FirstDivRange == \A p \in Nat : FirstDiv(p) \in 1 .. 2
  BY DEF FirstDiv

\* A search starts in the invariant ...
LEMMA InitStep == Init => IInv
  <1> SUFFICES ASSUME Init PROVE IInv
    OBVIOUS
  <1> USE Limits, SmallLimits
  <1>1. freq \in OUTMIN .. OUTMAX
    <2>1. PICK r \in Rates : freq = Clamp(ToFreq(r), OUTMIN, OUTMAX)
      BY Zenon DEF Init
    <2>2. ToFreq(r) \in Int
      BY RatesAssumption DEF ToFreq
    <2> QED BY <2>1, <2>2, ClampRange
  <1>2. parentFreq \in Nat
    <2>1. PICK p \in Parents : parentFreq = ToParent(p)
      BY Zenon DEF Init
    <2> QED BY <2>1, RatesAssumption DEF ToParent
  <1>3. FirstDiv(parentFreq) \in 1 .. 2
    BY <1>2, FirstDivRange
  <1>4. TypeOK
    <2>1. /\ curDiv = FirstDiv(parentFreq) /\ curFb = 0 /\ bestPick = NoMode
          /\ bestError = OUTMAX /\ freq_found = FALSE /\ rounded = -1
          /\ pc = "done" \/ pc = "outer"
      BY Zenon DEF Init
    <2>2. curDiv \in 1 .. DIVMAX + 1 /\ curFb \in Nat /\ bestError \in 0 .. OUTMAX
      BY <1>3, <2>1
    <2> QED BY <1>1, <1>2, <2>1, <2>2, NoModeType, Zenon DEF TypeOK
  <1>5. InRange
    BY <1>2, <1>3 DEF Init, InRange
  <1>6. PickWithinLoops /\ PickOutput
    BY NoModeType DEF Init, PickWithinLoops, PickOutput
  <1> QED BY <1>4, <1>5, <1>6 DEF IInv

\* ... a round of the outer loop keeps it,
LEMMA OuterStep ==
  ASSUME IInv, Outer
  PROVE  IInv'
  <1> USE Limits, SmallLimits
  <1>1. PickWithinLoops' /\ PickOutput'
    BY Zenon DEF IInv, Outer, PickWithinLoops, PickOutput
  <1>2. CASE /\ curDiv <= MaxDiv(parentFreq)
             /\ curFb' = MinFb(parentFreq, curDiv) /\ pc' = "inner"
    <2>1. parentFreq \in Nat \ {0} /\ curDiv \in Nat \ {0}
      BY DEF IInv, InRange, TypeOK, Outer
    <2>2. MinFb(parentFreq, curDiv) \in Nat
      <3>1. DivRoundUp(VCOMIN, parentFreq) \in Nat
        BY <2>1, RoundUpReaches, Limits
      <3>2. curDiv * DivRoundUp(VCOMIN, parentFreq) \in Nat
        BY <2>1, <3>1, Z3
      <3> QED BY <3>2 DEF MinFb, FBMIN
    <2>3. MinFb(parentFreq, curDiv) <= MinFb(parentFreq, curDiv)
      BY <2>2
    <2>4. UNCHANGED <<freq, parentFreq, curDiv, bestPick, bestError, freq_found, rounded>>
      BY DEF Outer
    <2>5. TypeOK'
      BY <1>2, <2>2, <2>4 DEF IInv, TypeOK
    <2>6. InRange'
      BY <1>2, <2>3, <2>4 DEF IInv, InRange, Outer
    <2> QED BY <1>1, <2>5, <2>6 DEF IInv
  <1>3. CASE pc' = "done"
    BY <1>1, <1>3 DEF IInv, TypeOK, InRange, Outer
  <1> QED BY <1>2, <1>3, Zenon DEF Outer

\* a round of the inner loop: the candidate is within the loops, whether kept or not,
LEMMA InnerStep ==
  ASSUME IInv, Inner
  PROVE  IInv'
  <1> USE Limits, SmallLimits
  <1>0. /\ freq \in Nat \ {0} /\ parentFreq \in Nat \ {0}
        /\ curDiv \in Nat /\ curFb \in Nat
        /\ FirstDiv(parentFreq) <= curDiv /\ curDiv <= MaxDiv(parentFreq)
        /\ MinFb(parentFreq, curDiv) <= curFb
    BY DEF IInv, TypeOK, InRange, Inner
  <1> DEFINE c == Candidate(freq, parentFreq, curDiv, curFb)
             err == Error(freq, c.freq)
  <1>1. CASE /\ curFb <= MaxFb(parentFreq, curDiv)
             /\ bestPick' = IF err < bestError THEN c ELSE bestPick
             /\ bestError' = IF err < bestError THEN err ELSE bestError
             /\ freq_found' = (err = 0)
             /\ curFb' = curFb + 1
             /\ UNCHANGED <<freq, parentFreq, curDiv, rounded, pc>>
    <2>1. /\ WithinLoops(parentFreq, c)
          /\ c.freq = Output(parentFreq, c.maindiv, c.fbmult, c.clkdiv)
          /\ c \in Modes
      BY <1>0, <1>1, CandidateLegal, Zenon
    <2>2. err \in Nat
      <3> HIDE DEF c
      <3>1. c.freq \in Nat
        BY <2>1 DEF Modes
      <3> QED BY <1>0, <3>1 DEF Error
    <2> HIDE DEF c, err
    <2>3. TypeOK'
      BY <1>1, <2>1, <2>2 DEF IInv, TypeOK
    <2>4. PickWithinLoops' /\ PickOutput'
      BY <2>1, <1>1, Zenon DEF IInv, PickWithinLoops, PickOutput
    <2>5. InRange'
      <3>1. MinFb(parentFreq, curDiv) \in Int
        BY <1>0, RoundUpReaches, Limits, Z3 DEF MinFb
      <3> QED BY <1>0, <1>1, <3>1 DEF InRange
    <2> QED BY <2>3, <2>4, <2>5 DEF IInv
  <1>2. CASE pc' = "outer"
    <2>1. /\ curDiv' = curDiv + 1
          /\ UNCHANGED <<curFb, bestPick, bestError, freq_found, freq, parentFreq,
                         rounded>>
      BY <1>2 DEF Inner
    <2>2. PickWithinLoops' /\ PickOutput'
      BY <2>1, Zenon DEF IInv, PickWithinLoops, PickOutput
    <2>3. curDiv \in 1 .. DIVMAX
      BY <1>0, DividerLegal
    <2>4. FirstDiv(parentFreq) \in Int
      BY <1>0, FirstDivRange
    <2>5. TypeOK' /\ InRange'
      BY <1>0, <1>2, <2>1, <2>3, <2>4 DEF IInv, TypeOK, InRange
    <2> QED BY <2>2, <2>5 DEF IInv
  <1> QED BY <1>1, <1>2, Zenon DEF Inner

\* and so does the second search.
LEMMA SetRateStep ==
  ASSUME IInv, SetRate
  PROVE  IInv'
  <1> USE Limits, SmallLimits
  <1>1. parentFreq \in Nat /\ bestPick.freq \in Nat \ {0}
    BY DEF IInv, TypeOK, Modes, SetRate
  <1>2. parentFreq > 0
    <2>1. PFDMIN * bestPick.maindiv <= parentFreq /\ bestPick.maindiv \in 1 .. DIVMAX
      BY <1>1 DEF IInv, PickWithinLoops, WithinLoops, ModeExists
    <2> QED BY <1>1, <2>1, SMT DEF PFDMIN
  <1>3. ToRate(bestPick.freq) \in Nat
    BY <1>1 DEF ToRate
  <1>4. freq' \in OUTMIN .. OUTMAX
    <2>1. ToFreq(ToRate(bestPick.freq)) \in Int
      BY <1>3 DEF ToFreq
    <2>2. freq' = Clamp(ToFreq(ToRate(bestPick.freq)), OUTMIN, OUTMAX)
      BY Zenon DEF SetRate
    <2> QED BY <2>1, <2>2, ClampRange
  <1>5. FirstDiv(parentFreq) \in 1 .. 2
    BY <1>1, FirstDivRange
  <1>6. TypeOK'
    <2>1. /\ curDiv' = FirstDiv(parentFreq) /\ bestPick' = NoMode
          /\ bestError' = OUTMAX /\ freq_found' = FALSE /\ pc' = "outer"
          /\ rounded' = ToRate(bestPick.freq) /\ UNCHANGED <<parentFreq, curFb>>
      BY Zenon DEF SetRate
    <2>2. curDiv' \in 1 .. DIVMAX + 1 /\ bestError' \in 0 .. OUTMAX
      BY <1>5, <2>1
    <2> QED BY <1>3, <1>4, <2>1, <2>2, NoModeType, Zenon DEF IInv, TypeOK
  <1>7. InRange'
    BY <1>2, <1>5 DEF InRange, SetRate
  <1>8. PickWithinLoops' /\ PickOutput'
    BY NoModeType, Zenon DEF SetRate, PickWithinLoops, PickOutput
  <1> QED BY <1>6, <1>7, <1>8 DEF IInv

\* Every step keeps the invariant.
LEMMA NextStep == IInv /\ [Next]_vars => IInv'
  <1> SUFFICES ASSUME IInv, [Next]_vars PROVE IInv'
    OBVIOUS
  <1>1. CASE UNCHANGED vars
    BY <1>1 DEF vars, IInv, TypeOK, InRange, PickWithinLoops, PickOutput
  <1> QED BY <1>1, OuterStep, InnerStep, SetRateStep DEF Next

\* The invariant of the search: the loops stay in their ranges and so does the
\* mode kept.
THEOREM Invariance == Spec => []IInv
  BY InitStep, NextStep, PTL DEF Spec

\* Every mode find_mode picks is within the limits of the clock manager, whatever
\* the request, for every reference clock of up to 900 MHz.
THEOREM PicksAreLegal == Spec => []PickIsLegal
  <1>1. IInv => PickIsLegal
    BY DEF IInv, PickWithinLoops, PickIsLegal, WithinLoops, Legal
  <1> QED BY <1>1, Invariance, PTL

\* find_reg never fails on a mode find_mode picks, so that set_rate may ignore
\* its result, and the registers make the manager run at the mode's frequency.
THEOREM RegistersAlwaysMatch == Spec => []RegistersMatch
  <1>1. IInv => RegistersMatch
    <2> SUFFICES ASSUME IInv, bestPick.freq # 0
                 PROVE  /\ ~FindReg(bestPick).error
                        /\ RunsAt(parentFreq, FindReg(bestPick)) = bestPick.freq
      BY DEF RegistersMatch
    <2>1. parentFreq \in Nat /\ WithinLoops(parentFreq, bestPick)
      BY DEF IInv, TypeOK, PickWithinLoops
    <2>2. bestPick.freq = Output(parentFreq, bestPick.maindiv, bestPick.fbmult,
                                 bestPick.clkdiv)
      BY DEF IInv, PickOutput
    <2> QED BY <2>1, <2>2, ModesHaveRegisters DEF WithinLoops
  <1> QED BY <1>1, Invariance, PTL

-----------------------------------------------------------------------------
(* The loops with their early exits find what FindMode defines.  The state  *)
(* of the search is described by the pairs it has tried: the best of them   *)
(* is kept, and when the loops end the others cannot be better.             *)

\* The search is past the pair r.
Tried(r) == r[1] < curDiv \/ (pc = "inner" /\ r[1] = curDiv /\ r[2] < curFb)

NothingTried ==
  /\ bestPick = NoMode /\ bestError = OUTMAX /\ freq_found = FALSE
  /\ \A r \in PairsOf(parentFreq) : ~Tried(r)

\* The pair q is the first of the closest pairs tried, and it is kept.
IsBestTried(q) ==
  /\ Tried(q)
  /\ bestPick = Candidate(freq, parentFreq, q[1], q[2])
  /\ bestError = ErrorOf(freq, parentFreq, q)
  /\ freq_found = (bestError = 0)
  /\ \A r \in PairsOf(parentFreq) : Tried(r) => Precedes(freq, parentFreq, q, r)

BestSoFar == NothingTried \/ \E q \in PairsOf(parentFreq) : IsBestTried(q)

SearchState ==
  /\ parentFreq = 0 => pc = "done" /\ bestPick = NoMode
  /\ parentFreq # 0 =>
       /\ BestSoFar
       /\ pc = "done" => freq_found \/ MaxDiv(parentFreq) < curDiv

\* The bounds of the inner loop are numbers.
LEMMA BoundsType ==
  ASSUME NEW p \in Nat \ {0}, NEW d \in Nat
  PROVE  MinFb(p, d) \in Int /\ MaxFb(p, d) \in Int
  <1>1. DivRoundUp(VCOMIN, p) \in Nat /\ VCOMAX \div p \in Nat
    BY RoundUpReaches, DivBounds, Limits
  <1>2. d * DivRoundUp(VCOMIN, p) \in Int /\ d * (VCOMAX \div p) \in Int
    BY <1>1, Z3
  <1>3. FBMIN \in Int /\ FBMAX \in Int
    BY SmallLimits
  <1> QED BY <1>2, <1>3, Zenon DEF MinFb, MaxFb

\* The pairs are those the loops go through.
LEMMA PairIn ==
  ASSUME NEW p \in Nat \ {0}
  PROVE  /\ \A d, fb \in Nat :
              /\ FirstDiv(p) <= d /\ d <= MaxDiv(p)
              /\ MinFb(p, d) <= fb /\ fb <= MaxFb(p, d)
              => <<d, fb>> \in PairsOf(p)
         /\ \A q \in PairsOf(p) :
              /\ q[1] \in Nat /\ q[2] \in Nat
              /\ FirstDiv(p) <= q[1] /\ q[1] <= MaxDiv(p)
              /\ MinFb(p, q[1]) <= q[2] /\ q[2] <= MaxFb(p, q[1])
  <1>1. FirstDiv(p) \in Nat /\ MaxDiv(p) \in Nat
    BY FirstDivRange, Limits, SmallLimits, DivBounds DEF MaxDiv
  <1>2. \A d \in Nat : MinFb(p, d) \in Int /\ MaxFb(p, d) \in Int
    BY BoundsType
  <1>3. \A d, fb \in Nat :
              /\ FirstDiv(p) <= d /\ d <= MaxDiv(p)
              /\ MinFb(p, d) <= fb /\ fb <= MaxFb(p, d)
              => <<d, fb>> \in PairsOf(p)
    <2> SUFFICES ASSUME NEW d \in Nat, NEW fb \in Nat,
                        FirstDiv(p) <= d, d <= MaxDiv(p),
                        MinFb(p, d) <= fb, fb <= MaxFb(p, d)
                 PROVE  <<d, fb>> \in PairsOf(p)
      OBVIOUS
    <2>1. d \in 1 .. DIVMAX
      BY DividerLegal
    <2>2. fb \in FBMIN .. FBMAX
      BY <2>1, FeedbackLegal, SmallLimits
    <2>3. d \in FirstDiv(p) .. MaxDiv(p) /\ fb \in MinFb(p, d) .. MaxFb(p, d)
      BY <1>1, <1>2, <2>1, SmallLimits
    <2> QED BY <2>2, <2>3 DEF PairsOf
  <1>4. \A q \in PairsOf(p) :
              /\ q[1] \in Nat /\ q[2] \in Nat
              /\ FirstDiv(p) <= q[1] /\ q[1] <= MaxDiv(p)
              /\ MinFb(p, q[1]) <= q[2] /\ q[2] <= MaxFb(p, q[1])
    <2> TAKE q \in PairsOf(p)
    <2>1. /\ q \in (FirstDiv(p) .. MaxDiv(p)) \X (FBMIN .. FBMAX)
          /\ q[2] \in MinFb(p, q[1]) .. MaxFb(p, q[1])
      BY DEF PairsOf
    <2>2. q[1] \in FirstDiv(p) .. MaxDiv(p) /\ q[2] \in FBMIN .. FBMAX
      BY <2>1
    <2>3. q[1] \in Nat /\ q[1] # 0 /\ q[2] \in Nat
      BY <1>1, <2>2, FirstDivRange, SmallLimits
    <2> QED BY <1>1, <1>2, <2>1, <2>2, <2>3, SmallLimits
  <1> QED BY <1>3, <1>4

\* The errors of the pairs, as the comparisons of the search need them.
LEMMA PairErrors ==
  ASSUME IInv, parentFreq # 0
  PROVE  \A q \in PairsOf(parentFreq) :
           /\ ErrorOf(freq, parentFreq, q) \in Nat
           /\ ErrorOf(freq, parentFreq, q) < OUTMAX
  <1>1. /\ parentFreq \in Nat \ {0} /\ freq \in Nat \ {0}
        /\ OUTMIN <= freq /\ freq <= OUTMAX
    BY Limits DEF IInv, TypeOK
  <1> QED BY <1>1, PairType, ErrorBelow

\* Which pairs are tried does not change when a round of the outer loop starts.
LEMMA TriedOuter ==
  ASSUME IInv, Outer, SearchState
  PROVE  SearchState'
  <1>1. parentFreq \in Nat \ {0} /\ curDiv \in Nat /\ pc = "outer" /\ freq_found \in BOOLEAN
    BY DEF IInv, InRange, TypeOK, Outer
  <1>2. /\ freq' = freq /\ parentFreq' = parentFreq /\ curDiv' = curDiv
        /\ bestPick' = bestPick /\ bestError' = bestError /\ freq_found' = freq_found
    BY DEF Outer
  <1>3. \A r \in PairsOf(parentFreq) : Tried(r)' <=> Tried(r)
    <2> TAKE r \in PairsOf(parentFreq)
    <2>1. r[1] \in Nat /\ r[2] \in Nat /\ MinFb(parentFreq, r[1]) <= r[2]
      BY <1>1, PairIn
    <2>2. CASE curFb' = MinFb(parentFreq, curDiv) /\ pc' = "inner"
      <3>1. r[1] = curDiv => ~(r[2] < curFb')
        <4>1. MinFb(parentFreq, curDiv) \in Int
          BY <1>1, BoundsType
        <4> QED BY <2>1, <2>2, <4>1
      <3> QED BY <1>1, <1>2, <3>1 DEF Tried
    <2>3. CASE pc' = "done"
      BY <1>1, <1>2, <2>3 DEF Tried
    <2> QED BY <2>2, <2>3 DEF Outer
  <1>4. BestSoFar
    BY <1>1 DEF SearchState
  <1>5. BestSoFar'
    <2>1. CASE NothingTried
      BY <1>2, <1>3, <2>1, Zenon DEF NothingTried, BestSoFar
    <2>2. CASE \E q \in PairsOf(parentFreq) : IsBestTried(q)
      <3>1. PICK q \in PairsOf(parentFreq) : IsBestTried(q)
        BY <2>2
      <3>2. IsBestTried(q)'
        BY <1>2, <1>3, <3>1, Zenon DEF IsBestTried
      <3> QED BY <1>2, <3>2, Zenon DEF BestSoFar
    <2> QED BY <1>4, <2>1, <2>2 DEF BestSoFar
  <1>6. pc' = "done" => freq_found' \/ MaxDiv(parentFreq') < curDiv'
    BY <1>1, <1>2 DEF Outer
  <1> QED BY <1>1, <1>2, <1>5, <1>6 DEF SearchState

\* One more pair is tried: it is kept if, and only if, it precedes the best of
\* the others.
LEMMA TryNext ==
  ASSUME IInv, SearchState, Inner, curFb <= MaxFb(parentFreq, curDiv), ~freq_found
  PROVE  BestSoFar' /\ pc' = "inner" /\ parentFreq' # 0
  <1> DEFINE c   == Candidate(freq, parentFreq, curDiv, curFb)
             err == Error(freq, c.freq)
             P   == PairsOf(parentFreq)
             E(r) == ErrorOf(freq, parentFreq, r)
  <1>1. /\ parentFreq \in Nat \ {0} /\ curDiv \in Nat /\ curFb \in Nat
        /\ pc = "inner" /\ bestError \in Nat /\ freq_found = FALSE
        /\ FirstDiv(parentFreq) <= curDiv /\ curDiv <= MaxDiv(parentFreq)
        /\ MinFb(parentFreq, curDiv) <= curFb
    BY DEF IInv, TypeOK, InRange, Inner
  <1>2. /\ freq' = freq /\ parentFreq' = parentFreq /\ curDiv' = curDiv
        /\ curFb' = curFb + 1 /\ pc' = pc
        /\ bestPick' = IF err < bestError THEN c ELSE bestPick
        /\ bestError' = IF err < bestError THEN err ELSE bestError
        /\ freq_found' = (err = 0)
    <2>1. ~(curFb > MaxFb(parentFreq, curDiv) \/ freq_found)
      BY <1>1, BoundsType
    <2> QED BY <2>1, Zenon DEF Inner
  <1>3. PICK new \in P :
          /\ new = <<curDiv, curFb>> /\ new[1] = curDiv /\ new[2] = curFb
          /\ E(new) = err /\ c = Candidate(freq, parentFreq, new[1], new[2])
    BY <1>1, PairIn DEF ErrorOf
  <1>4. \A r \in P : /\ E(r) \in Nat /\ E(r) < OUTMAX
                     /\ r[1] \in Nat /\ r[2] \in Nat
                     /\ Tried(r)' <=> Tried(r) \/ r = new
    <2> TAKE r \in P
    <2>1. E(r) \in Nat /\ E(r) < OUTMAX
      BY <1>1, PairErrors
    <2>2. r[1] \in Nat /\ r[2] \in Nat
      BY <1>1, PairIn
    <2>3. r = <<r[1], r[2]>>
      BY DEF PairsOf
    <2>4. r = new <=> r[1] = curDiv /\ r[2] = curFb
      BY <1>3, <2>3
    <2>5. Tried(r)' <=> Tried(r) \/ r = new
      BY <1>1, <1>2, <2>2, <2>4 DEF Tried
    <2> QED BY <2>1, <2>2, <2>5
  <1>5. ASSUME NEW x \in P, Tried(x)', bestError' = E(x),
               bestPick' = Candidate(freq, parentFreq, x[1], x[2]),
               freq_found' = (bestError' = 0),
               \A r \in P : Tried(r)' => Precedes(freq, parentFreq, x, r)
        PROVE  BestSoFar'
    BY <1>2, <1>5, Zenon DEF IsBestTried, BestSoFar
  <1>6. \A q, r \in P : Precedes(freq, parentFreq, q, r) <=>
          \/ E(q) < E(r)
          \/ E(q) = E(r) /\ q[1] < r[1]
          \/ E(q) = E(r) /\ q[1] = r[1] /\ q[2] <= r[2]
    BY DEF Precedes
  <1>7. BestSoFar
    BY <1>1 DEF SearchState
  <1> HIDE DEF c, err, P, E
  <1>8. ASSUME NothingTried
        PROVE  BestSoFar'
    <2>1. bestError = OUTMAX /\ \A r \in P : ~Tried(r)
      BY <1>8 DEF NothingTried, P
    <2>2. err < bestError
      BY <1>3, <1>4, <2>1
    <2>3. /\ Tried(new)' /\ bestError' = E(new) /\ freq_found' = (bestError' = 0)
          /\ bestPick' = Candidate(freq, parentFreq, new[1], new[2])
      BY <1>2, <1>3, <1>4, <2>2, Zenon
    <2>4. \A r \in P : Tried(r)' => Precedes(freq, parentFreq, new, r)
      BY <1>3, <1>4, <1>6, <2>1
    <2> QED BY <1>3, <1>5, <2>3, <2>4
  <1>9. ASSUME \E q \in PairsOf(parentFreq) : IsBestTried(q)
        PROVE  BestSoFar'
    <2>1. PICK q \in P : IsBestTried(q)
      BY <1>9 DEF P
    <2>2. /\ Tried(q) /\ bestError = E(q) /\ bestError # 0
          /\ bestPick = Candidate(freq, parentFreq, q[1], q[2])
          /\ \A r \in P : Tried(r) => Precedes(freq, parentFreq, q, r)
      BY <1>1, <2>1 DEF IsBestTried, P, E
    <2>3. CASE err < bestError
      <3>1. /\ Tried(new)' /\ bestError' = E(new) /\ freq_found' = (bestError' = 0)
            /\ bestPick' = Candidate(freq, parentFreq, new[1], new[2])
        BY <1>2, <1>3, <1>4, <2>3, Zenon
      <3>2. \A r \in P : Tried(r)' => Precedes(freq, parentFreq, new, r)
        <4> SUFFICES ASSUME NEW r \in P, Tried(r)'
                     PROVE  Precedes(freq, parentFreq, new, r)
          OBVIOUS
        <4>1. CASE Tried(r)
          <5>1. E(q) <= E(r)
            BY <1>4, <1>6, <2>2, <4>1
          <5> QED BY <1>3, <1>4, <1>6, <2>2, <2>3, <5>1
        <4>2. CASE r = new
          BY <1>3, <1>4, <1>6, <4>2
        <4> QED BY <1>4, <4>1, <4>2
      <3> QED BY <1>3, <1>5, <3>1, <3>2
    <2>4. CASE ~(err < bestError)
      <3>1. /\ Tried(q)' /\ bestError' = E(q)
            /\ bestPick' = Candidate(freq, parentFreq, q[1], q[2])
        BY <1>2, <1>4, <2>2, <2>4
      <3>2. err # 0
        BY <1>1, <2>2, <2>4
      <3>3. freq_found' = (bestError' = 0)
        BY <1>2, <2>2, <2>4, <3>2
      <3>4. \A r \in P : Tried(r)' => Precedes(freq, parentFreq, q, r)
        <4> SUFFICES ASSUME NEW r \in P, Tried(r)'
                     PROVE  Precedes(freq, parentFreq, q, r)
          OBVIOUS
        <4>1. CASE Tried(r)
          BY <2>2, <4>1
        <4>2. CASE r = new
          <5>1. q[1] < new[1] \/ (q[1] = new[1] /\ q[2] <= new[2])
            BY <1>1, <1>3, <1>4, <2>2 DEF Tried
          <5>2. E(q) <= E(new)
            BY <1>3, <1>4, <2>2, <2>4
          <5> QED BY <1>3, <1>4, <1>6, <4>2, <5>1, <5>2
        <4> QED BY <1>4, <4>1, <4>2
      <3> QED BY <1>5, <3>1, <3>3, <3>4
    <2> QED BY <2>3, <2>4
  <1>10. BestSoFar'
    BY <1>7, <1>8, <1>9 DEF BestSoFar
  <1> QED BY <1>1, <1>2, <1>10

\* The inner loop ends.  At its bound every pair of the main divider was tried;
\* after an exact match those left out cannot be closer, and come later.
LEMMA LeaveInner ==
  ASSUME IInv, SearchState, Inner, pc' = "outer"
  PROVE  SearchState'
  <1> DEFINE P    == PairsOf(parentFreq)
             E(r) == ErrorOf(freq, parentFreq, r)
  <1>1. /\ parentFreq \in Nat \ {0} /\ curDiv \in Nat /\ curFb \in Nat
        /\ pc = "inner" /\ bestError \in Nat
        /\ MinFb(parentFreq, curDiv) <= curFb
    BY DEF IInv, TypeOK, InRange, Inner
  <1>2. /\ freq' = freq /\ parentFreq' = parentFreq /\ curDiv' = curDiv + 1
        /\ bestPick' = bestPick /\ bestError' = bestError /\ freq_found' = freq_found
        /\ curFb > MaxFb(parentFreq, curDiv) \/ freq_found
    BY <1>1 DEF Inner
  <1>3. \A r \in P : /\ E(r) \in Nat /\ r[1] \in Nat /\ r[2] \in Nat
                     /\ MinFb(parentFreq, r[1]) <= r[2]
                     /\ r[2] <= MaxFb(parentFreq, r[1])
                     /\ Tried(r)' <=> Tried(r) \/ r[1] = curDiv
    <2> TAKE r \in P
    <2>1. E(r) \in Nat
      BY <1>1, PairErrors
    <2>2. /\ r[1] \in Nat /\ r[2] \in Nat
          /\ MinFb(parentFreq, r[1]) <= r[2] /\ r[2] <= MaxFb(parentFreq, r[1])
      BY <1>1, PairIn
    <2>3. Tried(r)' <=> Tried(r) \/ r[1] = curDiv
      BY <1>1, <1>2, <2>2 DEF Tried
    <2> QED BY <2>1, <2>2, <2>3
  <1>4. MinFb(parentFreq, curDiv) \in Int /\ MaxFb(parentFreq, curDiv) \in Int
    BY <1>1, BoundsType
  <1>5. freq_found = FALSE => \A r \in P : r[1] = curDiv => Tried(r)
    BY <1>1, <1>2, <1>3, <1>4 DEF Tried
  <1>6. BestSoFar /\ freq_found \in BOOLEAN
    BY <1>1 DEF SearchState, IInv, TypeOK
  <1>7. ASSUME NothingTried
        PROVE  BestSoFar'
    <2>1. freq_found = FALSE
      BY <1>7 DEF NothingTried
    <2>2. \A r \in P : Tried(r)' <=> Tried(r)
      BY <1>3, <1>5, <2>1
    <2> QED BY <1>2, <1>7, <2>2, Zenon DEF NothingTried, BestSoFar
  <1>8. ASSUME NEW q \in P, IsBestTried(q)
        PROVE  BestSoFar'
    <2>1. Tried(q)'
      BY <1>3, <1>8 DEF IsBestTried
    <2>2. ASSUME NEW r \in P, Tried(r)'
          PROVE  Precedes(freq, parentFreq, q, r)
      <3>1. CASE Tried(r)
        BY <1>8, <3>1 DEF IsBestTried
      <3>2. CASE ~Tried(r)
        <4>1. r[1] = curDiv /\ freq_found = TRUE
          BY <1>3, <1>5, <1>6, <2>2, <3>2
        <4>2. E(q) = 0
          BY <1>8, <4>1 DEF IsBestTried
        <4>3. q[1] < r[1] \/ (q[1] = r[1] /\ q[2] <= r[2])
          BY <1>1, <1>3, <1>8, <3>2, <4>1 DEF IsBestTried, Tried
        <4>4. E(q) < E(r) \/ E(q) = E(r)
          BY <1>3, <4>2
        <4> QED BY <4>3, <4>4, Zenon DEF Precedes
      <3> QED BY <3>1, <3>2
    <2>3. IsBestTried(q)'
      BY <1>2, <1>8, <2>1, <2>2, Zenon DEF IsBestTried
    <2> QED BY <1>2, <2>3, Zenon DEF BestSoFar
  <1>9. BestSoFar'
    BY <1>6, <1>7, <1>8 DEF BestSoFar
  <1> QED BY <1>1, <1>2, <1>9 DEF SearchState

\* At the start of a search no pair is tried.
LEMMA NoneTried ==
  ASSUME NEW p \in Nat \ {0}, NEW d, d = FirstDiv(p), NEW r \in PairsOf(p)
  PROVE  ~(r[1] < d)
  BY PairIn, FirstDivRange

\* Each step keeps the description of the search.
LEMMA SearchStep == IInv /\ SearchState /\ [Next]_vars => SearchState'
  <1> SUFFICES ASSUME IInv, SearchState, [Next]_vars PROVE SearchState'
    OBVIOUS
  <1>1. CASE Outer
    BY <1>1, TriedOuter
  <1>2. CASE Inner
    <2>1. CASE pc' = "outer"
      BY <1>2, <2>1, LeaveInner
    <2>2. CASE curFb <= MaxFb(parentFreq, curDiv) /\ ~freq_found
      BY <1>2, <2>2, TryNext DEF SearchState
    <2> QED BY <1>2, <2>1, <2>2 DEF Inner
  <1>3. CASE SetRate
    <2>1. parentFreq \in Nat /\ bestPick.freq # 0 /\ parentFreq' = parentFreq
          /\ bestPick' = NoMode /\ bestError' = OUTMAX /\ freq_found' = FALSE
          /\ curDiv' = FirstDiv(parentFreq) /\ pc' = "outer"
      BY <1>3 DEF SetRate, IInv, TypeOK
    <2>2. parentFreq # 0
      BY <2>1, NoModeType DEF SearchState
    <2>3. \A r \in PairsOf(parentFreq') : ~Tried(r)'
      BY <2>1, <2>2, NoneTried DEF Tried
    <2> QED BY <2>1, <2>2, <2>3 DEF SearchState, BestSoFar, NothingTried
  <1>4. CASE UNCHANGED vars
    BY <1>4 DEF vars, SearchState, BestSoFar, NothingTried, IsBestTried, Tried
  <1> QED BY <1>1, <1>2, <1>3, <1>4 DEF Next

\* The search starts as described.
LEMMA SearchInit == Init => SearchState
  <1> SUFFICES ASSUME Init PROVE SearchState
    OBVIOUS
  <1>1. parentFreq \in Nat
    BY InitStep DEF IInv, TypeOK
  <1>2. /\ bestPick = NoMode /\ bestError = OUTMAX /\ freq_found = FALSE
        /\ curDiv = FirstDiv(parentFreq)
        /\ pc = IF parentFreq = 0 THEN "done" ELSE "outer"
    BY DEF Init
  <1>3. parentFreq # 0 => \A r \in PairsOf(parentFreq) : ~Tried(r)
    BY <1>1, <1>2, NoneTried DEF Tried
  <1> QED BY <1>2, <1>3 DEF SearchState, BestSoFar, NothingTried

\* The loops with their early exits return what FindMode defines, the first of
\* the closest candidates, for every request and every reference clock.
THEOREM SearchIsFindMode == Spec => []SearchFindsMode
  <1>1. IInv /\ SearchState => SearchFindsMode
    <2> SUFFICES ASSUME IInv, SearchState, pc = "done"
                 PROVE  bestPick = FindMode(freq, parentFreq)
      BY DEF SearchFindsMode
    <2> DEFINE P == PairsOf(parentFreq)
    <2>1. freq \in Nat /\ OUTMIN <= freq /\ freq <= OUTMAX /\ parentFreq \in Nat
          /\ curDiv \in Nat /\ bestError \in Nat /\ freq_found \in BOOLEAN
      BY Limits DEF IInv, TypeOK
    <2>2. Clamp(freq, OUTMIN, OUTMAX) = freq
      BY <2>1, Limits DEF Clamp
    <2>3. /\ parentFreq = 0 \/ P = {} => FindMode(freq, parentFreq) = NoMode
          /\ parentFreq # 0 =>
               \A q : IsBest(freq, parentFreq, q) =>
                 FindMode(freq, parentFreq) = Candidate(freq, parentFreq, q[1], q[2])
      BY <2>1, <2>2, FindModeIs
    <2>4. CASE parentFreq = 0
      BY <2>3, <2>4 DEF SearchState
    <2>5. CASE parentFreq # 0
      <3>1. BestSoFar /\ (freq_found \/ MaxDiv(parentFreq) < curDiv)
        BY <2>5 DEF SearchState
      <3>2. \A r \in P : /\ ErrorOf(freq, parentFreq, r) \in Nat
                         /\ r[1] \in Nat /\ r[2] \in Nat /\ r[1] <= MaxDiv(parentFreq)
        BY <2>1, <2>5, PairErrors, PairIn
      <3>3. freq_found = FALSE => \A r \in P : Tried(r)
        <4>1. MaxDiv(parentFreq) \in Nat
          BY <2>1, Limits, SmallLimits, DivBounds DEF MaxDiv
        <4> QED BY <2>1, <3>1, <3>2, <4>1 DEF Tried
      <3>4. CASE NothingTried
        BY <2>3, <3>3, <3>4 DEF NothingTried
      <3>5. ASSUME NEW q \in P, IsBestTried(q)
            PROVE  bestPick = FindMode(freq, parentFreq)
        <4>1. ASSUME NEW r \in P
              PROVE  Precedes(freq, parentFreq, q, r)
          <5>1. CASE Tried(r)
            BY <3>5, <5>1 DEF IsBestTried
          <5>2. CASE ~Tried(r)
            <6>1. ErrorOf(freq, parentFreq, q) = 0
              BY <2>1, <3>3, <3>5, <5>2 DEF IsBestTried
            <6>2. q[1] < r[1]
              BY <2>1, <3>2, <3>5, <5>2 DEF IsBestTried, Tried
            <6>3. ErrorOf(freq, parentFreq, q) < ErrorOf(freq, parentFreq, r)
                  \/ ErrorOf(freq, parentFreq, q) = ErrorOf(freq, parentFreq, r)
              BY <3>2, <6>1
            <6> QED BY <6>2, <6>3, Zenon DEF Precedes
          <5> QED BY <5>1, <5>2
        <4>2. IsBest(freq, parentFreq, q)
          BY <4>1 DEF IsBest
        <4> QED BY <2>3, <2>5, <3>5, <4>2 DEF IsBestTried
      <3> QED BY <3>1, <3>4, <3>5 DEF BestSoFar
    <2> QED BY <2>4, <2>5
  <1>2. Spec => []SearchState
    BY Invariance, SearchInit, SearchStep, PTL DEF Spec
  <1> QED BY <1>1, <1>2, Invariance, PTL

-----------------------------------------------------------------------------
(* The two searches of a rate request *)

\* Once the first search has answered, the second is for that answer.
AsksForAnswer ==
  rounded # -1 =>
    \E f \in OUTMIN .. OUTMAX :
      LET answer == FindMode(f, parentFreq).freq
      IN  /\ answer \in Nat \ {0}
          /\ rounded = ToRate(answer)
          /\ freq = Clamp(answer, OUTMIN, OUTMAX)

\* A frequency survives the change to Hz and back.
LEMMA RateAndBack ==
  ASSUME NEW n \in Nat
  PROVE  ToFreq(ToRate(n)) = n
  BY SMT DEF ToFreq, ToRate

\* Only the start of the second search changes what is asked for.
LEMMA AskStep ==
  IInv /\ SearchFindsMode /\ AsksForAnswer /\ [Next]_vars => AsksForAnswer'
  <1> SUFFICES ASSUME IInv, SearchFindsMode, AsksForAnswer, [Next]_vars
               PROVE  AsksForAnswer'
    OBVIOUS
  <1>1. CASE SetRate
    <2>1. /\ bestPick = FindMode(freq, parentFreq) /\ bestPick.freq \in Nat \ {0}
          /\ freq \in OUTMIN .. OUTMAX
      BY <1>1 DEF SetRate, SearchFindsMode, IInv, TypeOK, Modes
    <2>2. /\ rounded' = ToRate(bestPick.freq) /\ parentFreq' = parentFreq
          /\ freq' = Clamp(bestPick.freq, OUTMIN, OUTMAX)
      BY <1>1, <2>1, RateAndBack DEF SetRate
    <2> QED BY <2>1, <2>2, Zenon DEF AsksForAnswer
  <1>2. CASE UNCHANGED <<freq, parentFreq, rounded>>
    BY <1>2, Zenon DEF AsksForAnswer
  <1>3. Outer \/ Inner \/ UNCHANGED vars => UNCHANGED <<freq, parentFreq, rounded>>
    BY DEF Outer, Inner, vars
  <1> QED BY <1>1, <1>2, <1>3 DEF Next

\* The rate round_rate answers is the one set_rate reaches, whatever was asked
\* for and whatever the reference clock: the search for a frequency that find_mode
\* answered ends at that frequency.
THEOREM RoundedRatesAreReached == Spec => []RoundedRateIsReached
  <1>1. IInv /\ SearchFindsMode /\ AsksForAnswer => RoundedRateIsReached
    <2> SUFFICES ASSUME IInv, SearchFindsMode, AsksForAnswer, pc = "done", rounded # -1
                 PROVE  ToRate(bestPick.freq) = rounded
      BY DEF RoundedRateIsReached
    <2>1. PICK f \in OUTMIN .. OUTMAX :
            /\ FindMode(f, parentFreq).freq \in Nat \ {0}
            /\ rounded = ToRate(FindMode(f, parentFreq).freq)
            /\ freq = Clamp(FindMode(f, parentFreq).freq, OUTMIN, OUTMAX)
      BY DEF AsksForAnswer
    <2> DEFINE answer == FindMode(f, parentFreq).freq
    <2>2. f \in Int /\ parentFreq \in Nat /\ answer \in Int /\ answer # 0
      BY <2>1, Limits DEF IInv, TypeOK
    <2>3. FindMode(answer, parentFreq).freq = answer
      BY <2>2, AnswerIsReached
    <2>4. bestPick = FindMode(freq, parentFreq) /\ freq = Clamp(answer, OUTMIN, OUTMAX)
      BY <2>1 DEF SearchFindsMode
    <2>5. rounded = ToRate(answer)
      BY <2>1
    <2> HIDE DEF answer
    <2>6. FindMode(Clamp(answer, OUTMIN, OUTMAX), parentFreq) = FindMode(answer, parentFreq)
      BY <2>2, FindModeClamps
    <2> QED BY <2>3, <2>4, <2>5, <2>6
  <1>2. Init => AsksForAnswer
    BY DEF Init, AsksForAnswer
  <1>3. Spec => []AsksForAnswer
    BY <1>2, AskStep, Invariance, SearchIsFindMode, PTL DEF Spec
  <1> QED BY <1>1, <1>3, Invariance, SearchIsFindMode, PTL
=============================================================================
