--------------------------- MODULE FindModeSearch ---------------------------
(***************************************************************************)
(* dglnt_dynclk_find_mode as it runs, one loop iteration a step, in the    *)
(* use the clock framework makes of it for one request: a first search in  *)
(* round_rate, for the rate asked for, and a second in set_rate, for the   *)
(* rate the first one answered.                                            *)
(***************************************************************************)
EXTENDS Mmcm

CONSTANTS
  Rates,     \* rates asked for, in Hz
  Parents    \* rates of the reference clock, in Hz

ASSUME RatesAssumption == Rates \subseteq Nat /\ Parents \subseteq Nat

VARIABLES
  freq,         \* the argument, clamped
  parentFreq,   \* the argument
  curDiv,
  curFb,
  bestPick,     \* the mode to return
  bestError,
  freq_found,   \* an exact match
  rounded,      \* the rate answered by the first search, -1 during it
  pc            \* "outer", "inner" or "done"

vars == <<freq, parentFreq, curDiv, curFb, bestPick, bestError, freq_found,
          rounded, pc>>

Init ==
  /\ \E r \in Rates : freq = Clamp(ToFreq(r), OUTMIN, OUTMAX)
  /\ \E p \in Parents : parentFreq = ToParent(p)
  /\ curDiv = FirstDiv(parentFreq)
  /\ curFb = 0
  /\ bestPick = NoMode
  /\ bestError = OUTMAX
  /\ freq_found = FALSE
  /\ rounded = -1
  /\ pc = IF parentFreq = 0 THEN "done" ELSE "outer"

\* The outer loop: the range of curFb for the next main divider.
Outer ==
  /\ pc = "outer"
  /\ \/ /\ curDiv <= MaxDiv(parentFreq) /\ ~freq_found
        /\ curFb' = MinFb(parentFreq, curDiv)
        /\ pc' = "inner"
     \/ /\ curDiv > MaxDiv(parentFreq) \/ freq_found
        /\ pc' = "done"
        /\ UNCHANGED curFb
  /\ UNCHANGED <<freq, parentFreq, curDiv, bestPick, bestError, freq_found,
                 rounded>>

\* Defect: of two candidates as close, the later one is kept.
Inner_KeepsLast ==
  /\ pc = "inner"
  /\ \/ /\ curFb <= MaxFb(parentFreq, curDiv) /\ ~freq_found
        /\ LET c   == Candidate(freq, parentFreq, curDiv, curFb)
               err == Error(freq, c.freq)
           IN  /\ bestPick' = IF err <= bestError THEN c ELSE bestPick
               /\ bestError' = IF err <= bestError THEN err ELSE bestError
               /\ freq_found' = (err = 0)
        /\ curFb' = curFb + 1
        /\ UNCHANGED <<curDiv, pc>>
     \/ /\ curFb > MaxFb(parentFreq, curDiv) \/ freq_found
        /\ curDiv' = curDiv + 1
        /\ pc' = "outer"
        /\ UNCHANGED <<curFb, bestPick, bestError, freq_found>>
  /\ UNCHANGED <<freq, parentFreq, rounded>>

\* The inner loop: keep the candidate if it is closer than the best so far.
Inner ==
  /\ pc = "inner"
  /\ \/ /\ curFb <= MaxFb(parentFreq, curDiv) /\ ~freq_found
        /\ LET c   == Candidate(freq, parentFreq, curDiv, curFb)
               err == Error(freq, c.freq)
           IN  /\ bestPick' = IF err < bestError THEN c ELSE bestPick
               /\ bestError' = IF err < bestError THEN err ELSE bestError
               /\ freq_found' = (err = 0)
        /\ curFb' = curFb + 1
        /\ UNCHANGED <<curDiv, pc>>
     \/ /\ curFb > MaxFb(parentFreq, curDiv) \/ freq_found
        /\ curDiv' = curDiv + 1
        /\ pc' = "outer"
        /\ UNCHANGED <<curFb, bestPick, bestError, freq_found>>
  /\ UNCHANGED <<freq, parentFreq, rounded>>

\* round_rate has answered; set_rate is called with the answer.
SetRate ==
  /\ pc = "done"
  /\ rounded = -1
  /\ bestPick.freq # 0
  /\ rounded' = ToRate(bestPick.freq)
  /\ freq' = Clamp(ToFreq(ToRate(bestPick.freq)), OUTMIN, OUTMAX)
  /\ curDiv' = FirstDiv(parentFreq)
  /\ bestPick' = NoMode
  /\ bestError' = OUTMAX
  /\ freq_found' = FALSE
  /\ pc' = "outer"
  /\ UNCHANGED <<parentFreq, curFb>>

Next == Outer \/ Inner \/ SetRate

Spec == Init /\ [][Next]_vars
-----------------------------------------------------------------------------
TypeOK ==
  /\ freq \in OUTMIN .. OUTMAX
  /\ parentFreq \in Nat
  /\ curDiv \in 1 .. DIVMAX + 1
  /\ curFb \in Nat
  /\ bestPick \in Modes
  /\ bestError \in 0 .. OUTMAX
  /\ freq_found \in BOOLEAN
  /\ rounded \in Nat \cup {-1}
  /\ pc \in {"outer", "inner", "done"}

\* Whatever is asked for, a mode that find_mode picks drives the clock manager
\* within its limits, for every reference clock of up to twice the greatest
\* input of the phase detector, 900 MHz.  Not above: the search never starts
\* with a main divider greater than 2 (dynclk.c, dglnt_dynclk_find_mode).
PickIsLegal ==
  bestPick.freq # 0 /\ parentFreq <= 2 * PFDMAX => Legal(parentFreq, bestPick)

\* dglnt_dynclk_set_rate ignores the result of find_reg and writes the
\* registers: for a mode find_mode picks find_reg never fails, and the clock
\* manager runs at the frequency the driver reports.
RegistersMatch ==
  bestPick.freq # 0 =>
    /\ ~FindReg(bestPick).error
    /\ RunsAt(parentFreq, FindReg(bestPick)) = bestPick.freq

\* The rate round_rate answers is a rate set_rate reaches: the two searches
\* end at the same frequency.
RoundedRateIsReached ==
  pc = "done" /\ rounded # -1 => ToRate(bestPick.freq) = rounded

\* The loops with their early exits return the first best candidate.
SearchFindsMode == pc = "done" => bestPick = FindMode(freq, parentFreq)

\* The search tries one output divider for each multiplier, found with three
\* decimals: with the reference of the design, FPGA0_FREQ of ps7_init.h in kHz,
\* no mode the clock manager has is closer to the request.  (With others, such
\* as 10 MHz, some are.)
NoBetterMode ==
  pc = "done" /\ parentFreq = 100000 =>
    \A div \in 1 .. DIVMAX, fb \in FBMIN .. FBMAX :
      LET tuning == [fbmult |-> fb, maindiv |-> div]
      IN  VcoInRange(parentFreq, tuning) /\ PfdInRange(parentFreq, tuning)
            => \A clkdiv \in CLKDIVMIN .. CLKDIVMAX :
                 bestError <= Error(freq, Output(parentFreq, div, fb, clkdiv))

\* "This multiplier is used to find the best clkDiv value for each FB value"
\* (dynclk.c, dglnt_dynclk_find_mode).
BestClkDivForEachFb ==
  pc = "inner" /\ curFb <= MaxFb(parentFreq, curDiv) =>
    \A clkdiv \in CLKDIVMIN .. CLKDIVMAX :
      Error(freq, Candidate(freq, parentFreq, curDiv, curFb).freq)
        <= Error(freq, Output(parentFreq, curDiv, curFb, clkdiv))
=============================================================================
