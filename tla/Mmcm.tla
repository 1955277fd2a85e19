-------------------------------- MODULE Mmcm --------------------------------
(***************************************************************************)
(* The pure functions of the dynamic clock driver                          *)
(* (recipes-modules/dynclk/files/dynclk.c): from a frequency to a mode of  *)
(* the clock manager (feedback multiplier, main divider, output divider)   *)
(* and from a mode to the values of its registers.                         *)
(*                                                                         *)
(* Frequencies are in the driver's unit: kHz, the output times five, since *)
(* a divider by five follows the clock manager.                            *)
(***************************************************************************)
EXTENDS Integers, FiniteSets

VCOMIN == 600000
VCOMAX == 1200000
PFDMIN == 10000
PFDMAX == 450000
OUTMIN == 4000
OUTMAX == 800000
DIVMAX == 106
FBMIN  == 2
FBMAX  == 64
CLKDIVMIN == 1
CLKDIVMAX == 128

\* Defect: rounded down, the VCO can run too slow.
DivRoundUp_Down(n, d) == n \div d

DivRoundUp(n, d) == (n + d - 1) \div d

Clamp(n, lo, hi) == IF n < lo THEN lo ELSE IF n > hi THEN hi ELSE n

-----------------------------------------------------------------------------
(* Units: Hz on the side of the clock framework *)

ToFreq(rate)       == (rate + 100) \div 200
ToParent(rate)     == (rate + 500) \div 1000
ToRate(freq)       == freq * 200

-----------------------------------------------------------------------------
(* The search space of dglnt_dynclk_find_mode for an output freq and the
   reference clock parentFreq *)

FirstDiv(parentFreq) == IF parentFreq > PFDMAX THEN 2 ELSE 1

MaxDiv(parentFreq) ==
  IF parentFreq \div PFDMIN > DIVMAX THEN DIVMAX ELSE parentFreq \div PFDMIN

MinFb(parentFreq, div) ==
  IF div * DivRoundUp(VCOMIN, parentFreq) < FBMIN
  THEN FBMIN ELSE div * DivRoundUp(VCOMIN, parentFreq)

MaxFb(parentFreq, div) ==
  IF div * (VCOMAX \div parentFreq) > FBMAX
  THEN FBMAX ELSE div * (VCOMAX \div parentFreq)

\* Defect: the multiplier and the divider are truncated, not rounded.
ClkDiv_Truncates(freq, parentFreq, div, fb) ==
  LET mult == (parentFreq * 1000) \div (div * freq)
  IN  Clamp((mult * fb) \div 1000, CLKDIVMIN, CLKDIVMAX)

\* The output divider tried with a pair of div and fb: the ratio of the VCO to
\* freq, from a multiplier with three decimals, rounded twice and clamped.
ClkDiv(freq, parentFreq, div, fb) ==
  LET divVal == div * freq
      mult   == (parentFreq * 1000 + divVal \div 2) \div divVal
  IN  Clamp((mult * fb + 500) \div 1000, CLKDIVMIN, CLKDIVMAX)

Output(parentFreq, div, fb, clkdiv) == ((parentFreq * fb) \div div) \div clkdiv

Candidate(freq, parentFreq, div, fb) ==
  LET clkdiv == ClkDiv(freq, parentFreq, div, fb)
  IN  [freq |-> Output(parentFreq, div, fb, clkdiv),
       fbmult |-> fb, clkdiv |-> clkdiv, maindiv |-> div]

Error(freq, f) == IF f >= freq THEN f - freq ELSE freq - f

Modes == [freq : Nat, fbmult : 0 .. FBMAX, clkdiv : 0 .. CLKDIVMAX,
          maindiv : 0 .. DIVMAX]

\* The function fails: it returns 0.  What else is in the mode is not set.
NoMode == [freq |-> 0, fbmult |-> 0, clkdiv |-> 0, maindiv |-> 0]

\* What dglnt_dynclk_find_mode returns: the first candidate of its two loops
\* among those with the least error.
FindMode(freq, parentFreq) ==
  LET f == Clamp(freq, OUTMIN, OUTMAX)
      Pairs == {p \in (FirstDiv(parentFreq) .. MaxDiv(parentFreq)) \X (FBMIN .. FBMAX) :
                  p[2] \in MinFb(parentFreq, p[1]) .. MaxFb(parentFreq, p[1])}
      Err == [p \in Pairs |-> Error(f, Candidate(f, parentFreq, p[1], p[2]).freq)]
      Before(p, q) == \/ Err[p] < Err[q]
                      \/ Err[p] = Err[q] /\ p[1] < q[1]
                      \/ Err[p] = Err[q] /\ p[1] = q[1] /\ p[2] <= q[2]
  IN  IF parentFreq = 0 \/ Pairs = {} THEN NoMode
      ELSE LET p == CHOOSE p \in Pairs : \A q \in Pairs : Before(p, q)
           IN  Candidate(f, parentFreq, p[1], p[2])

-----------------------------------------------------------------------------
(* From a mode to the registers *)

WEDGE   == 8192    \* bit 13
NOCOUNT == 4096    \* bit 12
ERR_CLKDIVIDER   == WEDGE + NOCOUNT
ERR_CLKCOUNTCALC == -1    \* all ones

\* The counter of a divider: low time in bits 0-5, high time in bits 6-11.
Divider(divide) ==
  IF divide < 1 \/ divide > 128 THEN ERR_CLKDIVIDER
  ELSE IF divide = 1 THEN 4161    \* DYNCLK_DIV_1_REGMASK, 0x1041
  ELSE LET high == divide \div 2
           low  == IF divide % 2 = 1 THEN high + 1 ELSE high
       IN  (IF divide % 2 = 1 THEN WEDGE ELSE 0) + (low % 64) + 64 * (high % 64)

\* Defect: the two flags are left in the low half.
CountCalc_NoFlags(divide) ==
  IF Divider(divide) = ERR_CLKDIVIDER THEN ERR_CLKCOUNTCALC
  ELSE Divider(divide) % 4096

\* The same in the layout of the output and feedback counters: the flags of
\* bits 12 and 13 go to bits 22 and 23.
CountCalc(divide) ==
  IF Divider(divide) = ERR_CLKDIVIDER THEN ERR_CLKCOUNTCALC
  ELSE (Divider(divide) % 4096) + 4194304 * ((Divider(divide) \div 4096) % 4)

\* dglnt_dynclk_find_reg fails with -EINVAL: nothing it leaves in the registers
\* is meant to be written.
RegError == [error |-> TRUE]

\* The values of the six registers; lockL and fltr_lockH come from a row of two
\* tables, of which the row is kept.
FindReg(mode) ==
  IF \/ mode.fbmult < 2 \/ mode.fbmult > 64
     \/ CountCalc(mode.clkdiv) = ERR_CLKCOUNTCALC
     \/ CountCalc(mode.fbmult) = ERR_CLKCOUNTCALC
     \/ Divider(mode.maindiv) = ERR_CLKDIVIDER
  THEN RegError
  ELSE [error |-> FALSE,
        clk0L |-> CountCalc(mode.clkdiv),
        clkFBL |-> CountCalc(mode.fbmult),
        clkFBH_clk0H |-> 0,
        divclk |-> Divider(mode.maindiv),
        lockL |-> mode.fbmult - 1,
        fltr_lockH |-> mode.fbmult - 1]

-----------------------------------------------------------------------------
(* How the clock manager reads its registers: what the driver relies on *)

Ticks(n) == IF n = 0 THEN 64 ELSE n

\* High and low time of a counter, or 1 if the counter is bypassed.
Counter(x, nocount) ==
  IF nocount % 2 = 1 THEN 1 ELSE Ticks(x % 64) + Ticks((x \div 64) % 64)

DividerOf(x) == Counter(x, x \div 4096)
CountOf(x)   == Counter(x, x \div 4194304)

\* The frequency a clock manager fed with parentFreq runs at.
RunsAt(parentFreq, regs) ==
  Output(parentFreq, DividerOf(regs.divclk), CountOf(regs.clkFBL), CountOf(regs.clk0L))

-----------------------------------------------------------------------------
(* What a mode must satisfy, whatever finds it *)

\* The clock manager has such a multiplier and such dividers.
ModeExists(mode) ==
  /\ mode.fbmult \in FBMIN .. FBMAX
  /\ mode.clkdiv \in CLKDIVMIN .. CLKDIVMAX
  /\ mode.maindiv \in 1 .. DIVMAX

\* The VCO runs at parentFreq * fbmult / maindiv.
VcoInRange(parentFreq, mode) ==
  /\ VCOMIN * mode.maindiv <= parentFreq * mode.fbmult
  /\ parentFreq * mode.fbmult <= VCOMAX * mode.maindiv

\* The phase detector runs at parentFreq / maindiv.
PfdInRange(parentFreq, mode) ==
  /\ PFDMIN * mode.maindiv <= parentFreq
  /\ parentFreq <= PFDMAX * mode.maindiv

\* The limits of the clock manager.
Legal(parentFreq, mode) ==
  ModeExists(mode) /\ VcoInRange(parentFreq, mode) /\ PfdInRange(parentFreq, mode)
=============================================================================
