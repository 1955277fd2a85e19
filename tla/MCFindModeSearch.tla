-------------------------- MODULE MCFindModeSearch --------------------------
EXTENDS FindModeSearch

\* Pixel clocks of common display modes, from 640x480 to 1920x1080.
VideoRates == {25175000, 27000000, 40000000, 65000000, 74250000, 85500000,
               108000000, 148500000}

\* From below the least frequency to above the greatest, in odd steps, and at
\* the edges of the limits.
SweepRates == {1 + 2912345 * i : i \in 0 .. 58}
EdgeRates == VideoRates \cup {1, 799999, 800000, 159999999, 160000000, 200000000}

MCRates == SweepRates \cup EdgeRates

\* The reference clock of the design: clkc 15, FPGA0_FREQ.
DesignParent == {100000000}

\* Also reference clocks at the edges of the limits, and past them.
MCParents == DesignParent \cup
  {0, 9999000, 10000000, 33333333, 74250000, 125000000, 450000000, 450001000,
   600000000, 900000000, 900001000, 1200000000, 1200001000}
=============================================================================
