------------------------------ MODULE MCDynClk ------------------------------
EXTENDS DynClk

\* The pixel clocks of 640x480, 1280x720 and 1920x1080.
MCRates == {25175000, 74250000, 148500000}

\* clkc 15, FPGA0_FREQ.
MCParentRate == 100000000
=============================================================================
