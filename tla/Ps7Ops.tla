------------------------------- MODULE Ps7Ops -------------------------------
(***************************************************************************)
(* The operations a ps7_init table is made of: the EMIT_ macros of         *)
(* ps7_init.h, and the runs of operations that come back in every table.   *)
(*                                                                         *)
(* A register is <<block, name>>; what a (mask) write stores is a function *)
(* from the names of the fields in its mask to their values, under the     *)
(* names of the comments in ps7_init.c.  Where no property tells the       *)
(* fields apart the whole word is one field, its value the hexadecimal     *)
(* digits of mask and value in the source.                                 *)
(***************************************************************************)
EXTENDS Naturals, Sequences, TLC

Write(reg, fields) == [op |-> "write", reg |-> reg, fields |-> fields]
MaskWrite(reg, fields) == [op |-> "maskwrite", reg |-> reg, fields |-> fields]
MaskPoll(reg, field) == [op |-> "maskpoll", reg |-> reg, field |-> field]
MaskDelay(ms) == [op |-> "maskdelay", ms |-> ms]
Exit == [op |-> "exit"]

Word(mask, value) == [word |-> <<mask, value>>]

\* The write protection of the system level control registers (SLCR).
Unlock == Write(<<"slcr", "SLCR_UNLOCK">>, [UNLOCK_KEY |-> \hDF0D])
Lock == Write(<<"slcr", "SLCR_LOCK">>, [LOCK_KEY |-> \h767B])

Slcr(name, fields) == MaskWrite(<<"slcr", name>>, fields)
Ddrc(name, mask, value) == MaskWrite(<<"ddrc", name>>, Word(mask, value))

\* The same register of the four byte lanes, or of the four ports.
Lanes(name, mask, values) ==
    [k \in 1..4 |-> MaskWrite(<<"ddrc", name, k - 1>>, Word(mask, values[k]))]

\* The six steps that start a PLL and take it into use.
PllStart(ctrl, lock_bit, fdiv) ==
    << Slcr(ctrl, [PLL_FDIV |-> fdiv]),
       Slcr(ctrl, [PLL_BYPASS_FORCE |-> 1]),
       Slcr(ctrl, [PLL_RESET |-> 1]),
       Slcr(ctrl, [PLL_RESET |-> 0]),
       MaskPoll(<<"slcr", "PLL_STATUS">>, lock_bit),
       Slcr(ctrl, [PLL_BYPASS_FORCE |-> 0]) >>

PllCfg(res, cp, lock_cnt) ==
    [PLL_RES |-> res, PLL_CP |-> cp, LOCK_CNT |-> lock_cnt]

\* One DDR I/O buffer: its input, termination and digitally controlled impedance.
DdrIob(name, inp_type, term_en, dci_type) ==
    MaskWrite(<<"slcr", name>>,
        [reserved_INP_POWER |-> 0, INP_TYPE |-> inp_type, DCI_UPDATE_B |-> 0,
         TERM_EN |-> term_en, DCI_TYPE |-> dci_type, IBUF_DISABLE_MODE |-> 0,
         TERM_DISABLE_MODE |-> 0, OUTPUT_EN |-> 3, PULLUP_EN |-> 0])

\* The routing of an MIO pin: the four multiplexers a function goes through ...
Gpio == [L0_SEL |-> 0, L1_SEL |-> 0, L2_SEL |-> 0, L3_SEL |-> 0]
Mux0 == [Gpio EXCEPT !.L0_SEL = 1]
Mux1 == [Gpio EXCEPT !.L1_SEL = 1]
Mux3(f) == [Gpio EXCEPT !.L3_SEL = f]

\* ... and its electrical side: direction, edge rate, voltage, pull-up.
Pad(tri, speed, io_type, pullup) ==
    [TRI_ENABLE |-> tri, Speed |-> speed, IO_Type |-> io_type, PULLUP |-> pullup]

Pin(n, mux, pad) ==
    MaskWrite(<<"mio", n>>,
        [L0_SEL |-> mux.L0_SEL, L1_SEL |-> mux.L1_SEL, L2_SEL |-> mux.L2_SEL,
         L3_SEL |-> mux.L3_SEL, TRI_ENABLE |-> pad.TRI_ENABLE, Speed |-> pad.Speed,
         IO_Type |-> pad.IO_Type, PULLUP |-> pad.PULLUP, DisableRcvr |-> 0])

Pins(first, last, mux, pad) ==
    [k \in 1..(last - first + 1) |-> Pin(first + k - 1, mux, pad)]

\* A table with the writes to some registers replaced: changes is a function
\* from registers to what is written instead.
Amend(ops, changes) ==
    [k \in DOMAIN ops |->
        IF ops[k].op = "maskwrite" /\ ops[k].reg \in DOMAIN changes
        THEN MaskWrite(ops[k].reg, changes[ops[k].reg])
        ELSE ops[k]]
=============================================================================
