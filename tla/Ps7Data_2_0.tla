---------------------------- MODULE Ps7Data_2_0 ----------------------------
(***************************************************************************)
(* The tables for version 2 of the silicon.  ps7_init.c spells them out    *)
(* once more; a part that writes the same fields is the part of version 3, *)
(* one that differs is that part with the writes that differ.  Fields that *)
(* the comments here name otherwise (DCI_UPDATE for DCI_UPDATE_B, DCR_TYPE *)
(* for DCI_TYPE, VRN_OUT for reserved_VRN_OUT, USER_INP_ICT_EN_0 and _1    *)
(* for the four USER_LVL enables) keep version 3's names: the masks and    *)
(* the values written are the same.                                        *)
(***************************************************************************)
LOCAL INSTANCE Ps7Ops
LOCAL V3 == INSTANCE Ps7Data_3_0

-----------------------------------------------------------------------------
(* ps7_pll_init_data_2_0, ps7_clock_init_data_2_0 *)

arm_pll_init == V3!arm_pll_init
ddr_pll_init == V3!ddr_pll_init
io_pll_init == V3!io_pll_init
pll_init_data ==
    <<Unlock>> \o arm_pll_init \o ddr_pll_init \o io_pll_init \o <<Lock, Exit>>

peripheral_clocks == V3!peripheral_clocks
fabric_clocks == V3!fabric_clocks
aper_clocks == V3!aper_clocks
clock_init_data ==
    <<Unlock>> \o peripheral_clocks \o fabric_clocks \o aper_clocks \o <<Lock, Exit>>

-----------------------------------------------------------------------------
(* ps7_ddr_init_data_2_0: more fields of the same registers, and the timer *)
(* of the refresh                                                          *)

ddrc_ctrl(soft_rstb) == V3!ddrc_ctrl(soft_rstb)

ddrc_queues ==
    Amend(V3!ddrc_queues, <<"ddrc", "Two_rank_cfg">> :> Word("1FFFFFFF", "00081082"))

dram_param ==
    Amend(V3!dram_param,
          <<"ddrc", "DRAM_param_reg3">> :> Word("FFFFFFFC", "272872D0")
          @@ <<"ddrc", "DRAM_param_reg4">> :> Word("0FFFFFFF", "0000003C"))

dram_map ==
    Amend(V3!dram_map,
          <<"ddrc", "DRAM_disable_DQ">> :> Word("00001FC3", "00000000")
          @@ <<"ddrc", "DRAM_ODT_reg">> :> Word("3FFFFFFF", "0003C248"))

ddrc_timing ==
    Amend(V3!ddrc_timing, <<"ddrc", "DLL_calib">> :> Word("0001FFFF", "00000101"))

ddrc_idle == V3!ddrc_idle

ddrc_calibration ==
    << Ddrc("CHE_REFRESH_TIMER01", "00FFFFFF", "00008000") >>
    \o Amend(V3!ddrc_calibration, <<"ddrc", "reg_2d">> :> Word("000007FF", "00000200"))

ddrc_ecc == V3!ddrc_ecc

phy_config ==
    Amend(V3!phy_config,
          [reg \in {<<"ddrc", "PHY_Config", k>> : k \in 0..3} |-> Word("7FFFFFFF", "40000001")])

phy_read == V3!phy_read
phy_write == V3!phy_write

phy_control ==
    Amend(V3!phy_control, <<"ddrc", "reg_64">> :> Word("FFFFFFFF", "10040080"))

axi_priority ==
    Amend(V3!axi_priority,
          [reg \in {<<"ddrc", "axi_priority_wr_port", k>> : k \in 0..3}
               |-> Word("000F03FF", "000803FF")])

lpddr_ctrl ==
    Amend(V3!lpddr_ctrl, <<"ddrc", "lpddr_ctrl0">> :> Word("00000FF7", "00000000"))

ddr_release == V3!ddr_release

ddr_init_data ==
    <<ddrc_ctrl(0)>> \o ddrc_queues \o dram_param \o dram_map \o ddrc_timing
    \o ddrc_idle \o ddrc_calibration \o ddrc_ecc \o phy_config \o phy_read
    \o phy_write \o phy_control \o axi_priority \o lpddr_ctrl \o ddr_release \o <<Exit>>

-----------------------------------------------------------------------------
(* ps7_mio_init_data_2_0: the calibration is reset with one more field *)

ddriob_lines == V3!ddriob_lines
ddriob_strobes == V3!ddriob_strobes
ddriob_drive == V3!ddriob_drive

ddriob_dci ==
    << Slcr("DDRIOB_DCI_CTRL", [RESET |-> 1, reserved_VRN_OUT |-> 1]),
       Slcr("DDRIOB_DCI_CTRL", [RESET |-> 0, reserved_VRN_OUT |-> 1]),
       Slcr("DDRIOB_DCI_CTRL",
            [RESET |-> 1, ENABLE |-> 1, reserved_VRN_OUT |-> 1]
            @@ Word("07FFFFDC", "00000800")) >>

mio_qspi_select == V3!mio_qspi_select
mio_qspi_data == V3!mio_qspi_data
mio_qspi_clock == V3!mio_qspi_clock
mio_free_low == V3!mio_free_low
mio_free_high == V3!mio_free_high
mio_enet_tx == V3!mio_enet_tx
mio_enet_rx == V3!mio_enet_rx
mio_usb_control == V3!mio_usb_control
mio_usb_data == V3!mio_usb_data
mio_usb_clock == V3!mio_usb_clock
mio_sd_clock == V3!mio_sd_clock
mio_sd_data == V3!mio_sd_data
mio_resets == V3!mio_resets
mio_card_detect == V3!mio_card_detect
mio_uart == V3!mio_uart
mio_free_top == V3!mio_free_top
mio_mdio == V3!mio_mdio
sd_wp_cd == V3!sd_wp_cd

mio_init_data ==
    <<Unlock>> \o ddriob_lines \o ddriob_strobes \o ddriob_drive \o ddriob_dci
    \o mio_qspi_select \o mio_qspi_data \o mio_qspi_clock \o mio_free_low \o mio_free_high
    \o mio_enet_tx \o mio_enet_rx \o mio_usb_control \o mio_usb_data \o mio_usb_clock
    \o mio_sd_clock \o mio_sd_data \o mio_resets \o mio_card_detect \o mio_uart
    \o mio_free_top \o mio_mdio \o sd_wp_cd \o <<Lock, Exit>>

-----------------------------------------------------------------------------
(* ps7_peripherals_init_data_2_0, ps7_post_config_2_0, ps7_debug_2_0 *)

ddr_term_ibuf == V3!ddr_term_ibuf

\* The mode register has two more fields.
uart_init ==
    Amend(V3!uart_init,
          <<"uart1", "mode_reg0">> :>
              [IRMODE |-> 0, UCLKEN |-> 0, CHMODE |-> 0, NBSTOP |-> 0,
               PAR |-> 4, CHRL |-> 0, CLKS |-> 0])

qspi_pl_init == V3!qspi_pl_init
usb_reset == V3!usb_reset

peripherals_init_data ==
    <<Unlock>> \o ddr_term_ibuf \o <<Lock>> \o uart_init \o qspi_pl_init \o usb_reset \o <<Exit>>

post_config == V3!post_config
debug == V3!debug
=============================================================================
