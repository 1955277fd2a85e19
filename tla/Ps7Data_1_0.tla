---------------------------- MODULE Ps7Data_1_0 ----------------------------
(***************************************************************************)
(* The tables for version 1 of the silicon, against those of version 2:    *)
(* the controller has no registers for its idle clocks, and one register   *)
(* of the DDR buffers is written with another mask.                        *)
(***************************************************************************)
LOCAL INSTANCE Ps7Ops
LOCAL V2 == INSTANCE Ps7Data_2_0

-----------------------------------------------------------------------------
(* ps7_pll_init_data_1_0, ps7_clock_init_data_1_0 *)

arm_pll_init == V2!arm_pll_init
ddr_pll_init == V2!ddr_pll_init
io_pll_init == V2!io_pll_init
pll_init_data ==
    <<Unlock>> \o arm_pll_init \o ddr_pll_init \o io_pll_init \o <<Lock, Exit>>

peripheral_clocks == V2!peripheral_clocks
fabric_clocks == V2!fabric_clocks
aper_clocks == V2!aper_clocks
clock_init_data ==
    <<Unlock>> \o peripheral_clocks \o fabric_clocks \o aper_clocks \o <<Lock, Exit>>

-----------------------------------------------------------------------------
(* ps7_ddr_init_data_1_0 *)

ddrc_ctrl(soft_rstb) == V2!ddrc_ctrl(soft_rstb)
ddrc_queues == V2!ddrc_queues
dram_param == V2!dram_param
dram_map == V2!dram_map
ddrc_timing == V2!ddrc_timing
ddrc_calibration == V2!ddrc_calibration
ddrc_ecc == V2!ddrc_ecc
phy_config == V2!phy_config
phy_read == V2!phy_read
phy_write == V2!phy_write
phy_control == V2!phy_control
axi_priority == V2!axi_priority
lpddr_ctrl == V2!lpddr_ctrl
ddr_release == V2!ddr_release

ddr_init_data ==
    <<ddrc_ctrl(0)>> \o ddrc_queues \o dram_param \o dram_map \o ddrc_timing
    \o ddrc_calibration \o ddrc_ecc \o phy_config \o phy_read
    \o phy_write \o phy_control \o axi_priority \o lpddr_ctrl \o ddr_release \o <<Exit>>

-----------------------------------------------------------------------------
(* ps7_mio_init_data_1_0 *)

ddriob_lines == V2!ddriob_lines
ddriob_strobes == V2!ddriob_strobes
ddriob_drive ==
    Amend(V2!ddriob_drive, <<"slcr", "DDRIOB_DDR_CTRL">> :> Word("000073FF", "00000260"))
ddriob_dci == V2!ddriob_dci

mio_qspi_select == V2!mio_qspi_select
mio_qspi_data == V2!mio_qspi_data
mio_qspi_clock == V2!mio_qspi_clock
mio_free_low == V2!mio_free_low
mio_free_high == V2!mio_free_high
mio_enet_tx == V2!mio_enet_tx
mio_enet_rx == V2!mio_enet_rx
mio_usb_control == V2!mio_usb_control
mio_usb_data == V2!mio_usb_data
mio_usb_clock == V2!mio_usb_clock
mio_sd_clock == V2!mio_sd_clock
mio_sd_data == V2!mio_sd_data
mio_resets == V2!mio_resets
mio_card_detect == V2!mio_card_detect
mio_uart == V2!mio_uart
mio_free_top == V2!mio_free_top
mio_mdio == V2!mio_mdio
sd_wp_cd == V2!sd_wp_cd

mio_init_data ==
    <<Unlock>> \o ddriob_lines \o ddriob_strobes \o ddriob_drive \o ddriob_dci
    \o mio_qspi_select \o mio_qspi_data \o mio_qspi_clock \o mio_free_low \o mio_free_high
    \o mio_enet_tx \o mio_enet_rx \o mio_usb_control \o mio_usb_data \o mio_usb_clock
    \o mio_sd_clock \o mio_sd_data \o mio_resets \o mio_card_detect \o mio_uart
    \o mio_free_top \o mio_mdio \o sd_wp_cd \o <<Lock, Exit>>

-----------------------------------------------------------------------------
(* ps7_peripherals_init_data_1_0, ps7_post_config_1_0, ps7_debug_1_0 *)

ddr_term_ibuf == V2!ddr_term_ibuf
uart_init == V2!uart_init
qspi_pl_init == V2!qspi_pl_init
usb_reset == V2!usb_reset
peripherals_init_data ==
    <<Unlock>> \o ddr_term_ibuf \o <<Lock>> \o uart_init \o qspi_pl_init \o usb_reset \o <<Exit>>

post_config == V2!post_config
debug == V2!debug
=============================================================================
