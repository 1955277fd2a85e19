---------------------------- MODULE Ps7Data_3_0 ----------------------------
(***************************************************************************)
(* The tables ps7_init.c holds for version 3 of the silicon, each the      *)
(* concatenation of the parts it is divided into.                          *)
(***************************************************************************)
EXTENDS Ps7Ops

-----------------------------------------------------------------------------
(* ps7_pll_init_data_3_0 *)

arm_pll_init ==
    << Slcr("ARM_PLL_CFG", PllCfg(2, 2, 250)) >>
    \o PllStart("ARM_PLL_CTRL", "ARM_PLL_LOCK", 40)
    \o << Slcr("ARM_CLK_CTRL",
            [SRCSEL |-> 0, DIVISOR |-> 2, CPU_6OR4XCLKACT |-> 1, CPU_3OR2XCLKACT |-> 1,
             CPU_2XCLKACT |-> 1, CPU_1XCLKACT |-> 1, CPU_PERI_CLKACT |-> 1]) >>

ddr_pll_init ==
    << Slcr("DDR_PLL_CFG", PllCfg(2, 2, 300)) >>
    \o PllStart("DDR_PLL_CTRL", "DDR_PLL_LOCK", 32)
    \o << Slcr("DDR_CLK_CTRL",
            [DDR_3XCLKACT |-> 1, DDR_2XCLKACT |-> 1,
             DDR_3XCLK_DIVISOR |-> 2, DDR_2XCLK_DIVISOR |-> 3]) >>

io_pll_init ==
    << Slcr("IO_PLL_CFG", PllCfg(12, 2, 325)) >>
    \o PllStart("IO_PLL_CTRL", "IO_PLL_LOCK", 30)

pll_init_data ==
    <<Unlock>> \o arm_pll_init \o ddr_pll_init \o io_pll_init \o <<Lock, Exit>>

-----------------------------------------------------------------------------
(* ps7_clock_init_data_3_0 *)

\* Defect: two divisors are exchanged.
peripheral_clocks_Exchanged ==
    << Slcr("DCI_CLK_CTRL", [CLKACT |-> 1, DIVISOR0 |-> 15, DIVISOR1 |-> 7]),
       Slcr("GEM0_RCLK_CTRL", [CLKACT |-> 1, SRCSEL |-> 0]),
       Slcr("GEM0_CLK_CTRL", [CLKACT |-> 1, SRCSEL |-> 0, DIVISOR |-> 8, DIVISOR1 |-> 1]),
       Slcr("LQSPI_CLK_CTRL", [CLKACT |-> 1, SRCSEL |-> 0, DIVISOR |-> 5]),
       Slcr("SDIO_CLK_CTRL", [CLKACT0 |-> 1, CLKACT1 |-> 0, SRCSEL |-> 0, DIVISOR |-> 10]),
       Slcr("UART_CLK_CTRL", [CLKACT0 |-> 0, CLKACT1 |-> 1, SRCSEL |-> 0, DIVISOR |-> 20]) >>

peripheral_clocks ==
    << Slcr("DCI_CLK_CTRL", [CLKACT |-> 1, DIVISOR0 |-> 15, DIVISOR1 |-> 7]),
       Slcr("GEM0_RCLK_CTRL", [CLKACT |-> 1, SRCSEL |-> 0]),
       Slcr("GEM0_CLK_CTRL", [CLKACT |-> 1, SRCSEL |-> 0, DIVISOR |-> 8, DIVISOR1 |-> 1]),
       Slcr("LQSPI_CLK_CTRL", [CLKACT |-> 1, SRCSEL |-> 0, DIVISOR |-> 5]),
       Slcr("SDIO_CLK_CTRL", [CLKACT0 |-> 1, CLKACT1 |-> 0, SRCSEL |-> 0, DIVISOR |-> 20]),
       Slcr("UART_CLK_CTRL", [CLKACT0 |-> 0, CLKACT1 |-> 1, SRCSEL |-> 0, DIVISOR |-> 10]) >>

fabric_clocks ==
    << Slcr("PCAP_CLK_CTRL", [CLKACT |-> 1, SRCSEL |-> 0, DIVISOR |-> 5]),
       Slcr("FPGA0_CLK_CTRL", [SRCSEL |-> 0, DIVISOR0 |-> 5, DIVISOR1 |-> 2]),
       Slcr("FPGA1_CLK_CTRL", [SRCSEL |-> 3, DIVISOR0 |-> 8, DIVISOR1 |-> 1]),
       Slcr("FPGA2_CLK_CTRL", [SRCSEL |-> 0, DIVISOR0 |-> 5, DIVISOR1 |-> 4]),
       Slcr("CLK_621_TRUE", [CLK_621_TRUE |-> 1]) >>

\* Defect: the flash controller is forgotten.
aper_clocks_NoFlash ==
    LET on == {"DMA", "USB0", "USB1", "GEM0", "SDI0", "I2C0", "I2C1", "UART1", "GPIO", "SMC"}
        off == {"GEM1", "SDI1", "SPI0", "SPI1", "CAN0", "CAN1", "UART0", "LQSPI"}
    IN  << Slcr("APER_CLK_CTRL", [p \in on \cup off |-> IF p \in on THEN 1 ELSE 0]) >>

\* The bus clocks of the peripherals: which are on.
aper_clocks ==
    LET on == {"DMA", "USB0", "USB1", "GEM0", "SDI0", "I2C0", "I2C1", "UART1",
               "GPIO", "LQSPI", "SMC"}
        off == {"GEM1", "SDI1", "SPI0", "SPI1", "CAN0", "CAN1", "UART0"}
    IN  << Slcr("APER_CLK_CTRL", [p \in on \cup off |-> IF p \in on THEN 1 ELSE 0]) >>

clock_init_data ==
    <<Unlock>> \o peripheral_clocks \o fabric_clocks \o aper_clocks \o <<Lock, Exit>>

-----------------------------------------------------------------------------
(* ps7_ddr_init_data_3_0 *)

\* The control register, with the controller in reset (0) or released (1).
ddrc_ctrl(soft_rstb) ==
    MaskWrite(<<"ddrc", "ddrc_ctrl">>,
        [reg_ddrc_soft_rstb |-> soft_rstb, reg_ddrc_powerdown_en |-> 0,
         reg_ddrc_data_bus_width |-> 0, reg_ddrc_burst8_refresh |-> 0,
         reg_ddrc_rdwr_idle_gap |-> 1, reg_ddrc_dis_rd_bypass |-> 0,
         reg_ddrc_dis_act_bypass |-> 0, reg_ddrc_dis_auto_refresh |-> 0])

ddrc_queues ==
    << Ddrc("Two_rank_cfg", "0007FFFF", "00001082"),
       Ddrc("HPR_reg", "03FFFFFF", "03C0780F"),
       Ddrc("LPR_reg", "03FFFFFF", "02001001"),
       Ddrc("WR_reg", "03FFFFFF", "00014001") >>

dram_param ==
    << Ddrc("DRAM_param_reg0", "001FFFFF", "0004285B"),
       Ddrc("DRAM_param_reg1", "F7FFFFFF", "44E458D3"),
       Ddrc("DRAM_param_reg2", "FFFFFFFF", "7282BCE5"),
       Ddrc("DRAM_param_reg3", "7FDFFFFC", "270872D0"),
       Ddrc("DRAM_param_reg4", "0FFFFFC3", "00000000"),
       Ddrc("DRAM_init_param", "00003FFF", "00002007"),
       Ddrc("DRAM_EMR_reg", "FFFFFFFF", "00000008"),
       Ddrc("DRAM_EMR_MR_reg", "FFFFFFFF", "00040B30"),
       Ddrc("DRAM_burst8_rdwr", "13FF3FFF", "000116D4") >>

dram_map ==
    << Ddrc("DRAM_disable_DQ", "00000003", "00000000"),
       Ddrc("DRAM_addr_map_bank", "000FFFFF", "00000777"),
       Ddrc("DRAM_addr_map_col", "FFFFFFFF", "FFF00000"),
       Ddrc("DRAM_addr_map_row", "0FFFFFFF", "0F666666"),
       Ddrc("DRAM_ODT_reg", "0003F03F", "0003C008") >>

ddrc_timing ==
    << Ddrc("phy_cmd_timeout_rddata_cpt", "FF0F8FFF", "77010800"),
       Ddrc("DLL_calib", "00010000", "00000000"),
       Ddrc("ODT_delay_hold", "0000FFFF", "00005003"),
       Ddrc("ctrl_reg1", "000017FF", "0000003E"),
       Ddrc("ctrl_reg2", "00021FE0", "00020000"),
       Ddrc("ctrl_reg3", "03FFFFFF", "00284141"),
       Ddrc("ctrl_reg4", "0000FFFF", "00001610") >>

ddrc_idle ==
    << Ddrc("ctrl_reg5", "03FFFFFF", "00466111"),
       Ddrc("ctrl_reg6", "000FFFFF", "00032222") >>

ddrc_calibration ==
    << Ddrc("CHE_T_ZQ", "FFFFFFFF", "10200802"),
       Ddrc("CHE_T_ZQ_Short_Interval_Reg", "0FFFFFFF", "0690CB73"),
       Ddrc("deep_pwrdwn_reg", "000001FF", "000001FE"),
       Ddrc("reg_2c", "1FFFFFFF", "1CFFFFFF"),
       Ddrc("reg_2d", "00000200", "00000200"),
       Ddrc("dfi_timing", "01FFFFFF", "00200066") >>

ddrc_ecc ==
    << Ddrc("CHE_ECC_CONTROL_REG_OFFSET", "00000003", "00000000"),
       Ddrc("CHE_CORR_ECC_LOG_REG_OFFSET", "000000FF", "00000000"),
       Ddrc("CHE_UNCORR_ECC_LOG_REG_OFFSET", "00000001", "00000000"),
       Ddrc("CHE_ECC_STATS_REG_OFFSET", "0000FFFF", "00000000"),
       Ddrc("ECC_scrub", "0000000F", "00000008") >>

phy_config ==
    << Ddrc("phy_rcvr_enable", "000000FF", "00000000") >>
    \o Lanes("PHY_Config", "7FFFFFCF", <<"40000001", "40000001", "40000001", "40000001">>)

phy_read ==
    Lanes("phy_init_ratio", "000FFFFF", <<"00027000", "00027000", "00026C00", "00028800">>)
    \o Lanes("phy_rd_dqs_cfg", "000FFFFF", <<"00000035", "00000035", "00000035", "00000035">>)

phy_write ==
    Lanes("phy_wr_dqs_cfg", "000FFFFF", <<"0000007A", "0000007A", "0000007C", "00000073">>)
    \o Lanes("phy_we_cfg", "001FFFFF", <<"000000F1", "000000F1", "000000F0", "000000F7">>)
    \o Lanes("wr_data_slv", "000FFFFF", <<"000000BA", "000000BA", "000000BC", "000000B3">>)

phy_control ==
    << Ddrc("reg_64", "6FFFFEFE", "00040080"),
       Ddrc("reg_65", "000FFFFF", "0001FC82"),
       Ddrc("page_mask", "FFFFFFFF", "00000000") >>

axi_priority ==
    Lanes("axi_priority_wr_port", "000703FF",
          <<"000003FF", "000003FF", "000003FF", "000003FF">>)
    \o Lanes("axi_priority_rd_port", "000F03FF",
          <<"000003FF", "000003FF", "000003FF", "000003FF">>)

lpddr_ctrl ==
    << Ddrc("lpddr_ctrl0", "00000FF5", "00000000"),
       Ddrc("lpddr_ctrl1", "FFFFFFFF", "00000000"),
       Ddrc("lpddr_ctrl2", "003FFFFF", "00005125"),
       Ddrc("lpddr_ctrl3", "0003FFFF", "000012A8") >>

\* The calibration is awaited, the controller released, its memory awaited.
ddr_release ==
    << MaskPoll(<<"slcr", "DDRIOB_DCI_STATUS">>, "DONE"),
       ddrc_ctrl(1),
       MaskPoll(<<"ddrc", "mode_sts_reg">>, "ddrc_reg_operating_mode") >>

ddr_init_data ==
    <<ddrc_ctrl(0)>> \o ddrc_queues \o dram_param \o dram_map \o ddrc_timing
    \o ddrc_idle \o ddrc_calibration \o ddrc_ecc \o phy_config \o phy_read
    \o phy_write \o phy_control \o axi_priority \o lpddr_ctrl \o ddr_release \o <<Exit>>

-----------------------------------------------------------------------------
(* ps7_mio_init_data_3_0 *)

ddriob_lines ==
    << DdrIob("DDRIOB_ADDR0", 0, 0, 0), DdrIob("DDRIOB_ADDR1", 0, 0, 0),
       DdrIob("DDRIOB_DATA0", 1, 1, 3), DdrIob("DDRIOB_DATA1", 1, 1, 3) >>

ddriob_strobes ==
    << DdrIob("DDRIOB_DIFF0", 2, 1, 3), DdrIob("DDRIOB_DIFF1", 2, 1, 3),
       DdrIob("DDRIOB_CLOCK", 0, 0, 0) >>

ddriob_drive ==
    << Slcr("DDRIOB_DRIVE_SLEW_ADDR", Word("FFFFFFFF", "0018C068")),
       Slcr("DDRIOB_DRIVE_SLEW_DATA", Word("FFFFFFFF", "00F98068")),
       Slcr("DDRIOB_DRIVE_SLEW_DIFF", Word("FFFFFFFF", "00F98068")),
       Slcr("DDRIOB_DRIVE_SLEW_CLOCK", Word("FFFFFFFF", "00F98068")),
       Slcr("DDRIOB_DDR_CTRL", Word("00007FFF", "00000260")) >>

\* The calibration of the impedances is reset and enabled.
ddriob_dci ==
    << Slcr("DDRIOB_DCI_CTRL", [RESET |-> 1]),
       Slcr("DDRIOB_DCI_CTRL", [RESET |-> 0, reserved_VRN_OUT |-> 1]),
       Slcr("DDRIOB_DCI_CTRL",
            [RESET |-> 1, ENABLE |-> 1, reserved_VRN_OUT |-> 1]
            @@ Word("07FEFFDC", "00000800")) >>

QspiPad(pullup) == Pad(0, 0, 3, pullup)
FastPad(tri) == Pad(tri, 1, 1, 1)
SlowPad(tri) == Pad(tri, 0, 1, 1)

mio_qspi_select == Pins(0, 0, Gpio, QspiPad(1)) \o Pins(1, 1, Mux0, QspiPad(1))
mio_qspi_data == Pins(2, 5, Mux0, QspiPad(0))
mio_qspi_clock ==
    Pins(6, 6, Mux0, QspiPad(0)) \o Pins(7, 7, Gpio, QspiPad(0)) \o Pins(8, 8, Mux0, QspiPad(0))
mio_free_low == Pins(9, 12, Gpio, QspiPad(1))
mio_free_high == Pins(13, 15, Gpio, QspiPad(1))
mio_enet_tx == Pins(16, 21, Mux0, FastPad(0))
mio_enet_rx == Pins(22, 27, Mux0, FastPad(1))
mio_usb_control ==
    Pins(28, 28, Mux1, FastPad(0)) \o Pins(29, 29, Mux1, FastPad(1))
    \o Pins(30, 30, Mux1, FastPad(0)) \o Pins(31, 31, Mux1, FastPad(1))
mio_usb_data == Pins(32, 35, Mux1, FastPad(0))
mio_usb_clock == Pins(36, 36, Mux1, FastPad(1)) \o Pins(37, 39, Mux1, FastPad(0))
mio_sd_clock == Pins(40, 41, Mux3(4), SlowPad(0))
mio_sd_data == Pins(42, 45, Mux3(4), SlowPad(0))
mio_resets == Pins(46, 46, Gpio, SlowPad(0))

\* The card detect pin is an input whatever its multiplexers say: they are kept.
mio_card_detect ==
    << MaskWrite(<<"mio", 47>>, [TRI_ENABLE |-> 1, Speed |-> 0, IO_Type |-> 1,
                                 PULLUP |-> 1, DisableRcvr |-> 0]) >>

mio_uart == Pins(48, 48, Mux3(7), SlowPad(0)) \o Pins(49, 49, Mux3(7), SlowPad(1))
mio_free_top == Pins(50, 51, Gpio, SlowPad(0))
mio_mdio == Pins(52, 53, Mux3(4), SlowPad(0))

sd_wp_cd == << Slcr("SD0_WP_CD_SEL", [SDIO0_WP_SEL |-> 55, SDIO0_CD_SEL |-> 47]) >>

mio_init_data ==
    <<Unlock>> \o ddriob_lines \o ddriob_strobes \o ddriob_drive \o ddriob_dci
    \o mio_qspi_select \o mio_qspi_data \o mio_qspi_clock \o mio_free_low \o mio_free_high
    \o mio_enet_tx \o mio_enet_rx \o mio_usb_control \o mio_usb_data \o mio_usb_clock
    \o mio_sd_clock \o mio_sd_data \o mio_resets \o mio_card_detect \o mio_uart
    \o mio_free_top \o mio_mdio \o sd_wp_cd \o <<Lock, Exit>>

-----------------------------------------------------------------------------
(* ps7_peripherals_init_data_3_0, ps7_post_config_3_0, ps7_debug_3_0 *)

\* Receivers and terminations are switched off while the bus is idle.
ddr_term_ibuf ==
    LET names == <<"DDRIOB_DATA0", "DDRIOB_DATA1", "DDRIOB_DIFF0", "DDRIOB_DIFF1">>
    IN  [k \in 1..4 |-> Slcr(names[k], [IBUF_DISABLE_MODE |-> 1, TERM_DISABLE_MODE |-> 1])]

uart_init ==
    << MaskWrite(<<"uart1", "Baud_rate_divider_reg0">>, [BDIV |-> 6]),
       MaskWrite(<<"uart1", "Baud_rate_gen_reg0">>, [CD |-> 124]),
       MaskWrite(<<"uart1", "Control_reg0">>,
           [STPBRK |-> 0, STTBRK |-> 0, RSTTO |-> 0, TXDIS |-> 0, TXEN |-> 1,
            RXDIS |-> 0, RXEN |-> 1, TXRES |-> 1, RXRES |-> 1]),
       MaskWrite(<<"uart1", "mode_reg0">>,
           [CHMODE |-> 0, NBSTOP |-> 0, PAR |-> 4, CHRL |-> 0, CLKS |-> 0]) >>

qspi_pl_init ==
    << MaskWrite(<<"qspi", "Config_reg">>, [Holdb_dr |-> 1]),
       MaskWrite(<<"devcfg", "CTRL">>, [PCFG_POR_CNT_4K |-> 0]) >>

\* A write of the lower half of GPIO bank 1: a set bit of the mask keeps its
\* pin.  Only pin 46, the reset of the USB transceiver, is let through.
usb_reset_pin(level) ==
    MaskWrite(<<"gpio", "MASK_DATA_1_LSW">>,
        [MASK_1_LSW |-> \hBFFF, DATA_1_LSW |-> IF level = 1 THEN \h4000 ELSE 0])

\* The transceiver is reset for a millisecond.
usb_reset ==
    << MaskWrite(<<"gpio", "DIRM_1">>, [DIRECTION_1 |-> \h4000]),
       usb_reset_pin(1),
       MaskWrite(<<"gpio", "OEN_1">>, [OP_ENABLE_1 |-> \h4000]),
       usb_reset_pin(0), MaskDelay(1), usb_reset_pin(1) >>

peripherals_init_data ==
    <<Unlock>> \o ddr_term_ibuf \o <<Lock>> \o uart_init \o qspi_pl_init \o usb_reset \o <<Exit>>

\* The level shifters between processor and fabric are switched on, then the
\* resets of the fabric are released.
post_config ==
    << Unlock,
       Slcr("LVL_SHFTR_EN", [USER_LVL_INP_EN_0 |-> 1, USER_LVL_OUT_EN_0 |-> 1,
                             USER_LVL_INP_EN_1 |-> 1, USER_LVL_OUT_EN_1 |-> 1]),
       Slcr("FPGA_RST_CTRL", [FPGA3_OUT_RST |-> 0, FPGA2_OUT_RST |-> 0, FPGA1_OUT_RST |-> 0,
                              FPGA0_OUT_RST |-> 0, rest |-> 0]),
       Lock, Exit >>

debug ==
    LET Key(unit) == Write(<<unit, "LAR">>, [KEY |-> "C5ACCE55"])
    IN  << Key("cpu0_cti"), Key("cpu1_cti"), Key("ftm_cti"), Exit >>
=============================================================================
