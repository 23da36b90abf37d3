--------------------------- MODULE VideoPipeline ---------------------------
(***************************************************************************)
(* The routines main configures its devices with, each as the sequence of  *)
(* its driver calls: the video pipeline (AXI stream switch, clock, timing  *)
(* controller, pattern generator, scaler, gamma, demosaic, CSI transmitter) *)
(* and the GPIO, UART and chip set-ups before it.                          *)
(***************************************************************************)
EXTENDS Loops

CONSTANT CsiInstances   \* XPAR_XCSI2TX_NUM_INSTANCES

ASSUME PipelineAssumption == CsiInstances \in 1 .. 4

\* A call: one whose result nobody reads, one whose failure ends the routine,
\* one that waits for a lock and goes on without; the device it starts, if any.
Do(f) == [call |-> f, kind |-> "do", starts |-> {}]
Try(f) == [call |-> f, kind |-> "try", starts |-> {}]
Starting(c, device) == [c EXCEPT !.starts = {device}]

AxisSwitch ==
  <<Try("XAxisScr_LookupConfig"), Try("XAxisScr_CfgInitialize"),
    Do("XAxisScr_RegUpdateDisable"), Do("XAxisScr_MiPortDisableAll"),
    Do("XAxisScr_MiPortEnable"), Starting(Do("XAxisScr_RegUpdateEnable"), "switch"),
    Try("XAxisScr_IsMiPortEnabled")>>
axis_switch_cfg == AxisSwitch

\* A clock that has not locked after 10000 looks is reported on the console only.
Wait_For_Lock == [call |-> "Wait_For_Lock", kind |-> "lock", starts |-> {}]
ClockFound ==
  <<Try("XClk_Wiz_LookupConfig"), Try("XClk_Wiz_CfgInitialize"), Wait_For_Lock,
    Do("reset"), Wait_For_Lock>>
ClockLoaded ==
  <<Do("XClk_Wiz_WriteReg"), Do("load"), Starting(Wait_For_Lock, "clock")>>
XClk_Wiz_dynamic_reconfig == ClockFound \o ClockLoaded
clkwiz_config == XClk_Wiz_dynamic_reconfig

vtiming_gen_run ==
  <<Do("XVtc_Disable"), Do("XVtc_Reset"), Do("XVtc_SetPolarity"),
    Do("XVtc_SetGenerator"), Do("XVtc_SetSource"), Do("XVtc_DisableSync"),
    Starting(Do("XVtc_Enable"), "vtc"), Do("XVtc_RegUpdate")>>
vtc_init == <<Do("XVtc_LookupConfig"), Try("XVtc_CfgInitialize")>>
vtc_config == vtc_init \o vtiming_gen_run

tpg_cfg ==
  <<Do("XV_tpg_DisableAutoRestart"), Do("XV_tpg_Set_height"), Do("XV_tpg_Set_width"),
    Do("XV_tpg_Set_colorFormat"), Do("XV_tpg_Set_bckgndId"), Do("XV_tpg_Set_ovrlayId")>>
tpg_box ==
  <<Do("XV_tpg_Set_boxSize"), Do("XV_tpg_Set_motionSpeed"), Do("XV_tpg_Set_ovrlayId")>>
tpg_config ==
  <<Try("XV_tpg_Initialize")>> \o tpg_cfg \o tpg_box
  \o <<Do("XV_tpg_EnableAutoRestart"), Starting(Do("XV_tpg_Start"), "tpg")>>

\* clear_display and vdma_config_direct are the subject of VdmaConfig.
vdma == <<Do("clear_display"), Starting(Do("vdma_config_direct"), "vdma")>>

vpss_config ==
  <<Try("XVidC_RegisterCustomTimingModes"), Do("XVprocSs_LookupConfig"),
    Try("XVprocSs_CfgInitialize"), Try("XVprocSs_SetVidStreamIn"),
    Try("XVprocSs_SetVidStreamOut"),
    Starting(Try("XVprocSs_SetSubsystemConfig"), "vpss")>>

gamma_lut_init ==
  <<Try("XV_gamma_lut_LookupConfig"), Try("XV_gamma_lut_CfgInitialize"),
    Do("XV_gamma_lut_Set"), Try("gamma_lut_0"), Try("gamma_lut_1"), Try("gamma_lut_2"),
    Do("XV_gamma_lut_EnableAutoRestart"), Starting(Do("XV_gamma_lut_Start"), "gamma")>>

\* main's bayer_phase is 0, within the limit tested first.
demosaic_init ==
  <<Try("XV_demosaic_LookupConfig"), Try("XV_demosaic_CfgInitialize"),
    Do("XV_demosaic_Set"), Try("XV_demosaic_IsReady"),
    Do("XV_demosaic_EnableAutoRestart"), Starting(Do("XV_demosaic_Start"), "demosaic")>>

Csi2TxSs_Init == <<Try("XCsi2TxSs_LookupConfig"), Try("XCsi2TxSs_CfgInitialize")>>
csi_tx_config ==
  ForEach(CsiInstances, LAMBDA i :
    Csi2TxSs_Init
    \o <<Do("XCsi2TxSs_SetClkMode"), Try("XCsi2TxSs_SetLineCountForVC"),
         Starting(Try("XCsi2TxSs_Activate"), "csi")>>)

xgpio_i2c_init ==
  <<Try("XGpio_Initialize"), Do("XGpio_SetDataDirection"), Do("XGpio_DiscreteWrite")>>

\* Each pin: its direction, its output enable and its level.
Pins == <<"RELAY_CUTOFF", "PL_LOCK_LED", "EEPROM_WP", "SIL_RSTN", "CH0_LOCK", "CH0_ERRB",
          "CH1_LOCK", "CH1_ERRB", "CH2_LOCK", "CH2_ERRB", "CH3_LOCK", "CH3_ERRB",
          "DES_PWR_EN">>
PsGpioSetup ==
  <<Do("XGpioPs_LookupConfig"), Try("XGpioPs_CfgInitialize")>>
  \o [i \in 1 .. Len(Pins) |-> Do(Pins[i])]

\* With MODBUS_RTU_SLAVE: the UART and the direction pin of the RS-485 driver.
rs485_heir_xuart_setup == <<Try("XUartLite_Initialize")>>
rs485_heir_xgpio_setup == <<Try("XGpio_Initialize")>>
Uart0_Init ==
  rs485_heir_xuart_setup
  \o <<Do("XUartLite_SetRecvHandler"), Do("XUartLite_SetSendHandler"),
       Try("INTC_CONNECT"), Do("XUartLite_EnableInterrupt"),
       Do("XUartLite_WriteReg_0"), Do("XUartLite_WriteReg"),
       Starting(Do("XIntc_Enable"), "uart")>>
  \o rs485_heir_xgpio_setup \o <<Do("UartLiteRs485_Input")>>

\* The chips behind the I2C buses: every status is ignored.
sil9136_config == [i \in 1 .. 12 |-> Do("xgpio_i2c_reg8_write")]
max929x_write_array == <<Do("max929x_write_array")>>
Reads == <<Do("xgpio_i2c_reg16_read"), Do("xgpio_i2c_reg16_read")>>
Rate == <<Do("xgpio_i2c_reg16_write"), Do("xgpio_i2c_reg16_write")>>
serdes ==
  Reads \o Rate \o max929x_write_array    \* DES_CFG
  \o Reads \o Rate \o max929x_write_array \* SER_CFG
  \o Reads \o Reads

\* What a routine of this name does.
Routine(f) ==
  CASE f = "xgpio_i2c_init" -> xgpio_i2c_init [] f = "PsGpioSetup" -> PsGpioSetup
    [] f = "Uart0_Init" -> Uart0_Init [] f = "sil9136_config" -> sil9136_config
    [] f = "serdes" -> serdes [] f = "axis_switch_cfg" -> axis_switch_cfg
    [] f = "clkwiz_config" -> clkwiz_config [] f = "vtc_config" -> vtc_config
    [] f = "tpg_config" -> tpg_config [] f = "vdma_config_direct" -> vdma
    [] f = "vpss_config" -> vpss_config [] f = "gamma_lut_init" -> gamma_lut_init
    [] f = "demosaic_init" -> demosaic_init [] f = "csi_tx_config" -> csi_tx_config
=============================================================================
