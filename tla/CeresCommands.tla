--------------------------- MODULE CeresCommands ---------------------------
(***************************************************************************)
(* The commands for a CERES board.  A request r names a command by what it *)
(* does ("read", "write", "reset") to what, or, where there is more to it, *)
(* by its name, with "do" for what it does; r.args are its numbers.  All   *)
(* are "legacy" functions, which return a word and may leave an answer in  *)
(* the place of their arguments (resp).                                    *)
(***************************************************************************)
EXTENDS Pipelines

\* adc_switch, lmk_switch, jesd_switch, jesd_phy_switch: the one with this
\* number; there being none, the command fails.
On(s, devices, which, Op(_, _)) ==
  IF Below(which, Len(devices)) THEN Op(s, devices[which + 1]) ELSE Ret(s, -1)

-----------------------------------------------------------------------------
(* Registers that a command writes or reads as they are.                   *)

WritePort(s, r) == write_gpio_value(s, CERES.gpio, CeresPorts[r.what], r.args[1])
ReadPort(s, r) == read_gpio_value(s, CERES.gpio, FALSE, CeresPorts[r.what])
ReadInput(s, r) == read_gpio_value(s, CERES.gpio, TRUE, CeresInputs[r.what])

PipelineWrite(s, r) == write_addr(s, PIPELINE, DataPipeline[r.what], r.args[1])
PipelineRead(s, r) == ReadValue(s, PIPELINE, DataPipeline[r.what])

\* Registers of a link or its transceiver: its number comes first.
LinkWrite(s, r) ==
  On(s, CERES.jesd_phy, r.args[1], LAMBDA t, phy : write_addr(t, phy, LinkRegisters[r.what], r.args[2]))
LinkRead(s, r) == On(s, CERES.jesd_phy, r.args[1], LAMBDA t, phy : ReadValue(t, phy, LinkRegisters[r.what]))

DELAY == \h30
DelayWrite(s, r) == On(s, CERES.jesd, r.args[1], LAMBDA t, jesd : write_addr(t, jesd, DELAY, r.args[2]))
DelayRead(s, r) == On(s, CERES.jesd, r.args[1], LAMBDA t, jesd : ReadValue(t, jesd, DELAY))

\* Commands that take the number of the register.
GpioRegister(s, r) ==
  CASE r.what = "write_gpio_register" -> write_gpio_value(s, CERES.gpio, r.args[1], r.args[2])
    [] r.what = "read_gpio_output_register" -> read_gpio_value(s, CERES.gpio, FALSE, r.args[1])
    [] r.what = "read_gpio_input_register" -> read_gpio_value(s, CERES.gpio, TRUE, r.args[1])

PipelineRegister(s, r) ==
  CASE r.what = "write_data_pipeline" -> write_addr(s, PIPELINE, r.args[1], r.args[2])
    [] r.what = "read_data_pipeline" -> ReadValue(s, PIPELINE, r.args[1])
    [] r.what = "write_data_pipeline_depth" -> write_addr(s, PIPELINE, ChannelDepth(r.args[1]), r.args[2])
    [] r.what = "read_data_pipeline_depth" -> ReadValue(s, PIPELINE, ChannelDepth(r.args[1]))

-----------------------------------------------------------------------------
(* The others, in the order of ceres_if.c.                                 *)

IicCommand(s, r) ==
  LET a == r.args
  IN CASE r.what = "read_iic_reg" -> iic_read(s, a[1])
       [] r.what = "write_iic_reg" -> iic_write(s, a[1], a[2])
       [] r.what = "read_iic_bus" -> read_iic_bus(s, a[1])
       [] r.what = "write_iic_bus" -> write_iic_bus(s, a[1], a[2])
       [] r.what = "read_iic_bus_with_reg" -> read_iic_bus_with_reg(s, a[1], a[2])
       [] r.what = "write_iic_bus_with_reg" -> write_iic_bus_with_reg(s, a[1], a[2], a[3])

AdcCommand(s, r) ==
  LET a == r.args
      Do(t, q) == CASE r.what = "write_ads" -> write_qspi_addr(t, q, a[2], a[3])
                    [] r.what = "read_ads" -> read_qspi_addr(t, q, a[2])
                    [] r.what = "write_adc_spi" -> write_adc_spi(t, q, a[2], a[3], a[4])
                    [] r.what = "ads_spi_data_available" -> spi_drr_data_available(t, q)
                    [] r.what = "ads_spi_pop" -> spi_drr_pop(t, q)
  IN On(s, CERES.adc, a[1], Do)

LmkCommand(s, r) ==
  LET a == r.args
      Pll == IF a[2] = 0 THEN 0 ELSE 1
      Do(t, q) == CASE r.what = "write_lmk_if" -> write_qspi_addr(t, q, a[2], a[3])
                    [] r.what = "read_lmk_if" -> read_qspi_addr(t, q, a[2])
                    [] r.what = "write_lmk_spi" -> write_lmk_spi(t, q, a[2], a[3], a[4])
                    [] r.what = "lmk_spi_data_available" -> spi_drr_data_available(t, q)
                    [] r.what = "lmk_spi_data_pop" -> spi_drr_pop(t, q)
                    [] r.what = "read_lmk_pll_status" -> read_pll_dld_status_reg(t, q, Pll)
                    [] r.what = "clear_lmk_pll_status" -> clear_pll_dld_status_reg(t, q, Pll)
                    [] r.what = "read_lmk_dac_value" -> read_lmk_dac(t, q)
                    [] r.what = "write_lmk_dac_value" -> write_lmk_dac(t, q, a[2])
  IN On(s, CERES.lmk, a[1], Do)

JesdCommand(s, r) ==
  LET a == r.args
      Do(t, jesd) == CASE r.what = "jesd_read" -> ReadValue(t, jesd, a[2])
                       [] r.what = "jesd_write" -> write_addr(t, jesd, a[2], a[3])
                       [] r.what = "jesd_error_count" -> jesd_error_count(t, jesd)
                       [] r.what = "jesd_error_rate" -> jesd_read_error_rate(t, jesd)
                       [] r.what = "jesd_reset" -> jesd_reset(t, jesd)
  IN On(s, CERES.jesd, a[1], Do)

\* What a reset is to reset.
RESET_GEN_BITS == [jesd |-> 0, pipeline |-> 1, axi |-> 2, aurora |-> 3, fnet |-> 4, fifo |-> 5]
SysReset(s, r) == generic_sys_reset(s, RESET_GEN_BITS[r.what])

SyncCommand(s, r) ==
  LET Do(t, jesd) == CASE r.what = "jesd_is_synced" -> jesd_is_synced(t, jesd)
                       [] r.what = "jesd_set_sync_error_reporting" -> set_sync_error_reporting(t, jesd, r.args[2])
  IN On(s, CERES.jesd, r.args[1], Do)

adc_reset(s, r) == Ret(write_gpio_value(s, CERES.gpio, 1, r.args[1]), 0)

ParamsCommand(s, r) ==
  LET a == r.args
      To(name, value) == <<PIPELINE, DataPipeline[name], value>>
  IN CASE r.what = "set_local_trigger_params" ->
            IF a[1] = 0 \/ a[2] = 0 THEN Ret(s, -1)
            ELSE AllWrites(s, <<To("local_trigger_length", a[2]), To("trigger_count_reset_value", PerSecond(a[1]))>>)
       [] r.what = "set_trigger_params" ->
            AllWrites(s, <<To("channel_mask", a[1]), To("trigger_sum_width", a[2]), To("threshold", a[3])>>)

\* Reads register 0x127 of the clock chip, and takes away what came back
\* (rw is 1, and 0x11 ? onoff : 0x01 is onoff).
set_sysref(s, r) ==
  LET Do(t, q) == LET w == write_lmk_spi(t, q, 1, \h127, r.args[2])
                  IN Ret(spi_drr_pop(spi_drr_pop(spi_drr_pop(w, q), q), q), w.ret)
  IN On(s, CERES.lmk, r.args[1], Do)

PhyCommand(s, r) ==
  LET a == r.args
      COMMON == \h100
      TRANSCEIVER == \h200
      Do(t, phy) == CASE r.what = "write_jesd_phy" -> write_addr(t, phy, a[2], a[3])
                      [] r.what = "read_jesd_phy" -> ReadValue(t, phy, a[2])
                      [] r.what = "reset_lpmen" -> reset_lpmen(t, phy)
                      [] r.what = "read_jesd_drp_common" -> read_drp(t, phy + COMMON, a[2])
                      [] r.what = "write_jesd_drp_common" -> write_drp(t, phy + COMMON, a[2], a[3])
                      [] r.what = "read_jesd_drp_channel" -> read_drp(t, phy + TRANSCEIVER, a[2])
                      [] r.what = "write_jesd_drp_channel" -> write_drp(t, phy + TRANSCEIVER, a[2], a[3])
  IN On(s, CERES.jesd_phy, a[1], Do)

read_jesd_rx_lane_buffer_adj(s, r) ==
  LET One1(jesd, t, c) == LET v == ReadValue(t, jesd, \h830 + \h40 * c) IN [v EXCEPT !.resp = Append(@, v.ret)]
      All(t, jesd) == Ret(FoldLeft(LAMBDA u, c : One1(jesd, u, c), t, <<0, 1, 2, 3>>), 0)
  IN On(s, CERES.jesd, r.args[1], All)

WizardCommand(s, r) ==
  LET wiz == CERES.clk_wiz
  IN CASE r.what = "read_clock_wiz_reg" -> ReadValue(s, wiz, r.args[1])
       [] r.what = "reset_clock_wiz" -> clock_wiz_reset(s, wiz)
       [] r.what = "read_clock_wiz_phase" -> clock_wiz_read_phase(s, wiz, r.args[1])
       [] r.what = "write_clock_wiz_phase" -> clock_wiz_write_phase(s, wiz, r.args[1], r.args[2])
       [] r.what = "register_clock_wiz_changes" -> clock_wiz_register_changes(s, wiz)

FULL_TURN == 360000
CLOCKS == <<0, 1, 2, 3>>

\* All phases are read, then all are written.
increment_clock_wiz_phase(s, inc) ==
  LET wiz == CERES.clk_wiz
      Read(t, k) == LET v == clock_wiz_read_phase(t, wiz, k) IN [v EXCEPT !.resp = Append(@, v.ret)]
      read == FoldLeft(Read, [s EXCEPT !.resp = << >>], CLOCKS)
      Write(t, k) == clock_wiz_write_phase(t, wiz, k, Rem(Plus(read.resp[k + 1], Rem(inc, FULL_TURN)), FULL_TURN))
  IN clock_wiz_register_changes(FoldLeft(Write, read, CLOCKS), wiz)

\* Mutant: a phase that would fall below 0 stays there.
Lowered(phase, decr) == IF Below(phase, decr) THEN 0 ELSE phase - decr

Back(phase, decr) == IF Below(phase, decr) THEN FULL_TURN - (decr - phase) ELSE Minus(phase, decr)

\* Each phase is read and written before the next is.
decrement_clock_wiz_phase(s, decr) ==
  LET wiz == CERES.clk_wiz
      One1(t, k) == LET v == clock_wiz_read_phase(t, wiz, k)
                    IN clock_wiz_write_phase(v, wiz, k, Back(v.ret, Rem(decr, FULL_TURN)))
  IN clock_wiz_register_changes(FoldLeft(One1, s, CLOCKS), wiz)

\* The larger of the two halves of the word.
read_fifo_occupancy_command(s, r) ==
  LET v == read_fifo_occupancy(s, r.args[1])
      low == Field(v.ret, 0, 16)
      high == Field(v.ret, 16, 16)
  IN Ret(v, IF low > high THEN low ELSE high)

-----------------------------------------------------------------------------
(* The table.                                                              *)

\* How many words a request has, the command included, and how many numbers
\* its answer has, for the commands with the verb "do".
Shape == [read_iic_reg |-> 2, write_iic_reg |-> 3, read_iic_bus |-> 2, write_iic_bus |-> 3,
  read_iic_bus_with_reg |-> 3, write_iic_bus_with_reg |-> 4,
  read_ads |-> 3, write_ads |-> 4, write_adc_spi |-> 5, ads_spi_data_available |-> 2, ads_spi_pop |-> 2,
  write_lmk_if |-> 4, read_lmk_if |-> 3, write_lmk_spi |-> 5, lmk_spi_data_available |-> 2, lmk_spi_data_pop |-> 2,
  read_lmk_pll_status |-> 3, clear_lmk_pll_status |-> 3, read_lmk_dac_value |-> 2, write_lmk_dac_value |-> 3,
  jesd_read |-> 3, jesd_write |-> 4, jesd_error_count |-> 2, jesd_error_rate |-> 2, jesd_reset |-> 2,
  jesd_is_synced |-> 2, jesd_set_sync_error_reporting |-> 3, adc_reset |-> 2,
  read_data_pipeline_depth |-> 2, write_data_pipeline_depth |-> 3, write_data_pipeline |-> 3, read_data_pipeline |-> 2,
  set_local_trigger_params |-> 3, set_trigger_params |-> 4, set_sysref |-> 3,
  write_jesd_phy |-> 4, read_jesd_phy |-> 3, reset_lpmen |-> 2, read_jesd_drp_common |-> 3,
  write_jesd_drp_common |-> 4, read_jesd_drp_channel |-> 3, write_jesd_drp_channel |-> 4,
  read_jesd_rx_lane_buffer_adj |-> 2, write_gpio_register |-> 3, read_gpio_output_register |-> 2,
  read_gpio_input_register |-> 2, read_clock_wiz_reg |-> 2, reset_clock_wiz |-> 1, read_clock_wiz_phase |-> 2,
  write_clock_wiz_phase |-> 3, register_clock_wiz_changes |-> 1, increment_clock_wiz_phase |-> 2,
  decrement_clock_wiz_phase |-> 2, read_fifo_occupancy |-> 2]

nresp(r) == IF r.what = "write_iic_reg" THEN 0
            ELSE IF r.what \in {"jesd_error_count", "jesd_error_rate", "read_jesd_rx_lane_buffer_adj"} THEN 4 ELSE 1

IicNames == {"read_iic_reg", "write_iic_reg", "read_iic_bus", "write_iic_bus",
             "read_iic_bus_with_reg", "write_iic_bus_with_reg"}
AdcNames == {"write_ads", "read_ads", "write_adc_spi", "ads_spi_data_available", "ads_spi_pop"}
LmkNames == {"write_lmk_if", "read_lmk_if", "write_lmk_spi", "lmk_spi_data_available", "lmk_spi_data_pop",
             "read_lmk_pll_status", "clear_lmk_pll_status", "read_lmk_dac_value", "write_lmk_dac_value"}
JesdNames == {"jesd_read", "jesd_write", "jesd_error_count", "jesd_error_rate", "jesd_reset"}
SyncNames == {"jesd_is_synced", "jesd_set_sync_error_reporting"}
ParamsNames == {"set_local_trigger_params", "set_trigger_params"}
PhyNames == {"write_jesd_phy", "read_jesd_phy", "reset_lpmen", "read_jesd_drp_common", "write_jesd_drp_common",
             "read_jesd_drp_channel", "write_jesd_drp_channel"}
GpioNames == {"write_gpio_register", "read_gpio_output_register", "read_gpio_input_register"}
PipelineNames == {"write_data_pipeline", "read_data_pipeline", "write_data_pipeline_depth", "read_data_pipeline_depth"}
WizardNames == {"read_clock_wiz_reg", "reset_clock_wiz", "read_clock_wiz_phase", "write_clock_wiz_phase",
                "register_clock_wiz_changes"}

WriteCommand(s, r) ==
  CASE r.what \in DOMAIN CeresPorts -> WritePort(s, r)
    [] r.what \in DOMAIN DataPipeline -> PipelineWrite(s, r)
    [] r.what \in DOMAIN LinkRegisters -> LinkWrite(s, r)
    [] r.what = "jesd_buffer_delay" -> DelayWrite(s, r)

ReadCommand(s, r) ==
  CASE r.what \in DOMAIN CeresPorts -> ReadPort(s, r)
    [] r.what \in DOMAIN CeresInputs -> ReadInput(s, r)
    [] r.what \in DOMAIN DataPipeline -> PipelineRead(s, r)
    [] r.what \in DOMAIN LinkRegisters -> LinkRead(s, r)
    [] r.what = "jesd_buffer_delay" -> DelayRead(s, r)
    [] r.what = "build_tag" -> ReadValue(s, PIPELINE, BUILD_INFO)

DoCommand(s, r) ==
  CASE r.what \in IicNames -> IicCommand(s, r)
    [] r.what \in AdcNames -> AdcCommand(s, r)
    [] r.what \in LmkNames -> LmkCommand(s, r)
    [] r.what \in JesdNames -> JesdCommand(s, r)
    [] r.what \in SyncNames -> SyncCommand(s, r)
    [] r.what = "adc_reset" -> adc_reset(s, r)
    [] r.what \in ParamsNames -> ParamsCommand(s, r)
    [] r.what = "set_sysref" -> set_sysref(s, r)
    [] r.what \in PhyNames -> PhyCommand(s, r)
    [] r.what = "read_jesd_rx_lane_buffer_adj" -> read_jesd_rx_lane_buffer_adj(s, r)
    [] r.what \in GpioNames -> GpioRegister(s, r)
    [] r.what \in PipelineNames -> PipelineRegister(s, r)
    [] r.what \in WizardNames -> WizardCommand(s, r)
    [] r.what = "increment_clock_wiz_phase" -> increment_clock_wiz_phase(s, r.args[1])
    [] r.what = "decrement_clock_wiz_phase" -> decrement_clock_wiz_phase(s, r.args[1])
    [] r.what = "read_fifo_occupancy" -> read_fifo_occupancy_command(s, r)

Legacy(s, r) ==
  CASE r.verb = "write" -> WriteCommand(s, r)
    [] r.verb = "read" -> ReadCommand(s, r)
    [] r.verb = "reset" -> SysReset(s, r)
    [] OTHER -> DoCommand(s, r)
=============================================================================
