-------------------------- MODULE FontusCommands --------------------------
(***************************************************************************)
(* The commands for the FONTUS board, named as those of CeresCommands are. *)
(* Four of them change a bit of a mask, take words (r.words) and answer    *)
(* the client themselves; the others return a word.                        *)
(***************************************************************************)
EXTENDS Pipelines

-----------------------------------------------------------------------------
(* Registers of the trigger pipeline that a command writes or reads, those *)
(* of a group with the channel first.                                      *)

\* The channel a request names, and the number of arguments it takes to.
Indices(what) == IF what \in FrontPanel THEN 2 ELSE IF Registers(what).count = 1 THEN 0 ELSE 1
Channel(r) == CASE Indices(r.what) = 0 -> 0
                [] Indices(r.what) = 1 -> r.args[1]
                [] OTHER -> External(r.args[1], r.args[2])

WriteRegister(s, r) == WriteGroup(s, Registers(r.what), Channel(r), r.args[Indices(r.what) + 1])
ReadRegister(s, r) == ReadGroup(s, Registers(r.what), Channel(r))

GpioWrite(s, r) == write_gpio_value(s, FONTUS.gpio, FontusPorts[r.what], r.args[1])
GpioRead(s, r) ==
  IF r.what \in DOMAIN FontusPorts THEN read_gpio_value(s, FONTUS.gpio, FALSE, FontusPorts[r.what])
  ELSE read_gpio_value(s, FONTUS.gpio, TRUE, FontusInputs[r.what])

-----------------------------------------------------------------------------
(* The others, in the order of fontus_if.c.                                *)

LmkCommand(s, r) ==
  LET a == r.args
      q == FONTUS.lmk
      Pll == IF a[1] = 0 THEN 0 ELSE 1
  IN CASE r.what = "write_lmk_if" -> write_qspi_addr(s, q, a[1], a[2])
       [] r.what = "read_lmk_if" -> read_qspi_addr(s, q, a[1])
       [] r.what = "write_lmk_spi" -> write_lmk_spi(s, q, a[1], a[2], a[3])
       [] r.what = "lmk_spi_data_available" -> spi_drr_data_available(s, q)
       [] r.what = "lmk_spi_data_pop" -> spi_drr_pop(s, q)
       [] r.what = "read_lmk_pll_status" -> read_pll_dld_status_reg(s, q, Pll)
       [] r.what = "clear_lmk_pll_status" -> clear_pll_dld_status_reg(s, q, Pll)
       [] r.what = "read_lmk_dac_value" -> read_lmk_dac(s, q)
       [] r.what = "write_lmk_dac_value" -> write_lmk_dac(s, q, a[1])

\* On or off, for any number that is not 0.
EnableCommand(s, r) ==
  LET enable == IF r.args[1] # 0 THEN 1 ELSE 0
  IN CASE r.what = "set_enable_self_trigger_system" -> WriteGroup(s, Enables.self_trigger, 0, enable)
       [] r.what = "set_enable_trigger_system" -> WriteGroup(s, Enables.pulse_generator, 0, enable)

read_enable_self_trigger(s) == ReadGroup(s, Enables.self_trigger, 0)

\* write_dac_spi is declared with one argument and uses three: the others
\* are what the memory after the first holds.
DacCommand(s, r) ==
  LET a == r.args
      q == FONTUS.dac
  IN CASE r.what = "read_dac_if" -> read_qspi_addr(s, q, a[1])
       [] r.what = "write_dac_if" -> write_qspi_addr(s, q, a[1], a[2])
       [] r.what = "write_dac_spi" -> write_dac_spi(s, q, a[1], s.env.junk, s.env.junk)
       [] r.what = "set_frontpanel_threshold_for_channel" ->
            write_dac_spi(s, q, UPDATE_INPUT_AND_DAC_REG, LowBits(a[1], 8), LowBits(a[2], 16))

RESET_GEN_BITS == [pipeline |-> 0, axi |-> 1, aurora |-> 2, fifo |-> 3]
SysReset(s, r) == generic_sys_reset(s, RESET_GEN_BITS[r.what])

\* A rate of 0 divides by it: the conversion of infinity gives any word.
AutoParams(s, r) ==
  LET rate == IF r.args[1] = 0 THEN s.env.junk ELSE PerSecond(r.args[1])
  IN AllWrites(s, << <<PIPELINE, AutoTrigger.length.base, r.args[2]>>, <<PIPELINE, AutoTrigger.rate.base, rate>> >>)

read_auto_trig_params(s) ==
  LET length == ReadGroup(s, AutoTrigger.length, 0)
      period == ReadGroup(length, AutoTrigger.rate, 0)
  IN [Ret(period, 0) EXCEPT !.resp = <<period.ret, length.ret>>]

PipelineRegister(s, r) ==
  CASE r.what = "write_trigger_pipeline_reg" -> write_addr(s, PIPELINE, r.args[1], r.args[2])
    [] r.what = "read_trigger_pipline_reg" -> ReadValue(s, PIPELINE, r.args[1])

-----------------------------------------------------------------------------
(* The masks of a trigger, bit by bit, for people.                         *)

N_THRESHOLD == 5

\* Mutant: the bits of the outer detector follow at once.
BitInOneHalf(r) ==
  LET channel == r.args[3]
  IN IF r.words[1] = "EXTERNAL" THEN 20 + 3 * r.args[2] + channel
     ELSE (IF r.words[1] = "INNER" THEN 0 ELSE N_THRESHOLD)
        + (IF r.words[2] = "MULT" THEN 0 ELSE N_THRESHOLD) + channel

\* The bit for a place, a kind and a channel (the words are in upper case
\* by then), or for an input and a channel of it; -1 for anything else.
get_bit_for_trigger_specifier(r) ==
  LET channel == r.args[3]
  IN CASE r.words[1] = "EXTERNAL" ->
            IF Below(r.args[2], NUM_EXTERNALS) /\ Below(channel, CHANNELS_PER_EXTERNAL)
            THEN 20 + CHANNELS_PER_EXTERNAL * r.args[2] + channel ELSE -1
       [] r.words[1] \in {"INNER", "VETO"} ->
            IF Below(channel, N_THRESHOLD) /\ r.words[2] \in {"MULT", "ESUM"}
            THEN (IF r.words[1] = "INNER" THEN 0 ELSE 2 * N_THRESHOLD)
               + (IF r.words[2] = "MULT" THEN 0 ELSE N_THRESHOLD) + channel
            ELSE -1
       [] OTHER -> -1

Say(s, kind, number) == [s EXCEPT !.out = Append(@, <<kind, number>>)]

MaskCommands == {"add_to_trigger_mask_hr", "add_to_veto_mask_hr",
                 "remove_from_trigger_mask_hr", "remove_from_veto_mask_hr"}

\* That the mask could not be read is not noticed: it is then all ones.
MaskCommand(s, r) ==
  LET masks == IF r.what \in {"add_to_trigger_mask_hr", "remove_from_trigger_mask_hr"}
               THEN Triggers.mask ELSE Triggers.veto_mask
      adds == r.what \in {"add_to_trigger_mask_hr", "add_to_veto_mask_hr"}
      bit == get_bit_for_trigger_specifier(r)
      read == ReadGroup(s, masks, r.args[1])
      new == IF adds THEN SetBit(read.ret, bit) ELSE ClearBit(read.ret, bit)
      written == WriteGroup(read, masks, r.args[1], new)
  IN IF ~ Below(r.args[1], NUM_TRIGGERS) \/ bit = -1 THEN Say(s, "error", 0)
     ELSE IF written.ret # 0 THEN Say(written, "error", 0) ELSE Say(written, "ok", 0)

-----------------------------------------------------------------------------
(* The table.                                                              *)

LmkNames == {"write_lmk_if", "read_lmk_if", "write_lmk_spi", "lmk_spi_data_available", "lmk_spi_data_pop",
             "read_lmk_pll_status", "clear_lmk_pll_status", "read_lmk_dac_value", "write_lmk_dac_value"}
EnableNames == {"set_enable_self_trigger_system", "set_enable_trigger_system"}
DacNames == {"read_dac_if", "write_dac_if", "write_dac_spi", "set_frontpanel_threshold_for_channel"}
PipelineNames == {"write_trigger_pipeline_reg", "read_trigger_pipline_reg"}

\* The length of a request and of its answer, as in CeresCommands.
Shape == [write_lmk_if |-> 3, read_lmk_if |-> 2, write_lmk_spi |-> 4, lmk_spi_data_available |-> 1,
  lmk_spi_data_pop |-> 1, read_lmk_pll_status |-> 2, clear_lmk_pll_status |-> 2, read_lmk_dac_value |-> 1,
  write_lmk_dac_value |-> 2, set_enable_self_trigger_system |-> 2, read_enable_self_trigger_system |-> 1,
  set_enable_trigger_system |-> 2, write_dac_if |-> 3, read_dac_if |-> 2, write_dac_spi |-> 2,
  set_frontpanel_threshold_for_channel |-> 3, do_sync |-> 2, write_auto_trig_params |-> 3, read_auto_trig_params |-> 1,
  write_trigger_pipeline_reg |-> 3, read_trigger_pipline_reg |-> 2, read_gpio_input_register |-> 2]

nresp(r) ==
  CASE r.verb = "read" \/ r.verb = "reset" -> 1
    [] r.what = "read_auto_trig_params" -> 2
    [] r.verb = "write" -> 0
    [] r.what \in {"write_lmk_dac_value", "set_enable_self_trigger_system", "read_enable_self_trigger_system",
                   "set_enable_trigger_system", "write_dac_if", "write_dac_spi", "do_sync",
                   "write_auto_trig_params", "write_trigger_pipeline_reg"} -> 0
    [] OTHER -> 1

DoCommand(s, r) ==
  CASE r.what \in LmkNames -> LmkCommand(s, r)
    [] r.what \in EnableNames -> EnableCommand(s, r)
    [] r.what = "read_enable_self_trigger_system" -> read_enable_self_trigger(s)
    [] r.what \in DacNames -> DacCommand(s, r)
    [] r.what = "do_sync" -> do_sync(s, r.args[1])
    [] r.what = "write_auto_trig_params" -> AutoParams(s, r)
    [] r.what = "read_auto_trig_params" -> read_auto_trig_params(s)
    [] r.what \in PipelineNames -> PipelineRegister(s, r)
    [] r.what = "read_gpio_input_register" -> read_gpio_value(s, FONTUS.gpio, TRUE, r.args[1])

ReadCommand(s, r) ==
  CASE r.what \in RegisterNames -> ReadRegister(s, r)
    [] r.what = "sync_length" -> read_sync_length(s)
    [] r.what = "build_tag" -> ReadGroup(s, AutoTrigger.build_info, 0)
    [] OTHER -> GpioRead(s, r)

Legacy(s, r) ==
  CASE r.verb = "write" -> IF r.what \in RegisterNames THEN WriteRegister(s, r) ELSE GpioWrite(s, r)
    [] r.verb = "read" -> ReadCommand(s, r)
    [] r.verb = "reset" -> SysReset(s, r)
    [] OTHER -> DoCommand(s, r)
=============================================================================
