----------------------------- MODULE Pipelines -----------------------------
(***************************************************************************)
(* The two register files that the servers spend most of their commands    *)
(* on: the data pipeline of a CERES board and the trigger pipeline of      *)
(* FONTUS.  A group of registers is where its first one is and how many    *)
(* there are; each has a function that reads and one that writes it.       *)
(***************************************************************************)
EXTENDS Peripherals

PIPELINE == 0

One(base) == [base |-> base, count |-> 1]

\* A channel that a group does not have is refused.
ReadGroup(s, g, channel) ==
  IF Below(channel, g.count) THEN ReadValue(s, PIPELINE, g.base + 4 * channel) ELSE Ret(s, -1)
WriteGroup(s, g, channel, value) ==
  IF Below(channel, g.count) THEN write_addr(s, PIPELINE, g.base + 4 * channel, value) ELSE Ret(s, -1)

-----------------------------------------------------------------------------
(* trigger_pipeline.c                                                      *)

NUM_THRESHOLDS == 5
NUM_EXTERNALS == 3
CHANNELS_PER_EXTERNAL == 3
NUM_TRIGGERS == 10

PerThreshold(base) == [base |-> base, count |-> NUM_THRESHOLDS]
PerTrigger(base) == [base |-> base, count |-> NUM_TRIGGERS]

Thresholds == [inner_multiplicity |-> PerThreshold(\h30), inner_esum |-> PerThreshold(\h50),
               veto_multiplicity |-> PerThreshold(\h70), veto_esum |-> PerThreshold(\h90),
               cngs_beam |-> One(\h28), multiplicity_width |-> One(\h20)]

\* Mutant: the groups are laid out as if each had a register less.
ShortRow(base) ==
  [inner_multiplicity |-> PerThreshold(base), inner_esum |-> PerThreshold(base + 16),
   veto_multiplicity |-> PerThreshold(base + 32), veto_esum |-> PerThreshold(base + 48),
   external |-> [base |-> base + 64, count |-> 9], cngs_beam |-> One(base + 100), cngs_cngs |-> One(base + 104)]

\* The delays and the gates of the triggers, one after the other from base.
Row(base) ==
  [inner_multiplicity |-> [base |-> base, count |-> NUM_THRESHOLDS],
   inner_esum |-> [base |-> base + 20, count |-> NUM_THRESHOLDS],
   veto_multiplicity |-> [base |-> base + 40, count |-> NUM_THRESHOLDS],
   veto_esum |-> [base |-> base + 60, count |-> NUM_THRESHOLDS],
   external |-> [base |-> base + 80, count |-> NUM_EXTERNALS * CHANNELS_PER_EXTERNAL],
   cngs_beam |-> [base |-> base + 116, count |-> 1],
   cngs_cngs |-> [base |-> base + 120, count |-> 1]]

Delays == Row(\hD0)
Gates == Row(\h150)

\* The inputs at the front panel have a few channels each: their place in the
\* group, or a place the group does not have.
External(which, channel) ==
  IF Below(which, NUM_EXTERNALS) /\ Below(channel, CHANNELS_PER_EXTERNAL)
  THEN which * CHANNELS_PER_EXTERNAL + channel ELSE -1

Triggers == [mask |-> PerTrigger(\h1D0), veto_mask |-> PerTrigger(\h200),
             length |-> PerTrigger(\h230), led_length |-> One(\h10), kicker_length |-> One(\hC)]

Enables == [pulse_generator |-> One(8), threshold_mask |-> One(\h300), trigger_mask |-> One(\h304),
            self_trigger |-> One(\h308)]

SYNC == \h14
read_sync_length(s) == LET r == ReadValue(s, PIPELINE, SYNC) IN Ret(r, Field(r.ret, 4, 16))

\* Mutant: the pulse is begun and not ended.
BeginSync(s, length) == write_addr(s, PIPELINE, SYNC, LowBits(length, 16) * 16 + 1)

\* The pulse begins when bit 0 is set and ends only when it is cleared.
do_sync(s, length) ==
  UntilFailure(s, << <<PIPELINE, SYNC, LowBits(length, 16) * 16 + 1>>, <<PIPELINE, SYNC, LowBits(length, 16) * 16>> >>)

AutoTrigger == [length |-> One(\h18), rate |-> One(\h1C), enable |-> One(\h24), build_info |-> One(\h804)]

-----------------------------------------------------------------------------
(* The names fontus_if.c gives to the registers of the trigger pipeline.   *)

ThresholdGroups == [inner_multiplicity_threshold |-> Thresholds.inner_multiplicity,
  veto_multiplicity_threshold |-> Thresholds.veto_multiplicity, inner_esum_threshold |-> Thresholds.inner_esum,
  veto_esum_threshold |-> Thresholds.veto_esum, cngs_beam_trigger_threshold |-> Thresholds.cngs_beam]

DelayGroups == [inner_multiplicity_delay |-> Delays.inner_multiplicity,
  veto_multiplicity_delay |-> Delays.veto_multiplicity, inner_esum_delay |-> Delays.inner_esum,
  veto_esum_delay |-> Delays.veto_esum, frontpanel_trigger_delay |-> Delays.external,
  cngs_beam_trigger_delay |-> Delays.cngs_beam, cngs_cngs_trigger_delay |-> Delays.cngs_cngs]

GateGroups == [inner_multiplicity_gate |-> Gates.inner_multiplicity,
  veto_multiplicity_gate |-> Gates.veto_multiplicity, inner_esum_gate |-> Gates.inner_esum,
  veto_esum_gate |-> Gates.veto_esum, frontpanel_trigger_gate |-> Gates.external,
  cngs_beam_trigger_gate |-> Gates.cngs_beam, cngs_cngs_trigger_gate |-> Gates.cngs_cngs]

TriggerGroups == [led_trigger_length |-> Triggers.led_length, kicker_trigger_length |-> Triggers.kicker_length,
  self_trigger_mask |-> Triggers.mask, self_veto_mask |-> Triggers.veto_mask, self_trigger_length |-> Triggers.length,
  threshold_enable_mask |-> Enables.threshold_mask, multiplicity_width |-> Thresholds.multiplicity_width,
  trigger_enable_mask |-> Enables.trigger_mask]

AutoGroups == [auto_trig_length |-> AutoTrigger.length, auto_trig_period |-> AutoTrigger.rate,
               auto_trig_enable |-> AutoTrigger.enable]

RegisterNames == DOMAIN ThresholdGroups \cup DOMAIN DelayGroups \cup DOMAIN GateGroups
                 \cup DOMAIN TriggerGroups \cup DOMAIN AutoGroups

Registers(name) ==
  CASE name \in DOMAIN ThresholdGroups -> ThresholdGroups[name]
    [] name \in DOMAIN DelayGroups -> DelayGroups[name]
    [] name \in DOMAIN GateGroups -> GateGroups[name]
    [] name \in DOMAIN TriggerGroups -> TriggerGroups[name]
    [] name \in DOMAIN AutoGroups -> AutoGroups[name]

\* Those of an input of the front panel take it and a channel.
FrontPanel == {"frontpanel_trigger_delay", "frontpanel_trigger_gate"}

-----------------------------------------------------------------------------
(* data_pipeline.c                                                         *)

DataPipeline == [threshold |-> 4, channel_mask |-> 8, fifo_status |-> \h10, invalid_count |-> \h14,
  local_trigger_enable |-> \h18, local_trigger_mode |-> \h1C, local_trigger_length |-> \h20,
  trigger_count_reset_value |-> \h24, trigger_enable |-> \h28, trigger_sum_width |-> \h2C,
  global_depth |-> \h34]

BUILD_INFO == \h804

\* No channel is refused.
ChannelDepth(channel) == \h100 + 4 * channel

read_fifo_occupancy(s, channel) ==
  IF Below(channel, 16) THEN ReadValue(s, PIPELINE, \h200 + 4 * channel) ELSE Ret(s, 0)
=============================================================================
