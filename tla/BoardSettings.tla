---------------------------- MODULE BoardSettings ----------------------------
(***************************************************************************)
(* What the board servers promise: their commands, seen as requests for    *)
(* settings of boards (Settings.tla), and the properties of their answers. *)
(***************************************************************************)
EXTENDS BoardServer, BoardCommands

ASSUME RequestsFit == \A name \in SessionNames : \A r \in Sessions(name).requests : Fits(r)

\* The settings that are watched: a name, and numbers; of a group of
\* registers the first and the last.
CeresNames ==
  {<<name, << >> >> : name \in DOMAIN CeresPorts \cup DOMAIN DataPipeline}
  \cup {<<name, <<k>>>> : name \in {"lpmen", "drp_interface_selector", "insertion_loss", "jesd_buffer_delay", "phase"}, k \in 0 .. 3}
  \cup {<<"depth", <<k>>>> : k \in {0, 15}} \cup {<<name, <<k>>>> : name \in {"lmk_dac", "lmk_rest"}, k \in {0, 2}}
  \cup {<<"iic", a>> : a \in {<<64, 3>>, <<66, 4>>}} \cup {<<name, <<0, 5>>>> : name \in {"drp_common", "drp_channel"}}

FontusNames ==
  {<<name, << >> >> : name \in {n \in RegisterNames : Registers(n).count = 1}}
  \cup {<<name, <<k>> >> : name \in {n \in RegisterNames : Registers(n).count \in {5, 10}}, k \in {0, 4}}
  \cup {<<name, <<9>> >> : name \in {n \in RegisterNames : Registers(n).count = 10}}
  \cup {<<name, a>> : name \in FrontPanel, a \in {<<0, 0>>, <<2, 2>>}}
  \cup {<<name, << >> >> : name \in {"coax_dir_select", "sync_mod", "sync_length", "self_trigger", "trigger_system"}}
  \cup {<<"lmk_dac", <<0>>>>, <<"lmk_rest", <<0>>>>}

CeresCells == {<<c[1], c[2]>> : c \in CeresNames}
FontusCells == {<<c[1], c[2]>> : c \in FontusNames}
Cells == CASE Kind = "CERES" -> CeresCells [] Kind = "FONTUS" -> FontusCells

None == << >>
Just(name, args, value) == <<name, args>> :> value

\* Where the hardware of a board keeps a setting that is a register or a
\* register of a chip.
Lmk(args) == IF Kind = "CERES" THEN CERES.lmk[args[1] + 1] ELSE FONTUS.lmk
CeresPlace(name, args) ==
  CASE name \in DOMAIN CeresPorts -> <<CERES.gpio + 4 * CeresPorts[name]>>
    [] name \in DOMAIN DataPipeline -> <<DataPipeline[name]>>
    [] name = "depth" -> <<\h100 + 4 * args[1]>>
    [] name \in DOMAIN LinkRegisters -> <<CERES.jesd_phy[args[1] + 1] + LinkRegisters[name]>>
    [] name = "jesd_buffer_delay" -> <<CERES.jesd[args[1] + 1] + \h30>>
    [] name = "phase" -> <<Wizard + \h20C + 12 * args[1]>>
    [] name = "iic" -> <<Iic, args[1] * 256 + args[2]>>
    [] name = "drp_common" -> <<CERES.jesd_phy[args[1] + 1] + \h100, args[2]>>
    [] name = "drp_channel" -> <<CERES.jesd_phy[args[1] + 1] + \h200, args[2]>>
    [] OTHER -> << >>

FontusPlace(name, args) ==
  CASE name \in FrontPanel -> <<Registers(name).base + 4 * (3 * args[1] + args[2])>>
    [] name \in RegisterNames /\ name \notin FrontPanel ->
         <<Registers(name).base + (IF args = << >> THEN 0 ELSE 4 * args[1])>>
    [] name \in DOMAIN FontusPorts -> <<FONTUS.gpio + 4 * FontusPorts[name]>>
    [] name = "self_trigger" -> <<\h308>>
    [] name = "trigger_system" -> <<8>>
    [] OTHER -> << >>

PlaceOf(c) == IF Kind = "CERES" THEN CeresPlace(c[1], c[2]) ELSE FontusPlace(c[1], c[2])

\* The number that a setting c has in the hardware h of a board.
Word(h, c) ==
  CASE c[1] = "lmk_dac" -> (Chip(h, Lmk(c[2]), \h14B) % 4) * 256 + Chip(h, Lmk(c[2]), \h14C)
    [] c[1] = "lmk_rest" -> Chip(h, Lmk(c[2]), \h14B) \div 4
    [] c[1] = "sync_length" -> Field(Reg(h, \h14), 4, 16)
    [] OTHER -> LET p == PlaceOf(c) IN IF Len(p) = 1 THEN Reg(h, p[1]) ELSE Chip(h, p[1], p[2])

-----------------------------------------------------------------------------
(* What a request asks for, given the board as it was.                     *)

Numbered(table, number) == {name \in DOMAIN table : table[name] = number}

Turned(h, k, by) == (Word(h, <<"phase", <<k>>>>) + by) % 360000
AllPhases(h, by) == [c \in {<<"phase", <<k>>>> : k \in 0 .. 3} |-> Turned(h, c[2][1], by)]

DacRegister(h, which, data) ==
  Just("lmk_rest", which, data \div 4) @@ Just("lmk_dac", which, (data % 4) * 256 + (Word(h, <<"lmk_dac", which>>) % 256))

CeresAsks(h, r) ==
  LET a == r.args
  IN CASE r.verb = "write" /\ r.what \in DOMAIN CeresPorts \cup DOMAIN DataPipeline -> Just(r.what, << >>, a[1])
       [] r.verb = "write" /\ r.what \in DOMAIN LinkRegisters \cup {"jesd_buffer_delay"} ->
            Just(r.what, <<a[1]>>, a[2])
       [] r.what = "write_gpio_register" -> [c \in Numbered(CeresPorts, a[1]) \X {<< >>} |-> a[2]]
       [] r.what = "write_addr" /\ ~ r.bad -> [c \in Numbered(DataPipeline, a[1]) \X {<< >>} |-> a[2]]
       [] r.what = "write_data_pipeline" -> [c \in Numbered(DataPipeline, a[1]) \X {<< >>} |-> a[2]]
       [] r.what = "write_data_pipeline_depth" -> Just("depth", <<a[1]>>, a[2])
       [] r.what = "set_trigger_params" ->
            Just("channel_mask", << >>, a[1]) @@ Just("trigger_sum_width", << >>, a[2]) @@ Just("threshold", << >>, a[3])
       [] r.what = "set_local_trigger_params" /\ a[1] # 0 /\ a[2] # 0 ->
            Just("trigger_count_reset_value", << >>, 250000000 \div a[1]) @@ Just("local_trigger_length", << >>, a[2])
       [] r.what = "write_clock_wiz_phase" -> Just("phase", <<a[1]>>, a[2])
       [] r.what = "increment_clock_wiz_phase" -> AllPhases(h, Rem(a[1], 360000))
       [] r.what = "decrement_clock_wiz_phase" -> AllPhases(h, -Rem(a[1], 360000))
       [] r.what = "write_iic_bus_with_reg" -> Just("iic", <<a[1], a[2]>>, a[3])
       [] r.what = "write_jesd_drp_common" -> Just("drp_common", <<a[1], a[2]>>, a[3])
       [] r.what = "write_jesd_drp_channel" -> Just("drp_channel", <<a[1], a[2]>>, a[3])
       [] r.what = "write_jesd_phy" -> [c \in Numbered(LinkRegisters, a[2]) \X {<<a[1]>>} |-> a[3]]
       [] r.what = "reset_lpmen" -> Just("insertion_loss", <<a[1]>>, 0)  \* the same register (jesd_phy.c:13)
       [] r.what = "write_lmk_dac_value" -> Just("lmk_dac", <<a[1]>>, a[2])
       [] r.what = "write_lmk_spi" /\ a[2] = 0 /\ a[3] = \h14B -> DacRegister(h, <<a[1]>>, a[4])
       [] OTHER -> None

\* The bits of a mask, as the comment above get_bit_for_trigger_specifier
\* lays them out.
Layout == <<<<"INNER", "MULT">>, <<"INNER", "ESUM">>, <<"VETO", "MULT">>, <<"VETO", "ESUM">>>>
BitOf(r) ==
  IF r.words[1] = "EXTERNAL" THEN {20 + 3 * i + k : i \in {r.args[2]} \cap 0 .. 2, k \in {r.args[3]} \cap 0 .. 2}
  ELSE {5 * (i - 1) + k : i \in {j \in 1 .. 4 : Layout[j] = r.words}, k \in {r.args[3]} \cap 0 .. 4}
Touched(r) == IF r.what \in {"add_to_trigger_mask_hr", "remove_from_trigger_mask_hr"}
              THEN <<"self_trigger_mask", <<r.args[1]>>>> ELSE <<"self_veto_mask", <<r.args[1]>>>>
Masked(h, r) ==
  LET old == Word(h, Touched(r))
      adds == r.what \in {"add_to_trigger_mask_hr", "add_to_veto_mask_hr"}
  IN [c \in IF BitOf(r) = {} \/ r.args[1] > 9 THEN {} ELSE {Touched(r)} |->
        LET b == CHOOSE k \in BitOf(r) : TRUE IN IF adds THEN SetBit(old, b) ELSE ClearBit(old, b)]

FontusAsks(h, r) ==
  LET a == r.args
  IN CASE r.verb = "write" /\ r.what \in DOMAIN FontusPorts -> Just(r.what, << >>, a[1])
       [] r.verb = "write" /\ r.what \in RegisterNames -> Just(r.what, Front(a), a[Len(a)])
       [] r.what \in {"write_addr", "write_trigger_pipeline_reg"} /\ ~ r.bad ->
            [c \in {d \in Cells : PlaceOf(d) = <<a[1]>>} |-> a[2]]
       [] r.what = "write_auto_trig_params" /\ a[1] # 0 ->
            Just("auto_trig_period", << >>, 250000000 \div a[1]) @@ Just("auto_trig_length", << >>, a[2])
       [] r.what = "do_sync" -> Just("sync_length", << >>, a[1] % 65536)
       [] r.what = "set_enable_self_trigger_system" -> Just("self_trigger", << >>, IF a[1] = 0 THEN 0 ELSE 1)
       [] r.what = "set_enable_trigger_system" -> Just("trigger_system", << >>, IF a[1] = 0 THEN 0 ELSE 1)
       [] r.what = "write_lmk_dac_value" -> Just("lmk_dac", <<0>>, a[1])
       [] r.what = "write_lmk_spi" /\ a[1] = 0 /\ a[2] = \h14B -> DacRegister(h, <<0>>, a[3])
       [] r.what \in Fontus!MaskCommands -> Masked(h, r)
       [] OTHER -> None

Asks(h, r) == IF Kind = "CERES" THEN CeresAsks(h, r) ELSE FontusAsks(h, r)

\* The settings a request reads and answers with (for what
\* read_enable_self_trigger_system reads there is no place in its answer).
Reading == [read_lmk_dac_value |-> "lmk_dac", read_clock_wiz_phase |-> "phase", read_iic_bus_with_reg |-> "iic",
  read_jesd_drp_common |-> "drp_common", read_jesd_drp_channel |-> "drp_channel", read_data_pipeline_depth |-> "depth"]
Reads(r) ==
  CASE r.verb = "read" -> <<<<r.what, r.args>>>>
    [] r.what = "read_auto_trig_params" -> << <<"auto_trig_period", << >> >>, <<"auto_trig_length", << >> >> >>
    [] r.what \in DOMAIN Reading -> <<<<Reading[r.what], IF Kind = "FONTUS" THEN <<0>> ELSE r.args>>>>
    [] OTHER -> << >>

Turns == {"increment_clock_wiz_phase", "decrement_clock_wiz_phase"}
SpiRequests == {"write_lmk_dac_value", "read_lmk_dac_value", "read_lmk_pll_status", "clear_lmk_pll_status", "write_lmk_spi"}
IicRequests == {"write_iic_bus_with_reg", "read_iic_bus_with_reg"}
\* FONTUS divides by a rate of 0.
PerZero(r) == Kind = "FONTUS" /\ r.what = "write_auto_trig_params" /\ r.args[1] = 0

\* What a request that fails may still disturb.
About(h, r) ==
  DOMAIN Asks(h, r)
  \cup (IF r.what \in IicRequests THEN {c \in Cells : c[1] = "iic"} ELSE {})
  \cup (IF PerZero(r) THEN {<<"auto_trig_period", << >> >>, <<"auto_trig_length", << >> >>} ELSE {})
  \cup IF r.what = "write_lmk_dac_value" THEN {<<"lmk_rest", IF Kind = "CERES" THEN <<r.args[1]>> ELSE <<0>> >>} ELSE {}

-----------------------------------------------------------------------------
(* Whether it succeeded.  Requests that go through a queue of bytes are    *)
(* spoilt by a byte too many, by bytes that were left there, and by a      *)
(* master that takes long.  A read that had to be repeated is answered     *)
(* with the word at SAFE_READ_ADDRESS, and no request notices; some do not *)
(* notice that an access failed either.                                    *)

ReadFirst == Fontus!MaskCommands \cup Turns
Repeatable(r) == Reads(r) = << >> /\ r.what \notin SpiRequests \cup IicRequests \cup ReadFirst
Careless == SpiRequests \cup IicRequests \cup Turns \cup {"write_addr"}

Left(h, r) ==
  IF r.what \in SpiRequests THEN Rx(h, Lmk(r.args)) \o Tx(h, Lmk(r.args))
  ELSE IF r.what \in IicRequests THEN Rx(h, Iic) ELSE << >>

Numbers(out) == [i \in DOMAIN out |-> out[i][2]]
Said(out) == IF out # << >> /\ out[1][1] = "array" THEN Tail(Numbers(out)) ELSE Numbers(out)

SaysItFailed(r, out) ==
  \/ out[1][1] = "error"
  \/ out[1][1] = "int" /\ IF Reads(r) = << >> THEN out[1][2] # 0 ELSE out[1][2] = -1

EnvOf(i) == IF i = last.where THEN last.env ELSE Undisturbed

\* A phase that a failed access left beyond a full turn is not brought back.
Sound(h, r) == r.what \in Turns => \A k \in 0 .. 3 : Word(h, <<"phase", <<k>> >>) \in 0 .. 359999

WentWell(i) ==
  LET r == last.request
      env == EnvOf(i)
      out == last.runs[i].out
  IN /\ ~ dummy /\ ~ PerZero(r)
     /\ Left(last.before[i], r) = << >>
     /\ Sound(last.before[i], r)
     /\ env.slow = 0 \/ r.what \notin IicRequests
     /\ env.slow < TRIES \/ r.what \notin SpiRequests
     /\ CASE env.how = "done" -> TRUE
          [] env.how = "twice" -> Repeatable(r)
          [] env.how \in {"lost", "unheard"} ->
               Server = "ceres_server" /\ r.what \notin Careless /\ ~ SaysItFailed(r, out)
          [] OTHER -> FALSE

Value == [i \in Index |-> [c \in Cells |-> Word(board[i], c)]]

Request ==
  [i \in DOMAIN last.runs |->
    LET r == last.request
        reads == SelectSeq(Reads(r), LAMBDA c : c \in Cells)
    IN [asked |-> Asks(last.before[i], r), about |-> About(last.before[i], r), reads |-> reads,
        said |-> IF reads = << >> THEN << >> ELSE Said(last.runs[i].out), ok |-> WentWell(i)]]

Promise == INSTANCE Settings WITH Boards <- Index, value <- Value, request <- Request

-----------------------------------------------------------------------------
(* Properties.                                                             *)

TypeOK ==
  /\ session \in SessionNames /\ linked \subseteq Index /\ dummy \in BOOLEAN
  /\ \A i \in Index :
       /\ DOMAIN board[i] = DOMAIN Fresh
       /\ \A a \in DOMAIN board[i].reg : a \in 0 .. 2^26 - 1 /\ board[i].reg[a] \in Int
       /\ \A q \in DOMAIN board[i].rx : Len(board[i].rx[q]) <= 16
  /\ active \in [Clients -> -1 .. 2^NUM_XEMS - 1]
  /\ wanted \in [Clients -> SUBSET (0 .. 31)]
  /\ last.replies \in Seq(Token \X Int) /\ OutputsAreWhole
  /\ count \in 0 .. MaxCommands /\ troubles \in 0 .. MaxTroubles

(* A board is a table of settings: what a command that succeeds asks for   *)
(* is set, on every board it is for, whatever else shares a register, a    *)
(* page or a FIFO with it; everything else stays; and what is read is what *)
(* was there.  A command that a lost access spoils says so, unless it is   *)
(* one of Careless, and disturbs only what it is about.                    *)
SettingsHold == Promise!Spec

(* The rate of errors of a link is by how much its counters rose between   *)
(* the two readings, also if they passed their largest value meanwhile     *)
(* (jesd_read_error_rate).                                                 *)
RateIsDifference ==
  last.request.verb = "do" /\ last.request.what = "jesd_error_rate" /\ ~ dummy =>
    \A i \in DOMAIN last.runs :
      EnvOf(i).how = "done" /\ last.request.args[1] < 4 =>
        Said(last.runs[i].out) = [c \in 1 .. 4 |-> EnvOf(i).rise]

(* A reset resets what it is asked to and for the whole time, whatever was *)
(* reset before; nothing else does (generic_sys_reset).                    *)
Resets(i) == SelectSeq(last.runs[i].seen, LAMBDA e : e[1] = ResetGen)
ResetsOnlyWhatIsAsked ==
  \A i \in DOMAIN last.runs :
    EnvOf(i).how = "done" /\ ~ dummy =>
      LET bits == IF Kind = "CERES" THEN Ceres!RESET_GEN_BITS ELSE Fontus!RESET_GEN_BITS
      IN Resets(i) = IF last.request.verb = "reset"
                     THEN <<<<ResetGen, <<2^bits[last.request.what], RESET_LENGTH>>>>>> ELSE << >>

(* The trigger boards are synchronised by one pulse, of the length asked   *)
(* for, and the line is free again when the command is over (do_sync).     *)
Pulses(i) == SelectSeq(last.runs[i].seen, LAMBDA e : e[1] = \h14)
SyncIsReleased ==
  /\ \A i \in Index : Bit(Reg(board[i], SYNC), 0) => troubles > 0
  /\ \A i \in DOMAIN last.runs :
       EnvOf(i).how = "done" /\ ~ dummy /\ troubles = 0 =>
         Pulses(i) = IF last.request.what = "do_sync"
                     THEN <<<<\h14, <<last.request.args[1] % 65536>>>>>> ELSE << >>

(* Setting the DAC of a clock chip leaves the other bits of its register   *)
(* as they were.                                                           *)
DacLeavesTheRest ==
  \A i \in DOMAIN last.runs :
    last.request.what = "write_lmk_dac_value" /\ troubles = 0 /\ EnvOf(i).slow = 0 =>
      LET rest == <<"lmk_rest", last.request.args>> IN Word(board[i], rest) = Word(last.before[i], rest)
=============================================================================
