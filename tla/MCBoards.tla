------------------------------ MODULE MCBoards ------------------------------
(* Boards, clients and requests for TLC.  A session is what one run of the *)
(* server may be asked: its clients send any of its requests in any order. *)
EXTENDS BoardSettings

Ask(verb, what, args) == [verb |-> verb, what |-> what, args |-> args, words |-> << >>, bad |-> FALSE]
W(what, args) == Ask("write", what, args)
R(what, args) == Ask("read", what, args)
D(what, args) == Ask("do", what, args)
Bad(what, args) == [D(what, args) EXCEPT !.bad = TRUE]
Hr(what, args, words) == [D(what, args) EXCEPT !.words = words]
MaskOf(ids) == D("set_active_xem_mask", <<FromBits(ids)>>)

CeresPowerUp(a) ==
  CASE a = Wizard + \h218 -> 359999
    [] a = Wizard + \h224 -> 90000
    [] a = Wizard + \h230 -> 180000
    [] a = \h14B -> 216
    [] a - CERES.jesd[1] \in {\h824, \h864, \h8A4, \h8E4} -> -1
    [] OTHER -> 0
FontusPowerUp(a) == CASE a = \h14B -> 216 [] a = \h1D0 -> 1057 [] a = \h224 -> 7 [] OTHER -> 0

Session(requests) ==
  [clients |-> {"c1"}, linked |-> {{0, 1}}, dummy |-> {FALSE}, requests |-> requests \cup {MaskOf({4})}]

Masks ==
  [clients |-> {"c1", "c2"}, linked |-> {{}, {1}, {0, 1}}, dummy |-> BOOLEAN,
   requests |-> {MaskOf(ids) : ids \in {{}, {5}, {4, 5}, {5, 6}, {4, 5, 9}}} \cup
                {D("set_active_xem_mask", <<TopBit + 16>>),
                 W("channel_mask", <<5>>), D("get_active_xem_mask", << >>), D("get_available_xems", << >>)}]
Together ==
  [Session({D("read_jesd_rx_lane_buffer_adj", <<0>>), Bad("read_addr", <<0>>), D("sleep", << >>), MaskOf({4, 5}),
            Bad("write_addr", <<0, 0>>), D("write_addr", <<8, 3>>), D("read_addr", <<8>>)}) EXCEPT !.dummy = BOOLEAN]

CeresSessionNames == {"masks", "together", "gpio", "pipeline", "links", "phases", "dac", "lmk", "adc", "iic_registers", "iic", "jesd", "drp", "resets"}

CeresSessions(name) ==
  CASE name = "masks" -> Masks [] name = "together" -> Together
  [] name = "gpio" -> Session({W("adc_power", <<3>>), W("adc_pdn", <<1>>), W("sma_swap", <<2>>), W("hermes_sync", <<1>>), W("watchdog_mask", <<63>>),
             R("sma_swap", << >>), R("hermes_sync", << >>), R("tdc_value", << >>), R("aurora_status", << >>),
             D("write_gpio_register", <<5, 9>>), D("read_gpio_output_register", <<5>>), D("read_gpio_input_register", <<2>>),
             D("adc_reset", <<1>>)})
  [] name = "pipeline" -> Session({W("threshold", <<100>>), R("threshold", << >>), W("trigger_sum_width", <<4>>), W("trigger_enable", <<1>>),
             R("fifo_status", << >>), R("invalid_count", << >>), R("build_tag", << >>),
             D("set_trigger_params", <<1, 2, 3>>), D("set_local_trigger_params", <<10, 4>>), D("set_local_trigger_params", <<0, 4>>),
             D("write_data_pipeline_depth", <<15, 9>>), D("read_data_pipeline_depth", <<15>>),
             D("write_data_pipeline", <<\h2C, 6>>), D("write_data_pipeline", <<-4, 6>>), D("read_data_pipeline", <<\h2C>>), D("read_fifo_occupancy", <<3>>)})
  [] name = "links" -> Session({W("lpmen", <<0, 1>>), W("lpmen", <<3, 1>>), R("lpmen", <<3>>), W("drp_interface_selector", <<1, 2>>),
             W("insertion_loss", <<0, 5>>), R("insertion_loss", <<0>>), D("reset_lpmen", <<0>>), W("lpmen", <<4, 1>>),
             W("jesd_buffer_delay", <<2, 8>>), R("jesd_buffer_delay", <<2>>), D("read_jesd_rx_lane_buffer_adj", <<2>>)})
  [] name = "phases" -> Session({D("write_clock_wiz_phase", <<2, 100>>), D("read_clock_wiz_phase", <<2>>), D("register_clock_wiz_changes", << >>),
             D("increment_clock_wiz_phase", <<-1>>),
             D("decrement_clock_wiz_phase", <<1>>), D("decrement_clock_wiz_phase", <<400000>>), D("reset_clock_wiz", << >>),
             D("read_clock_wiz_reg", <<\h20C>>)})
  [] name = "dac" -> Session({D("write_lmk_dac_value", <<0, 677>>), D("read_lmk_dac_value", <<0>>),
             D("read_lmk_pll_status", <<0, 1>>), D("clear_lmk_pll_status", <<0, 0>>)})
  [] name = "lmk" -> Session({D("write_lmk_spi", <<0, 0, \h14B, 252>>), D("write_lmk_spi", <<0, 1, \h14B, 0>>), D("lmk_spi_data_available", <<0>>),
             D("lmk_spi_data_pop", <<0>>), D("write_lmk_dac_value", <<0, 258>>), D("set_sysref", <<0, 1>>),
             D("write_lmk_if", <<0, \h60, 4>>)})
  [] name = "adc" -> Session({D("write_adc_spi", <<0, 2, \h123, 7>>), D("ads_spi_data_available", <<0>>), D("ads_spi_pop", <<0>>),
             D("write_ads", <<3, \h60, 4>>), D("read_ads", <<3, \h60>>), D("ads_spi_pop", <<9>>)})
  [] name = "iic_registers" -> Session({D("write_iic_bus_with_reg", <<64, 3, 77>>), D("read_iic_bus_with_reg", <<64, 3>>),
             D("write_iic_bus_with_reg", <<66, 4, 9>>), D("read_iic_reg", <<\h100>>)})
  [] name = "iic" -> Session({D("write_iic_bus", <<64, 5>>), D("read_iic_bus", <<64>>), D("write_iic_reg", <<\h120, 15>>)})
  [] name = "jesd" -> Session({D("jesd_error_rate", <<0>>), D("jesd_error_count", <<0>>), D("jesd_error_rate", <<4>>),
             D("jesd_set_sync_error_reporting", <<0, 1>>), D("jesd_set_sync_error_reporting", <<0, 0>>),
             D("jesd_is_synced", <<0>>), D("jesd_reset", <<0>>), D("jesd_read", <<0, \h34>>), D("jesd_write", <<0, \h34, 0>>)})
  [] name = "drp" -> Session({D("write_jesd_drp_common", <<0, 5, 300>>), D("read_jesd_drp_common", <<0, 5>>), D("read_jesd_drp_channel", <<0, 5>>),
             D("write_jesd_drp_channel", <<0, 5, 301>>), D("write_jesd_phy", <<1, \h24, 2>>), D("read_jesd_phy", <<1, \h24>>)})
  [] name = "resets" -> Session({Ask("reset", "jesd", << >>), Ask("reset", "pipeline", << >>), Ask("reset", "aurora", << >>), W("threshold", <<3>>)})

\* What is written to the first and the last register of a group.
Ends(groups) ==
  UNION {LET last1 == groups[name].count - 1
         IN IF last1 = 0 THEN {W(name, <<11>>), R(name, << >>)}
            ELSE IF name \in FrontPanel THEN {W(name, <<0, 0, 11>>), W(name, <<2, 2, 12>>), W(name, <<2, 3, 12>>), R(name, <<2, 2>>)}
            ELSE {W(name, <<0, 11>>), W(name, <<last1, 12>>), R(name, <<last1>>), W(name, <<last1 + 1, 13>>)}
         : name \in DOMAIN groups}

Trigger(requests) == [Session(requests) EXCEPT !.linked = {{0}}, !.requests = @ \ {MaskOf({4})}]

FontusSessionNames == {"thresholds", "delays", "gates", "triggers", "auto", "inner", "external", "switches", "gpio", "lmk", "spi", "dac"}

FontusSessions(name) ==
  CASE name = "thresholds" -> Trigger(Ends(ThresholdGroups)) [] name = "delays" -> Trigger(Ends(DelayGroups))
  [] name = "gates" -> Trigger(Ends(GateGroups)) [] name = "triggers" -> Trigger(Ends(TriggerGroups))
  [] name = "auto" -> Trigger(Ends(AutoGroups) \cup
      {D("write_auto_trig_params", <<10, 4>>), D("write_auto_trig_params", <<0, 4>>), D("read_auto_trig_params", << >>),
       D("write_trigger_pipeline_reg", <<\h18, 9>>), D("write_trigger_pipeline_reg", <<-4, 9>>), D("read_trigger_pipline_reg", <<\h18>>)})
  [] name = "inner" -> Trigger(
       {Hr(what, <<9, 0, 4>>, words) : what \in Fontus!MaskCommands,
          words \in {<<"INNER", "MULT">>, <<"VETO", "ESUM">>}}
       \cup {Hr("add_to_veto_mask_hr", <<9, 0, 4>>, <<"VETO", "NONE">>)}
       \cup {Hr("add_to_trigger_mask_hr", <<0, 0, k>>, words) : k \in {0, 5}, words \in {<<"INNER", "ESUM">>, <<"VETO", "MULT">>}})
  [] name = "external" -> Trigger({Hr(what, <<t, place, k>>, <<"EXTERNAL", "">>) :
       what \in {"add_to_veto_mask_hr", "remove_from_trigger_mask_hr"}, t \in {9, 10}, place \in {2, 3}, k \in {2, 3}})
  [] name = "switches" -> Trigger({D("do_sync", <<500>>), D("do_sync", <<70000>>), R("sync_length", << >>), R("build_tag", << >>),
             D("set_enable_self_trigger_system", <<7>>), D("read_enable_self_trigger_system", << >>),
             D("set_enable_trigger_system", <<0>>), Ask("reset", "fifo", << >>), Ask("reset", "axi", << >>)})
  [] name = "gpio" -> Trigger({W("coax_dir_select", <<2>>), W("sync_mod", <<1>>), R("coax_dir_select", << >>), R("aurora_lane_up_status", << >>),
             D("read_gpio_input_register", <<1>>), D("read_addr", <<8>>), D("write_addr", <<8, 1>>), Bad("write_addr", <<8, 1>>)})
  [] name = "lmk" -> Trigger({D("write_lmk_dac_value", <<677>>), D("read_lmk_dac_value", << >>), D("write_lmk_spi", <<0, \h14B, 252>>)})
  [] name = "spi" -> Trigger({D("read_lmk_pll_status", <<1>>), D("clear_lmk_pll_status", <<0>>), D("write_lmk_spi", <<1, \h14B, 0>>),
             D("lmk_spi_data_pop", << >>), D("lmk_spi_data_available", << >>)})
  [] name = "dac" -> Trigger({D("write_dac_spi", <<1>>), D("set_frontpanel_threshold_for_channel", <<3, 999>>), D("write_dac_if", <<\h60, 12>>),
             D("read_dac_if", <<\h60>>), D("write_lmk_if", <<\h60, 4>>), D("read_lmk_if", <<\h60>>)})

PromptMoods == {[slow |-> 0, rise |-> 3, junk |-> 21]}
AllMoods == {[slow |-> 0, rise |-> 3, junk |-> 21], [slow |-> 2, rise |-> 0, junk |-> -1], [slow |-> 20, rise |-> 5, junk |-> 21]}
=============================================================================
