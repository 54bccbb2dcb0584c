---------------------------- MODULE Peripherals ----------------------------
(***************************************************************************)
(* The drivers of the blocks that are the same on both boards: SPI masters *)
(* and the clock chips, ADCs and DAC behind them, the IIC master, GPIO, the *)
(* clock wizard, the reset generator, the JESD204 links and their          *)
(* transceivers.  An operator is the C function of its name.               *)
(***************************************************************************)
EXTENDS Board

\* The shape of every function that reads a register: -1 if that fails.
ReadValue(s, base, offset) ==
  LET r == double_read_addr(s, base, offset)
  IN Ret(r, IF r.ret # 0 THEN -1 ELSE r.answer)

\* Writes of <<base, offset, data>> one after the other: whatever becomes of
\* them; all of them, with -1 if any failed (ret |= ..); until one fails.
Writes(s, ws) == FoldLeft(LAMBDA t, w : write_addr(t, w[1], w[2], w[3]), s, ws)

AllWrites(s, ws) ==
  LET Next1(t, w) == LET u == write_addr(t, w[1], w[2], w[3]) IN IF t.ret # 0 THEN Ret(u, -1) ELSE u
  IN FoldLeft(Next1, Ret(s, 0), ws)

UntilFailure(s, ws) ==
  FoldLeft(LAMBDA t, w : IF t.ret # 0 THEN t ELSE write_addr(t, w[1], w[2], w[3]), Ret(s, 0), ws)

\* (x << 8) | p, for a byte p or the -1 of a read that failed.
Join(x, p) == IF p < 0 THEN -1 ELSE x * 256 + p

\* The n low bytes of w, the highest first.
Bytes(w, n) == [i \in 1 .. n |-> Field(w, 8 * (n - i), 8)]

-----------------------------------------------------------------------------
(* axi_qspi.c                                                              *)

\* The control register, all of whose other bits stay 0: master, and for the
\* DAC the polarity of the clock.
spi_cr(q) == IF Kind = "FONTUS" /\ q = FONTUS.dac THEN 12 ELSE 4

write_qspi_addr(s, q, offset, data) == write_addr(s, q, offset, data)
read_qspi_addr(s, q, offset) == ReadValue(s, q, offset)

write_spi(s, q, ssr, data) ==
  Ret(Writes(s, << <<q, \h60, spi_cr(q)>>, <<q, \h70, ssr>> >>
                \o [i \in DOMAIN data |-> <<q, \h68, data[i]>>]
                \o << <<q, \h60, spi_cr(q) + 2>>, <<q, \h60, spi_cr(q)>> >>), 0)

spi_drr_pop(s, q) == read_qspi_addr(s, q, \h6C)
spi_drr_data_available(s, q) == read_qspi_addr(s, q, \h78)

-----------------------------------------------------------------------------
(* lmk_if.c, ads_if.c, dac_if.c                                            *)

write_lmk_spi(s, q, rw, addr, data) ==
  write_spi(s, q, 0, <<(IF rw # 0 THEN 128 ELSE 0) + Field(addr, 8, 5), LowBits(addr, 8), LowBits(data, 8)>>)

\* Looks at the status until the transmit FIFO is empty, 20 times at most.
\* The -1 of a look that failed has that bit.
TRIES == 20
RECURSIVE AwaitEmpty(_, _, _)
AwaitEmpty(s, q, tries) ==
  LET r == read_qspi_addr(s, q, \h64)
  IN IF Bit(r.ret, 2) \/ tries = 1 THEN r ELSE AwaitEmpty(r, q, tries - 1)

write_then_read_lmk_spi(s, q, rw, addr, data) ==
  LET waited == AwaitEmpty(write_lmk_spi(s, q, rw, addr, data), q, TRIES)
      a == spi_drr_pop(waited, q)
      b == spi_drr_pop(a, q)
      c == spi_drr_pop(b, q)
  IN IF ~ Bit(waited.ret, 2) THEN Ret(waited, -1)
     ELSE Ret(c, Join(Join(Join(0, a.ret), b.ret), c.ret))

read_pll_dld_status_reg(s, q, pll) == write_then_read_lmk_spi(s, q, 1, \h182 + pll, 0)

clear_pll_dld_status_reg(s, q, pll) ==
  LET one == write_then_read_lmk_spi(s, q, 0, \h182 + pll, 1)
      read == write_then_read_lmk_spi(one, q, 1, \h182 + pll, 0)
  IN write_then_read_lmk_spi(read, q, 0, \h182 + pll, 0)

read_lmk_dac(s, q) ==
  LET a == write_then_read_lmk_spi(s, q, 1, \h184, 0)
      b == write_then_read_lmk_spi(a, q, 1, \h185, 0)
  IN Ret(b, Field(a.ret, 6, 2) * 256 + LowBits(b.ret, 8))

\* Mutant: the register that also holds other bits is not read first.
WriteDacUnread(s, q, value) ==
  LET a == write_then_read_lmk_spi(s, q, 0, \h14B, Field(value, 8, 2))
  IN Ret(write_then_read_lmk_spi(a, q, 0, \h14C, LowBits(value, 8)), 0)

write_lmk_dac(s, q, value) ==
  LET r == write_then_read_lmk_spi(s, q, 1, \h14B, 0)
      others == LowBits(r.ret, 8) - LowBits(r.ret, 2)
      a == write_then_read_lmk_spi(r, q, 0, \h14B, others + Field(value, 8, 2))
  IN Ret(write_then_read_lmk_spi(a, q, 0, \h14C, LowBits(value, 8)), 0)

write_adc_spi(s, q, wmpch, addr, data) ==
  write_spi(s, q, 0, <<LowBits(wmpch, 4) * 16 + Field(addr, 8, 4), LowBits(addr, 8), LowBits(data, 8)>>)

UPDATE_INPUT_AND_DAC_REG == 3
write_dac_spi(s, q, command, channels, data) ==
  LET first == {b \in 0 .. 7 : (b > 3 /\ Bit(command, b - 4)) \/ Bit(channels, b)}
  IN write_spi(s, q, 6, <<FromBits(first), Field(data, 8, 8), LowBits(data, 8)>>)

-----------------------------------------------------------------------------
(* gpio.c, clock_wiz.c, reset_gen_if.c                                     *)

read_gpio_value(s, gpio, input_port, port) ==
  ReadValue(s, gpio, IF input_port THEN SetBit(4 * port, 11) ELSE 4 * port)

write_gpio_value(s, gpio, port, data) == write_addr(s, gpio, 4 * port, data)

PhaseOffset(clock) == \h20C + 12 * clock
clock_wiz_read_phase(s, wiz, clock) == ReadValue(s, wiz, PhaseOffset(clock))
clock_wiz_write_phase(s, wiz, clock, value) == write_addr(s, wiz, PhaseOffset(clock), value)
clock_wiz_register_changes(s, wiz) == write_addr(s, wiz, \h25C, 3)
clock_wiz_reset(s, wiz) == write_addr(s, wiz, 0, 10)

RESET_LENGTH == 5000

\* Mutant: the reset is begun before it is known what is to be reset.
ResetFirst(s, bit) ==
  Ret(Writes(s, << <<ResetGen, 0, 1>>, <<ResetGen, 4, 2^bit>>, <<ResetGen, 8, RESET_LENGTH>> >>), 0)

generic_sys_reset(s, bit) ==
  Ret(Writes(s, << <<ResetGen, 4, 2^bit>>, <<ResetGen, 8, RESET_LENGTH>>, <<ResetGen, 0, 1>> >>), 0)

-----------------------------------------------------------------------------
(* iic.c, with the one master there is (iic_main): one byte of data, one of *)
(* register address.                                                       *)

iic_main == [data_size |-> 1, reg_addr_size |-> 1]

iic_write(s, addr, data) == write_addr(s, Iic, addr, data)
iic_read(s, addr) == ReadValue(s, Iic, addr)

ToIic(writes) == [i \in DOMAIN writes |-> <<Iic, writes[i][1], writes[i][2]>>]
TX == \h108
CR == \h100
PIRQ == \h120
ReadFrom(dev) == SetBit(LowBits(dev, 8), 0) + 256
WriteTo(dev) == ClearBit(LowBits(dev, 8), 0) + 256

read_iic_bus(s, dev) ==
  LET asked == UntilFailure(s, ToIic(<< <<PIRQ, 15>>, <<CR, 2>>, <<CR, 9>>, <<TX, ReadFrom(dev)>>, <<TX, 513>> >>))
  IN IF asked.ret # 0 THEN Ret(asked, 0) ELSE iic_read(asked, \h10C)

write_iic_bus(s, dev, value) ==
  UntilFailure(s, ToIic(<< <<PIRQ, 15>>, <<CR, 2>>, <<CR, 9>>, <<TX, WriteTo(dev)>>,
                           <<TX, 512 + LowBits(value, 8)>> >>))

Queued(bytes) == [i \in DOMAIN bytes |-> <<TX, bytes[i]>>]

read_iic_bus_with_reg(s, dev, reg) ==
  LET asked == UntilFailure(s, ToIic(<< <<PIRQ, 15>>, <<CR, 2>>, <<CR, 0>>, <<TX, WriteTo(dev)>> >>
                 \o Queued(Bytes(reg, iic_main.reg_addr_size))
                 \o << <<TX, ReadFrom(dev)>>, <<TX, 512 + iic_main.data_size>>, <<CR, 1>> >>))
      More(t, i) == LET r == iic_read(t, \h10C) IN Ret(r, Join(t.ret, r.ret))
  IN IF asked.ret # 0 THEN Ret(asked, 0)
     ELSE FoldLeft(More, Ret(asked, 0), [i \in 1 .. iic_main.data_size |-> i])

\* Mutant: nothing marks the last byte.
WriteUnended(s, dev, reg, value) ==
  UntilFailure(s, ToIic(<< <<PIRQ, 15>>, <<CR, 2>>, <<CR, 0>>, <<TX, WriteTo(dev)>> >>
    \o Queued(Bytes(reg, 1)) \o Queued(Bytes(value, 1)) \o << <<CR, 1>> >>))

\* A byte of the register address that cannot be queued is no error (line 236).
write_iic_bus_with_reg(s, dev, reg, value) ==
  LET begun == UntilFailure(s, ToIic(<< <<PIRQ, 15>>, <<CR, 2>>, <<CR, 0>>, <<TX, WriteTo(dev)>> >>))
      addressed == UntilFailure(begun, ToIic(Queued(Bytes(reg, iic_main.reg_addr_size))))
      data == Bytes(value, iic_main.data_size)
      ended == [data EXCEPT ![Len(data)] = @ + 512]
  IN IF begun.ret # 0 THEN begun
     ELSE IF addressed.ret # 0 THEN Ret(addressed, 0)
     ELSE UntilFailure(addressed, ToIic(Queued(ended) \o << <<CR, 1>> >>))

-----------------------------------------------------------------------------
(* jesd.c, jesd_phy.c                                                      *)

NUM_CHANNELS == 4
ErrorCount(jesd, channel) == jesd + \h824 + \h40 * channel

set_sync_error_reporting(s, jesd, state) ==
  LET r == ReadValue(s, jesd, \h34)
  IN write_addr(r, jesd, \h34, IF state # 0 THEN SetBit(r.ret, 8) ELSE ClearBit(r.ret, 16))

\* The counters are made to count, if they do not; that this fails is not seen.
EnableCounting(s, jesd) ==
  LET r == ReadValue(s, jesd, \h34)
  IN IF Bit(r.ret, 0) THEN r ELSE write_addr(r, jesd, \h34, SetBit(r.ret, 0))

ReadErrors(s, jesd) ==
  LET One(t, c) == LET r == ReadValue(t, ErrorCount(jesd, c), 0) IN [r EXCEPT !.resp = Append(@, r.ret)]
  IN Ret(FoldLeft(One, [s EXCEPT !.resp = << >>], [c \in 1 .. NUM_CHANNELS |-> c - 1]), 0)

jesd_error_count(s, jesd) == ReadErrors(EnableCounting(s, jesd), jesd)

jesd_read_error_rate(s, jesd) ==
  LET first == ReadErrors(EnableCounting(s, jesd), jesd)
      counting == IF Bit(Reg(first, jesd + \h34), 0) THEN {ErrorCount(jesd, c) : c \in 0 .. 3} ELSE {}
      second == ReadErrors(Sleep(first, jesd, counting), jesd)
  IN [second EXCEPT !.resp = [c \in 1 .. NUM_CHANNELS |-> Minus(@[c], first.resp[c])]]

jesd_is_synced(s, jesd) == LET r == ReadValue(s, jesd, \h38) IN Ret(r, LowBits(r.ret, 1))

jesd_reset(s, jesd) == write_addr(s, jesd, 4, 1)

INS_LOSS == \hD4
LinkRegisters == [lpmen |-> \h608, drp_interface_selector |-> \h24, insertion_loss |-> INS_LOSS]

reset_lpmen(s, phy) == AllWrites(s, << <<phy, INS_LOSS, 1>>, <<phy, INS_LOSS, 0>> >>)

\* There is no end to this while the reads fail, or in dummy mode.
RECURSIVE AwaitDone(_, _)
AwaitDone(s, bank) ==
  LET r == ReadValue(s, bank, \h14) IN IF r.ret # 0 THEN AwaitDone(r, bank) ELSE r

write_drp(s, bank, addr, data) ==
  LET asked == UntilFailure(s, << <<bank, 8, LowBits(data, 16)>>, <<bank, 4, TopBit + LowBits(addr, 30)>> >>)
  IN IF asked.ret # 0 THEN Ret(asked, -1) ELSE AwaitDone(asked, bank)

\* Mutant: the answer is taken without waiting for it.
ReadDrpAtOnce(s, bank, addr) ==
  LET asked == write_addr(s, bank, 4, 2^30 + LowBits(addr, 30))
  IN IF asked.ret # 0 THEN Ret(asked, -1) ELSE ReadValue(asked, bank, \hC)

read_drp(s, bank, addr) ==
  LET asked == write_addr(s, bank, 4, 2^30 + LowBits(addr, 30))
  IN IF asked.ret # 0 THEN Ret(asked, -1) ELSE ReadValue(AwaitDone(asked, bank), bank, \hC)
=============================================================================
