------------------------------- MODULE Board -------------------------------
(***************************************************************************)
(* One board as the servers see it: a bus of registers behind a port that  *)
(* answers each read with the result of the read before it, and behind     *)
(* some of the registers SPI, IIC and DRP masters with chips of their own. *)
(* The hardware is external to the repository, and modelled from how the   *)
(* drivers use it; the three operators at the end are the accesses as the  *)
(* servers make them.                                                      *)
(*                                                                         *)
(* A function of the C code is an operator that takes the state s of the   *)
(* run of a command and returns the state after it, with what the function *)
(* returned in the field ret.  How the accesses of the command turn out is *)
(* in the field env, and chosen before the command begins.                 *)
(***************************************************************************)
EXTENDS Words, Sequences, SequencesExt

CONSTANTS
  Kind,    \* the board: "CERES" or "FONTUS"
  Server,  \* what drives it: "ceres_server" or "kintex_client_server"
  PowerUp(_)  \* what the registers of the board, and of its chips, hold after power-up

ASSUME BoardAssumption ==
  /\ Kind \in {"CERES", "FONTUS"}
  /\ Server \in {"ceres_server", "kintex_client_server"}
  /\ Kind = "FONTUS" => Server = "kintex_client_server"

\* The address tables of the two boards.
CERES == [pipeline |-> 0,
  lmk |-> <<\h100000, \h100300, \h100600>>, adc |-> <<\h100100, \h100200, \h100400, \h100500>>,
  jesd_phy |-> <<\h200000, \h201000, \h202000, \h203000>>,
  jesd |-> <<\h204000, \h205000, \h206000, \h207000>>,
  iic |-> \h300000, gpio |-> \h400000, reset_gen |-> \h500000, clk_wiz |-> \h600000]
FONTUS == [pipeline |-> 0, iic |-> \h100000, gpio |-> \h200000, reset_gen |-> \h300000,
           lmk |-> \h400000, dac |-> \h500000]

\* What the words of their GPIO blocks are for.
CeresPorts == [adc_power |-> 0, adc_pdn |-> 2, sma_swap |-> 5, hermes_sync |-> 6, watchdog_mask |-> 4]
CeresInputs == [tdc_value |-> 2, aurora_status |-> 1]
FontusPorts == [coax_dir_select |-> 0, sync_mod |-> 1]
FontusInputs == [aurora_status |-> 1, aurora_lane_up_status |-> 2]

SAFE_READ_ADDRESS == IF Kind = "CERES" THEN CERES.gpio ELSE FONTUS.pipeline

Qspis == IF Kind = "CERES" THEN {CERES.lmk[i] : i \in 1 .. 3} \cup {CERES.adc[i] : i \in 1 .. 4} ELSE {FONTUS.lmk, FONTUS.dac}
Phys == IF Kind = "CERES" THEN {CERES.jesd_phy[i] : i \in 1 .. 4} ELSE {}
Iic == IF Kind = "CERES" THEN CERES.iic ELSE FONTUS.iic
ResetGen == IF Kind = "CERES" THEN CERES.reset_gen ELSE FONTUS.reset_gen
Wizard == CERES.clk_wiz

-----------------------------------------------------------------------------
(* The hardware.                                                           *)

\* The device a register belongs to, and its number within it.
Page(a, size) == a - (a % size)
Place(a) ==
  LET small == Page(a, \h100)
      large == Page(a, \h1000)
  IN CASE small \in Qspis -> <<"qspi", small, a - small>>
       [] large \in Phys -> <<"phy", large, a - large>>
       [] large = Iic -> <<"iic", Iic, a - large>>
       [] large = ResetGen -> <<"reset", ResetGen, a - large>>
       [] Kind = "CERES" /\ large = Wizard -> <<"wizard", Wizard, a - large>>
       [] Kind = "FONTUS" /\ a = \h14 -> <<"sync", 0, a>>
       [] OTHER -> <<"registers", 0, a>>

At(f, x, default) == IF x \in DOMAIN f THEN f[x] ELSE default
With(f, x, v) == [y \in DOMAIN f \cup {x} |-> IF y = x THEN v ELSE f[y]]

Reg(s, a) == IF a \in DOMAIN s.reg THEN s.reg[a] ELSE PowerUp(a)
Chip(s, q, a) == IF <<q, a>> \in DOMAIN s.chip THEN s.chip[<<q, a>>] ELSE PowerUp(a)
Rx(s, q) == At(s.rx, q, << >>)
Tx(s, q) == At(s.tx, q, << >>)

PutReg(s, a, w) == [s EXCEPT !.reg = With(@, a, w)]
PutChip(s, q, a, w) == [s EXCEPT !.chip = With(@, <<q, a>>, w)]
See(s, event) == [s EXCEPT !.seen = Append(@, event)]

\* What a chip answers for a register: the two in which a clock chip reports
\* the value of its DAC show what was set, its top two bits in bits 7 and 6.
Answered(s, q, there) ==
  CASE there = \h184 -> Field(Chip(s, q, \h14B), 0, 2) * 64
    [] there = \h185 -> Chip(s, q, \h14C)
    [] OTHER -> Chip(s, q, there)

\* The SPI master sends what its FIFO holds to the chip that is selected,
\* and keeps the bytes that come back, as long as it has room for them.
\* A chip takes three bytes: what to do and where, and the data.
Transfer(s, q) ==
  LET f == Tx(s, q)
      reads == Len(f) = 3 /\ f[1] >= 128
      there == (IF reads THEN f[1] - 128 ELSE f[1]) * 256 + f[2]
      back == IF reads THEN <<0, 0, Answered(s, q, there)>> ELSE [i \in DOMAIN f |-> 0]
      all == Rx(s, q) \o back
      rest == IF Len(all) > 16 THEN SubSeq(all, 1, 16) ELSE all
      sent == [s EXCEPT !.tx = With(@, q, << >>), !.rx = With(@, q, rest), !.seen = Append(@, <<q, f>>)]
  IN IF f = << >> THEN s
     ELSE IF Len(f) = 3 /\ ~ reads THEN PutChip(sent, q, there, f[3]) ELSE sent

\* The IIC master carries out a transaction when it is enabled and the word
\* that ends it is in its FIFO: a write of bytes to a chip, or a read, to
\* which the number of bytes is that last word.  A chip has a register for
\* each value of the bytes that precede the data; with none, one register.
Start(w) == Bit(w, 8)
Stop(w) == Bit(w, 9)
Transaction(s) ==
  LET t == Tx(s, Iic)
      dev == (t[1] % 256) - (t[1] % 2)
      readAt == {i \in DOMAIN t : Start(t[i]) /\ t[i] % 2 = 1}
      reg == IF readAt # {} THEN IF 1 \in readAt \/ Len(t) < 3 THEN 0 ELSE t[2] % 256
             ELSE IF Len(t) > 2 THEN t[2] % 256 ELSE 0
      done == [s EXCEPT !.tx = With(@, Iic, << >>), !.seen = Append(@, <<Iic, t>>)]
  IN IF t = << >> \/ ~ Stop(t[Len(t)]) \/ Reg(s, Iic + \h100) % 2 = 0 THEN s
     ELSE IF readAt # {}
          THEN [done EXCEPT !.rx = With(@, Iic, Append(Rx(s, Iic), Chip(s, Iic, dev * 256 + reg)))]
          ELSE PutChip(done, Iic, dev * 256 + reg, t[Len(t)] % 256)

Push(s, q, w) == [s EXCEPT !.tx = With(@, q, Append(Tx(s, q), w))]

\* A write as it reaches the board.
BusWrite(s, a, w) ==
  LET p == Place(a)
      q == p[2]
      o == p[3]
      kept == PutReg(s, a, w)
  IN CASE p[1] = "qspi" /\ o = \h68 -> Push(s, q, LowBits(w, 8))
       [] p[1] = "qspi" /\ o = \h60 /\ Bit(w, 1) /\ Bit(w, 2) /\ Reg(s, q + \h70) % 2 = 0 -> Transfer(kept, q)
       [] p[1] = "iic" /\ o = \h108 -> Transaction(Push(s, q, w))
       [] p[1] = "iic" /\ o = \h100 -> Transaction(IF Bit(w, 1) THEN [kept EXCEPT !.tx = With(@, q, << >>)] ELSE kept)
       [] p[1] = "phy" /\ o \in {\h104, \h204} /\ w < 0 ->
            PutChip(kept, q + o - 4, LowBits(w, 30), Reg(s, a + 4) % 2^16)
       [] p[1] = "phy" /\ o \in {\h104, \h204} /\ w >= 2^30 ->
            PutReg(kept, a + 8, Chip(s, q + o - 4, LowBits(w, 30)))
       [] p[1] = "wizard" /\ o = \h25C /\ w = 3 ->
            [kept EXCEPT !.chip = [i \in {<<Wizard, k>> : k \in 0 .. 3} |-> Reg(s, Wizard + \h20C + 12 * i[2])] @@ @]
       [] p[1] = "reset" /\ o = 0 -> See(kept, <<ResetGen, <<Reg(s, q + 4), Reg(s, q + 8)>>>>)
       [] p[1] = "sync" /\ Bit(w, 0) -> See(kept, <<a, <<Field(w, 4, 16)>>>>)
       [] OTHER -> kept

\* A read as it reaches the board: the state after it, and the word.
\* A master that was told to begin is not done at once: the first few looks
\* at its status (env.slow) find it at work, and what it fetches is not there
\* before.
BusRead(s, a) ==
  LET p == Place(a)
      q == p[2]
      o == p[3]
      Pop == IF Rx(s, q) = << >> \/ s.slow > 0 THEN <<s, 0>>
             ELSE <<[s EXCEPT !.rx = With(@, q, Tail(@[q]))], Head(Rx(s, q))>>
      Look(busy, ready) == IF s.slow > 0 THEN <<[s EXCEPT !.slow = @ - 1], busy>> ELSE <<s, ready>>
  IN CASE p[1] = "qspi" /\ o = \h6C -> Pop
       [] p[1] = "iic" /\ o = \h10C -> Pop
       [] p[1] = "qspi" /\ o = \h78 -> <<s, Len(Rx(s, q))>>
       [] p[1] = "qspi" /\ o = \h64 -> Look(0, 4)
       [] p[1] = "phy" /\ o \in {\h114, \h214} -> Look(1, 0)
       [] p[1] = "phy" /\ o \in {\h10C, \h20C} /\ s.slow > 0 -> <<s, 0>>
       [] OTHER -> <<s, Reg(s, a)>>

\* The port answers with what the read before this one found.
Port(s, a) ==
  LET found == BusRead(s, a)
  IN [found[1] EXCEPT !.latch = found[2], !.answer = s.latch]

\* Half a second passes, and the error counters of the links that count rise.
Sleep(s, a, channels) ==
  [s EXCEPT !.reg = [c \in channels |-> Plus(Reg(s, c), s.env.rise)] @@ @]

-----------------------------------------------------------------------------
(* The accesses of the servers.                                            *)

Ret(s, w) == [s EXCEPT !.ret = w]

\* How the next access turns out:
\*   "done"    it is performed and the answer arrives;
\*   "twice"   the first answer was lost, and the access was repeated;
\*   "lost"    it never reaches the board, and all attempts have failed;
\*   "unheard" it is performed, and no answer ever arrives;
\*   "unsent"  it could not be sent at all.
Outcome(s) == IF s.n + 1 = s.env.at THEN s.env.how ELSE "done"

Performed(s, Access(_)) ==
  LET o == Outcome(s)
      after == CASE o \in {"done", "unheard"} -> Access(s) [] o = "twice" -> Access(Access(s)) [] OTHER -> s
  IN [after EXCEPT !.n = @ + 1]

Register(base, addr) == (base + addr) % 2^26

\* A failed access is one for which fnet_ctrl_send_recv_regacc returns 0; of
\* its -1, for what could not be sent, only read_addr of ceres_server knows.
Failures(reading) ==
  {"lost", "unheard"} \cup IF reading /\ Server = "ceres_server" THEN {"unsent"} ELSE {}

read_addr(s, base, addr) ==
  LET Access(t) == Port(t, Register(base, addr))
      o == Outcome(s)
      after == Performed(s, Access)
      heard == IF o \in {"done", "twice"} THEN after ELSE [after EXCEPT !.answer = s.answer]
  IN IF s.dummy THEN [s EXCEPT !.answer = -559038737, !.ret = 0]
     ELSE Ret(heard, IF o \in Failures(TRUE) THEN -1 ELSE 0)

double_read_addr(s, base, addr) ==
  LET first == read_addr(s, base, addr)
  IN IF Server = "ceres_server" /\ first.ret # 0 THEN first
     ELSE read_addr(first, SAFE_READ_ADDRESS, 0)

write_addr(s, base, addr, data) ==
  LET Access(t) == BusWrite(t, Register(base, addr), data)
      o == Outcome(s)
  IN IF s.dummy THEN Ret(s, 0)
     ELSE Ret(Performed(s, Access), IF o \in Failures(FALSE) THEN -1 ELSE 0)
=============================================================================
