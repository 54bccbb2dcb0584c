----------------------------- MODULE FnetClient -----------------------------
(***************************************************************************)
(* Register access over UDP (fnet_client.c) and the three routines that    *)
(* the board servers build on it: read_addr, double_read_addr, write_addr. *)
(*                                                                         *)
(* A request is sent up to MAX_ATTEMPTS times; the answer that is taken is *)
(* told from others by its port, its sequence word and its addresses.  The *)
(* board's first port performs each request it gets; the others are        *)
(* channels that perform a request once (reliable).                        *)
(*                                                                         *)
(* `requests' and `answers' are what is under way.  An answer that is in   *)
(* the socket already and one that will arrive are not told apart: each    *)
(* look at the socket decides how much of `answers' has arrived by then.   *)
(* `trouble' counts what goes wrong with the network.                      *)
(***************************************************************************)
EXTENDS Integers, Sequences, FiniteSets, SequencesExt

CONSTANTS
  MAX_ATTEMPTS,         \* 10
  MAX_ATTEMPT_TCP_CONNECT, \* 3
  CONNECT_RETRIES,      \* of the ceres server (10)
  Addr,                 \* registers behind the AXI bus
  SAFE_READ_ADDRESS,    \* the register read for the sake of the one before
  RESET_TCP,            \* FAKERNET_REG_ACCESS_ADDR_RESET_TCP
  Dead,                 \* addresses that nothing answers to
  Used,                 \* the registers that are read and written
  Data,                 \* values written
  Garbage,              \* what malloc leaves in the buffer
  Keys,                 \* the times (modulo 16) at which a connect happens
  ArmNumbers,           \* the numbers the board arms a channel with
  Registers,            \* what the registers hold at first
  ChannelUse,           \* how another client uses the reliable channels
  Configurations        \* the programs and networks looked at, with bounds on
                        \* the accesses and on what goes wrong with the network

ASSUME FnetAssumption ==
  /\ MAX_ATTEMPTS \in Nat \ {0}
  /\ MAX_ATTEMPT_TCP_CONNECT \in Nat /\ CONNECT_RETRIES \in Nat
  /\ SAFE_READ_ADDRESS \in Addr /\ RESET_TCP \notin Addr /\ Used \subseteq Addr
  /\ Dead \subseteq Addr \cup {RESET_TCP}
  /\ Keys \subseteq 0..15 /\ ArmNumbers \subseteq 0..255
  /\ Configurations \subseteq [program  : {"ceres", "kintex", "fnetctrl"},
                               reliable : BOOLEAN,
                               in_order : BOOLEAN, most : Nat, troubles : Nat]
  /\ Registers \subseteq [Addr -> Data]
  /\ ChannelUse \subseteq [active : BOOLEAN, connected : BOOLEAN]

Channel == {1, 2}          \* the reliable ports; 0 is the idempotent one

Item == [op : {"read", "write"}, addr : Addr \cup {RESET_TCP},
         data : Data \cup {Garbage}, done : BOOLEAN]

VARIABLES
  config,               \* program, kind of port, and whether UDP keeps order
  pc,                   \* where in fnet_send_recv_packet, or in its caller
  caller,               \* what the packet is for
  sequence_number,      \* client->_sequence_number
  send, recv,           \* client->_buf_send, _buf_recv with its sender's port
  attempt,              \* of fnet_send_recv_packet
  ret,                  \* its result
  key, tries, round,    \* fnet_establish_connection and the loops around it
  requests, answers,    \* packets under way
  trouble,
  registers, latch, channels,   \* the board
  operation, result,    \* the register operation and what it came to
  accesses,             \* items of all accesses asked for, the calls in order
  performed,            \* how often each of them was performed
  failed                \* those that did not succeed

network == <<requests, answers, trouble>>
board   == <<registers, latch, channels, performed>>
connect == <<key, tries, round>>
calls   == <<operation, result, accesses, failed>>
vars    == <<config, pc, caller, sequence_number, send, recv, attempt, ret,
             connect, network, board, calls>>

-----------------------------------------------------------------------------
(* Sequence words *)

RESET_ARM  == 32768        \* 0x8000
RESET      == 16384        \* 0x4000
DISCONNECT == 8192         \* 0x2000
CONNECTED  == 4096         \* 0x1000

TopBits(w)  == w \div 8192             \* 0xe000
UserCode(w) == (w \div 256) % 16       \* FAKERNET_SEQ_REQ_ARM_USER_CODE_MASK
Sequence(w) == w % 256                 \* FAKERNET_SEQ_SEQUENCE_MASK
IsConnected(w) == (w \div CONNECTED) % 2 = 1

\* The number of the first access after a reset: the upper nibble inverted,
\* and one more.
FirstNumber(n) == (16 * (15 - ((n % 256) \div 16)) + (n % 16) + 1) % 256

AccessWord(n) == n % 4096

-----------------------------------------------------------------------------
(* The checks of an answer r against the request s that was sent last *)

fnet_check_reg_reset_reply(s, r) ==
  IF r.items /= << >> THEN 0
  ELSE IF TopBits(s.word) = TopBits(RESET_ARM)
       THEN IF UserCode(r.word) = 15 - UserCode(s.word) THEN -1
            ELSE IF UserCode(r.word) /= UserCode(s.word) THEN 0 ELSE 1
       ELSE IF /\ TopBits(s.word) \in {TopBits(RESET), TopBits(DISCONNECT)}
               /\ r.word = s.word
            THEN 1 ELSE 0

(* Mutant: the sequence number is not looked at. *)
AccessReplyAnyNumber(s, r) ==
  IF \/ Len(r.items) /= Len(s.items)
     \/ \E i \in DOMAIN s.items : r.items[i].addr /= s.items[i].addr
  THEN 0 ELSE 1

fnet_check_reg_access_reply(s, r) ==
  IF \/ Len(r.items) /= Len(s.items)
     \/ r.word /= s.word
     \/ \E i \in DOMAIN s.items : r.items[i].addr /= s.items[i].addr
  THEN 0
  ELSE LET Fails(op) == \E i \in DOMAIN s.items :
                          s.items[i].op = op /\ ~ (r.items[i].op = op /\ r.items[i].done)
       IN  1 + (IF Fails("write") THEN 2 ELSE 0) + (IF Fails("read") THEN 4 ELSE 0)

IsAccess == caller \notin {"arm", "reset", "disconnect"}

check_reply(r) == IF IsAccess THEN fnet_check_reg_access_reply(send, r)
                              ELSE fnet_check_reg_reset_reply(send, r)

Resend == caller \notin {"arm", "disconnect"}

-----------------------------------------------------------------------------
(* The board *)

NoAnswer == [port |-> 0, word |-> 0, items |-> << >>, call |-> 0]

Init ==
  /\ config \in Configurations
  /\ pc = "closed"
  /\ caller = "none"
  /\ sequence_number = -1
  /\ send = NoAnswer
  /\ recv = [NoAnswer EXCEPT !.items =
               <<[op |-> "read", addr |-> SAFE_READ_ADDRESS,
                  data |-> Garbage, done |-> FALSE]>>]
  /\ attempt = 0
  /\ ret = 0
  /\ key = 0 /\ tries = 0 /\ round = 0
  /\ requests = << >> /\ answers = << >>
  /\ trouble = 0
  /\ registers \in Registers
  /\ latch = registers[SAFE_READ_ADDRESS]
  /\ channels \in [Channel ->
       {[active |-> u.active, connected |-> u.connected, armed |-> -1,
         expected |-> -1, last |-> NoAnswer] : u \in ChannelUse}]
  /\ ~ config.reliable => channels[1] = channels[2]
  /\ operation = [op |-> "none", addr |-> SAFE_READ_ADDRESS, data |-> Garbage]
  /\ result = [ok |-> FALSE, data |-> Garbage]
  /\ accesses = << >>
  /\ performed = << >>
  /\ failed = {}

\* What the board's bus does with one item.  A register is read into the
\* latch, and what was in the latch is returned (ceres_server.c:287).
Bus(item) ==
  IF item.addr \in Dead \/ item.addr = RESET_TCP
  THEN /\ UNCHANGED <<registers, latch>>
  ELSE IF item.op = "write"
       THEN registers' = [registers EXCEPT ![item.addr] = item.data]
            /\ UNCHANGED latch
       ELSE latch' = registers[item.addr] /\ UNCHANGED registers

Answered(item) ==
  [item EXCEPT !.done = item.addr \notin Dead,
               !.data = IF item.op = "read" /\ item.addr \notin Dead
                        THEN latch ELSE @]

AnswerTo(q) == [q EXCEPT !.items = [i \in DOMAIN @ |-> Answered(@[i])]]

\* The accesses of this code have at most one item.
Perform(q) ==
  /\ IF q.items = << >> THEN UNCHANGED <<registers, latch>>
                        ELSE Bus(q.items[1])
  /\ performed' = [performed EXCEPT ![q.call] = @ + 1]

Say(r) == answers' = Append(answers, r)

PerformIdempotent(q) ==
  /\ q.port = 0 /\ q.call /= 0
  /\ Perform(q) /\ Say(AnswerTo(q))
  /\ UNCHANGED channels

\* A channel that is used cannot be armed or reset for about a second
\* (fnet_client.h:68), ten times what the attempts of an access last.
PerformOnce(q) ==
  LET c == channels[q.port] IN
  /\ q.port \in Channel /\ q.call /= 0
  /\ IF c.connected /\ Sequence(q.word) = c.expected
     THEN /\ Perform(q) /\ Say(AnswerTo(q))
          /\ channels' = [channels EXCEPT ![q.port].last = AnswerTo(q),
                                          ![q.port].active = TRUE,
                                          ![q.port].expected = (@ + 1) % 256]
     ELSE /\ IF c.connected /\ c.last /= NoAnswer
             THEN Say(c.last) ELSE UNCHANGED answers
          /\ UNCHANGED <<registers, latch, performed, channels>>

Arm(q) ==
  /\ q.port \in Channel /\ TopBits(q.word) = TopBits(RESET_ARM)
  /\ LET c == channels[q.port]
         Bit == IF c.connected THEN CONNECTED ELSE 0
     IN  IF c.active
         THEN /\ Say([q EXCEPT !.word = RESET_ARM + Bit + 256 * (15 - UserCode(@))])
              /\ UNCHANGED channels
         ELSE \E n \in ArmNumbers :
                /\ Say([q EXCEPT !.word = RESET_ARM + Bit + 256 * UserCode(@) + n])
                /\ channels' = [channels EXCEPT ![q.port].armed = n]
  /\ UNCHANGED <<registers, latch, performed>>

Reset(q) ==
  /\ q.port \in Channel /\ TopBits(q.word) = TopBits(RESET)
  /\ IF ~ channels[q.port].active /\ channels[q.port].armed = Sequence(q.word)
     THEN /\ channels' = [channels EXCEPT ![q.port].connected = TRUE,
                            ![q.port].expected = FirstNumber(Sequence(q.word)),
                            ![q.port].last = NoAnswer]
          /\ Say(q)
     ELSE /\ Say([q EXCEPT !.word = 65535 - (@ % 4)])
          /\ UNCHANGED channels
  /\ UNCHANGED <<registers, latch, performed>>

Disconnect(q) ==
  /\ q.port \in Channel /\ TopBits(q.word) = TopBits(DISCONNECT)
  /\ channels' = [channels EXCEPT ![q.port].connected = FALSE]
  /\ Say(q)
  /\ UNCHANGED <<registers, latch, performed>>

Serve(q) == \/ PerformIdempotent(q) \/ PerformOnce(q)
            \/ Arm(q) \/ Reset(q) \/ Disconnect(q)

-----------------------------------------------------------------------------
(* The network *)

Bad == trouble < config.troubles /\ trouble' = trouble + 1

\* A request reaches the board; with trouble, out of its turn, or it reaches
\* it and will do so again.
RequestArrives ==
  \E i \in 1..(IF config.in_order THEN 1 ELSE Len(requests)) :
  /\ requests /= << >>
  /\ Serve(requests[i])
  /\ \/ i = 1 /\ requests' = Tail(requests) /\ UNCHANGED trouble
     \/ i > 1 /\ requests' = RemoveAt(requests, i) /\ Bad
     \/ ~ config.in_order /\ i = 1 /\ UNCHANGED requests /\ Bad
  /\ UNCHANGED <<config, pc, caller, sequence_number, send, recv, attempt, ret,
                 connect, calls>>

\* Nothing listens to what was sent there.
RequestUnheard ==
  /\ requests /= << >>
  /\ requests[1].port = 0 /\ requests[1].call = 0
  /\ requests' = Tail(requests)
  /\ UNCHANGED <<config, pc, caller, sequence_number, send, recv, attempt, ret,
                 connect, answers, trouble, board, calls>>

Lose ==
  /\ \/ /\ \E i \in DOMAIN requests : requests' = RemoveAt(requests, i)
        /\ UNCHANGED answers
     \/ /\ \E i \in DOMAIN answers : answers' = RemoveAt(answers, i)
        /\ UNCHANGED requests
     \/ \E i \in DOMAIN answers :
           /\ ~ config.in_order
           /\ i > 1 /\ answers' = <<answers[i]>> \o RemoveAt(answers, i)
           /\ UNCHANGED requests
  /\ Bad
  /\ UNCHANGED <<config, pc, caller, sequence_number, send, recv, attempt, ret,
                 connect, board, calls>>

Network == RequestArrives \/ RequestUnheard \/ Lose

-----------------------------------------------------------------------------
(* fnet_send_recv_packet *)

\* Asks for a packet to be sent on behalf of c.
Call(c, port, word, items, call) ==
  /\ caller' = c
  /\ send' = [port |-> port, word |-> word, items |-> items, call |-> call]
  /\ attempt' = 0
  /\ pc' = "drain"

\* A packet without items leaves what the buffer held behind the header.
Into(r) == IF r.items = << >> THEN [r EXCEPT !.items = recv.items] ELSE r

\* Old packets in the socket are read until there is none, or until reading
\* one fails; each overwrites the buffer.
Drain ==
  /\ pc = "drain"
  /\ \E n \in 0..Len(answers) :
       /\ answers' = SubSeq(answers, n + 1, Len(answers))
       /\ recv' = IF n = 0 THEN recv ELSE Into(answers[n])
  /\ pc' = "attempt"
  /\ UNCHANGED <<config, caller, sequence_number, send, attempt, ret, connect,
                 requests, trouble, board, calls>>

Return(r) == pc' = "returned" /\ ret' = r

SelectFails ==
  /\ pc = "drain"
  /\ Return(-1) /\ Bad
  /\ UNCHANGED <<config, caller, sequence_number, send, recv, attempt, connect,
                 requests, answers, board, calls>>

GiveUp ==
  /\ pc = "attempt" /\ attempt >= MAX_ATTEMPTS
  /\ Return(0)
  /\ UNCHANGED <<config, caller, sequence_number, send, recv, attempt, connect,
                 network, board, calls>>

Sends == attempt = 0 \/ Resend

SendTo ==
  /\ pc = "attempt" /\ attempt < MAX_ATTEMPTS
  /\ requests' = IF Sends THEN Append(requests, send) ELSE requests
  /\ pc' = "receive"
  /\ UNCHANGED <<config, caller, sequence_number, send, recv, attempt, ret,
                 connect, answers, trouble, board, calls>>

SendInterrupted ==
  /\ pc = "attempt" /\ attempt < MAX_ATTEMPTS /\ Sends
  /\ attempt' = attempt + 1 /\ Bad
  /\ UNCHANGED <<config, pc, caller, sequence_number, send, recv, ret, connect,
                 requests, answers, board, calls>>

SendFails ==
  /\ pc = "attempt" /\ attempt < MAX_ATTEMPTS /\ Sends
  /\ Return(-1) /\ Bad
  /\ UNCHANGED <<config, caller, sequence_number, send, recv, attempt, connect,
                 requests, answers, board, calls>>

(* Mutant: an answer to something else is not an attempt. *)
StaysAttempt(a) == a

NextAttempt(a) == a + 1

\* recvfrom times out because nothing will come, or with trouble although
\* something is under way.
TimeOut ==
  /\ pc = "receive"
  /\ IF requests = << >> /\ answers = << >> THEN UNCHANGED trouble ELSE Bad
  /\ attempt' = NextAttempt(attempt)
  /\ pc' = "attempt"
  /\ UNCHANGED <<config, caller, sequence_number, send, recv, ret, connect,
                 requests, answers, board, calls>>

\* An answer from the port asked that passes the check is the result: 1
\* whatever the check said beyond that.
Receive ==
  /\ pc = "receive" /\ answers /= << >>
  /\ recv' = Into(answers[1])
  /\ answers' = Tail(answers)
  /\ LET v == IF answers[1].port /= send.port THEN 0 ELSE check_reply(answers[1])
     IN  IF v = 0
         THEN attempt' = NextAttempt(attempt) /\ pc' = "attempt" /\ UNCHANGED ret
         ELSE Return(IF v < 0 THEN -1 ELSE 1) /\ UNCHANGED attempt
  /\ UNCHANGED <<config, caller, sequence_number, send, connect, requests,
                 trouble, board, calls>>

SendRecvPacket == \/ Drain \/ SelectFails \/ GiveUp \/ SendTo \/ SendInterrupted
                  \/ SendFails \/ TimeOut \/ Receive

-----------------------------------------------------------------------------
(* fnet_ctrl_send_recv_regacc *)

\* Begins an access with the given items.
SendRecvRegacc(c, port, n, items) ==
  /\ Call(c, port, AccessWord(n), items, Len(accesses) + 1)
  /\ accesses' = Append(accesses, items)
  /\ performed' = Append(performed, 0)
  /\ UNCHANGED <<registers, latch, channels, ret, recv, network, config, failed>>

(* Mutant: the number stays as it is when the answer came. *)
NumberStays(n) == n

NumberAfter(n) == IF ret >= 1 THEN n + 1 ELSE n

RegaccReturns ==
  /\ pc = "returned" /\ IsAccess
  /\ pc' = "answered"
  /\ sequence_number' = NumberAfter(sequence_number)
  /\ failed' = IF ret >= 1 THEN failed ELSE failed \cup {Len(accesses)}
  /\ UNCHANGED <<config, caller, send, recv, attempt, ret, connect, network,
                 board, operation, result, accesses>>

-----------------------------------------------------------------------------
(* fnet_ctrl_connect *)

Unchanged == UNCHANGED <<config, ret, recv, network, board, operation, result,
                         accesses, failed>>

\* Tries the idempotent port with an access of no items.
ConnectIdempotent ==
  /\ pc = "closed" /\ ~ config.reliable
  /\ SendRecvRegacc("probe", 0, -1, << >>)
  /\ sequence_number' = -1
  /\ UNCHANGED <<connect, operation, result>>

Quits(to) ==
  /\ pc' = to
  /\ UNCHANGED <<caller, send, attempt>>

ProbeReturns ==
  /\ pc = "answered" /\ caller = "probe"
  /\ UNCHANGED <<config, caller, send, recv, attempt, ret, sequence_number, key,
                 tries, trouble, board, calls>>
  /\ IF ret = 1 THEN pc' = "ready" /\ UNCHANGED <<round, requests, answers>>
     ELSE IF config.program = "ceres" /\ round < CONNECT_RETRIES
          THEN /\ pc' = "closed" /\ round' = round + 1
               /\ requests' = << >> /\ answers' = << >>   \* a new socket
          ELSE pc' = "refused" /\ UNCHANGED <<round, requests, answers>>

\* The rounds of fnet_ctrl_connect: twice, not allowing and allowing a
\* connected channel, the two ports.
ConnectReliable ==
  /\ pc = "closed" /\ config.reliable
  /\ Quits("establish")
  /\ UNCHANGED <<connect, sequence_number>> /\ Unchanged

Port(r) == 1 + (r % 2)
AllowConnected(r) == (r \div 2) % 2 = 1

NextPort ==
  /\ IF round < 7 THEN round' = round + 1 /\ tries' = 0 /\ Quits("establish")
                  ELSE UNCHANGED <<round, tries>> /\ Quits("refused")
  /\ UNCHANGED <<key, sequence_number>>

NextTry ==
  IF tries < MAX_ATTEMPTS - 1
  THEN /\ tries' = tries + 1 /\ Quits("establish")
       /\ UNCHANGED <<key, round, sequence_number>>
  ELSE NextPort

\* fnet_establish_connection: arm the channel with a fresh key, then reset it
\* with the number that the board answers.
EstablishArm ==
  /\ pc = "establish"
  /\ \E k \in IF tries = 0 THEN Keys ELSE {key} :
       /\ key' = (k + 1) % 16
       /\ Call("arm", Port(round), RESET_ARM + 256 * key', << >>, 0)
  /\ UNCHANGED <<tries, round, sequence_number>> /\ Unchanged

ArmReturns ==
  /\ pc = "returned" /\ caller = "arm"
  /\ IF ret < 0 THEN NextPort
     ELSE IF ret = 0 THEN NextTry
     ELSE IF ~ AllowConnected(round) /\ IsConnected(recv.word) THEN NextPort
     ELSE /\ Call("reset", send.port, RESET + Sequence(recv.word), << >>, 0)
          /\ UNCHANGED <<connect, sequence_number>>
  /\ Unchanged

ResetReturns ==
  /\ pc = "returned" /\ caller = "reset"
  /\ IF ret <= 0 THEN NextTry
     ELSE /\ sequence_number' = FirstNumber(Sequence(recv.word))
          /\ Quits("ready") /\ UNCHANGED connect
  /\ Unchanged

Connect == \/ ConnectIdempotent \/ ProbeReturns \/ ConnectReliable
           \/ EstablishArm \/ ArmReturns \/ ResetReturns

-----------------------------------------------------------------------------
(* The routines that use it *)

Read(a)     == <<[op |-> "read", addr |-> a, data |-> Garbage, done |-> FALSE]>>
Write(a, d) == <<[op |-> "write", addr |-> a, data |-> d, done |-> FALSE]>>

Idle == pc = "ready" /\ Len(accesses) < config.most

Starts(op, a, d) == operation' = [op |-> op, addr |-> a, data |-> d]

Answer(c) == pc = "answered" /\ caller = c

Finish(ok) ==
  /\ result' = [ok |-> ok, data |-> recv.items[1].data]
  /\ operation' = [operation EXCEPT !.op = "none"]
  /\ pc' = "ready"
  /\ UNCHANGED <<config, caller, sequence_number, send, recv, attempt, ret,
                 connect, network, board, accesses, failed>>

Another(c, items) ==
  /\ SendRecvRegacc(c, send.port, sequence_number, items)
  /\ UNCHANGED <<sequence_number, key, round, result>>

\* fnetctrl reads with one access.
ReadOnce(a) ==
  /\ Idle /\ config.program = "fnetctrl"
  /\ Starts("read", a, Garbage)
  /\ Another("only read", Read(a)) /\ UNCHANGED tries

OnlyReadReturns == Answer("only read") /\ Finish(ret > 0)

(* Mutant: the two addresses are swapped. *)
SafeFirst(a) == SAFE_READ_ADDRESS

FirstAddress(a) == a

DoubleReadAddr(a) ==
  /\ Idle /\ config.program /= "fnetctrl"
  /\ Starts("read", a, Garbage)
  /\ Another("first read", Read(FirstAddress(a))) /\ UNCHANGED tries

FirstReadGoesOn ==
  /\ Answer("first read")
  /\ config.program = "ceres" => ret > 0
  /\ Another("second read", Read(SAFE_READ_ADDRESS)) /\ UNCHANGED <<operation, tries>>

FirstReadFails ==
  /\ Answer("first read")
  /\ config.program = "ceres" /\ ret <= 0
  /\ Finish(FALSE)

\* Kintex only takes 0 for a failure.
SecondReadReturns ==
  /\ Answer("second read")
  /\ Finish(IF config.program = "ceres" THEN ret > 0 ELSE ret /= 0)

WriteAddr(a, d) ==
  /\ Idle
  /\ Starts("write", a, d)
  /\ Another("write", Write(a, d)) /\ UNCHANGED tries

WriteReturns == Answer("write") /\ Finish(ret /= 0)

\* send_tcp_reset of the data builder.
SendTcpReset ==
  /\ Idle
  /\ Starts("reset", RESET_TCP, Garbage)
  /\ Another("tcp reset", Write(RESET_TCP, Garbage)) /\ UNCHANGED tries

SendTcpResetReturns == Answer("tcp reset") /\ Finish(ret /= 0)

\* fnet_ctrl_open_tcp: the reset and the connection, some times over.
OpenTcp ==
  /\ Idle /\ config.program = "fnetctrl"
  /\ Starts("open", RESET_TCP, Garbage)
  /\ Another("open tcp", Write(RESET_TCP, Garbage)) /\ tries' = 0

OpenTcpConnects ==
  /\ Answer("open tcp")
  /\ Finish(ret >= 0)

OpenTcpAgain ==
  /\ Answer("open tcp") /\ ret >= 0
  /\ IF tries < MAX_ATTEMPT_TCP_CONNECT
     THEN /\ Another("open tcp", Write(RESET_TCP, Garbage))
          /\ tries' = tries + 1 /\ UNCHANGED operation
     ELSE Finish(FALSE)

\* fnet_ctrl_close tells the board, whether or not it hears it.
Close ==
  /\ pc = "ready"
  /\ Call("disconnect", send.port, DISCONNECT, << >>, 0)
  /\ tries' = 0
  /\ UNCHANGED <<key, round, sequence_number>> /\ Unchanged

DisconnectReturns ==
  /\ pc = "returned" /\ caller = "disconnect"
  /\ IF ret <= 0 /\ tries < MAX_ATTEMPTS - 1
     THEN /\ Call("disconnect", send.port, DISCONNECT, << >>, 0)
          /\ tries' = tries + 1
     ELSE Quits("end") /\ UNCHANGED tries
  /\ UNCHANGED <<key, round, sequence_number>> /\ Unchanged

Operate ==
  \/ \E a \in Used : ReadOnce(a) \/ DoubleReadAddr(a) \/ \E d \in Data : WriteAddr(a, d)
  \/ SendTcpReset \/ OpenTcp \/ Close

Continue ==
  \/ RegaccReturns \/ OnlyReadReturns \/ FirstReadGoesOn \/ FirstReadFails
  \/ SecondReadReturns \/ WriteReturns \/ SendTcpResetReturns
  \/ OpenTcpConnects \/ OpenTcpAgain \/ DisconnectReturns

Next == Network \/ SendRecvPacket \/ Connect \/ Operate \/ Continue

Spec == Init /\ [][Next]_vars

\* The process runs, its waits end, and packets that are not lost arrive.
Fairness == /\ WF_vars(RequestArrives \/ RequestUnheard)
            /\ WF_vars(Drain \/ GiveUp \/ SendTo \/ TimeOut \/ Receive)
            /\ WF_vars(Connect \/ Continue)

FairSpec == Spec /\ Fairness

-----------------------------------------------------------------------------
(* Properties *)

TypeOK ==
  /\ config \in Configurations
  /\ pc \in {"closed", "establish", "drain", "attempt", "receive", "returned",
            "answered", "ready", "refused", "end"}
  /\ sequence_number \in -1 .. 255 + config.most + MAX_ATTEMPT_TCP_CONNECT + 3
  /\ send.port \in {0} \cup Channel /\ send.word \in 0..65535
  /\ attempt \in 0..MAX_ATTEMPTS
  /\ ret \in {-1, 0, 1}
  /\ tries \in 0..(MAX_ATTEMPTS + MAX_ATTEMPT_TCP_CONNECT) /\ round \in 0..(7 + CONNECT_RETRIES)
  /\ Len(performed) = Len(accesses)
  /\ failed \subseteq DOMAIN accesses

Open == IsAccess /\ pc \in {"drain", "attempt", "receive", "returned"}

Succeeded == Open /\ pc = "returned" /\ ret = 1

Port_ == INSTANCE RegisterPort WITH open <- Open

\* The client implements what RegisterPort promises: an access succeeds only
\* if it was performed, or if an access to the same addresses was performed
\* that failed and since which nothing has succeeded.  Packets may be lost,
\* repeated, late, and out of order (fnet_client.c:238-320, 411-574).
AtLeastOnce == Port_!Spec

\* The answer taken is the answer to this very access, as long as no access
\* failed: no late answer to an earlier one is mistaken for it.
AnswerIsMine == Succeeded /\ failed = {} => recv.call = Len(accesses)

\* On a reliable channel what succeeds has been performed exactly once, or
\* it has not been performed at all and an earlier one that failed has
\* answered for it (fnet_client.h says that accesses are performed once).
ExactlyOnce ==
  config.reliable /\ Succeeded =>
    IF recv.call = Len(accesses)
    THEN performed[Len(accesses)] = 1
    ELSE recv.call \in failed /\ performed[Len(accesses)] = 0

\* On a network that keeps order a register that was written has the value:
\* unless an access failed before, or the packet could not be sent, which
\* write_addr takes for success (ceres_server.c:321, kintex_client_server.c:175).
WriteTakesEffect ==
  [][ WriteReturns /\ result'.ok /\ ret = 1 /\ failed = {} /\ config.in_order
      /\ operation.addr \notin Dead
      => registers[operation.addr] = operation.data ]_vars

\* The double read returns the register, although a read returns what the
\* read before it has found, if the network keeps order, nothing failed, and
\* the second of the two accesses needed a single attempt.
DoubleReadIsRight ==
  [][ SecondReadReturns /\ result'.ok /\ ret = 1 /\ failed = {} /\ config.in_order
      /\ attempt = 0 /\ operation.addr \notin Dead
      => result'.data = registers[operation.addr] ]_vars

\* The same, however many attempts it takes: ceres_server.c:289 has it that
\* with a double read "I can get around this problem", that a read returns
\* the result of the one before.
DoubleReadIsEnough ==
  [][ SecondReadReturns /\ result'.ok /\ ret = 1 /\ failed = {} /\ config.in_order
      /\ operation.addr \notin Dead
      => result'.data = registers[operation.addr] ]_vars

\* Every attempt to connect and every operation comes to an end, whatever the
\* network does: the attempts are bounded.
CallsEnd == (pc \in {"closed", "drain"}) ~> (pc \in {"ready", "refused", "end"})

=============================================================================
