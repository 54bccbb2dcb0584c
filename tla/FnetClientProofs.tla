-------------------------- MODULE FnetClientProofs --------------------------
(***************************************************************************)
(* The matching of answers to accesses is sound for every number of        *)
(* attempts, every bound on what the network does wrong, and every board:  *)
(* a client of FnetClient gets what RegisterPort promises, and as long as  *)
(* nothing failed the answer it takes is the answer to its own access.     *)
(*                                                                         *)
(* One thing is asked of the network.  The word of an access has 12 bits,  *)
(* so an answer that stays under way while 4096 later accesses are made    *)
(* carries the word of a new one; `Timely' says that none does.  For the   *)
(* reliable channels, whose numbers have 8 bits, `Recent' says the same of *)
(* requests too, and of 254 accesses.                                      *)
(*                                                                         *)
(* On a network that keeps order a write takes effect and a double read    *)
(* returns what the register holds (the last sections).                    *)
(***************************************************************************)
EXTENDS FnetClient, SequenceTheorems, TLAPS

Timely == \A i \in DOMAIN answers :
            answers[i].call > 0 => Len(accesses) - answers[i].call < 4096

-----------------------------------------------------------------------------
(* The invariant *)

Packet == [port : {0} \cup Channel, word : Nat, items : Seq(Item), call : Nat]

ChannelState == [active : BOOLEAN, connected : BOOLEAN, armed : Int,
                 expected : Int, last : Packet]

Value == Data \cup {Garbage}

Types ==
  /\ config \in Configurations
  /\ sequence_number \in Int /\ sequence_number >= -1
  /\ send \in Packet /\ recv \in Packet
  /\ ret \in {-1, 0, 1}
  /\ key \in Nat /\ round \in Nat
  /\ requests \in Seq(Packet) /\ answers \in Seq(Packet)
  /\ registers \in [Addr -> Value] /\ latch \in Value
  /\ channels \in [Channel -> ChannelState]
  /\ accesses \in Seq(Seq(Item))
  /\ performed \in Seq(Nat) /\ Len(performed) = Len(accesses)
  /\ failed \subseteq 1 .. Len(accesses)

\* Two lists of items that ask for the same addresses.
SameAddresses(s, t) ==
  Len(s) = Len(t) /\ \A i \in 1 .. Len(s) : s[i].addr = t[i].addr

\* The last access that has returned.
Returned == IF Open THEN Len(accesses) - 1 ELSE Len(accesses)

\* The word of q is that of a number n, used no more than one success for
\* each access since then ago; and if it is the number used now, no access
\* since then has succeeded.
Numbered(q) ==
  \E n \in -1 .. sequence_number :
    /\ q.word = AccessWord(n)
    /\ sequence_number - n <= Returned - q.call + 1
    /\ n = sequence_number => q.call .. Returned \subseteq failed

\* What may be under way: a packet that concerns the connection, which no
\* access has the word of, or one of an access that was made.
Request ==
  {q \in Packet :
     \/ q.call = 0 /\ q.word >= 4096
     \/ /\ q.call \in 1 .. Len(accesses)
        /\ SameAddresses(q.items, accesses[q.call])
        /\ Numbered(q)}

\* An answer to an access comes when it has been performed.
Reply == {q \in Request : q.call > 0 => performed[q.call] > 0}

Sending == pc \in {"drain", "attempt", "receive", "returned"}

\* No access is made before the connection is there.
Connecting ==
  \/ caller \in {"arm", "reset"} \/ pc = "establish"
  \/ (pc = "closed" /\ config.reliable)

\* The number -1, that of the first access to the idempotent port, is kept
\* until that access succeeds.
ProbeNumber ==
  /\ pc = "closed" => sequence_number = -1
  /\ caller = "probe" /\ (Open \/ (pc = "answered" /\ ret /= 1))
     => sequence_number = -1
  /\ caller = "probe" => ~ config.reliable

CurrentCall ==
  /\ Open => /\ Len(accesses) > 0
             /\ send.call = Len(accesses)
             /\ send.word = AccessWord(sequence_number)
             /\ send.items = accesses[Len(accesses)]
  /\ Sending /\ ~ IsAccess => send.call = 0 /\ send.word >= 4096

UnderWay ==
  /\ requests \in Seq(Request)
  /\ answers \in Seq(Reply)
  /\ \A c \in Channel : channels[c].last \in Reply \cup {NoAnswer}

\* What the answer that was taken stands for.
Vouched ==
  Succeeded => recv.call \in 1 .. Len(accesses) /\ Port_!Vouches(recv.call)

IInv ==
  /\ Types
  /\ Connecting => accesses = << >>
  /\ ProbeNumber
  /\ CurrentCall
  /\ UnderWay
  /\ Vouched

-----------------------------------------------------------------------------
(* Words and packets *)

LEMMA AccessWords ==
  ASSUME NEW n \in Int
  PROVE  /\ AccessWord(n) \in Nat /\ AccessWord(n) < 4096
         /\ TopBits(AccessWord(n)) = 0
  BY DEF AccessWord, TopBits

\* Two numbers less than 4096 apart that have the same word are the same.
LEMMA WordTellsNumber ==
  ASSUME NEW m \in Int, NEW n \in Int, m <= n, n - m < 4096,
         AccessWord(m) = AccessWord(n)
  PROVE  m = n
  BY DEF AccessWord

LEMMA WordsOfPacket ==
  ASSUME NEW q \in Packet
  PROVE  /\ q.word \in Nat
         /\ Sequence(q.word) \in 0 .. 255
         /\ UserCode(q.word) \in 0 .. 15
         /\ FirstNumber(Sequence(q.word)) \in Nat
         /\ 65535 - (q.word % 4) \in 65532 .. 65535
<1>1. q.word \in Nat
  BY DEF Packet
<1> DEFINE w == q.word
<1> HIDE DEF w
<1>2. w \in Nat => /\ Sequence(w) \in 0 .. 255
                   /\ UserCode(w) \in 0 .. 15
                   /\ FirstNumber(Sequence(w)) \in Nat
                   /\ 65535 - (w % 4) \in 65532 .. 65535
  BY DEF Sequence, UserCode, FirstNumber
<1> QED
  BY <1>1, <1>2 DEF w

LEMMA ItemsOfAccesses ==
  ASSUME NEW a \in Addr \cup {RESET_TCP}, NEW d \in Data \cup {Garbage}
  PROVE  Read(a) \in Seq(Item) /\ Write(a, d) \in Seq(Item)
  BY DEF Read, Write, Item

\* What the board answers to a packet is about the same addresses.
LEMMA TypeOfAnswer ==
  ASSUME Types, NEW q \in Packet
  PROVE  /\ AnswerTo(q) \in Packet
         /\ AnswerTo(q).port = q.port /\ AnswerTo(q).word = q.word
         /\ AnswerTo(q).call = q.call
         /\ SameAddresses(AnswerTo(q).items, q.items)
<1> DEFINE n == Len(q.items)
           items == [i \in 1 .. n |-> Answered(q.items[i])]
<1>1. q.items \in Seq(Item) /\ n \in Nat /\ DOMAIN q.items = 1 .. n
  BY LenProperties DEF Packet
<1>2. \A i \in 1 .. n : Answered(q.items[i]) \in Item
                        /\ Answered(q.items[i]).addr = q.items[i].addr
  <2> SUFFICES ASSUME NEW i \in 1 .. n
               PROVE  Answered(q.items[i]) \in Item
                      /\ Answered(q.items[i]).addr = q.items[i].addr
    OBVIOUS
  <2>1. q.items[i] \in Item
    BY <1>1, ElementOfSeq
  <2> QED
    BY <2>1 DEF Answered, Item, Types, Value
<1>3. items \in Seq(Item) /\ Len(items) = n
  BY <1>1, <1>2
<1>4. AnswerTo(q) = [q EXCEPT !.items = items]
  BY <1>1 DEF AnswerTo
<1>5. /\ AnswerTo(q) \in Packet
      /\ AnswerTo(q).port = q.port /\ AnswerTo(q).word = q.word
      /\ AnswerTo(q).call = q.call /\ AnswerTo(q).items = items
  BY <1>3, <1>4 DEF Packet
<1> QED
  BY <1>1, <1>2, <1>3, <1>5 DEF SameAddresses

LEMMA TypeInto ==
  ASSUME Types, NEW r \in Packet
  PROVE  Into(r) \in Packet /\ Into(r).call = r.call /\ Into(r).word = r.word
  BY DEF Into, Types, Packet

-----------------------------------------------------------------------------
(* What is under way *)

\* Nothing that is under way depends on more than the accesses made, the
\* numbers, and what failed.
LEMMA UnderWayKept ==
  ASSUME Types, accesses' \in Seq(Seq(Item)), Len(accesses) <= Len(accesses'),
         \A i \in 1 .. Len(accesses) : accesses'[i] = accesses[i],
         \A i \in 1 .. Len(accesses) : performed[i] > 0 => performed'[i] > 0,
         \A q \in Packet : q.call <= Len(accesses) /\ Numbered(q) => Numbered(q)'
  PROVE  Request \subseteq Request' /\ Reply \subseteq Reply'
<1>1. Len(accesses) \in Nat /\ Len(accesses') \in Nat
  BY DEF Types
<1>2. \A q \in Packet : q.call \in Nat
  BY DEF Packet
<1>3. ASSUME NEW q \in Request
      PROVE  q \in Request'
  BY <1>1, <1>2, <1>3 DEF Request
<1>4. ASSUME NEW q \in Reply
      PROVE  q \in Reply'
  BY <1>1, <1>2, <1>3, <1>4 DEF Reply, Request
<1> QED
  BY <1>3, <1>4

\* Numbers stay in their place when an access begins, ...
LEMMA NumberedStays ==
  ASSUME Types, UNCHANGED <<sequence_number, failed>>, Returned' = Returned,
         NEW q \in Packet, Numbered(q)
  PROVE  Numbered(q)'
  BY DEF Numbered

\* ... when one has succeeded, ...
LEMMA NumberedAfterSuccess ==
  ASSUME Types, sequence_number' = sequence_number + 1, UNCHANGED failed,
         Returned \in Nat, Returned' = Returned + 1,
         NEW q \in Packet, Numbered(q)
  PROVE  Numbered(q)'
<1>1. PICK n \in -1 .. sequence_number :
        /\ q.word = AccessWord(n)
        /\ sequence_number - n <= Returned - q.call + 1
  BY DEF Numbered
<1>2. q.call \in Nat /\ sequence_number \in Int
  BY DEF Types, Packet
<1>3. /\ n \in -1 .. sequence_number' /\ n /= sequence_number'
      /\ sequence_number' - n <= Returned' - q.call + 1
  BY <1>1, <1>2
<1> QED
  BY <1>1, <1>2, <1>3 DEF Numbered

\* ... and when one has failed.
LEMMA NumberedAfterFailure ==
  ASSUME Types, UNCHANGED sequence_number, failed' = failed \cup {Returned + 1},
         Returned \in Nat, Returned' = Returned + 1,
         NEW q \in Packet, Numbered(q)
  PROVE  Numbered(q)'
<1>1. PICK n \in -1 .. sequence_number :
        /\ q.word = AccessWord(n)
        /\ sequence_number - n <= Returned - q.call + 1
        /\ n = sequence_number => q.call .. Returned \subseteq failed
  BY DEF Numbered
<1>2. q.call \in Nat /\ sequence_number \in Int
  BY DEF Types, Packet
<1>3. sequence_number' - n <= Returned' - q.call + 1
  BY <1>1, <1>2
<1>4. q.call .. Returned' \subseteq (q.call .. Returned) \cup {Returned + 1}
  BY <1>2
<1> QED
  BY <1>1, <1>2, <1>3, <1>4 DEF Numbered

-----------------------------------------------------------------------------
(* The board *)

LEMMA TypeOfPerform ==
  ASSUME Types, NEW q \in Packet, q.call \in 1 .. Len(accesses), Perform(q)
  PROVE  /\ registers' \in [Addr -> Value] /\ latch' \in Value
         /\ performed' \in Seq(Nat) /\ Len(performed') = Len(accesses)
         /\ performed'[q.call] > 0
         /\ \A i \in 1 .. Len(accesses) : performed[i] > 0 => performed'[i] > 0
<1>1. registers' \in [Addr -> Value] /\ latch' \in Value
  <2>1. CASE q.items = << >>
    BY <2>1 DEF Perform, Types
  <2>2. CASE q.items /= << >>
    <3>1. q.items[1] \in Item /\ Bus(q.items[1])
      BY <2>2, ElementOfSeq, EmptySeq DEF Perform, Packet
    <3> QED
      BY <3>1, FnetAssumption, ZenonT(60) DEF Bus, Item, Types, Value
  <2> QED
    BY <2>1, <2>2
<1>2. performed' = [performed EXCEPT ![q.call] = performed[q.call] + 1]
  BY DEF Perform
<1>3. performed \in Seq(Nat) /\ q.call \in 1 .. Len(performed)
  BY DEF Types
<1>4. performed[q.call] + 1 \in Nat
  BY <1>3, ElementOfSeq
<1>5. /\ performed' \in Seq(Nat) /\ Len(performed') = Len(performed)
      /\ \A i \in 1 .. Len(performed) :
           performed'[i] = IF i = q.call THEN performed[q.call] + 1 ELSE performed[i]
  BY <1>2, <1>3, <1>4, ExceptSeq
<1>6. performed[q.call] \in Nat /\ Len(performed) = Len(accesses)
  BY <1>3, ElementOfSeq DEF Types
<1> QED
  BY SMTT(30), <1>1, <1>3, <1>5, <1>6

LEMMA TypeOfChannels ==
  ASSUME Types, NEW c \in Channel
  PROVE  /\ channels[c] \in ChannelState
         /\ channels[c].last \in Packet /\ channels[c].expected \in Int
<1>1. channels[c] \in ChannelState
  BY DEF Types
<1>2. \A d \in ChannelState : d.last \in Packet /\ d.expected \in Int
  BY DEF ChannelState
<1> QED
  BY <1>1, <1>2

LEMMA ChannelSet ==
  ASSUME Types, NEW c \in Channel, NEW d \in ChannelState,
         channels' = [channels EXCEPT ![c] = d]
  PROVE  /\ channels' \in [Channel -> ChannelState]
         /\ \A b \in Channel : channels'[b] = IF b = c THEN d ELSE channels[b]
  BY DEF Types

\* The ways in which a channel changes.
LEMMA ChannelServes ==
  ASSUME NEW c \in ChannelState, NEW r \in Packet, NEW n \in Int
  PROVE  /\ [c EXCEPT !.last = r, !.active = TRUE, !.expected = n] \in ChannelState
         /\ [c EXCEPT !.last = r, !.active = TRUE, !.expected = n].last = r
  BY DEF ChannelState

LEMMA ChannelArmed ==
  ASSUME NEW c \in ChannelState, NEW n \in Int
  PROVE  /\ [c EXCEPT !.armed = n] \in ChannelState
         /\ [c EXCEPT !.armed = n].last = c.last
  BY DEF ChannelState

LEMMA ChannelReset ==
  ASSUME NEW c \in ChannelState, NEW r \in Packet, NEW n \in Int
  PROVE  /\ [c EXCEPT !.connected = TRUE, !.expected = n, !.last = r] \in ChannelState
         /\ [c EXCEPT !.connected = TRUE, !.expected = n, !.last = r].last = r
  BY DEF ChannelState

LEMMA ChannelClosed ==
  ASSUME NEW c \in ChannelState
  PROVE  /\ [c EXCEPT !.connected = FALSE] \in ChannelState
         /\ [c EXCEPT !.connected = FALSE].last = c.last
  BY DEF ChannelState

\* What the board may say to a packet q, and what a channel may keep.
HasPerformed(q) == q.call > 0 /\ performed'[q.call] > 0

Says(q) ==
  \/ answers' = answers
  \/ HasPerformed(q) /\ answers' = Append(answers, AnswerTo(q))
  \/ \E c \in Channel : /\ channels[c].last /= NoAnswer
                        /\ answers' = Append(answers, channels[c].last)
  \/ \E w \in Nat : /\ w >= 4096 /\ TopBits(q.word) /= 0
                    /\ answers' = Append(answers, [q EXCEPT !.word = w])

Keeps(q) ==
  \A c \in Channel : \/ channels'[c].last \in {channels[c].last, NoAnswer}
                     \/ HasPerformed(q) /\ channels'[c].last = AnswerTo(q)

Served(q) ==
  /\ registers' \in [Addr -> Value] /\ latch' \in Value
  /\ performed' \in Seq(Nat) /\ Len(performed') = Len(accesses)
  /\ \A i \in 1 .. Len(accesses) : performed[i] > 0 => performed'[i] > 0
  /\ channels' \in [Channel -> ChannelState]
  /\ Says(q) /\ Keeps(q)

LEMMA ServedIdempotent ==
  ASSUME Types, NEW q \in Packet, q.call \in 0 .. Len(accesses), PerformIdempotent(q)
  PROVE  Served(q)
<1>1. /\ q.call \in 1 .. Len(accesses) /\ Perform(q) /\ UNCHANGED channels
      /\ answers' = Append(answers, AnswerTo(q))
  BY DEF PerformIdempotent, Say
<1>2. HasPerformed(q)
  BY <1>1, TypeOfPerform DEF HasPerformed
<1>3. channels \in [Channel -> ChannelState]
  BY DEF Types
<1> QED
  BY <1>1, <1>2, <1>3, TypeOfPerform DEF Served, Says, Keeps

LEMMA ServedOnce ==
  ASSUME Types, NEW q \in Packet, q.call \in 0 .. Len(accesses), PerformOnce(q)
  PROVE  Served(q)
<1>1. q.port \in Channel /\ q.call \in 1 .. Len(accesses)
  BY DEF PerformOnce
<1>2. CASE channels[q.port].connected /\ Sequence(q.word) = channels[q.port].expected
  <2>1. /\ Perform(q) /\ answers' = Append(answers, AnswerTo(q))
        /\ channels' = [channels EXCEPT ![q.port] =
             [channels[q.port] EXCEPT !.last = AnswerTo(q), !.active = TRUE,
                !.expected = (channels[q.port].expected + 1) % 256]]
    BY <1>2, ZenonT(60) DEF PerformOnce, Say
  <2>2. PICK n \in Int : n = (channels[q.port].expected + 1) % 256
    BY <1>1, TypeOfChannels
  <2> DEFINE d == [channels[q.port] EXCEPT !.last = AnswerTo(q), !.active = TRUE,
                                           !.expected = n]
  <2>3. d \in ChannelState /\ d.last = AnswerTo(q)
    <3>1. AnswerTo(q) \in Packet /\ channels[q.port] \in ChannelState
      BY <1>1, TypeOfAnswer, TypeOfChannels
    <3> QED
      BY <3>1, ChannelServes
  <2>4. channels' = [channels EXCEPT ![q.port] = d]
    BY <2>1, <2>2
  <2> HIDE DEF d
  <2>5. /\ channels' \in [Channel -> ChannelState]
        /\ \A b \in Channel : channels'[b] = IF b = q.port THEN d ELSE channels[b]
    BY <1>1, <2>3, <2>4, ChannelSet
  <2>6. HasPerformed(q)
    BY <1>1, <2>1, TypeOfPerform DEF HasPerformed
  <2> QED
    BY <1>1, <2>1, <2>3, <2>5, <2>6, TypeOfPerform DEF Served, Says, Keeps
<1>3. CASE ~ (channels[q.port].connected /\ Sequence(q.word) = channels[q.port].expected)
  <2>1. UNCHANGED <<registers, latch, performed, channels>>
    BY <1>3 DEF PerformOnce
  <2>2. Says(q)
    BY <1>1, <1>3 DEF PerformOnce, Say, Says
  <2> QED
    BY <2>1, <2>2 DEF Served, Keeps, Types
<1> QED
  BY <1>2, <1>3

LEMMA ServedArm ==
  ASSUME Types, NEW q \in Packet, Arm(q)
  PROVE  Served(q)
<1>1. q.port \in Channel /\ TopBits(q.word) = TopBits(RESET_ARM)
      /\ UNCHANGED <<registers, latch, performed>>
  BY DEF Arm
<1>2. TopBits(q.word) /= 0
  BY <1>1 DEF TopBits, RESET_ARM
<1>3. ArmNumbers \subseteq Nat
  BY FnetAssumption
<1>4. PICK b \in {0, CONNECTED} :
        b = IF channels[q.port].connected THEN CONNECTED ELSE 0
  OBVIOUS
<1>5. PICK u \in 0 .. 15 : u = UserCode(q.word)
  BY WordsOfPacket
<1>6. /\ RESET_ARM + b + 256 * (15 - u) \in Nat
      /\ RESET_ARM + b + 256 * (15 - u) >= 4096
      /\ \A n \in Nat : /\ RESET_ARM + b + 256 * u + n \in Nat
                         /\ RESET_ARM + b + 256 * u + n >= 4096
  BY DEF RESET_ARM, CONNECTED
<1>7. CASE channels[q.port].active
  <2>1. answers' = Append(answers, [q EXCEPT !.word = RESET_ARM + b + 256 * (15 - u)])
        /\ UNCHANGED channels
    BY <1>4, <1>5, <1>7 DEF Arm, Say
  <2>2. PICK w \in Nat : w >= 4096 /\ w = RESET_ARM + b + 256 * (15 - u)
    BY <1>6
  <2>3. Says(q)
    BY <1>2, <2>1, <2>2 DEF Says
  <2> QED
    BY <1>1, <2>1, <2>3 DEF Served, Keeps, Types
<1>8. CASE ~ channels[q.port].active
  <2>1. PICK n \in ArmNumbers :
          /\ answers' = Append(answers, [q EXCEPT !.word = RESET_ARM + b + 256 * u + n])
          /\ channels' = [channels EXCEPT ![q.port] = [channels[q.port] EXCEPT !.armed = n]]
    BY <1>4, <1>5, <1>8 DEF Arm, Say
  <2>2. Says(q)
    BY <1>2, <1>3, <1>6, <2>1, SMTT(30) DEF Says
  <2> DEFINE d == [channels[q.port] EXCEPT !.armed = n]
  <2>3. d \in ChannelState /\ d.last = channels[q.port].last
    BY <1>1, <1>3, TypeOfChannels, ChannelArmed
  <2>4. channels' = [channels EXCEPT ![q.port] = d]
    BY <2>1
  <2> HIDE DEF d
  <2>5. /\ channels' \in [Channel -> ChannelState]
        /\ \A c \in Channel : channels'[c] = IF c = q.port THEN d ELSE channels[c]
    BY <1>1, <2>3, <2>4, ChannelSet
  <2> QED
    BY <1>1, <2>2, <2>3, <2>5 DEF Served, Keeps, Types
<1> QED
  BY <1>7, <1>8

LEMMA ServedReset ==
  ASSUME Types, NEW q \in Packet, Reset(q)
  PROVE  Served(q)
<1>1. q.port \in Channel /\ TopBits(q.word) = TopBits(RESET)
      /\ UNCHANGED <<registers, latch, performed>>
  BY DEF Reset
<1>2. q.word \in Nat /\ q = [q EXCEPT !.word = q.word]
  BY DEF Packet
<1>3. TopBits(q.word) /= 0 /\ q.word >= 4096
  BY <1>1, <1>2 DEF TopBits, RESET
<1>4. PICK w \in Nat : w >= 4096 /\ w = 65535 - (q.word % 4)
  BY <1>2
<1>5. \/ answers' = Append(answers, q)
      \/ answers' = Append(answers, [q EXCEPT !.word = 65535 - (q.word % 4)])
  BY DEF Reset, Say
<1>6. Says(q)
  BY <1>2, <1>3, <1>4, <1>5 DEF Says
<1>7. PICK n \in Int : n = FirstNumber(Sequence(q.word))
  BY WordsOfPacket
<1> DEFINE d == [channels[q.port] EXCEPT !.connected = TRUE, !.expected = n,
                                         !.last = NoAnswer]
<1>8. d \in ChannelState /\ d.last = NoAnswer
  <2>1. NoAnswer \in Packet
    BY EmptySeq DEF NoAnswer, Packet
  <2> QED
    BY <1>1, <2>1, TypeOfChannels, ChannelReset
<1>9. CASE ~ channels[q.port].active /\ channels[q.port].armed = Sequence(q.word)
  <2>1. channels' = [channels EXCEPT ![q.port].connected = TRUE,
                        ![q.port].expected = n, ![q.port].last = NoAnswer]
    BY <1>7, <1>9 DEF Reset
  <2>2. channels' = [channels EXCEPT ![q.port] = d]
    BY <2>1
  <2> HIDE DEF d
  <2>3. /\ channels' \in [Channel -> ChannelState]
        /\ \A c \in Channel : channels'[c] = IF c = q.port THEN d ELSE channels[c]
    BY <1>1, <1>8, <2>2, ChannelSet
  <2> QED
    BY <1>1, <1>6, <1>8, <2>3 DEF Served, Keeps, Types
<1>10. CASE ~ (~ channels[q.port].active /\ channels[q.port].armed = Sequence(q.word))
  <2>1. UNCHANGED channels
    BY <1>10 DEF Reset
  <2> QED
    BY <1>1, <1>6, <2>1 DEF Served, Keeps, Types
<1> QED
  BY <1>9, <1>10

LEMMA ServedDisconnect ==
  ASSUME Types, NEW q \in Packet, Disconnect(q)
  PROVE  Served(q)
<1> DEFINE d == [channels[q.port] EXCEPT !.connected = FALSE]
<1>1. /\ q.port \in Channel /\ TopBits(q.word) = TopBits(DISCONNECT)
      /\ UNCHANGED <<registers, latch, performed>>
      /\ answers' = Append(answers, q)
      /\ channels' = [channels EXCEPT ![q.port] = d]
  BY DEF Disconnect, Say
<1>2. q.word \in Nat /\ q = [q EXCEPT !.word = q.word]
  BY DEF Packet
<1>3. TopBits(q.word) /= 0 /\ q.word >= 4096
  BY <1>1, <1>2 DEF TopBits, DISCONNECT
<1>4. d \in ChannelState /\ d.last = channels[q.port].last
  BY <1>1, TypeOfChannels, ChannelClosed
<1> HIDE DEF d
<1>5. /\ channels' \in [Channel -> ChannelState]
      /\ \A c \in Channel : channels'[c] = IF c = q.port THEN d ELSE channels[c]
  BY <1>1, <1>4, ChannelSet
<1>6. Says(q)
  BY <1>1, <1>2, <1>3 DEF Says
<1> QED
  BY <1>1, <1>4, <1>5, <1>6 DEF Served, Keeps, Types

LEMMA ServeIsServed ==
  ASSUME Types, NEW q \in Packet, q.call \in 0 .. Len(accesses), Serve(q)
  PROVE  Served(q)
  BY ServedIdempotent, ServedOnce, ServedArm, ServedReset, ServedDisconnect DEF Serve

-----------------------------------------------------------------------------
(* The steps, by what they do to what is under way *)

\* A step that neither begins nor ends an access.
LEMMA QuietStep ==
  ASSUME Types, UNCHANGED <<accesses, sequence_number, failed>>, Open' = Open,
         \A i \in 1 .. Len(accesses) : performed[i] > 0 => performed'[i] > 0
  PROVE  Request \subseteq Request' /\ Reply \subseteq Reply'
<1>1. Returned' = Returned
  BY DEF Returned
<1> QED
  BY <1>1, UnderWayKept, NumberedStays DEF Types

LEMMA AnswersUnderWay ==
  ASSUME Types, UnderWay, NEW q \in Request, Served(q),
         UNCHANGED <<accesses, sequence_number, failed>>, Open' = Open
  PROVE  /\ (answers \in Seq(Reply))'
         /\ \A c \in Channel : channels'[c].last \in Reply' \cup {NoAnswer}
<1>1. Request \subseteq Request' /\ Reply \subseteq Reply'
  BY QuietStep DEF Served
<1>2. q \in Packet /\ q \in Request'
  BY <1>1 DEF Request
<1>3. HasPerformed(q) => AnswerTo(q) \in Reply'
  <2> SUFFICES ASSUME HasPerformed(q)
               PROVE  AnswerTo(q) \in Reply'
    OBVIOUS
  <2>1. PICK a \in Packet : /\ a = AnswerTo(q)
                            /\ a.word = q.word /\ a.call = q.call
                            /\ SameAddresses(a.items, q.items)
    BY <1>2, TypeOfAnswer
  <2>2. q.call /= 0
    BY <1>2 DEF HasPerformed, Packet
  <2>3. /\ q.call \in 1 .. Len(accesses')
        /\ SameAddresses(q.items, accesses'[q.call])
        /\ Numbered(q)'
    BY <1>2, <2>2 DEF Request
  <2>4. SameAddresses(a.items, accesses'[a.call])
    BY <2>1, <2>3 DEF SameAddresses
  <2>5. Numbered(a)'
    BY <2>1, <2>3 DEF Numbered
  <2>6. a \in Request'
    BY <2>1, <2>3, <2>4, <2>5 DEF Request
  <2>7. performed'[a.call] > 0
    BY <2>1 DEF HasPerformed
  <2> QED
    BY <2>1, <2>6, <2>7 DEF Reply
<1>4. TopBits(q.word) /= 0 => q.call = 0
  <2>1. q.call /= 0 => \E n \in -1 .. sequence_number : q.word = AccessWord(n)
    BY DEF Request, Numbered
  <2>2. sequence_number \in Int
    BY DEF Types
  <2>3. \A n \in -1 .. sequence_number : TopBits(AccessWord(n)) = 0
    BY <2>2, AccessWords
  <2> QED
    BY <2>1, <2>3
<1>5. ASSUME NEW w \in Nat, w >= 4096, TopBits(q.word) /= 0
      PROVE  [q EXCEPT !.word = w] \in Reply'
  <2> DEFINE a == [q EXCEPT !.word = w]
  <2>1. a \in Packet /\ a.word = w /\ a.call = 0
    BY <1>2, <1>4, <1>5 DEF Packet
  <2> HIDE DEF a
  <2>2. a \in Request'
    BY <1>5, <2>1 DEF Request
  <2>3. a \in Reply'
    BY <2>1, <2>2 DEF Reply
  <2> QED
    BY <2>3 DEF a
<1>6. \A c \in Channel : channels[c].last \in Reply' \cup {NoAnswer}
  BY <1>1 DEF UnderWay
<1>7. answers \in Seq(Reply')
  BY <1>1, SeqMonotonic DEF UnderWay
<1>8. answers' \in Seq(Reply')
  <2> DEFINE Mine == HasPerformed(q) /\ answers' = Append(answers, AnswerTo(q))
             Again == \E c \in Channel :
                        /\ channels[c].last /= NoAnswer
                        /\ answers' = Append(answers, channels[c].last)
             Other == \E w \in Nat :
                        /\ w >= 4096 /\ TopBits(q.word) /= 0
                        /\ answers' = Append(answers, [q EXCEPT !.word = w])
  <2>1. CASE Mine
    BY <1>3, <1>7, <2>1, AppendProperties
  <2>2. CASE Again
    <3>1. PICK c \in Channel : /\ channels[c].last /= NoAnswer
                             /\ answers' = Append(answers, channels[c].last)
      BY <2>2
    <3> QED
      BY <1>6, <1>7, <3>1, AppendProperties
  <2>3. CASE Other
    <3>1. PICK w \in Nat : /\ w >= 4096 /\ TopBits(q.word) /= 0
                         /\ answers' = Append(answers, [q EXCEPT !.word = w])
      BY <2>3
    <3>2. [q EXCEPT !.word = w] \in Reply'
      BY <1>5, <3>1
    <3> QED
      BY <1>7, <3>1, <3>2, AppendProperties
  <2>4. CASE answers' = answers
    BY <1>7, <2>4
  <2>5. Says(q)
    BY DEF Served
  <2>6. answers' = answers \/ Mine \/ Again \/ Other
    BY <2>5, Zenon DEF Says
  <2> HIDE DEF Mine, Again, Other
  <2> QED
    BY <2>1, <2>2, <2>3, <2>4, <2>6
<1> QED
  BY <1>3, <1>6, <1>8 DEF Served, Keeps

\* Packets are lost, repeated and brought out of order: none is made up.
LEMMA PartsOfSequence ==
  ASSUME NEW S, NEW s \in Seq(S), NEW i \in 1 .. Len(s)
  PROVE  /\ s[i] \in S
         /\ RemoveAt(s, i) \in Seq(S) /\ Tail(s) \in Seq(S)
         /\ <<s[i]>> \o RemoveAt(s, i) \in Seq(S)
<1>1. s[i] \in S /\ Len(s) \in Nat /\ \A k \in 1 .. Len(s) : s[k] \in S
  BY ElementOfSeq
<1>2. SubSeq(s, 1, i - 1) \in Seq(S) /\ SubSeq(s, i + 1, Len(s)) \in Seq(S)
  BY <1>1, SubSeqProperties
<1>3. RemoveAt(s, i) \in Seq(S)
  BY <1>2, ConcatProperties DEF RemoveAt
<1>4. <<s[i]>> \in Seq(S)
  BY <1>1
<1>5. Tail(s) \in Seq(S)
  BY EmptySeq, HeadTailProperties
<1> QED
  BY <1>1, <1>3, <1>4, <1>5, ConcatProperties

LEMMA UnderWayCarried ==
  ASSUME IInv, UNCHANGED <<accesses, sequence_number, failed, performed, channels>>,
         Open' = Open, requests' \in Seq(Request), answers' \in Seq(Reply)
  PROVE  UnderWay'
<1>1. Request \subseteq Request' /\ Reply \subseteq Reply'
  BY QuietStep DEF IInv
<1>2. requests' \in Seq(Request') /\ answers' \in Seq(Reply')
  BY <1>1, SeqMonotonic
<1>3. \A c \in Channel : channels'[c].last \in Reply' \cup {NoAnswer}
  BY <1>1 DEF IInv, UnderWay
<1> QED
  BY <1>2, <1>3 DEF UnderWay

LEMMA SequencesOfPackets ==
  /\ Reply \subseteq Request /\ Request \subseteq Packet
  /\ Seq(Reply) \subseteq Seq(Packet) /\ Seq(Request) \subseteq Seq(Packet)
<1>1. Reply \subseteq Request /\ Request \subseteq Packet
  BY DEF Reply, Request
<1> QED
  BY <1>1, SeqMonotonic

-----------------------------------------------------------------------------
(* The steps of the network *)

LEMMA VouchedLonger ==
  ASSUME Types, Vouched, UNCHANGED <<pc, caller, ret, recv, accesses, failed>>,
         \A i \in 1 .. Len(accesses) : performed[i] > 0 => performed'[i] > 0
  PROVE  Vouched'
  BY DEF Vouched, Succeeded, Open, IsAccess, Port_!Vouches, Port_!Addresses

LEMMA RequestArrivesInv ==
  ASSUME IInv, RequestArrives
  PROVE  IInv'
<1> DEFINE S == Seq(Request)
<1>1. PICK i \in 1 .. Len(requests) :
        /\ Serve(requests[i])
        /\ \/ requests' = Tail(requests)
           \/ requests' = RemoveAt(requests, i)
           \/ requests' = requests
  <2>1. requests \in Seq(Packet)
    BY DEF IInv, Types
  <2>2. requests /= << >> => Len(requests) \in Nat \ {0}
    BY <2>1, EmptySeq
  <2> QED
    BY <2>2 DEF RequestArrives
<1>2. UNCHANGED <<config, pc, caller, sequence_number, send, recv, ret, key, round,
                  accesses, failed>>
  BY DEF RequestArrives, connect, calls
<1>3. requests \in Seq(Request)
  BY DEF IInv, UnderWay
<1>4. requests[i] \in Request /\ requests' \in Seq(Request)
  BY <1>1, <1>3, PartsOfSequence
<1>5. PICK q \in Request : q = requests[i]
  BY <1>4
<1>6. q \in Packet /\ q.call \in 0 .. Len(accesses)
  BY DEF Request, IInv, Types
<1>7. Served(q)
  BY <1>1, <1>5, <1>6, ServeIsServed DEF IInv
<1>8. Open' = Open
  BY <1>2 DEF Open, IsAccess
<1>9. (answers \in Seq(Reply))' /\ \A c \in Channel : channels'[c].last \in Reply' \cup {NoAnswer}
  BY <1>2, <1>7, <1>8, AnswersUnderWay DEF IInv
<1>10. Request \subseteq Request'
  BY <1>2, <1>7, <1>8, QuietStep DEF IInv, Served
<1>11. (requests \in Seq(Request))'
  BY <1>4, <1>10, SeqMonotonic
<1>12. Types'
  <2>1. requests' \in Seq(Packet)
    BY <1>4, SequencesOfPackets
  <2>2. Reply' \subseteq Packet
    BY DEF Reply, Request
  <2>3. answers' \in Seq(Packet)
    BY <1>9, <2>2, SeqMonotonic
  <2> QED
    BY <1>2, <1>7, <2>1, <2>3 DEF IInv, Types, Served
<1>13. UnderWay'
  BY <1>9, <1>11 DEF UnderWay
<1>14. Vouched'
  BY <1>2, <1>7, VouchedLonger DEF IInv, Served
<1> QED
  BY <1>2, <1>8, <1>12, <1>13, <1>14
     DEF IInv, Connecting, ProbeNumber, CurrentCall, Sending, IsAccess

LEMMA RequestUnheardInv ==
  ASSUME IInv, RequestUnheard
  PROVE  IInv'
<1>1. requests' \in Seq(Request)
  BY EmptySeq, HeadTailProperties DEF RequestUnheard, IInv, UnderWay
<1>2. /\ UNCHANGED <<config, pc, caller, sequence_number, send, recv, ret, key, round,
                     accesses, failed, answers, board>>
      /\ Open' = Open
  BY DEF RequestUnheard, connect, calls, Open, IsAccess
<1>3. UnderWay'
  BY <1>1, <1>2, UnderWayCarried DEF IInv, UnderWay, board
<1>4. Types'
  BY <1>1, <1>2, SequencesOfPackets DEF IInv, Types, board
<1>5. Vouched'
  BY <1>2, VouchedLonger DEF IInv, board
<1> QED
  BY <1>2, <1>3, <1>4, <1>5
     DEF IInv, Connecting, ProbeNumber, CurrentCall, Sending, IsAccess

LEMMA LoseInv ==
  ASSUME IInv, Lose
  PROVE  IInv'
<1>1. requests \in Seq(Request) /\ answers \in Seq(Reply)
  BY DEF IInv, UnderWay
<1>2. requests' \in Seq(Request) /\ answers' \in Seq(Reply)
  <2>1. CASE \E i \in DOMAIN requests : requests' = RemoveAt(requests, i)
                                        /\ UNCHANGED answers
    BY <1>1, <2>1, LenProperties, PartsOfSequence
  <2>2. CASE \E i \in DOMAIN answers : answers' = RemoveAt(answers, i)
                                       /\ UNCHANGED requests
    BY <1>1, <2>2, LenProperties, PartsOfSequence
  <2>3. CASE \E i \in DOMAIN answers : answers' = <<answers[i]>> \o RemoveAt(answers, i)
                                       /\ UNCHANGED requests
    BY <1>1, <2>3, LenProperties, PartsOfSequence
  <2> QED
    BY <2>1, <2>2, <2>3 DEF Lose
<1>3. /\ UNCHANGED <<config, pc, caller, sequence_number, send, recv, ret, key, round,
                     accesses, failed, board>>
      /\ Open' = Open
  BY DEF Lose, connect, calls, Open, IsAccess
<1>4. UnderWay'
  BY <1>2, <1>3, UnderWayCarried DEF IInv, UnderWay, board
<1>5. Types'
  BY <1>2, <1>3, SequencesOfPackets DEF IInv, Types, board
<1>6. Vouched'
  BY <1>3, VouchedLonger DEF IInv, board
<1> QED
  BY <1>3, <1>4, <1>5, <1>6
     DEF IInv, Connecting, ProbeNumber, CurrentCall, Sending, IsAccess

-----------------------------------------------------------------------------
(* The steps of fnet_send_recv_packet *)

LEMMA SendIsRequest ==
  ASSUME IInv, Sending
  PROVE  send \in Request
<1>1. send \in Packet
  BY DEF IInv, Types
<1>2. CASE ~ IsAccess
  BY <1>1, <1>2 DEF IInv, CurrentCall, Request
<1>3. CASE IsAccess
  <2>1. Open
    BY <1>3 DEF Open, Sending
  <2>2. /\ Len(accesses) \in Nat /\ Len(accesses) > 0
        /\ send.call = Len(accesses)
        /\ send.word = AccessWord(sequence_number)
        /\ send.items = accesses[Len(accesses)]
        /\ sequence_number \in -1 .. sequence_number
    BY <2>1 DEF IInv, CurrentCall, Types
  <2>3. Returned = Len(accesses) - 1
    BY <2>1 DEF Returned
  <2>4. Numbered(send)
    BY <2>2, <2>3 DEF Numbered
  <2>5. SameAddresses(send.items, accesses[send.call])
    BY <2>2 DEF SameAddresses
  <2>6. send.call \in 1 .. Len(accesses)
    BY <2>2
  <2> QED
    BY <1>1, <2>4, <2>5, <2>6 DEF Request
<1> QED
  BY <1>2, <1>3

\* The steps that leave the packets, or add the one that is sent.
LEMMA AttemptInv ==
  ASSUME IInv, Sending, Sending',
         UNCHANGED <<config, caller, sequence_number, send, key, round, accesses, failed, board>>,
         requests' \in Seq(Request), answers' \in Seq(Reply),
         recv' \in Packet, ret' \in {-1, 0, 1}, Vouched'
  PROVE  IInv'
<1>1. Open' = Open
  BY DEF Open, IsAccess, Sending
<1>2. UnderWay'
  BY <1>1, UnderWayCarried DEF board
<1>3. Types'
  BY SequencesOfPackets DEF IInv, Types, board
<1> QED
  BY <1>1, <1>2, <1>3
     DEF IInv, Connecting, ProbeNumber, CurrentCall, Sending, IsAccess

LEMMA DrainInv ==
  ASSUME IInv, Drain
  PROVE  IInv'
<1>1. PICK n \in 0 .. Len(answers) :
        /\ answers' = SubSeq(answers, n + 1, Len(answers))
        /\ recv' = IF n = 0 THEN recv ELSE Into(answers[n])
  BY DEF Drain
<1>2. answers \in Seq(Reply) /\ Len(answers) \in Nat
  BY DEF IInv, UnderWay
<1>3. answers' \in Seq(Reply)
  BY <1>1, <1>2, ElementOfSeq, SubSeqProperties
<1>4. recv' \in Packet
  <2>1. CASE n = 0
    BY <1>1, <2>1 DEF IInv, Types
  <2>2. CASE n /= 0
    <3>1. answers[n] \in Reply
      BY <1>2, <2>2, ElementOfSeq
    <3>2. answers[n] \in Packet
      BY <3>1, SequencesOfPackets
    <3> QED
      BY <1>1, <2>2, <3>2, TypeInto DEF IInv
  <2> QED
    BY <2>1, <2>2
<1>5. ret' \in {-1, 0, 1} /\ requests' \in Seq(Request)
  BY DEF Drain, IInv, Types, UnderWay
<1>6. /\ Sending /\ Sending' /\ pc' = "attempt"
      /\ UNCHANGED <<config, caller, sequence_number, send, key, round, accesses, failed, board>>
  BY DEF Drain, Sending, connect, calls
<1>7. Vouched'
  BY <1>6 DEF Vouched, Succeeded
<1> QED
  BY <1>3, <1>4, <1>5, <1>6, <1>7, AttemptInv

LEMMA OtherAttemptsInv ==
  ASSUME IInv,
         SelectFails \/ GiveUp \/ SendTo \/ SendInterrupted \/ SendFails \/ TimeOut
  PROVE  IInv'
<1>1. /\ Sending /\ Sending'
      /\ UNCHANGED <<config, caller, sequence_number, send, key, round, accesses, failed, board>>
  BY DEF SelectFails, GiveUp, SendTo, SendInterrupted, SendFails, TimeOut, Return,
         Sending, connect, calls, network
<1>2. recv' \in Packet /\ ret' \in {-1, 0, 1} /\ (pc' = "returned" => ret' /= 1)
  BY DEF SelectFails, GiveUp, SendTo, SendInterrupted, SendFails, TimeOut, Return,
         IInv, Types
<1>3. answers' \in Seq(Reply)
  BY DEF SelectFails, GiveUp, SendTo, SendInterrupted, SendFails, TimeOut, network,
         IInv, UnderWay
<1>4. requests' \in Seq(Request)
  <2>1. requests \in Seq(Request) /\ send \in Request
    BY <1>1, SendIsRequest DEF IInv, UnderWay
  <2>2. requests' \in {requests, Append(requests, send)}
    BY DEF SelectFails, GiveUp, SendTo, SendInterrupted, SendFails, TimeOut, network
  <2> QED
    BY <2>1, <2>2, AppendProperties
<1>5. Vouched'
  BY <1>2 DEF Vouched, Succeeded
<1> QED
  BY <1>1, <1>2, <1>3, <1>4, <1>5, AttemptInv

\* An answer that has the word and the addresses of the access that is made
\* vouches for it.
LEMMA AnswerVouches ==
  ASSUME IInv, Timely, Open, answers /= << >>,
         fnet_check_reg_access_reply(send, answers[1]) /= 0
  PROVE  answers[1].call \in 1 .. Len(accesses) /\ Port_!Vouches(answers[1].call)
<1>1. answers[1] \in Reply /\ 1 \in DOMAIN answers
  BY EmptySeq, ElementOfSeq DEF IInv, UnderWay
<1>2. PICK r \in Reply : r = answers[1]
  BY <1>1
<1>3. r \in Request /\ r \in Packet
  BY SequencesOfPackets
<1>4. /\ Len(accesses) \in Nat
      /\ send.word = AccessWord(sequence_number)
      /\ send.items = accesses[Len(accesses)]
      /\ sequence_number \in Int
      /\ Returned = Len(accesses) - 1
  BY DEF IInv, CurrentCall, Types, Returned
<1>5. /\ r.word = send.word /\ Len(r.items) = Len(send.items)
      /\ \A i \in DOMAIN send.items : r.items[i].addr = send.items[i].addr
  BY <1>2 DEF fnet_check_reg_access_reply
<1>6. r.call \in 1 .. Len(accesses)
  <2>1. r.word \in Nat /\ r.word < 4096
    BY <1>4, <1>5, AccessWords
  <2>2. ~ (r.word >= 4096)
    BY <2>1
  <2> QED
    BY <1>3, <2>2 DEF Request
<1>7. SameAddresses(r.items, accesses[r.call]) /\ Numbered(r) /\ performed[r.call] > 0
  BY <1>3, <1>6 DEF Request, Reply
<1>8. r.call .. Len(accesses) - 1 \subseteq failed
  <2>1. PICK n \in -1 .. sequence_number :
          /\ r.word = AccessWord(n)
          /\ sequence_number - n <= Returned - r.call + 1
          /\ n = sequence_number => r.call .. Returned \subseteq failed
    BY <1>7 DEF Numbered
  <2>2. Len(accesses) - r.call < 4096
    BY <1>1, <1>2, <1>6 DEF Timely
  <2>3. n = sequence_number
    <3>1. sequence_number - n < 4096
      BY <1>4, <1>6, <2>1, <2>2
    <3>2. AccessWord(n) = AccessWord(sequence_number)
      BY <1>4, <1>5, <2>1
    <3>3. n \in Int /\ n <= sequence_number
      BY <1>4
    <3> QED
      BY <1>4, <3>1, <3>2, <3>3, WordTellsNumber
  <2> QED
    BY <1>4, <2>1, <2>3
<1>9. Port_!Addresses(r.call) = Port_!Addresses(Len(accesses))
  <2>1. accesses[r.call] \in Seq(Item) /\ accesses[Len(accesses)] \in Seq(Item)
    BY <1>6, ElementOfSeq DEF IInv, Types
  <2>2. r.items \in Seq(Item)
    BY <1>3 DEF Packet
  <2>3. /\ DOMAIN accesses[r.call] = 1 .. Len(r.items)
        /\ DOMAIN accesses[Len(accesses)] = 1 .. Len(r.items)
    BY <1>4, <1>5, <1>7, <2>1, <2>2, LenProperties DEF SameAddresses
  <2>4. \A i \in 1 .. Len(r.items) :
          accesses[r.call][i].addr = accesses[Len(accesses)][i].addr
    BY <1>4, <1>5, <1>7, <2>3 DEF SameAddresses
  <2> QED
    BY <2>3, <2>4 DEF Port_!Addresses
<1> QED
  BY <1>2, <1>6, <1>7, <1>8, <1>9 DEF Port_!Vouches

LEMMA ReceiveInv ==
  ASSUME IInv, Timely, Receive
  PROVE  IInv'
<1>1. /\ Sending /\ Sending' /\ pc = "receive"
      /\ UNCHANGED <<config, caller, sequence_number, send, key, round, accesses, failed, board>>
  BY DEF Receive, Return, Sending, connect, calls
<1>2. answers[1] \in Reply /\ answers' \in Seq(Reply) /\ requests' \in Seq(Request)
  <2>1. answers \in Seq(Reply) /\ requests \in Seq(Request) /\ answers /= << >>
    BY DEF IInv, UnderWay, Receive
  <2> QED
    BY <2>1, EmptySeq, ElementOfSeq, HeadTailProperties DEF Receive
<1>3. /\ recv' = Into(answers[1]) /\ recv' \in Packet /\ recv'.call = answers[1].call
  BY <1>2, SequencesOfPackets, TypeInto DEF Receive, IInv
<1>4. ret' \in {-1, 0, 1}
  BY DEF Receive, Return, IInv, Types
<1>5. Vouched'
  <2> SUFFICES ASSUME Succeeded'
               PROVE  (recv.call \in 1 .. Len(accesses) /\ Port_!Vouches(recv.call))'
    BY DEF Vouched
  <2>1. IsAccess /\ Open
    BY <1>1 DEF Succeeded, Open, IsAccess
  <2>2. pc' = "returned"
    BY DEF Succeeded
  <2>3. answers /= << >> /\ check_reply(answers[1]) /= 0
    BY <2>2 DEF Receive
  <2>4. fnet_check_reg_access_reply(send, answers[1]) /= 0
    BY <2>1, <2>3 DEF check_reply
  <2>5. answers[1].call \in 1 .. Len(accesses) /\ Port_!Vouches(answers[1].call)
    BY <2>1, <2>3, <2>4, AnswerVouches
  <2> QED
    BY <1>1, <1>3, <2>5 DEF Port_!Vouches, Port_!Addresses, board
<1> QED
  BY <1>1, <1>2, <1>3, <1>4, <1>5, AttemptInv

-----------------------------------------------------------------------------
(* An access begins and returns *)

LEMMA BeginInv ==
  ASSUME IInv, ~ Open,
         NEW c, c \notin {"arm", "reset", "disconnect"},
         c = "probe" => sequence_number = -1 /\ ~ config.reliable,
         NEW port \in {0} \cup Channel, NEW items \in Seq(Item),
         SendRecvRegacc(c, port, sequence_number, items),
         UNCHANGED <<sequence_number, key, round>>
  PROVE  IInv'
<1> DEFINE N == Len(accesses)
<1>1. /\ accesses \in Seq(Seq(Item)) /\ performed \in Seq(Nat)
      /\ Len(performed) = N /\ N \in Nat /\ failed \subseteq 1 .. N
      /\ sequence_number \in Int /\ sequence_number >= -1
  BY DEF IInv, Types
<1>2. /\ caller' = c /\ pc' = "drain"
      /\ send' = [port |-> port, word |-> AccessWord(sequence_number),
                  items |-> items, call |-> N + 1]
      /\ accesses' = Append(accesses, items) /\ performed' = Append(performed, 0)
      /\ UNCHANGED <<registers, latch, channels, ret, recv, requests, answers, config, failed>>
  BY DEF SendRecvRegacc, Call, network
<1>3. /\ accesses' \in Seq(Seq(Item)) /\ Len(accesses') = N + 1
      /\ accesses'[N + 1] = items
      /\ \A i \in 1 .. N : accesses'[i] = accesses[i]
  BY <1>1, <1>2, AppendProperties
<1>4. /\ performed' \in Seq(Nat) /\ Len(performed') = N + 1
      /\ \A i \in 1 .. N : performed'[i] = performed[i]
  BY <1>1, <1>2, AppendProperties
<1>5. AccessWord(sequence_number) \in Nat
  BY <1>1, AccessWords
<1>6. Open'
  BY <1>2 DEF Open, IsAccess
<1>7. Returned' = Returned
  BY <1>1, <1>3, <1>6 DEF Returned
<1>8. Request \subseteq Request' /\ Reply \subseteq Reply'
  BY <1>1, <1>2, <1>3, <1>4, <1>7, NumberedStays, UnderWayKept DEF IInv
<1>9. Types'
  <2>1. send' \in Packet
    BY <1>1, <1>2, <1>5 DEF Packet
  <2>2. failed' \subseteq 1 .. Len(accesses')
    BY <1>1, <1>2, <1>3
  <2> QED
    BY <1>1, <1>2, <1>3, <1>4, <2>1, <2>2 DEF IInv, Types
<1>10. UnderWay'
  BY <1>2, <1>8, SeqMonotonic DEF IInv, UnderWay
<1>11. CurrentCall'
  BY <1>1, <1>2, <1>3, <1>6 DEF CurrentCall, Sending, Open
<1>12. ProbeNumber'
  BY <1>2 DEF ProbeNumber
<1>13. (Connecting => accesses = << >>)'
  BY <1>2 DEF Connecting
<1>14. Vouched'
  BY <1>2 DEF Vouched, Succeeded
<1> QED
  BY <1>9, <1>10, <1>11, <1>12, <1>13, <1>14 DEF IInv

LEMMA RegaccReturnsInv ==
  ASSUME IInv, RegaccReturns
  PROVE  IInv'
<1> DEFINE N == Len(accesses)
<1>1. /\ N \in Nat /\ failed \subseteq 1 .. N /\ sequence_number \in Int
      /\ sequence_number >= -1 /\ ret \in {-1, 0, 1}
  BY DEF IInv, Types
<1>2. /\ pc = "returned" /\ pc' = "answered"
      /\ sequence_number' = IF ret >= 1 THEN sequence_number + 1 ELSE sequence_number
      /\ failed' = IF ret >= 1 THEN failed ELSE failed \cup {N}
      /\ UNCHANGED <<config, caller, send, recv, ret, key, round, requests, answers,
                     registers, latch, channels, performed, accesses>>
  BY DEF RegaccReturns, NumberAfter, network, board, connect
<1>3. Open /\ ~ Open'
  BY <1>2 DEF RegaccReturns, Open
<1>4. N > 0
  BY <1>3 DEF IInv, CurrentCall
<1>5. Returned \in Nat /\ Returned' = Returned + 1 /\ N = Returned + 1
  BY <1>1, <1>2, <1>3, <1>4 DEF Returned
<1>6. \A q \in Packet : Numbered(q) => Numbered(q)'
  <2>1. CASE ret >= 1
    BY <1>2, <1>5, <2>1, NumberedAfterSuccess DEF IInv
  <2>2. CASE ~ (ret >= 1)
    BY <1>2, <1>5, <2>2, NumberedAfterFailure DEF IInv
  <2> QED
    BY <2>1, <2>2
<1>7. Request \subseteq Request' /\ Reply \subseteq Reply'
  <2>1. accesses' \in Seq(Seq(Item)) /\ Len(accesses) <= Len(accesses')
    BY <1>1, <1>2 DEF IInv, Types
  <2> QED
    BY <1>2, <1>6, <2>1, UnderWayKept DEF IInv
<1>8. Types'
  <2>1. failed' \subseteq 1 .. Len(accesses')
    <3>1. failed' \subseteq failed \cup {N} /\ Len(accesses') = N
      BY <1>2
    <3> QED
      BY <1>1, <1>4, <3>1
  <2>2. sequence_number' \in Int /\ sequence_number' >= -1
    BY <1>1, <1>2
  <2> QED
    BY <1>2, <2>1, <2>2 DEF IInv, Types
<1>9. UnderWay'
  BY <1>2, <1>7, SeqMonotonic DEF IInv, UnderWay
<1>10. CurrentCall'
  BY <1>2, <1>3 DEF CurrentCall, Sending
<1>11. ProbeNumber'
  BY <1>1, <1>2, <1>3 DEF IInv, ProbeNumber
<1>12. (Connecting => accesses = << >>)'
  BY <1>2, <1>3 DEF IInv, Connecting, Open, IsAccess
<1>13. Vouched'
  BY <1>2 DEF Vouched, Succeeded
<1> QED
  BY <1>8, <1>9, <1>10, <1>11, <1>12, <1>13 DEF IInv

-----------------------------------------------------------------------------
(* The steps between accesses *)

LEMMA BetweenInv ==
  ASSUME IInv, ~ Open, ~ Open',
         UNCHANGED <<config, sequence_number, accesses, failed, recv, ret, board>>,
         requests' \in Seq(Request), answers' \in Seq(Reply),
         send' \in Packet, key' \in Nat, round' \in Nat,
         Connecting' => Connecting,
         ProbeNumber',
         Sending' => send'.call = 0 /\ send'.word >= 4096
  PROVE  IInv'
<1>1. UnderWay'
  <2>1. Open' = Open
    BY DEF Open
  <2> QED
    BY <2>1, UnderWayCarried DEF board
<1>2. Types'
  BY SequencesOfPackets DEF IInv, Types, board
<1>3. CurrentCall' /\ Vouched'
  BY DEF CurrentCall, Vouched, Succeeded
<1> QED
  BY <1>1, <1>2, <1>3 DEF IInv

LEMMA FinishInv ==
  ASSUME IInv, pc = "answered", NEW ok, Finish(ok)
  PROVE  IInv'
<1>1. /\ pc' = "ready" /\ ~ Open /\ ~ Open' /\ ~ Sending'
      /\ UNCHANGED <<config, caller, sequence_number, accesses, failed, recv, ret, board,
                     send, key, round, requests, answers>>
  BY DEF Finish, Open, Sending, connect, network
<1>2. requests \in Seq(Request) /\ answers \in Seq(Reply) /\ send \in Packet /\ key \in Nat /\ round \in Nat
  BY DEF IInv, Types, UnderWay
<1>3. ProbeNumber' /\ (Connecting' => Connecting)
  BY <1>1 DEF IInv, ProbeNumber, Connecting
<1> QED
  BY <1>1, <1>2, <1>3, BetweenInv

LEMMA ProbeReturnsInv ==
  ASSUME IInv, ProbeReturns
  PROVE  IInv'
<1>1. /\ pc = "answered" /\ caller = "probe" /\ pc' \in {"ready", "closed", "refused"}
      /\ ret /= 1 \/ pc' /= "closed"
      /\ UNCHANGED <<config, caller, sequence_number, accesses, failed, recv, ret, board,
                     send, key>>
      /\ round' \in {round, round + 1}
  BY DEF ProbeReturns, calls
<1>2. requests' \in Seq(Request) /\ answers' \in Seq(Reply)
  BY EmptySeq DEF ProbeReturns, IInv, UnderWay
<1>3. send \in Packet /\ key \in Nat /\ round' \in Nat
  BY <1>1 DEF IInv, Types
<1>4. ~ Open /\ ~ Open' /\ ~ Sending'
  BY <1>1 DEF Open, Sending
<1>5. ProbeNumber'
  BY <1>1, <1>4 DEF IInv, ProbeNumber
<1>6. Connecting' => Connecting
  BY <1>1 DEF IInv, ProbeNumber, Connecting
<1> QED
  BY <1>1, <1>2, <1>3, <1>4, <1>5, <1>6, BetweenInv

\* The steps of fnet_ctrl_connect and of the end, which only go somewhere else
\* or ask for the board to be armed, reset or closed.
LEMMA ConnectionInv ==
  ASSUME IInv,
         ConnectReliable \/ EstablishArm \/ ArmReturns \/ Close \/ DisconnectReturns
  PROVE  IInv'
<1>1. /\ ~ Open /\ ~ Open'
      /\ UNCHANGED <<config, sequence_number, accesses, failed, recv, ret, board,
                     requests, answers>>
      /\ round' \in {round, round + 1}
  BY DEF ConnectReliable, EstablishArm, ArmReturns, Close, DisconnectReturns, Unchanged,
         network, connect, Quits, Call, NextPort, NextTry, Open, IsAccess
<1>2. requests \in Seq(Request) /\ answers \in Seq(Reply)
  BY DEF IInv, UnderWay
<1>3. Connecting' => Connecting
  BY DEF ConnectReliable, EstablishArm, ArmReturns, Close, DisconnectReturns, Unchanged,
         Quits, Call, NextPort, NextTry, Connecting
<1>4. ProbeNumber'
  BY <1>1 DEF ConnectReliable, EstablishArm, ArmReturns, Close, DisconnectReturns,
         Quits, Call, NextPort, NextTry, IInv, ProbeNumber
<1>5. /\ send' \in Packet /\ key' \in Nat /\ round' \in Nat
      /\ Sending' => send'.call = 0 /\ send'.word >= 4096
  <2>1. /\ send \in Packet /\ key \in Nat /\ round \in Nat /\ recv \in Packet
        /\ send.port \in {0} \cup Channel /\ << >> \in Seq(Item)
        /\ round' \in Nat
    BY <1>1, EmptySeq DEF IInv, Types, Packet
  <2>2. CASE send' = send /\ key' = key /\ ~ Sending'
    BY <2>1, <2>2
  <2>3. CASE EstablishArm
    <3>1. PICK k \in Nat : /\ key' = (k + 1) % 16
                           /\ send' = [port |-> Port(round), word |-> RESET_ARM + 256 * key',
                                       items |-> << >>, call |-> 0]
      BY <2>1, <2>3, FnetAssumption DEF EstablishArm, Call
    <3>2. Port(round) \in Channel
      BY <2>1 DEF Port, Channel
    <3>3. key' \in Nat /\ RESET_ARM + 256 * key' \in Nat /\ RESET_ARM + 256 * key' >= 4096
      BY <3>1 DEF RESET_ARM
    <3> QED
      BY <2>1, <3>1, <3>2, <3>3 DEF Packet
  <2>4. CASE send' = [port |-> send.port, word |-> RESET + Sequence(recv.word),
                      items |-> << >>, call |-> 0] /\ key' = key
    <3>1. PICK n \in Nat : n = Sequence(recv.word)
      BY <2>1, WordsOfPacket
    <3>2. RESET + n \in Nat /\ RESET + n >= 4096
      BY DEF RESET
    <3> QED
      BY <2>1, <2>4, <3>1, <3>2 DEF Packet
  <2>5. CASE send' = [port |-> send.port, word |-> DISCONNECT,
                      items |-> << >>, call |-> 0] /\ key' = key
    BY <2>1, <2>5 DEF Packet, DISCONNECT
  <2> QED
    BY <2>2, <2>3, <2>4, <2>5
       DEF ConnectReliable, ArmReturns, Close, DisconnectReturns, Quits, Call,
           NextPort, NextTry, Sending, connect
<1> QED
  BY <1>1, <1>2, <1>3, <1>4, <1>5, BetweenInv

\* The connection is there: the accesses, of which there are none yet, are
\* numbered from what the board was reset with.
LEMMA ResetReturnsInv ==
  ASSUME IInv, ResetReturns
  PROVE  IInv'
<1>1. /\ pc = "returned" /\ caller = "reset" /\ accesses = << >>
      /\ ~ Open /\ ~ Open'
      /\ UNCHANGED <<config, caller, send, recv, ret, requests, answers, accesses, failed, board>>
  BY DEF ResetReturns, Unchanged, NextTry, NextPort, Quits, network, IInv, Connecting,
         Open, IsAccess
<1>2. /\ requests \in Seq(Request) /\ answers \in Seq(Reply)
      /\ send \in Packet /\ recv \in Packet /\ key \in Nat /\ round \in Nat
      /\ sequence_number \in Int
  BY DEF IInv, Types, UnderWay
<1>3. CASE ret <= 0
  <2>1. /\ pc' \in {"establish", "refused"} /\ UNCHANGED <<key, sequence_number>>
        /\ round' \in {round, round + 1}
    BY <1>3 DEF ResetReturns, NextTry, NextPort, Quits
  <2>2. ~ Sending' /\ (Connecting' => Connecting) /\ round' \in Nat
    BY <1>1, <1>2, <2>1 DEF Sending, Connecting
  <2>3. ProbeNumber'
    BY <1>1, <2>1 DEF ProbeNumber
  <2> QED
    BY <1>1, <1>2, <2>1, <2>2, <2>3, BetweenInv
<1>4. CASE ~ (ret <= 0)
  <2>1. /\ pc' = "ready" /\ sequence_number' = FirstNumber(Sequence(recv.word))
        /\ UNCHANGED <<key, round>>
    BY <1>4 DEF ResetReturns, Quits, connect
  <2>2. sequence_number' \in Int /\ sequence_number' >= -1
    <3>1. PICK n \in Nat : n = FirstNumber(Sequence(recv.word))
      BY <1>2, WordsOfPacket
    <3> QED
      BY <2>1, <3>1
  <2>3. Types'
    BY <1>1, <1>2, <2>1, <2>2 DEF IInv, Types, board
  <2>4. Request \subseteq Request' /\ Reply \subseteq Reply'
    <3>1. Len(accesses) = 0
      BY <1>1, EmptySeq
    <3>2. Request \subseteq Request'
      BY <3>1 DEF Request
    <3>3. UNCHANGED performed
      BY <1>1 DEF board
    <3> QED
      BY <3>2, <3>3 DEF Reply
  <2>5. UnderWay'
    BY <1>1, <2>4, SeqMonotonic DEF IInv, UnderWay, board
  <2>6. CurrentCall' /\ Vouched' /\ ProbeNumber' /\ (Connecting => accesses = << >>)'
    BY <1>1, <2>1 DEF CurrentCall, Sending, Vouched, Succeeded, ProbeNumber, Open
  <2> QED
    BY <2>3, <2>5, <2>6 DEF IInv
<1> QED
  BY <1>3, <1>4

-----------------------------------------------------------------------------
(* The theorems *)

LEMMA Initially ==
  ASSUME Init
  PROVE  IInv
<1>1. NoAnswer \in Packet /\ << >> \in Seq(Packet) /\ << >> \in Seq(Seq(Item))
      /\ << >> \in Seq(Nat) /\ << >> \in Seq(Request) /\ << >> \in Seq(Reply)
  BY EmptySeq DEF NoAnswer, Packet
<1>2. recv \in Packet
  <2>1. Read(SAFE_READ_ADDRESS) \in Seq(Item)
    BY FnetAssumption, ItemsOfAccesses
  <2>2. recv = [NoAnswer EXCEPT !.items = Read(SAFE_READ_ADDRESS)]
    BY DEF Init, Read
  <2> QED
    BY <1>1, <2>1, <2>2 DEF Packet
<1>3. /\ channels \in [Channel -> ChannelState]
      /\ \A c \in Channel : channels[c].last = NoAnswer
  <2>1. PICK K \in SUBSET [active : BOOLEAN, connected : BOOLEAN] :
          channels \in [Channel -> {[active |-> u.active, connected |-> u.connected,
                                     armed |-> -1, expected |-> -1, last |-> NoAnswer] : u \in K}]
    BY FnetAssumption DEF Init
  <2>2. \A u \in K : [active |-> u.active, connected |-> u.connected,
                      armed |-> -1, expected |-> -1, last |-> NoAnswer] \in ChannelState
    BY <1>1 DEF ChannelState
  <2> QED
    BY <2>1, <2>2
<1>4. registers \in [Addr -> Value] /\ latch \in Value
  <2>1. registers \in [Addr -> Data]
    BY FnetAssumption DEF Init
  <2> QED
    BY <2>1, FnetAssumption DEF Init, Value
<1>5. Types
  BY <1>1, <1>2, <1>3, <1>4, EmptySeq DEF Init, Types
<1>6. ~ Open /\ ~ Sending
  BY DEF Init, Open, Sending
<1>7. UnderWay
  BY <1>1, <1>3 DEF Init, UnderWay
<1>8. ProbeNumber /\ (Connecting => accesses = << >>)
  BY DEF Init, ProbeNumber
<1>9. CurrentCall /\ Vouched
  BY <1>6 DEF CurrentCall, Vouched, Succeeded
<1> QED
  BY <1>5, <1>7, <1>8, <1>9 DEF IInv

\* Every operation begins an access, goes on with another, or finishes.
LEMMA OperationInv ==
  ASSUME IInv,
         \/ Operate \/ OnlyReadReturns \/ FirstReadGoesOn \/ FirstReadFails
         \/ SecondReadReturns \/ WriteReturns \/ SendTcpResetReturns
         \/ OpenTcpConnects \/ OpenTcpAgain
  PROVE  IInv'
<1>1. CASE Close
  BY <1>1, ConnectionInv
<1>2. CASE pc = "answered" /\ \E ok : Finish(ok)
  BY <1>2, FinishInv
<1>3. CASE /\ pc \in {"ready", "answered"}
           /\ \E c \in {"only read", "first read", "second read", "write", "tcp reset", "open tcp"},
                 items \in Seq(Item) : Another(c, items)
  <2>1. PICK c \in {"only read", "first read", "second read", "write", "tcp reset", "open tcp"},
             items \in Seq(Item) : Another(c, items)
    BY <1>3
  <2>2. ~ Open
    BY <1>3 DEF Open
  <2>3. SendRecvRegacc(c, send.port, sequence_number, items)
        /\ UNCHANGED <<sequence_number, key, round>>
    BY <2>1 DEF Another
  <2>4. send.port \in {0} \cup Channel
    BY DEF IInv, Types, Packet
  <2> QED
    BY <2>2, <2>3, <2>4, BeginInv
<1>4. SAFE_READ_ADDRESS \in Addr /\ Used \subseteq Addr
  BY FnetAssumption
<1> QED
  BY <1>1, <1>2, <1>3, <1>4, ItemsOfAccesses
     DEF Operate, OnlyReadReturns, FirstReadGoesOn, FirstReadFails, SecondReadReturns,
         WriteReturns, SendTcpResetReturns, OpenTcpConnects, OpenTcpAgain, ReadOnce,
         DoubleReadAddr, WriteAddr, SendTcpReset, OpenTcp, Idle, Answer, FirstAddress

LEMMA NextInv ==
  ASSUME IInv, Timely, [Next]_vars
  PROVE  IInv'
<1>1. CASE UNCHANGED vars
  <2>1. /\ UNCHANGED <<config, pc, caller, sequence_number, send, recv, ret, key, round,
                       requests, answers, accesses, failed, board>>
        /\ UNCHANGED performed
    BY <1>1 DEF vars, network, board, connect, calls
  <2>2. Open' = Open
    BY <2>1 DEF Open, IsAccess
  <2>3. UnderWay'
    BY <2>1, <2>2, UnderWayCarried DEF IInv, UnderWay, board
  <2>4. Types'
    BY <2>1 DEF IInv, Types, board
  <2>5. Vouched'
    BY <2>1, VouchedLonger DEF IInv
  <2> QED
    BY <2>1, <2>2, <2>3, <2>4, <2>5
       DEF IInv, Connecting, ProbeNumber, CurrentCall, Sending, IsAccess
<1>2. CASE Network
  BY <1>2, RequestArrivesInv, RequestUnheardInv, LoseInv DEF Network
<1>3. CASE SendRecvPacket
  BY <1>3, DrainInv, OtherAttemptsInv, ReceiveInv DEF SendRecvPacket
<1>4. CASE ConnectIdempotent
  <2>1. /\ ~ Open /\ ~ config.reliable /\ sequence_number = -1
        /\ SendRecvRegacc("probe", 0, sequence_number, << >>)
        /\ UNCHANGED <<sequence_number, key, round>>
    BY <1>4 DEF ConnectIdempotent, Open, IInv, ProbeNumber, connect
  <2> QED
    BY <2>1, EmptySeq, BeginInv
<1>5. CASE Connect /\ ~ ConnectIdempotent
  BY <1>5, ProbeReturnsInv, ConnectionInv, ResetReturnsInv DEF Connect
<1>6. CASE Operate
  BY <1>6, OperationInv
<1>7. CASE Continue
  BY <1>7, RegaccReturnsInv, ConnectionInv, OperationInv DEF Continue
<1> QED
  BY <1>1, <1>2, <1>3, <1>4, <1>5, <1>6, <1>7 DEF Next

\* As long as no answer is kept for 4096 accesses, what is under way, the
\* numbers and the accesses fit together as IInv says, whatever is lost,
\* repeated, late or out of order.
THEOREM MatchingInv == Spec /\ []Timely => []IInv
<1> QED
  BY Initially, NextInv, PTL DEF Spec

\* The answer taken is the answer to this very access, as long as no access
\* failed (fnet_check_reg_access_reply and the numbers of fnet_client.c:525).
THEOREM AnswerIsMineHolds == Spec /\ []Timely => []AnswerIsMine
<1>1. ASSUME IInv
      PROVE  AnswerIsMine
  <2> SUFFICES ASSUME Succeeded, failed = {}
               PROVE  recv.call = Len(accesses)
    BY DEF AnswerIsMine
  <2>1. recv.call \in 1 .. Len(accesses) /\ recv.call .. Len(accesses) - 1 \subseteq {}
    BY <1>1 DEF IInv, Vouched, Port_!Vouches
  <2>2. Len(accesses) \in Nat
    BY <1>1 DEF IInv, Types
  <2> QED
    BY <2>1, <2>2
<1> QED
  BY <1>1, MatchingInv, PTL

-----------------------------------------------------------------------------
(* What RegisterPort promises *)

LEMMA BeginIsPromised ==
  ASSUME IInv, ~ Open, NEW c, c \notin {"arm", "reset", "disconnect"},
         NEW port, NEW n, NEW items \in Seq(Item), SendRecvRegacc(c, port, n, items)
  PROVE  Port_!Next
<1>1. accesses \in Seq(Seq(Item))
  BY DEF IInv, Types
<1>2. /\ accesses' = Append(accesses, items) /\ performed' = Append(performed, 0)
      /\ UNCHANGED failed /\ caller' = c /\ pc' = "drain"
  BY DEF SendRecvRegacc, Call
<1>3. accesses' /= accesses /\ accesses'[Len(accesses')] = items
  BY <1>1, <1>2, AppendProperties
<1>4. Open' = TRUE
  BY <1>2 DEF Open, IsAccess
<1>5. Port_!Begin(accesses'[Len(accesses')])
  BY <1>2, <1>3, <1>4 DEF Port_!Begin
<1> QED
  BY <1>3, <1>5 DEF Port_!Next

LEMMA ArrivalIsPromised ==
  ASSUME IInv, RequestArrives
  PROVE  [Port_!Next]_(Port_!vars)
<1>1. PICK i \in 1 .. Len(requests) : Serve(requests[i])
  <2>1. requests \in Seq(Packet)
    BY DEF IInv, Types
  <2>2. requests /= << >> => Len(requests) \in Nat \ {0}
    BY <2>1, EmptySeq
  <2> QED
    BY <2>2 DEF RequestArrives
<1>2. PICK q \in Request : q = requests[i]
  BY <1>1, ElementOfSeq DEF IInv, UnderWay
<1>3. UNCHANGED <<pc, caller, accesses, failed>>
  BY DEF RequestArrives, calls
<1>4. Open' = Open
  BY <1>3 DEF Open, IsAccess
<1>5. CASE UNCHANGED performed
  BY <1>3, <1>4, <1>5 DEF Port_!vars
<1>6. CASE q.call /= 0 /\ Perform(q)
  <2>1. accesses \in Seq(Seq(Item)) /\ q.call \in 1 .. Len(accesses)
    BY <1>6 DEF IInv, Types, Request
  <2>2. q.call \in DOMAIN accesses
    BY <2>1, LenProperties
  <2>3. Port_!Perform(q.call)
    BY <1>3, <1>4, <1>6 DEF Perform, Port_!Perform
  <2> QED
    BY <2>2, <2>3 DEF Port_!Next
<1>7. Serve(q)
  BY <1>1, <1>2
<1>8. UNCHANGED performed \/ (q.call /= 0 /\ Perform(q))
  <2>1. CASE PerformIdempotent(q)
    BY <2>1 DEF PerformIdempotent
  <2>2. CASE PerformOnce(q)
    BY <2>2 DEF PerformOnce
  <2>3. CASE Arm(q) \/ Reset(q) \/ Disconnect(q)
    BY <2>3 DEF Arm, Reset, Disconnect
  <2> QED
    BY <1>7, <2>1, <2>2, <2>3 DEF Serve
<1> QED
  BY <1>5, <1>6, <1>8

LEMMA ReturnIsPromised ==
  ASSUME IInv, RegaccReturns
  PROVE  Port_!Next
<1>1. /\ pc = "returned" /\ IsAccess /\ pc' = "answered"
      /\ failed' = IF ret >= 1 THEN failed ELSE failed \cup {Len(accesses)}
      /\ UNCHANGED <<accesses, performed, ret>>
  BY DEF RegaccReturns, board
<1>2. Open = TRUE /\ Open' = FALSE
  BY <1>1 DEF Open
<1>3. CASE ret >= 1
  <2>1. Succeeded
    BY <1>1, <1>2, <1>3 DEF Succeeded, IInv, Types
  <2>2. recv.call \in DOMAIN accesses /\ Port_!Vouches(recv.call)
    BY <2>1, LenProperties DEF IInv, Types, Vouched
  <2>3. Port_!Succeed
    BY <1>1, <1>2, <1>3, <2>2 DEF Port_!Succeed
  <2> QED
    BY <2>3 DEF Port_!Next
<1>4. CASE ~ (ret >= 1)
  BY <1>1, <1>2, <1>4 DEF Port_!Fail, Port_!Next
<1> QED
  BY <1>3, <1>4

\* The steps on which RegisterPort has nothing to say.
LEMMA OtherStepsAreSilent ==
  ASSUME RequestUnheard \/ Lose \/ SendRecvPacket \/ ProbeReturns \/ ConnectReliable
         \/ EstablishArm \/ ArmReturns \/ ResetReturns \/ Close \/ DisconnectReturns
         \/ UNCHANGED vars \/ (pc = "answered" /\ \E ok : Finish(ok))
  PROVE  UNCHANGED (Port_!vars)
<1>1. UNCHANGED <<accesses, performed, failed>>
  <2>1. CASE RequestUnheard \/ Lose \/ UNCHANGED vars
    BY <2>1 DEF RequestUnheard, Lose, vars, board, calls
  <2>2. CASE SendRecvPacket
    BY <2>2 DEF SendRecvPacket, Drain, SelectFails, GiveUp, SendTo, SendInterrupted,
                SendFails, TimeOut, Receive, board, calls
  <2>3. CASE ProbeReturns \/ ConnectReliable \/ EstablishArm \/ ArmReturns
             \/ ResetReturns \/ Close \/ DisconnectReturns
    BY <2>3 DEF ProbeReturns, ConnectReliable, EstablishArm, ArmReturns, ResetReturns,
                Close, DisconnectReturns, Unchanged, board, calls
  <2>4. CASE \E ok : Finish(ok)
    BY <2>4 DEF Finish, board
  <2> QED
    BY <2>1, <2>2, <2>3, <2>4
<1>2. Open' = Open
  <2>1. CASE UNCHANGED <<pc, caller>>
    BY <2>1 DEF Open, IsAccess
  <2>2. CASE Sending /\ Sending' /\ UNCHANGED caller
    BY <2>2 DEF Open, IsAccess, Sending
  <2>3. CASE /\ pc \in {"closed", "establish", "answered", "ready"} \/ ~ IsAccess
             /\ pc' \in {"closed", "establish", "answered", "ready", "refused", "end"} \/ ~ IsAccess'
    BY <2>3 DEF Open
  <2>4. CASE RequestUnheard \/ Lose \/ UNCHANGED vars
    BY <2>1, <2>4 DEF RequestUnheard, Lose, vars
  <2>5. CASE SendRecvPacket
    BY <2>2, <2>5 DEF SendRecvPacket, Drain, SelectFails, GiveUp, SendTo, SendInterrupted,
                      SendFails, TimeOut, Receive, Return, Sending
  <2>6. CASE ProbeReturns \/ (pc = "answered" /\ \E ok : Finish(ok))
    BY <2>3, <2>6 DEF ProbeReturns, Finish
  <2>7. CASE ConnectReliable \/ EstablishArm \/ ArmReturns \/ ResetReturns
             \/ Close \/ DisconnectReturns
    BY <2>3, <2>7 DEF ConnectReliable, EstablishArm, ArmReturns, ResetReturns, Close,
                      DisconnectReturns, Quits, Call, NextTry, NextPort, IsAccess
  <2> QED
    BY <2>4, <2>5, <2>6, <2>7
<1> QED
  BY <1>1, <1>2 DEF Port_!vars

LEMMA OperationIsPromised ==
  ASSUME IInv,
         \/ Operate \/ OnlyReadReturns \/ FirstReadGoesOn \/ FirstReadFails
         \/ SecondReadReturns \/ WriteReturns \/ SendTcpResetReturns
         \/ OpenTcpConnects \/ OpenTcpAgain
  PROVE  [Port_!Next]_(Port_!vars)
<1>1. CASE Close \/ (pc = "answered" /\ \E ok : Finish(ok))
  BY <1>1, OtherStepsAreSilent
<1>2. CASE /\ pc \in {"ready", "answered"}
           /\ \E c \in {"only read", "first read", "second read", "write", "tcp reset", "open tcp"},
                 items \in Seq(Item) : Another(c, items)
  <2>1. PICK c \in {"only read", "first read", "second read", "write", "tcp reset", "open tcp"},
             items \in Seq(Item) : Another(c, items)
    BY <1>2
  <2>2. ~ Open
    BY <1>2 DEF Open
  <2>3. SendRecvRegacc(c, send.port, sequence_number, items)
    BY <2>1 DEF Another
  <2> QED
    BY <2>2, <2>3, BeginIsPromised
<1>3. SAFE_READ_ADDRESS \in Addr /\ Used \subseteq Addr
  BY FnetAssumption
<1> QED
  BY <1>1, <1>2, <1>3, ItemsOfAccesses
     DEF Operate, OnlyReadReturns, FirstReadGoesOn, FirstReadFails, SecondReadReturns,
         WriteReturns, SendTcpResetReturns, OpenTcpConnects, OpenTcpAgain, ReadOnce,
         DoubleReadAddr, WriteAddr, SendTcpReset, OpenTcp, Idle, Answer, FirstAddress

LEMMA NextIsPromised ==
  ASSUME IInv, [Next]_vars
  PROVE  [Port_!Next]_(Port_!vars)
<1>1. CASE UNCHANGED vars \/ SendRecvPacket
  BY <1>1, OtherStepsAreSilent
<1>2. CASE Network
  BY <1>2, ArrivalIsPromised, OtherStepsAreSilent DEF Network
<1>3. CASE ConnectIdempotent
  <2>1. ~ Open /\ SendRecvRegacc("probe", 0, -1, << >>)
    BY <1>3 DEF ConnectIdempotent, Open
  <2> QED
    BY <2>1, EmptySeq, BeginIsPromised
<1>4. CASE Connect /\ ~ ConnectIdempotent
  BY <1>4, OtherStepsAreSilent DEF Connect
<1>5. CASE Operate
  BY <1>5, OperationIsPromised
<1>6. CASE Continue
  BY <1>6, ReturnIsPromised, OperationIsPromised, OtherStepsAreSilent DEF Continue
<1> QED
  BY <1>1, <1>2, <1>3, <1>4, <1>5, <1>6 DEF Next

\* The client implements RegisterPort: an access that succeeds has been
\* performed, or an access to the same addresses has, which failed and since
\* which none succeeded; for every loss, repetition, delay and order of
\* packets (fnet_client.c:238-320, 411-574).
THEOREM AtLeastOnceHolds == Spec /\ []Timely => AtLeastOnce
<1>1. Init => Port_!Init
  BY DEF Init, Port_!Init, Open
<1>2. IInv /\ [Next]_vars => [Port_!Next]_(Port_!vars)
  BY NextIsPromised
<1> QED
  BY <1>1, <1>2, MatchingInv, PTL DEF Spec, AtLeastOnce, Port_!Spec

\* No network is too slow for a client of at most 4096 accesses: for those
\* both hold of everything that the network may do.
THEOREM FirstAccesses ==
  Spec /\ [](Len(accesses) <= 4096) => []AnswerIsMine /\ AtLeastOnce
<1> DEFINE Short == Len(accesses) <= 4096
<1>1. ASSUME IInv, Short
      PROVE  Timely
  <2>1. Len(accesses) \in Nat /\ answers \in Seq(Packet)
    BY <1>1 DEF IInv, Types
  <2>2. ASSUME NEW i \in DOMAIN answers, answers[i].call > 0
        PROVE  Len(accesses) - answers[i].call < 4096
    <3>1. answers[i] \in Packet
      BY <2>1, <2>2, ElementOfSeq, LenProperties
    <3>2. answers[i].call \in Nat
      BY <3>1 DEF Packet
    <3> QED
      BY <1>1, <2>1, <2>2, <3>2
  <2> QED
    BY <2>2 DEF Timely
<1>2. Spec /\ []Short => []Timely
  BY <1>1, Initially, NextInv, PTL DEF Spec
<1> QED
  BY <1>2, AnswerIsMineHolds, AtLeastOnceHolds, PTL
-----------------------------------------------------------------------------
(* Exactly once.                                                           *)
(*                                                                         *)
(* A reliable channel tells requests by the 8 bits of Sequence, so more is *)
(* asked of the network than above: `Recent' says that nothing is under    *)
(* way that was sent for an access made 254 accesses ago.                  *)

Recent ==
  /\ \A i \in DOMAIN requests :
       requests[i].call > 0 => Len(accesses) - requests[i].call < 254
  /\ \A i \in DOMAIN answers :
       answers[i].call > 0 => Len(accesses) - answers[i].call < 254

\* What the channel in use has answered last.
Mine == channels[send.port].last

\* q is about an access that has, or had, the number that is used now.
Current(q) == q.call > 0 /\ q.word = AccessWord(sequence_number)

\* The channel has spent the number that is used now on access k.
SpentOn(k) == Current(Mine) /\ Mine.call = k

\* A request whose access was performed under the number that is used now has
\* spent it; before the first access is performed all have the same number.
OnceRequest ==
  {q \in Request :
     q.call > 0 => /\ q.port = send.port
                   /\ Mine.call = 0 => Current(q)
                   /\ Current(q) /\ performed[q.call] > 0 => SpentOn(q.call)}

OnceReply == {q \in Packet : Current(q) => SpentOn(q.call)}

\* The channel expects the number that is used now, or the next one; nothing
\* was performed twice, and no number was spent on two accesses.
InStep ==
  /\ send.port \in Channel
  /\ \A i \in 1 .. Len(accesses) : performed[i] \in 0 .. 1
  /\ Mine.call = 0 => \A i \in 1 .. Len(accesses) : performed[i] = 0
  /\ Mine.call > 0 =>
       /\ channels[send.port].active
       /\ channels[send.port].expected = (Mine.word + 1) % 256
       /\ Mine.word \in {AccessWord(sequence_number), AccessWord(sequence_number - 1)}
  /\ requests \in Seq(OnceRequest) /\ answers \in Seq(OnceReply)
  /\ Open => send \in OnceRequest
  /\ Succeeded => Current(recv) /\ SpentOn(recv.call)

OnceInv == config.reliable /\ pc \notin {"closed", "establish"} => InStep

-----------------------------------------------------------------------------

\* A new number has not the word of one of those before it.
LEMMA WordsDiffer ==
  ASSUME NEW n \in Int, NEW m \in Int, n <= m, m - n <= 254
  PROVE  /\ AccessWord(m) /= AccessWord(m - 1)
         /\ AccessWord(n) /= AccessWord(m + 1)
  BY SMTT(30) DEF AccessWord

LEMMA RequestsByCall ==
  ASSUME IInv, NEW q \in Request
  PROVE  /\ q \in Packet /\ q.call \in 0 .. Len(accesses) /\ q.word \in Nat
         /\ q.call = 0 <=> q.word >= 4096
         /\ q.call > 0 => Numbered(q)
<1>1. q \in Packet /\ q.word \in Nat /\ Len(accesses) \in Nat
  BY DEF Request, Packet, IInv, Types
<1>2. CASE q.call = 0 /\ q.word >= 4096
  BY <1>1, <1>2
<1>3. CASE q.call \in 1 .. Len(accesses) /\ Numbered(q)
  <2>1. PICK n \in -1 .. sequence_number : q.word = AccessWord(n)
    BY <1>3 DEF Numbered
  <2>2. q.word < 4096
    BY <2>1, AccessWords DEF IInv, Types
  <2> QED
    BY <1>1, <1>3, <2>2
<1> QED
  BY <1>2, <1>3 DEF Request

LEMMA MineIsReply ==
  ASSUME IInv, send.port \in Channel
  PROVE  /\ Mine \in Packet /\ Mine.word \in Nat
         /\ Mine.call \in 0 .. Len(accesses)
         /\ Mine.call > 0 => performed[Mine.call] > 0
<1>1. Mine \in Reply \/ Mine = NoAnswer
  BY DEF IInv, UnderWay, Mine
<1>2. CASE Mine \in Reply
  BY <1>2, RequestsByCall DEF Reply
<1>3. CASE Mine = NoAnswer
  BY <1>3, EmptySeq DEF NoAnswer, Packet, IInv, Types
<1> QED
  BY <1>1, <1>2, <1>3

\* Before the first access there is nothing to count.
LEMMA InStepAtFirst ==
  IInv /\ accesses = << >> /\ send.port \in Channel => InStep
<1> SUFFICES ASSUME IInv, accesses = << >>, send.port \in Channel
             PROVE  InStep
  OBVIOUS
<1>1. Len(accesses) = 0
  BY EmptySeq
<1>2. Mine.call = 0
  BY <1>1, MineIsReply
<1>3. ASSUME NEW q \in Request
      PROVE  q \in OnceRequest /\ q \in OnceReply
  BY <1>1, <1>3, RequestsByCall DEF OnceRequest, OnceReply, Current
<1>4. requests \in Seq(OnceRequest) /\ answers \in Seq(OnceReply)
  <2>1. Request \subseteq OnceRequest /\ Reply \subseteq OnceReply
    BY <1>3, SequencesOfPackets
  <2> QED
    BY <2>1, SeqMonotonic DEF IInv, UnderWay
<1>5. ~ Open /\ ~ Succeeded
  <2>1. ~ (Len(accesses) > 0)
    BY <1>1
  <2> QED
    BY <2>1 DEF IInv, CurrentCall, Succeeded
<1> QED
  BY <1>1, <1>2, <1>4, <1>5 DEF InStep

-----------------------------------------------------------------------------
(* The steps of the network and of the client *)

\* A step that leaves the channel, the numbers and the accesses alone.
LEMMA InStepCarried ==
  ASSUME IInv, InStep,
         UNCHANGED <<sequence_number, accesses, failed, performed, channels>>,
         send'.port = send.port, Open' => Open /\ send' = send,
         Returned' = Returned,
         requests' \in Seq(OnceRequest), answers' \in Seq(OnceReply),
         Succeeded' => (Current(recv) /\ SpentOn(recv.call))'
  PROVE  InStep'
<1>1. Mine' = Mine
  BY DEF Mine
<1>2. \A q : (Current(q)' <=> Current(q)) /\ (SpentOn(q.call)' <=> SpentOn(q.call))
  BY <1>1 DEF Current, SpentOn
<1>3. Request \subseteq Request'
  BY UnderWayKept, NumberedStays DEF IInv, Types
<1>4. OnceRequest \subseteq OnceRequest'
  BY <1>1, <1>2, <1>3 DEF OnceRequest
<1>5. OnceReply \subseteq OnceReply'
  BY <1>2 DEF OnceReply
<1>6. requests' \in Seq(OnceRequest') /\ answers' \in Seq(OnceReply')
  BY <1>4, <1>5, SeqMonotonic
<1>7. Open' => send' \in OnceRequest'
  BY <1>4 DEF InStep
<1> QED
  BY <1>1, <1>6, <1>7 DEF InStep
-----------------------------------------------------------------------------

\* What a request that is not performed leaves as it was: the channel in use
\* may be reset only while nothing was performed.
ServedQuietly ==
  /\ UNCHANGED performed
  /\ \/ Mine' = Mine /\ channels'[send.port].active = channels[send.port].active
        /\ channels'[send.port].expected = channels[send.port].expected
     \/ Mine.call = 0 /\ Mine'.call = 0
  /\ \/ answers' = answers
     \/ \E r : (r.call = 0 \/ r = Mine) /\ answers' = Append(answers, r)

\* And how one is performed.
ServedNow(q) ==
  /\ q.call > 0 /\ q.port = send.port
  /\ Sequence(q.word) = channels[send.port].expected
  /\ performed' = [performed EXCEPT ![q.call] = @ + 1]
  /\ Mine' = AnswerTo(q)
  /\ channels'[send.port].active
  /\ channels'[send.port].expected = (channels[send.port].expected + 1) % 256
  /\ answers' = Append(answers, AnswerTo(q))

LEMMA ServedOnceInStep ==
  ASSUME IInv, InStep, UNCHANGED send, NEW q \in OnceRequest, PerformOnce(q)
  PROVE  ServedQuietly \/ ServedNow(q)
<1>1. /\ q \in Packet /\ q.port \in Channel /\ q.call > 0 /\ q.port = send.port
      /\ channels \in [Channel -> ChannelState]
  <2>1. q \in Request /\ q.port \in Channel /\ (q.call > 0 => q.port = send.port)
    BY DEF OnceRequest, PerformOnce
  <2>2. channels \in [Channel -> ChannelState]
    BY DEF IInv, Types
  <2>3. q \in Packet
    BY <2>1, RequestsByCall
  <2>4. q.call > 0
    BY <2>3 DEF PerformOnce, Packet
  <2> QED
    BY <2>1, <2>2, <2>3, <2>4
<1>2. CASE channels[q.port].connected /\ Sequence(q.word) = channels[q.port].expected
  <2>1. /\ Perform(q) /\ answers' = Append(answers, AnswerTo(q))
        /\ channels' = [channels EXCEPT ![q.port] =
             [channels[q.port] EXCEPT !.last = AnswerTo(q), !.active = TRUE,
                !.expected = (channels[q.port].expected + 1) % 256]]
    BY <1>2, ZenonT(60) DEF PerformOnce, Say
  <2>2. channels'[q.port] = [channels[q.port] EXCEPT !.last = AnswerTo(q), !.active = TRUE,
                !.expected = (channels[q.port].expected + 1) % 256]
    BY <1>1, <2>1
  <2>3. channels[q.port] \in ChannelState
    BY <1>1
  <2>4. /\ channels'[q.port].last = AnswerTo(q) /\ channels'[q.port].active
        /\ channels'[q.port].expected = (channels[q.port].expected + 1) % 256
    BY <2>2, <2>3 DEF ChannelState
  <2> QED
    BY <1>1, <1>2, <2>1, <2>4 DEF ServedNow, Perform, Mine
<1>3. CASE ~ (channels[q.port].connected /\ Sequence(q.word) = channels[q.port].expected)
  <2>1. UNCHANGED <<performed, channels>>
    BY <1>3 DEF PerformOnce
  <2>2. answers' = answers \/ answers' = Append(answers, Mine)
    BY <1>1, <1>3 DEF PerformOnce, Say, Mine
  <2> QED
    BY <2>1, <2>2, MineIsReply DEF ServedQuietly, Mine, InStep
<1> QED
  BY <1>2, <1>3

LEMMA ServedOtherwiseInStep ==
  ASSUME IInv, InStep, UNCHANGED send, NEW q \in OnceRequest,
         Arm(q) \/ Reset(q) \/ Disconnect(q)
  PROVE  ServedQuietly
<1>1. q \in Request /\ q \in Packet /\ q.word \in Nat /\ (q.call = 0 <=> q.word >= 4096)
  BY RequestsByCall DEF OnceRequest
<1>2. q.port \in Channel /\ UNCHANGED performed /\ TopBits(q.word) /= 0
  BY DEF Arm, Reset, Disconnect, TopBits, RESET_ARM, RESET, DISCONNECT
<1>3. q.call = 0
  BY <1>1, <1>2 DEF TopBits
<1>4. channels \in [Channel -> ChannelState] /\ send.port \in Channel
  BY DEF IInv, Types, InStep
<1> DEFINE c == channels[q.port]
<1>5. c \in ChannelState
  BY <1>2, <1>4
<1>6. \E d : /\ channels' = [channels EXCEPT ![q.port] = d]
             /\ \/ d.last = c.last /\ d.active = c.active /\ d.expected = c.expected
                \/ ~ c.active /\ d.last = NoAnswer
  <2>1. CASE Arm(q)
    <3>1. CASE UNCHANGED channels
      <4>1. channels' = [channels EXCEPT ![q.port] = c]
        BY <1>4, <3>1
      <4> QED
        BY <4>1
    <3>2. CASE \E n \in ArmNumbers : channels' = [channels EXCEPT ![q.port] = [c EXCEPT !.armed = n]]
      <4>1. PICK n : channels' = [channels EXCEPT ![q.port] = [c EXCEPT !.armed = n]]
        BY <3>2
      <4> DEFINE d == [c EXCEPT !.armed = n]
      <4>2. d.last = c.last /\ d.active = c.active /\ d.expected = c.expected
        BY <1>5 DEF ChannelState
      <4>3. channels' = [channels EXCEPT ![q.port] = d]
        BY <4>1
      <4> HIDE DEF d, c
      <4> QED
        BY <4>2, <4>3
    <3>3. UNCHANGED channels
          \/ \E n \in ArmNumbers : channels' = [channels EXCEPT ![q.port] = [c EXCEPT !.armed = n]]
      BY <2>1 DEF Arm
    <3> QED
      BY <3>1, <3>2, <3>3
  <2>2. CASE Reset(q)
    <3> DEFINE d == [c EXCEPT !.connected = TRUE, !.expected = FirstNumber(Sequence(q.word)),
                              !.last = NoAnswer]
    <3>1. CASE UNCHANGED channels
      <4>1. channels' = [channels EXCEPT ![q.port] = c]
        BY <1>4, <3>1
      <4> QED
        BY <4>1
    <3>2. CASE ~ c.active /\ channels' = [channels EXCEPT ![q.port] = d]
      <4>1. d.last = NoAnswer
        BY <1>5 DEF ChannelState
      <4> HIDE DEF d, c
      <4> QED
        BY <3>2, <4>1
    <3>3. UNCHANGED channels \/ (~ c.active /\ channels' = [channels EXCEPT ![q.port] = d])
      <4>1. CASE ~ channels[q.port].active /\ channels[q.port].armed = Sequence(q.word)
        <5>1. channels' = [channels EXCEPT ![q.port].connected = TRUE,
                            ![q.port].expected = FirstNumber(Sequence(q.word)),
                            ![q.port].last = NoAnswer]
          BY <2>2, <4>1 DEF Reset
        <5>2. channels' = [channels EXCEPT ![q.port] = d]
          BY <5>1
        <5> QED
          BY <4>1, <5>2
      <4>2. CASE ~ (~ channels[q.port].active /\ channels[q.port].armed = Sequence(q.word))
        BY <2>2, <4>2 DEF Reset
      <4> QED
        BY <4>1, <4>2
    <3> QED
      BY <3>1, <3>2, <3>3
  <2>3. CASE Disconnect(q)
    <3>1. channels' = [channels EXCEPT ![q.port] = [c EXCEPT !.connected = FALSE]]
      BY <2>3 DEF Disconnect
    <3>2. [c EXCEPT !.connected = FALSE].last = c.last
          /\ [c EXCEPT !.connected = FALSE].active = c.active
          /\ [c EXCEPT !.connected = FALSE].expected = c.expected
      BY <1>5 DEF ChannelState
    <3> QED
      BY <3>1, <3>2
  <2> QED
    BY <2>1, <2>2, <2>3
<1>7. \/ Mine' = Mine /\ channels'[send.port].active = channels[send.port].active
         /\ channels'[send.port].expected = channels[send.port].expected
      \/ Mine.call = 0 /\ Mine'.call = 0
  <2>1. Mine.call > 0 => channels[send.port].active
    BY DEF InStep
  <2>2. Mine.call = 0 \/ Mine.call > 0
    BY <1>4, MineIsReply
  <2>3. NoAnswer.call = 0
    BY DEF NoAnswer
  <2> QED
    BY <1>2, <1>4, <1>6, <2>1, <2>2, <2>3 DEF Mine
<1>8. \E r : r.call = 0 /\ answers' = Append(answers, r)
  <2>1. q = [q EXCEPT !.word = q.word]
    BY <1>1 DEF Packet
  <2>2. PICK w : answers' = Append(answers, [q EXCEPT !.word = w])
    <3>1. CASE Arm(q)
      <4> DEFINE v == RESET_ARM + (IF c.connected THEN CONNECTED ELSE 0)
      <4>1. CASE c.active
        <5>1. answers' = Append(answers, [q EXCEPT !.word = v + 256 * (15 - UserCode(q.word))])
          BY <3>1, <4>1 DEF Arm, Say
        <5> QED
          BY <5>1
      <4>2. CASE ~ c.active
        <5>1. PICK n \in ArmNumbers :
                answers' = Append(answers, [q EXCEPT !.word = v + 256 * UserCode(q.word) + n])
          BY <3>1, <4>2 DEF Arm, Say
        <5> QED
          BY <5>1
      <4> QED
        BY <4>1, <4>2
    <3>2. CASE Reset(q)
      <4>1. PICK v : v = 65535 - (q.word % 4)
        OBVIOUS
      <4>2. \/ answers' = Append(answers, q)
            \/ answers' = Append(answers, [q EXCEPT !.word = v])
        BY <3>2, <4>1 DEF Reset, Say
      <4>3. CASE answers' = Append(answers, q)
        BY <2>1, <4>3
      <4>4. CASE answers' = Append(answers, [q EXCEPT !.word = v])
        BY <4>4
      <4> QED
        BY <4>2, <4>3, <4>4
    <3>3. CASE Disconnect(q)
      <4>1. answers' = Append(answers, q)
        BY <3>3 DEF Disconnect, Say
      <4> QED
        BY <2>1, <4>1
    <3> QED
      BY <3>1, <3>2, <3>3
  <2>3. [q EXCEPT !.word = w].call = 0
    BY <1>1, <1>3 DEF Packet
  <2> QED
    BY <2>2, <2>3
<1> QED
  BY <1>2, <1>7, <1>8 DEF ServedQuietly

\* Only a request with the number that is used now is performed, and only if
\* that number has not been spent.
LEMMA NumberIsCurrent ==
  ASSUME IInv, InStep, NEW q \in OnceRequest, q.call > 0,
         Len(accesses) - q.call < 254,
         Sequence(q.word) = channels[send.port].expected
  PROVE  Current(q) /\ ~ Current(Mine) /\ performed[q.call] = 0
<1>1. /\ q \in Request /\ q.call \in 1 .. Len(accesses) /\ Len(accesses) \in Nat
      /\ Numbered(q) /\ sequence_number \in Int
      /\ Returned \in {Len(accesses), Len(accesses) - 1}
  BY RequestsByCall DEF OnceRequest, IInv, Types, Returned
<1>2. Current(q) /\ ~ Current(Mine)
  <2>1. CASE Mine.call = 0
    BY <2>1 DEF OnceRequest, Current
  <2>2. CASE Mine.call > 0
    <3>1. PICK n \in -1 .. sequence_number :
            /\ q.word = AccessWord(n)
            /\ sequence_number - n <= Returned - q.call + 1
      BY <1>1 DEF Numbered
    <3>2. n \in Int /\ n <= sequence_number /\ sequence_number - n <= 254
      BY <1>1, <3>1
    <3>3. /\ Sequence(AccessWord(n)) = (Mine.word + 1) % 256
          /\ Mine.word \in {AccessWord(sequence_number), AccessWord(sequence_number - 1)}
      BY <2>2, <3>1 DEF InStep
    <3>4. Mine.word = AccessWord(sequence_number - 1) /\ n = sequence_number
      <4>1. /\ Sequence(AccessWord(n)) /= (AccessWord(sequence_number) + 1) % 256
            /\ Sequence(AccessWord(n)) = (AccessWord(sequence_number - 1) + 1) % 256
               => n = sequence_number
        <5>1. PICK m \in Int : m = sequence_number
          BY <1>1
        <5>2. n \in Int /\ n <= m /\ m - n <= 254
          BY <3>2, <5>1
        <5>3. /\ Sequence(AccessWord(n)) /= (AccessWord(m) + 1) % 256
              /\ Sequence(AccessWord(n)) = (AccessWord(m - 1) + 1) % 256 => n = m
          BY <5>2, SMTT(30) DEF AccessWord, Sequence
        <5> QED
          BY <5>1, <5>3
      <4> QED
        BY <3>3, <4>1, Zenon
    <3>5. Mine.word /= AccessWord(sequence_number)
      BY <1>1, <3>2, <3>4, WordsDiffer
    <3> QED
      BY <1>1, <3>1, <3>4, <3>5 DEF Current
  <2> QED
    BY <2>1, <2>2, MineIsReply DEF InStep
<1>3. ~ (performed[q.call] > 0)
  BY <1>1, <1>2 DEF OnceRequest, SpentOn
<1> QED
  BY <1>1, <1>2, <1>3 DEF InStep

LEMMA QuietInStep ==
  ASSUME IInv, IInv', InStep, ServedQuietly, Open' = Open,
         UNCHANGED <<pc, caller, ret, recv, send, sequence_number, accesses, failed>>,
         requests' \in Seq(OnceRequest)
  PROVE  InStep'
<1>1. Request \subseteq Request'
  BY QuietStep DEF IInv, ServedQuietly
<1>2. \A q : Current(q)' <=> Current(q)
  BY DEF Current
<1>3. \A k : SpentOn(k)' <=> SpentOn(k)
  BY <1>2 DEF SpentOn, ServedQuietly, Current
<1>4. Mine'.call = 0 <=> Mine.call = 0
  BY DEF ServedQuietly
<1>5. OnceRequest \subseteq OnceRequest'
  BY <1>1, <1>2, <1>3, <1>4 DEF OnceRequest, ServedQuietly
<1>6. OnceReply \subseteq OnceReply'
  BY <1>2, <1>3 DEF OnceReply
<1>7. answers' \in Seq(OnceReply)
  <2>1. CASE answers' = answers
    BY <2>1 DEF InStep
  <2>2. CASE \E r : (r.call = 0 \/ r = Mine) /\ answers' = Append(answers, r)
    <3>1. PICK r : (r.call = 0 \/ r = Mine) /\ answers' = Append(answers, r)
      BY <2>2
    <3>2. answers \in Seq(OnceReply) /\ answers \in Seq(OnceReply \cup {r})
      BY SeqMonotonic DEF InStep
    <3>3. Len(answers') = Len(answers) + 1 /\ answers'[Len(answers) + 1] = r
      BY <3>1, <3>2, AppendProperties
    <3>4. answers' \in Seq(Packet)
      BY DEF IInv, Types
    <3>5. r \in Packet
      BY <3>2, <3>3, <3>4, LenProperties, ElementOfSeq
    <3>6. r \in OnceReply
      BY <3>1, <3>5 DEF OnceReply, Current, SpentOn
    <3> QED
      BY <3>1, <3>2, <3>6, AppendProperties
  <2> QED
    BY <2>1, <2>2 DEF ServedQuietly
<1>8. requests' \in Seq(OnceRequest') /\ answers' \in Seq(OnceReply')
  BY <1>5, <1>6, <1>7, SeqMonotonic
<1>9. Open' => send' \in OnceRequest'
  BY <1>5 DEF InStep
<1>10. Succeeded' => (Current(recv) /\ SpentOn(recv.call))'
  <2>1. Succeeded' = Succeeded
    BY DEF Succeeded
  <2> QED
    BY <1>2, <1>3, <2>1 DEF InStep
<1>11. Mine'.call > 0 => Mine' = Mine
  BY DEF ServedQuietly
<1>12. Mine.call \in Nat
  BY MineIsReply DEF InStep
<1> QED
  BY <1>4, <1>8, <1>9, <1>10, <1>11, <1>12 DEF InStep, ServedQuietly

LEMMA PerformInStep ==
  ASSUME IInv, IInv', InStep, NEW q \in OnceRequest, ServedNow(q), Open' = Open,
         Len(accesses) - q.call < 254,
         UNCHANGED <<pc, caller, ret, recv, send, sequence_number, accesses, failed>>,
         requests' \in Seq(OnceRequest)
  PROVE  InStep'
<1>1. Current(q) /\ ~ Current(Mine) /\ performed[q.call] = 0
  BY NumberIsCurrent DEF ServedNow
<1>2. /\ q \in Packet /\ q.call \in 1 .. Len(accesses) /\ Len(accesses) \in Nat
      /\ performed \in Seq(Nat) /\ Len(performed) = Len(accesses)
      /\ sequence_number \in Int
  <2>1. q \in Request /\ q.call > 0
    BY DEF OnceRequest, ServedNow
  <2>2. q \in Packet /\ q.call \in 0 .. Len(accesses)
    BY <2>1, RequestsByCall
  <2>3. /\ performed \in Seq(Nat) /\ Len(performed) = Len(accesses)
        /\ sequence_number \in Int /\ Len(accesses) \in Nat
    BY DEF IInv, Types
  <2> QED
    BY <2>1, <2>2, <2>3
<1>3. \A i \in 1 .. Len(accesses) :
        performed'[i] = IF i = q.call THEN 1 ELSE performed[i]
  <2>1. performed' = [performed EXCEPT ![q.call] = 1]
    BY <1>1 DEF ServedNow
  <2> QED
    BY <1>2, <2>1, ExceptSeq
<1>4. /\ Mine' \in Packet /\ Mine'.call = q.call /\ Mine'.word = q.word
      /\ AnswerTo(q) \in Packet
  BY <1>2, TypeOfAnswer DEF ServedNow, IInv
<1>5. \A r : Current(r)' <=> Current(r)
  BY DEF Current
<1>6. SpentOn(q.call)' /\ Current(Mine')
  BY <1>1, <1>4, <1>5 DEF SpentOn, Current
<1>7. Request \subseteq Request'
  <2>1. \A i \in 1 .. Len(accesses) : performed[i] > 0 => performed'[i] > 0
    BY <1>3
  <2> QED
    BY <2>1, QuietStep DEF IInv
<1>8. ASSUME NEW r \in OnceRequest
      PROVE  r \in OnceRequest'
  <2> SUFFICES ASSUME r.call > 0
               PROVE  /\ r.port = send'.port
                      /\ Mine'.call /= 0
                      /\ Current(r)' /\ performed'[r.call] > 0 => SpentOn(r.call)'
    BY <1>7 DEF OnceRequest
  <2>1. r.call \in 1 .. Len(accesses) /\ r.port = send.port
    BY RequestsByCall, <1>2 DEF OnceRequest
  <2>2. ASSUME Current(r), performed'[r.call] > 0
        PROVE  r.call = q.call
    <3>1. CASE r.call /= q.call
      <4>1. performed[r.call] > 0
        BY <1>3, <2>1, <2>2, <3>1
      <4> QED
        BY <1>1, <2>2, <4>1 DEF OnceRequest, SpentOn
    <3> QED
      BY <3>1
  <2> QED
    BY <1>2, <1>4, <1>5, <1>6, <2>1, <2>2
<1>9. ASSUME NEW r \in OnceReply
      PROVE  r \in OnceReply'
  BY <1>1, <1>5, <1>9 DEF OnceReply, SpentOn
<1>10. AnswerTo(q) \in OnceReply'
  BY <1>4, <1>6, <1>2, TypeOfAnswer DEF OnceReply, IInv
<1>11. requests' \in Seq(OnceRequest') /\ answers' \in Seq(OnceReply')
  <2>1. requests' \in Seq(OnceRequest') /\ answers \in Seq(OnceReply')
    <3>1. OnceRequest \subseteq OnceRequest' /\ OnceReply \subseteq OnceReply'
      BY <1>8, <1>9
    <3> QED
      BY <3>1, SeqMonotonic DEF InStep
  <2> QED
    BY <1>10, <2>1, AppendProperties DEF ServedNow
<1>12. Open' => send' \in OnceRequest'
  BY <1>8 DEF InStep
<1>13. ~ Succeeded'
  <2>1. Succeeded' = Succeeded
    BY DEF Succeeded
  <2> QED
    BY <1>1, <2>1 DEF InStep, SpentOn
<1>14. channels'[send.port].expected = (Mine'.word + 1) % 256
  <2>1. channels'[send.port].expected = ((q.word % 256) + 1) % 256
    BY DEF ServedNow, Sequence
  <2>2. q.word \in Nat
    BY <1>2 DEF Packet
  <2>3. ((q.word % 256) + 1) % 256 = (q.word + 1) % 256
    BY <2>2
  <2> QED
    BY <1>4, <2>1, <2>3
<1>15. Mine'.word = AccessWord(sequence_number)
  BY <1>1, <1>4 DEF Current
<1>16. \A i \in 1 .. Len(accesses) : performed'[i] \in 0 .. 1
  BY <1>3 DEF InStep
<1>17. Mine'.call /= 0
  BY <1>2, <1>4
<1> QED
  BY <1>11, <1>12, <1>13, <1>14, <1>15, <1>16, <1>17 DEF InStep, ServedNow

LEMMA ArrivalInStep ==
  ASSUME IInv, IInv', InStep, Recent, RequestArrives
  PROVE  InStep'
<1>1. PICK i \in 1 .. Len(requests) :
        /\ Serve(requests[i])
        /\ \/ requests' = Tail(requests)
           \/ requests' = RemoveAt(requests, i)
           \/ requests' = requests
  <2>1. requests \in Seq(Packet)
    BY DEF IInv, Types
  <2>2. requests /= << >> => Len(requests) \in Nat \ {0}
    BY <2>1, EmptySeq
  <2> QED
    BY <2>2 DEF RequestArrives
<1>2. /\ UNCHANGED <<pc, caller, ret, recv, send, sequence_number, accesses, failed>>
      /\ Open' = Open
  BY DEF RequestArrives, calls, Open, IsAccess
<1>3. requests[i] \in OnceRequest /\ requests' \in Seq(OnceRequest)
  BY <1>1, PartsOfSequence DEF InStep
<1>4. PICK q \in OnceRequest : q = requests[i]
  BY <1>3
<1>5. q.call > 0 => Len(accesses) - q.call < 254
  BY <1>1, <1>4, LenProperties DEF Recent, InStep
<1>6. ServedQuietly \/ ServedNow(q)
  <2>1. ~ PerformIdempotent(q)
    <3>1. q.call \in Nat
      BY RequestsByCall DEF OnceRequest
    <3> QED
      BY <3>1 DEF PerformIdempotent, OnceRequest, InStep, Channel
  <2> QED
    BY <1>1, <1>2, <1>4, <2>1, ServedOnceInStep, ServedOtherwiseInStep DEF Serve
<1>7. CASE ServedQuietly
  BY <1>2, <1>3, <1>7, QuietInStep
<1>8. CASE ServedNow(q)
  BY <1>2, <1>3, <1>5, <1>8, PerformInStep DEF ServedNow
<1> QED
  BY <1>6, <1>7, <1>8

-----------------------------------------------------------------------------
(* The steps of the client *)

\* The packet that is sent again is that of the access, or of no access.
LEMMA SentInStep ==
  ASSUME IInv, InStep, Sending
  PROVE  send \in OnceRequest
<1>1. CASE Open
  BY <1>1 DEF InStep
<1>2. CASE ~ Open
  <2>1. send.call = 0
    BY <1>2 DEF IInv, CurrentCall, Open, Sending
  <2> QED
    BY <2>1, SendIsRequest DEF OnceRequest
<1> QED
  BY <1>1, <1>2

LEMMA PartsInStep ==
  ASSUME InStep, NEW i \in 1 .. Len(answers)
  PROVE  /\ RemoveAt(answers, i) \in Seq(OnceReply)
         /\ <<answers[i]>> \o RemoveAt(answers, i) \in Seq(OnceReply)
         /\ SubSeq(answers, i + 1, Len(answers)) \in Seq(OnceReply)
         /\ Tail(answers) \in Seq(OnceReply)
<1>1. answers \in Seq(OnceReply)
  BY DEF InStep
<1> QED
  BY <1>1, PartsOfSequence, SubSeqProperties, ElementOfSeq, LenProperties

\* The steps that pass packets on, lose them, or go somewhere else.
LEMMA PassingInStep ==
  ASSUME IInv, InStep,
         \/ RequestUnheard \/ Lose \/ Drain \/ SelectFails \/ GiveUp \/ SendTo
         \/ SendInterrupted \/ SendFails \/ TimeOut \/ UNCHANGED vars
         \/ (pc = "answered" /\ \E ok : Finish(ok))
         \/ Close \/ DisconnectReturns
  PROVE  InStep'
<1> DEFINE Waits == SelectFails \/ GiveUp \/ SendTo \/ SendInterrupted \/ SendFails \/ TimeOut
           Net   == RequestUnheard \/ Lose \/ UNCHANGED vars
           Else  == (pc = "answered" /\ \E ok : Finish(ok)) \/ Close \/ DisconnectReturns
<1>1. UNCHANGED <<sequence_number, accesses, failed, performed, channels>>
  <2>1. CASE Net
    BY <2>1 DEF RequestUnheard, Lose, vars, board, calls
  <2>2. CASE Drain \/ Waits
    BY <2>2 DEF Drain, SelectFails, GiveUp, SendTo, SendInterrupted, SendFails, TimeOut,
                board, calls
  <2>3. CASE Else
    BY <2>3 DEF Finish, Close, DisconnectReturns, Unchanged, board
  <2> QED
    BY <2>1, <2>2, <2>3
<1>2. /\ send'.port = send.port /\ (Open' => Open /\ send' = send) /\ Open' = Open
      /\ Succeeded' => Succeeded /\ recv' = recv
  <2>1. CASE Net
    BY <2>1 DEF RequestUnheard, Lose, vars, Open, IsAccess, Succeeded
  <2>2. CASE Drain
    BY <2>2 DEF Drain, Open, IsAccess, Succeeded
  <2>3. CASE Waits
    <3>1. pc' = "returned" => ret' /= 1
      BY <2>3 DEF SelectFails, GiveUp, SendTo, SendInterrupted, SendFails, TimeOut, Return
    <3> QED
      BY <2>3, <3>1 DEF SelectFails, GiveUp, SendTo, SendInterrupted, SendFails, TimeOut,
                Return, Open, IsAccess, Succeeded
  <2>4. CASE pc = "answered" /\ \E ok : Finish(ok)
    BY <2>4 DEF Finish, Open, Succeeded
  <2>5. CASE Close \/ DisconnectReturns
    BY <2>5 DEF Close, DisconnectReturns, Call, Quits, Open, IsAccess, Succeeded
  <2> QED
    BY <2>1, <2>2, <2>3, <2>4, <2>5
<1>3. requests \in Seq(OnceRequest) /\ answers \in Seq(OnceReply)
      /\ Len(answers) \in Nat
  BY LenProperties DEF InStep
<1>4. requests' \in Seq(OnceRequest)
  <2>1. CASE RequestUnheard
    <3>1. requests /= << >> /\ requests' = Tail(requests)
      BY <2>1 DEF RequestUnheard
    <3> QED
      BY <1>3, <3>1, HeadTailProperties
  <2>2. CASE Lose
    <3>1. requests' = requests \/ \E i \in DOMAIN requests : requests' = RemoveAt(requests, i)
      BY <2>2 DEF Lose
    <3> QED
      BY <1>3, <3>1, PartsOfSequence, LenProperties
  <2>3. CASE SendTo
    <3>1. send \in OnceRequest /\ requests' \in {requests, Append(requests, send)}
      BY <2>3, SentInStep DEF SendTo, Sending
    <3> QED
      BY <1>3, <3>1, AppendProperties
  <2>4. CASE UNCHANGED requests
    BY <1>3, <2>4
  <2> QED
    BY <2>1, <2>2, <2>3, <2>4 DEF Drain, SelectFails, GiveUp, SendInterrupted, SendFails,
       TimeOut, Finish, Close, DisconnectReturns, Unchanged, network, vars
<1>5. answers' \in Seq(OnceReply)
  <2>1. CASE Lose
    <3>1. \/ answers' = answers
          \/ \E i \in DOMAIN answers : \/ answers' = RemoveAt(answers, i)
                                       \/ answers' = <<answers[i]>> \o RemoveAt(answers, i)
      BY <2>1 DEF Lose
    <3> QED
      BY <1>3, <3>1, PartsInStep, LenProperties
  <2>2. CASE Drain
    <3>1. PICK n \in 0 .. Len(answers) : answers' = SubSeq(answers, n + 1, Len(answers))
      BY <2>2 DEF Drain
    <3>2. CASE n = 0
      BY <1>3, <3>1, <3>2, SubSeqProperties, ElementOfSeq
    <3>3. CASE n /= 0
      BY <1>3, <3>1, <3>3, PartsInStep
    <3> QED
      BY <3>2, <3>3
  <2>3. CASE UNCHANGED answers
    BY <1>3, <2>3
  <2> QED
    BY <2>1, <2>2, <2>3 DEF RequestUnheard, SelectFails, GiveUp, SendTo, SendInterrupted,
       SendFails, TimeOut, Finish, Close, DisconnectReturns, Unchanged, network, vars
<1>6. Returned' = Returned
  BY <1>1, <1>2 DEF Returned
<1>7. Succeeded' => (Current(recv) /\ SpentOn(recv.call))'
  <2>1. Mine' = Mine
    BY <1>1, <1>2 DEF Mine
  <2> QED
    BY <1>1, <1>2, <2>1 DEF InStep, Current, SpentOn
<1> QED
  BY <1>1, <1>2, <1>4, <1>5, <1>6, <1>7, InStepCarried

\* An answer that is taken has the word of the access.
LEMMA ReceiveInStep ==
  ASSUME IInv, IInv', InStep, Receive
  PROVE  InStep'
<1>1. /\ UNCHANGED <<sequence_number, accesses, failed, performed, channels, send, caller>>
      /\ pc = "receive" /\ pc' \in {"attempt", "returned"} /\ answers /= << >>
      /\ recv' = Into(answers[1]) /\ answers' = Tail(answers) /\ UNCHANGED requests
  BY DEF Receive, Return, board, calls
<1>2. Open' = Open
  BY <1>1 DEF Open, IsAccess
<1>3. Returned' = Returned
  BY <1>1, <1>2 DEF Returned
<1>4. requests \in Seq(OnceRequest) /\ answers \in Seq(OnceReply)
  BY DEF InStep
<1>5. answers' \in Seq(OnceReply) /\ answers[1] \in OnceReply
  BY <1>1, <1>4, EmptySeq, ElementOfSeq, HeadTailProperties
<1>6. Succeeded' => (Current(recv) /\ SpentOn(recv.call))'
  <2> SUFFICES ASSUME Succeeded'
               PROVE  Current(answers[1]) /\ (Current(recv) /\ SpentOn(recv.call))'
    OBVIOUS
  <2>1. Open /\ IsAccess /\ pc' = "returned"
    BY <1>1, <1>2 DEF Succeeded, Open
  <2>2. fnet_check_reg_access_reply(send, answers[1]) /= 0
    BY <1>1, <2>1 DEF Receive, check_reply
  <2>3. answers[1].word = send.word
    BY <2>2 DEF fnet_check_reg_access_reply
  <2>4. answers[1] \in Packet
    BY <1>5 DEF OnceReply
  <2>5. recv'.call = answers[1].call /\ recv'.word = answers[1].word
    BY <1>1, <2>4, TypeInto DEF IInv
  <2>6. recv'.call > 0
    <3>1. recv'.call \in 1 .. Len(accesses')
      BY DEF IInv, Vouched
    <3> QED
      BY <3>1
  <2>7. Current(answers[1])
    BY <2>1, <2>3, <2>5, <2>6 DEF IInv, CurrentCall, Current
  <2>8. Mine' = Mine
    BY <1>1 DEF Mine
  <2> QED
    BY <1>1, <1>5, <2>5, <2>7, <2>8 DEF Current, OnceReply, SpentOn
<1> QED
  BY <1>1, <1>2, <1>3, <1>4, <1>5, <1>6, InStepCarried

\* An access begins: it has not been performed.
LEMMA BeginInStep ==
  ASSUME IInv, IInv', InStep, ~ Open,
         NEW c, c \notin {"arm", "reset", "disconnect"},
         NEW items \in Seq(Item), SendRecvRegacc(c, send.port, sequence_number, items),
         UNCHANGED sequence_number
  PROVE  InStep'
<1> DEFINE N == Len(accesses)
<1>1. /\ accesses \in Seq(Seq(Item)) /\ performed \in Seq(Nat)
      /\ Len(performed) = N /\ N \in Nat /\ sequence_number \in Int
  BY DEF IInv, Types
<1>2. /\ caller' = c /\ pc' = "drain"
      /\ send' = [port |-> send.port, word |-> AccessWord(sequence_number),
                  items |-> items, call |-> N + 1]
      /\ accesses' = Append(accesses, items) /\ performed' = Append(performed, 0)
      /\ UNCHANGED <<channels, ret, recv, requests, answers, failed>>
  BY DEF SendRecvRegacc, Call, network
<1>3. /\ accesses' \in Seq(Seq(Item)) /\ Len(accesses') = N + 1
      /\ \A i \in 1 .. N : accesses'[i] = accesses[i]
  BY <1>1, <1>2, AppendProperties
<1>4. /\ Len(performed') = N + 1 /\ performed'[N + 1] = 0
      /\ \A i \in 1 .. N : performed'[i] = performed[i]
  BY <1>1, <1>2, AppendProperties
<1>5. Open' /\ ~ Succeeded'
  BY <1>2 DEF Open, IsAccess, Succeeded
<1>6. Returned' = Returned
  BY <1>1, <1>3, <1>5 DEF Returned
<1>7. Mine' = Mine /\ send'.port = send.port /\ send'.call = N + 1
      /\ send'.word = AccessWord(sequence_number)
  BY <1>2 DEF Mine
<1>8. \A q : (Current(q)' <=> Current(q)) /\ (SpentOn(q.call)' <=> SpentOn(q.call))
  BY <1>7 DEF Current, SpentOn
<1>9. Request \subseteq Request'
  BY <1>3, <1>4, <1>6, <1>2, UnderWayKept, NumberedStays DEF IInv
<1>10. ASSUME NEW q \in OnceRequest
       PROVE  q \in OnceRequest'
  <2>1. q \in Request' /\ q.call \in 0 .. N
    BY <1>9, RequestsByCall DEF OnceRequest
  <2>2. q.call > 0 => performed'[q.call] = performed[q.call]
    BY <1>4, <2>1
  <2> QED
    BY <1>7, <1>8, <2>1, <2>2 DEF OnceRequest
<1>11. OnceReply \subseteq OnceReply'
  BY <1>8 DEF OnceReply
<1>12. requests' \in Seq(OnceRequest') /\ answers' \in Seq(OnceReply')
  <2>1. OnceRequest \subseteq OnceRequest'
    BY <1>10
  <2> QED
    BY <1>2, <1>11, <2>1, SeqMonotonic DEF InStep
<1>13. send' \in OnceRequest'
  <2>1. send' \in Request'
    <3>1. send' \in Packet
      BY DEF IInv, Types
    <3>2. SameAddresses(send.items, accesses[send.call])' /\ send'.call \in 1 .. Len(accesses')
      BY <1>1, <1>2, <1>3, <1>5 DEF IInv, CurrentCall, SameAddresses
    <3>3. Numbered(send)'
      <4>1. send'.word = AccessWord(sequence_number') /\ sequence_number' \in -1 .. sequence_number'
        BY <1>7, <1>1 DEF IInv, Types
      <4>2. Returned' = N /\ send'.call = N + 1
        BY <1>3, <1>5, <1>1, <1>7 DEF Returned
      <4> QED
        BY <1>1, <4>1, <4>2 DEF Numbered
    <3> QED
      BY <3>1, <3>2, <3>3 DEF Request
  <2>2. Current(send)' /\ performed'[send'.call] = 0
    BY <1>1, <1>2, <1>4, <1>7 DEF Current
  <2>3. ~ (performed'[send'.call] > 0)
    BY <2>2
  <2> QED
    BY <2>1, <2>2, <2>3 DEF OnceRequest
<1>14. \A i \in 1 .. Len(accesses') :
         /\ performed'[i] \in 0 .. 1
         /\ Mine'.call = 0 => performed'[i] = 0
  <2> SUFFICES ASSUME NEW i \in 1 .. N + 1
               PROVE  performed'[i] \in 0 .. 1 /\ (Mine.call = 0 => performed'[i] = 0)
    BY <1>3, <1>7
  <2>1. CASE i = N + 1
    BY <1>4, <2>1
  <2>2. CASE i \in 1 .. N
    BY <1>4, <2>2 DEF InStep
  <2>3. i = N + 1 \/ i \in 1 .. N
    BY <1>1
  <2> QED
    BY <2>1, <2>2, <2>3
<1> QED
  BY <1>2, <1>5, <1>7, <1>12, <1>13, <1>14 DEF InStep

\* An access that succeeds has spent its number, and the next one is used.
LEMMA ReturnInStep ==
  ASSUME IInv, IInv', InStep, Recent, RegaccReturns
  PROVE  InStep'
<1> DEFINE N == Len(accesses)
<1>1. /\ N \in Nat /\ sequence_number \in Int /\ ret \in {-1, 0, 1}
  BY DEF IInv, Types
<1>2. /\ pc = "returned" /\ pc' = "answered"
      /\ sequence_number' = IF ret >= 1 THEN sequence_number + 1 ELSE sequence_number
      /\ UNCHANGED <<caller, send, recv, ret, requests, answers, channels, performed, accesses>>
  BY DEF RegaccReturns, NumberAfter, network, board
<1>3. Open /\ ~ Open' /\ ~ Succeeded'
  BY <1>2 DEF RegaccReturns, Open, Succeeded
<1>4. Returned = N - 1 /\ Returned' = N
  BY <1>2, <1>3 DEF Returned
<1>5. Mine' = Mine
  BY <1>2 DEF Mine
<1>6. requests' \in Seq(Request') /\ requests \in Seq(OnceRequest) /\ answers \in Seq(OnceReply)
      /\ answers \in Seq(Reply)
  BY DEF IInv, UnderWay, InStep
<1>7. CASE ret < 1
  <2>1. sequence_number' = sequence_number
    BY <1>1, <1>2, <1>7
  <2>2. \A q : (Current(q)' <=> Current(q)) /\ (SpentOn(q.call)' <=> SpentOn(q.call))
    BY <1>5, <2>1 DEF Current, SpentOn
  <2>3. \A i \in 1 .. Len(requests) : requests[i] \in OnceRequest'
    <3> SUFFICES ASSUME NEW i \in 1 .. Len(requests)
                 PROVE  requests[i] \in OnceRequest'
      OBVIOUS
    <3>1. requests[i] \in Request' /\ requests[i] \in OnceRequest
      BY <1>2, <1>6, ElementOfSeq
    <3> QED
      BY <1>2, <1>5, <2>2, <3>1 DEF OnceRequest
  <2>4. requests' \in Seq(OnceRequest')
    BY <1>2, <1>6, <2>3, SeqDef, LenProperties
  <2>5. answers' \in Seq(OnceReply')
    <3>1. OnceReply \subseteq OnceReply'
      BY <2>2 DEF OnceReply
    <3> QED
      BY <1>2, <1>6, <3>1, SeqMonotonic
  <2> QED
    BY <1>2, <1>3, <1>5, <2>1, <2>4, <2>5 DEF InStep
<1>8. CASE ret = 1
  <2>1. sequence_number' = sequence_number + 1
    BY <1>1, <1>2, <1>8
  <2>2. Current(Mine) /\ Mine.call > 0
    <3>1. Succeeded
      BY <1>2, <1>3, <1>8 DEF Succeeded
    <3> QED
      BY <3>1 DEF InStep, SpentOn, Current
  <2>3. Mine.word = AccessWord(sequence_number' - 1)
    BY <1>1, <2>1, <2>2 DEF Current
  \* Nothing has the next number yet.
  <2>4. ASSUME NEW q \in Request, q.call > 0 => N - q.call < 254
        PROVE  ~ Current(q)'
    <3> SUFFICES ASSUME q.call > 0
                 PROVE  q.word /= AccessWord(sequence_number + 1)
      BY <2>1 DEF Current
    <3>1. q.call \in 1 .. N /\ Numbered(q)
      BY RequestsByCall
    <3>2. PICK n \in -1 .. sequence_number :
            q.word = AccessWord(n) /\ sequence_number - n <= Returned - q.call + 1
      BY <3>1 DEF Numbered
    <3>3. n \in Int /\ n <= sequence_number /\ sequence_number - n <= 254
      BY <1>1, <1>4, <2>4, <3>1, <3>2
    <3> QED
      BY <1>1, <3>2, <3>3, WordsDiffer
  <2>5. \A i \in 1 .. Len(requests) : requests[i] \in OnceRequest'
    <3> SUFFICES ASSUME NEW i \in 1 .. Len(requests)
                 PROVE  requests[i] \in OnceRequest'
      OBVIOUS
    <3>1. requests[i] \in Request' /\ requests[i] \in OnceRequest
      BY <1>2, <1>6, ElementOfSeq
    <3>2. ~ Current(requests[i])'
      <4>1. requests[i] \in Request /\ (requests[i].call > 0 => N - requests[i].call < 254)
        BY <3>1, <1>6, LenProperties DEF OnceRequest, Recent
      <4>2. \A q \in Request : (q.call > 0 => N - q.call < 254) => ~ Current(q)'
        BY <2>4
      <4> QED
        BY <1>2, <4>1, <4>2 DEF Current
    <3>3. send' = send /\ Mine'.call /= 0
      BY <1>2, <1>5, <2>2
    <3> QED
      BY <1>2, <3>1, <3>2, <3>3 DEF OnceRequest, Current
  <2>6. requests' \in Seq(OnceRequest')
    BY <1>2, <1>6, <2>5, SeqDef, LenProperties
  <2>7. \A i \in 1 .. Len(answers) : answers[i] \in OnceReply'
    <3> SUFFICES ASSUME NEW i \in 1 .. Len(answers)
                 PROVE  answers[i] \in OnceReply'
      OBVIOUS
    <3>1. answers[i] \in Reply /\ answers[i] \in OnceReply
      BY <1>6, ElementOfSeq
    <3>2. answers[i] \in Request /\ (answers[i].call > 0 => N - answers[i].call < 254)
      BY <3>1, <1>6, LenProperties DEF Reply, Recent
    <3>3. \A q \in Request : (q.call > 0 => N - q.call < 254) => ~ Current(q)'
      BY <2>4
    <3> QED
      BY <3>1, <3>2, <3>3 DEF OnceReply, Current
  <2>8. answers' \in Seq(OnceReply')
    BY <1>2, <1>6, <2>7, SeqDef, LenProperties
  <2> QED
    BY <1>2, <1>3, <1>5, <2>2, <2>3, <2>6, <2>8 DEF InStep
<1> QED
  BY <1>1, <1>7, <1>8

-----------------------------------------------------------------------------

\* Whatever the operations do, they begin an access from the port they have.
LEMMA OperationInStep ==
  ASSUME IInv, IInv', InStep,
         \/ Operate \/ OnlyReadReturns \/ FirstReadGoesOn \/ FirstReadFails
         \/ SecondReadReturns \/ WriteReturns \/ SendTcpResetReturns
         \/ OpenTcpConnects \/ OpenTcpAgain
  PROVE  InStep'
<1>1. CASE Close \/ (pc = "answered" /\ \E ok : Finish(ok))
  BY <1>1, PassingInStep
<1>2. CASE /\ pc \in {"ready", "answered"}
           /\ \E c \in {"only read", "first read", "second read", "write", "tcp reset", "open tcp"},
                 items \in Seq(Item) : Another(c, items)
  <2>1. PICK c \in {"only read", "first read", "second read", "write", "tcp reset", "open tcp"},
             items \in Seq(Item) : Another(c, items)
    BY <1>2
  <2>2. ~ Open
    BY <1>2 DEF Open
  <2>3. SendRecvRegacc(c, send.port, sequence_number, items) /\ UNCHANGED sequence_number
    BY <2>1 DEF Another
  <2> QED
    BY <2>2, <2>3, BeginInStep
<1>3. SAFE_READ_ADDRESS \in Addr /\ Used \subseteq Addr
  BY FnetAssumption
<1> QED
  BY <1>1, <1>2, <1>3, ItemsOfAccesses
     DEF Operate, OnlyReadReturns, FirstReadGoesOn, FirstReadFails, SecondReadReturns,
         WriteReturns, SendTcpResetReturns, OpenTcpConnects, OpenTcpAgain, ReadOnce,
         DoubleReadAddr, WriteAddr, SendTcpReset, OpenTcp, Idle, Answer, FirstAddress

\* While it is made the connection has a port, but no access.
LEMMA ConnectOnce ==
  ASSUME IInv, IInv', OnceInv, config.reliable, Connect
  PROVE  pc' \notin {"closed", "establish"} => InStep'
<1>1. ConnectReliable \/ EstablishArm \/ ArmReturns \/ ResetReturns
  BY DEF Connect, ConnectIdempotent, ProbeReturns, IInv, ProbeNumber
<1>2. accesses = << >> /\ accesses' = << >>
  BY <1>1 DEF ConnectReliable, EstablishArm, ArmReturns, ResetReturns, Unchanged, IInv,
              Connecting
<1>3. pc' \notin {"closed", "establish"} => send'.port \in Channel
  <2>1. CASE ConnectReliable
    BY <2>1 DEF ConnectReliable, Quits
  <2>2. CASE EstablishArm
    <3>1. round \in Nat
      BY DEF IInv, Types
    <3>2. Port(round) \in Channel
      BY <3>1 DEF Port, Channel
    <3>3. send'.port = Port(round)
      BY <2>2 DEF EstablishArm, Call
    <3> QED
      BY <3>2, <3>3
  <2>3. CASE ArmReturns \/ ResetReturns
    <3>1. send.port \in Channel
      BY <2>3 DEF OnceInv, InStep, ArmReturns, ResetReturns
    <3>2. send'.port = send.port
      BY <2>3 DEF ArmReturns, ResetReturns, NextPort, NextTry, Quits, Call
    <3> QED
      BY <3>1, <3>2
  <2> QED
    BY <1>1, <2>1, <2>2, <2>3
<1>4. (IInv /\ accesses = << >> /\ send.port \in Channel => InStep)'
  BY InStepAtFirst, PTL
<1> QED
  BY <1>2, <1>3, <1>4

LEMMA NextOnce ==
  ASSUME IInv, IInv', OnceInv, Recent, [Next]_vars
  PROVE  OnceInv'
<1> SUFFICES ASSUME config'.reliable, pc' \notin {"closed", "establish"}
             PROVE  InStep'
  BY DEF OnceInv
<1>1. CASE Connect
  <2>1. config.reliable
    BY <1>1 DEF Connect, ConnectIdempotent, ProbeReturns, ConnectReliable, EstablishArm,
         ArmReturns, ResetReturns, SendRecvRegacc, Unchanged
  <2> QED
    BY <1>1, <2>1, ConnectOnce
<1>2. CASE Network \/ SendRecvPacket \/ Operate \/ Continue \/ UNCHANGED vars
  <2>1. config' = config
    BY <1>2 DEF Network, RequestArrives, RequestUnheard, Lose, SendRecvPacket, Drain,
       SelectFails, GiveUp, SendTo, SendInterrupted, SendFails, TimeOut, Receive, Operate,
       Continue, RegaccReturns, OnlyReadReturns, FirstReadGoesOn, FirstReadFails,
       SecondReadReturns, WriteReturns, SendTcpResetReturns, OpenTcpConnects, OpenTcpAgain,
       DisconnectReturns, ReadOnce, DoubleReadAddr, WriteAddr, SendTcpReset, OpenTcp, Close,
       Finish, Another, SendRecvRegacc, Unchanged, vars
  <2>2. pc \notin {"closed", "establish"}
    BY <1>2 DEF Network, RequestArrives, RequestUnheard, Lose, SendRecvPacket, Drain,
       SelectFails, GiveUp, SendTo, SendInterrupted, SendFails, TimeOut, Receive, Operate,
       Continue, RegaccReturns, OnlyReadReturns, FirstReadGoesOn, FirstReadFails,
       SecondReadReturns, WriteReturns, SendTcpResetReturns, OpenTcpConnects, OpenTcpAgain,
       DisconnectReturns, ReadOnce, DoubleReadAddr, WriteAddr, SendTcpReset, OpenTcp, Close,
       Idle, Answer, vars
  <2>3. InStep
    BY <2>1, <2>2 DEF OnceInv
  <2>4. CASE Network \/ UNCHANGED vars
    BY <2>3, <2>4, ArrivalInStep, PassingInStep DEF Network
  <2>5. CASE SendRecvPacket
    BY <2>3, <2>5, PassingInStep, ReceiveInStep DEF SendRecvPacket
  <2>6. CASE Operate \/ Continue
    BY <2>3, <2>6, OperationInStep, ReturnInStep, PassingInStep DEF Continue
  <2> QED
    BY <1>2, <2>4, <2>5, <2>6
<1> QED
  BY <1>1, <1>2 DEF Next

\* On a reliable channel what succeeds has been performed exactly once, or an
\* earlier access that failed has answered for it, and it has not been
\* performed at all (fnet_client.h).
THEOREM ExactlyOnceHolds == Spec /\ []Recent => []ExactlyOnce
<1>1. ASSUME IInv, Recent
      PROVE  Timely
  <2>1. ASSUME NEW i \in DOMAIN answers, answers[i].call > 0
        PROVE  Len(accesses) - answers[i].call < 4096
    <3>1. answers \in Seq(Packet) /\ Len(accesses) \in Nat
      BY <1>1 DEF IInv, Types
    <3>2. answers[i] \in Packet
      BY <2>1, <3>1, ElementOfSeq, LenProperties
    <3>3. answers[i].call \in Nat /\ Len(accesses) - answers[i].call < 254
      BY <1>1, <2>1, <3>2 DEF Recent, Packet
    <3> QED
      BY <3>1, <3>3
  <2> QED
    BY <2>1 DEF Timely
<1>2. Spec /\ []Recent => []IInv
  BY <1>1, Initially, NextInv, PTL DEF Spec
<1>3. Init => OnceInv
  BY DEF Init, OnceInv
<1>4. Spec /\ []Recent => []OnceInv
  BY <1>2, <1>3, NextOnce, PTL DEF Spec
<1>5. ASSUME IInv, OnceInv
      PROVE  ExactlyOnce
  <2> SUFFICES ASSUME config.reliable, Succeeded
               PROVE  IF recv.call = Len(accesses) THEN performed[Len(accesses)] = 1
                      ELSE recv.call \in failed /\ performed[Len(accesses)] = 0
    BY DEF ExactlyOnce
  <2>1. InStep
    BY <1>5 DEF OnceInv, Succeeded
  <2>2. /\ Len(accesses) \in Nat /\ Len(accesses) > 0
        /\ recv.call \in 1 .. Len(accesses) /\ performed[recv.call] > 0
        /\ recv.call .. Len(accesses) - 1 \subseteq failed
    BY <1>5 DEF IInv, Types, Vouched, Port_!Vouches
  <2>3. performed[Len(accesses)] \in 0 .. 1
    BY <2>1, <2>2 DEF InStep
  <2>4. CASE recv.call = Len(accesses)
    BY <2>2, <2>3, <2>4
  <2>5. CASE recv.call /= Len(accesses)
    <3>1. recv.call \in failed
      BY <2>2, <2>5
    <3>2. send \in OnceRequest /\ Current(send) /\ send.call = Len(accesses)
      BY <1>5, <2>1, <2>2 DEF InStep, Succeeded, IInv, CurrentCall, Current
    <3>3. Mine.call = recv.call
      BY <2>1 DEF InStep, SpentOn
    <3>4. ~ (performed[Len(accesses)] > 0)
      BY <2>2, <2>5, <3>2, <3>3 DEF OnceRequest, SpentOn
    <3> QED
      BY <2>3, <2>5, <3>1, <3>4
  <2> QED
    BY <2>4, <2>5
<1> QED
  BY <1>2, <1>4, <1>5, PTL

\* So no network is too slow for a client of at most 254 accesses.
COROLLARY ExactlyOnceAtFirst ==
  Spec /\ [](Len(accesses) <= 254) => []ExactlyOnce
<1> DEFINE Short == Len(accesses) <= 254
<1>1. ASSUME IInv, Short
      PROVE  Recent /\ Timely
  <2>1. Len(accesses) \in Nat /\ answers \in Seq(Packet) /\ requests \in Seq(Packet)
    BY <1>1 DEF IInv, Types
  <2>2. ASSUME NEW q \in Packet, q.call > 0
        PROVE  Len(accesses) - q.call < 254 /\ Len(accesses) - q.call < 4096
    <3>1. q.call \in Nat
      BY DEF Packet
    <3> QED
      BY <1>1, <2>1, <2>2, <3>1
  <2>3. /\ \A i \in DOMAIN answers : answers[i] \in Packet
        /\ \A i \in DOMAIN requests : requests[i] \in Packet
    BY <2>1, ElementOfSeq, LenProperties
  <2> QED
    BY <2>2, <2>3 DEF Recent, Timely
<1>2. Spec /\ []Short => []Recent
  BY <1>1, Initially, NextInv, PTL DEF Spec
<1> QED
  BY <1>2, ExactlyOnceHolds, PTL

-----------------------------------------------------------------------------
(* On a network that keeps order                                           *)
(*                                                                         *)
(* There the board is as the last access has left it that was performed,   *)
(* and as long as nothing fails that is the last access or the one before. *)

\* The requests of accesses ask for what was asked for.
AsAsked ==
  \A i \in 1 .. Len(requests) :
    requests[i].call > 0 => requests[i].items = accesses[requests[i].call]

\* They are under way in the order of the accesses, ...
InTurn ==
  \A i, j \in 1 .. Len(requests) :
    i < j /\ requests[i].call > 0 /\ requests[j].call > 0
      => requests[i].call <= requests[j].call

\* ... and none of them is for an access before one that was performed.
Behind ==
  \A i \in 1 .. Len(requests), k \in 1 .. Len(accesses) :
    requests[i].call > 0 /\ performed[k] > 0 => k <= requests[i].call

\* What an access leaves on the board.
Left(items) ==
  \A a \in Addr \ Dead :
    /\ \A d \in Data : items = Write(a, d) => registers[a] = d
    /\ items = Read(a) => latch = registers[a]

Latest(k) == performed[k] > 0 /\ \A j \in k + 1 .. Len(accesses) : performed[j] = 0

\* The board is as the last access that was performed has left it.
BoardAsLeft == \A k \in 1 .. Len(accesses) : Latest(k) => Left(accesses[k])

InOrder == config.in_order => InTurn /\ Behind /\ BoardAsLeft

\* As long as nothing failed, an access that returned was performed.
Told ==
  pc = "answered" /\ failed = {} =>
    Len(accesses) > 0 /\ performed[Len(accesses)] > 0

\* The accesses are those of the operation.
Purpose ==
  Open \/ pc = "answered" =>
    LET N == Len(accesses)
    IN /\ caller = "write" =>
            /\ operation.addr \in Used /\ operation.data \in Data /\ N > 0
            /\ accesses[N] = Write(operation.addr, operation.data)
       /\ caller = "first read" =>
            operation.addr \in Used /\ N > 0 /\ accesses[N] = Read(operation.addr)
       /\ caller = "second read" =>
            /\ operation.addr \in Used /\ N > 1
            /\ accesses[N - 1] = Read(operation.addr)
            /\ accesses[N] = Read(SAFE_READ_ADDRESS)
            /\ failed = {} => performed[N - 1] > 0

\* A double read of which the second access needs one attempt, so far.
OneAttempt ==
  /\ config.in_order /\ failed = {} /\ caller = "second read" /\ attempt = 0
  /\ Open \/ pc = "answered"
  /\ operation.addr \notin Dead /\ SAFE_READ_ADDRESS \notin Dead

\* q has what the register holds, if it is the answer to the second access.
Tells(q) ==
  q.call = Len(accesses) =>
    q.items /= << >> /\ q.items[1].data = registers[operation.addr]

\* Its request is sent once; the answer to it, and what was taken for that,
\* have what the register holds.
SecondRead ==
  OneAttempt =>
    LET N == Len(accesses)
        Asks(i) == requests[i].call = N
    IN /\ pc \in {"drain", "attempt"} => performed[N] = 0
       /\ pc \in {"drain", "attempt"} \/ performed[N] > 0 =>
            \A i \in 1 .. Len(requests) : ~ Asks(i)
       /\ \A i, j \in 1 .. Len(requests) : Asks(i) /\ Asks(j) => i = j
       /\ \A i \in 1 .. Len(answers) : Tells(answers[i])
       /\ \A c \in Channel : Tells(channels[c].last)
       /\ pc \in {"returned", "answered"} /\ ret = 1 =>
            recv.items[1].data = registers[operation.addr]

\* The invariant of all this, which is inductive next to IInv.
TurnInv ==
  attempt \in Nat /\ AsAsked /\ InOrder /\ Told /\ Purpose /\ SecondRead

\* What is not under way any more: requests' has some of the requests, in the
\* same order.
Thinned ==
  \E f \in [1 .. Len(requests') -> 1 .. Len(requests)] :
    /\ \A i \in 1 .. Len(requests') : requests'[i] = requests[f[i]]
    /\ \A i, j \in 1 .. Len(requests') : i < j => f[i] < f[j]

LEMMA ThinnedByOne ==
  ASSUME requests \in Seq(Packet), NEW i \in 1 .. Len(requests),
         requests' \in {Tail(requests), RemoveAt(requests, i)}
  PROVE  Thinned
<1>1. Len(requests) \in Nat /\ requests /= << >>
  BY EmptySeq
<1>2. CASE requests' = Tail(requests)
  <2> DEFINE f == [k \in 1 .. Len(requests) - 1 |-> k + 1]
  <2>1. /\ Len(requests') = Len(requests) - 1
        /\ \A k \in 1 .. Len(requests) - 1 : requests'[k] = requests[k + 1]
    BY <1>1, <1>2, HeadTailProperties
  <2>2. f \in [1 .. Len(requests') -> 1 .. Len(requests)]
    BY <1>1, <2>1
  <2>3. \A k \in 1 .. Len(requests') : requests'[k] = requests[f[k]]
    BY <2>1
  <2>4. \A k, l \in 1 .. Len(requests') : k < l => f[k] < f[l]
    BY <1>1, <2>1
  <2> HIDE DEF f
  <2> QED
    BY <2>2, <2>3, <2>4 DEF Thinned
<1>3. CASE requests' = RemoveAt(requests, i)
  <2> DEFINE a == SubSeq(requests, 1, i - 1)
             b == SubSeq(requests, i + 1, Len(requests))
             f == [k \in 1 .. Len(requests) - 1 |-> IF k < i THEN k ELSE k + 1]
  <2>1. /\ a \in Seq(Packet) /\ Len(a) = i - 1
        /\ \A k \in 1 .. i - 1 : a[k] = requests[k]
        /\ b \in Seq(Packet) /\ Len(b) = Len(requests) - i
        /\ \A k \in 1 .. Len(requests) - i : b[k] = requests[i + k]
    <3>1. \A k \in 1 .. Len(requests) : requests[k] \in Packet
      BY ElementOfSeq
    <3>2. /\ a \in Seq(Packet) /\ Len(a) = i - 1
          /\ \A k \in 1 .. i - 1 : a[k] = requests[k]
      BY <1>1, <3>1, SubSeqProperties
    <3>3. /\ b \in Seq(Packet) /\ Len(b) = Len(requests) - i
          /\ \A k \in 1 .. Len(requests) - i : b[k] = requests[i + k]
      BY <1>1, <3>1, SubSeqProperties
    <3> QED
      BY <3>2, <3>3
  <2>2. requests' = a \o b
    BY <1>3 DEF RemoveAt
  <2> HIDE DEF a, b
  <2>3. /\ Len(requests') = Len(a) + Len(b)
        /\ \A k \in 1 .. Len(a) + Len(b) :
             requests'[k] = IF k <= Len(a) THEN a[k] ELSE b[k - Len(a)]
    BY <2>1, <2>2, ConcatProperties
  <2>4. Len(requests') = Len(requests) - 1
    BY <1>1, <2>1, <2>3
  <2>5. f \in [1 .. Len(requests') -> 1 .. Len(requests)]
    BY <1>1, <2>4
  <2>6. ASSUME NEW k \in 1 .. Len(requests')
        PROVE  requests'[k] = requests[f[k]]
    <3>1. CASE k < i
      BY <1>1, <2>1, <2>3, <2>4, <3>1
    <3>2. CASE ~ (k < i)
      <4>1. k - (i - 1) \in 1 .. Len(requests) - i /\ i + (k - (i - 1)) = k + 1
        BY <1>1, <2>4, <3>2
      <4>2. requests'[k] = b[k - (i - 1)]
        BY <1>1, <2>1, <2>3, <2>4, <3>2
      <4> QED
        BY <1>1, <2>1, <2>4, <3>2, <4>1, <4>2
    <3> QED
      BY <3>1, <3>2
  <2>7. \A k, l \in 1 .. Len(requests') : k < l => f[k] < f[l]
    BY <1>1, <2>4
  <2> HIDE DEF f
  <2> QED
    BY <2>5, <2>6, <2>7 DEF Thinned
<1> QED
  BY <1>2, <1>3

LEMMA NotThinned ==
  ASSUME requests \in Seq(Packet), requests' \in {requests, << >>}
  PROVE  Thinned
<1>1. CASE requests' = requests
  <2> DEFINE f == [k \in 1 .. Len(requests) |-> k]
  <2>1. /\ f \in [1 .. Len(requests') -> 1 .. Len(requests)]
        /\ \A k \in 1 .. Len(requests') : requests'[k] = requests[f[k]]
        /\ \A k, l \in 1 .. Len(requests') : k < l => f[k] < f[l]
    BY <1>1
  <2> HIDE DEF f
  <2> QED
    BY <2>1 DEF Thinned
<1>2. CASE requests' = << >>
  <2> DEFINE f == [k \in {} |-> k]
  <2>1. 1 .. Len(requests') = {}
    BY <1>2, EmptySeq
  <2>2. f \in [{} -> 1 .. Len(requests)]
    OBVIOUS
  <2> HIDE DEF f
  <2> QED
    BY <2>1, <2>2 DEF Thinned
<1> QED
  BY <1>1, <1>2

\* The requests that stay ask for what they did, in the same order.
LEMMA ThinnedAsked ==
  ASSUME AsAsked, Thinned, UNCHANGED accesses
  PROVE  AsAsked'
<1>1. PICK f \in [1 .. Len(requests') -> 1 .. Len(requests)] :
        \A i \in 1 .. Len(requests') : requests'[i] = requests[f[i]]
  BY DEF Thinned
<1>2. \A i \in 1 .. Len(requests') : f[i] \in 1 .. Len(requests)
  OBVIOUS
<1> QED
  BY <1>1, <1>2 DEF AsAsked

LEMMA ThinnedOrder ==
  ASSUME InTurn, Behind, Thinned, UNCHANGED <<accesses, performed>>
  PROVE  InTurn' /\ Behind'
<1>1. PICK f \in [1 .. Len(requests') -> 1 .. Len(requests)] :
        /\ \A i \in 1 .. Len(requests') : requests'[i] = requests[f[i]]
        /\ \A i, j \in 1 .. Len(requests') : i < j => f[i] < f[j]
  BY DEF Thinned
<1>2. \A i \in 1 .. Len(requests') : f[i] \in 1 .. Len(requests)
  OBVIOUS
<1>3. InTurn'
  BY <1>1, <1>2 DEF InTurn
<1>4. Behind'
  BY <1>1, <1>2 DEF Behind
<1> QED
  BY <1>3, <1>4

\* Steps that do not concern the board, nor the accesses.
LEMMA SameBoard ==
  ASSUME BoardAsLeft, UNCHANGED <<accesses, performed, registers, latch>>
  PROVE  BoardAsLeft'
BY DEF BoardAsLeft, Latest, Left

\* Steps between accesses: they say nothing of an operation.
LEMMA BetweenTurn ==
  ASSUME IInv, TurnInv, Thinned, ~ Open', pc' /= "answered", attempt' \in Nat,
         UNCHANGED <<config, accesses, performed, registers, latch>>
  PROVE  TurnInv'
<1>1. AsAsked' /\ InOrder'
  BY ThinnedAsked, ThinnedOrder, SameBoard DEF TurnInv, InOrder
<1>2. Told' /\ Purpose' /\ SecondRead'
  BY DEF Told, Purpose, SecondRead, OneAttempt
<1> QED
  BY <1>1, <1>2 DEF TurnInv

-----------------------------------------------------------------------------
(* A request arrives                                                       *)

\* What the board does with a request, and what it then has said.
Performs(q) ==
  /\ q.call \in 1 .. Len(accesses) /\ Perform(q)
  /\ answers' = Append(answers, AnswerTo(q))
  /\ \A c \in Channel : channels'[c].last \in {channels[c].last, AnswerTo(q)}

Ignores(q) ==
  /\ UNCHANGED <<registers, latch, performed>>
  /\ \/ answers' = answers
     \/ \E c \in Channel : answers' = Append(answers, channels[c].last)
     \/ \E r \in Packet : r.call = 0 /\ answers' = Append(answers, r)
  /\ \A c \in Channel : channels'[c].last \in {channels[c].last, NoAnswer}

LEMMA ServesOrNot ==
  ASSUME Types, NEW q \in Request, Serve(q)
  PROVE  Performs(q) \/ Ignores(q)
<1>1. q \in Packet /\ q.call \in 0 .. Len(accesses) /\ q.word \in Nat
  BY DEF Request, Packet, Types
<1>2. CASE PerformIdempotent(q)
  BY <1>1, <1>2 DEF PerformIdempotent, Say, Performs
<1>3. CASE PerformOnce(q) /\ channels[q.port].connected
           /\ Sequence(q.word) = channels[q.port].expected
  <2>1. /\ q.port \in Channel /\ q.call \in 1 .. Len(accesses)
        /\ Perform(q) /\ answers' = Append(answers, AnswerTo(q))
    BY <1>1, <1>3 DEF PerformOnce, Say
  <2>2. channels' = [channels EXCEPT ![q.port] =
           [channels[q.port] EXCEPT !.last = AnswerTo(q), !.active = TRUE,
              !.expected = (channels[q.port].expected + 1) % 256]]
    BY <1>3, ZenonT(60) DEF PerformOnce
  <2>3. PICK n \in Int : n = (channels[q.port].expected + 1) % 256
    BY <2>1, TypeOfChannels
  <2> DEFINE d == [channels[q.port] EXCEPT !.last = AnswerTo(q), !.active = TRUE,
                                           !.expected = n]
  <2>4. d \in ChannelState /\ d.last = AnswerTo(q)
    <3>1. AnswerTo(q) \in Packet /\ channels[q.port] \in ChannelState
      BY <1>1, <2>1, TypeOfAnswer, TypeOfChannels
    <3> QED
      BY <3>1, ChannelServes
  <2>5. channels' = [channels EXCEPT ![q.port] = d]
    BY <2>2, <2>3
  <2> HIDE DEF d
  <2>6. \A b \in Channel : channels'[b] = IF b = q.port THEN d ELSE channels[b]
    BY <2>1, <2>4, <2>5, ChannelSet
  <2> QED
    BY <2>1, <2>4, <2>6 DEF Performs
<1>4. CASE PerformOnce(q) /\ ~ (channels[q.port].connected
           /\ Sequence(q.word) = channels[q.port].expected)
  <2>1. UNCHANGED <<registers, latch, performed, channels>> /\ q.port \in Channel
    BY <1>4 DEF PerformOnce
  <2>2. answers' = answers \/ answers' = Append(answers, channels[q.port].last)
    BY <1>4 DEF PerformOnce, Say
  <2> QED
    BY <2>1, <2>2 DEF Ignores
<1>5. CASE Arm(q) \/ Reset(q) \/ Disconnect(q)
  <2>1. UNCHANGED <<registers, latch, performed>>
    BY <1>5 DEF Arm, Reset, Disconnect
  <2>2. TopBits(q.word) /= 0
    BY <1>5 DEF Arm, Reset, Disconnect, TopBits, RESET_ARM, RESET, DISCONNECT
  <2>3. q.call = 0
    <3> SUFFICES ASSUME q.call /= 0
                 PROVE  FALSE
      OBVIOUS
    <3>1. PICK n \in -1 .. sequence_number : q.word = AccessWord(n)
      BY DEF Request, Numbered
    <3>2. n \in Int
      BY DEF Types
    <3> QED
      BY <2>2, <3>1, <3>2, AccessWords
  <2>4. Says(q) /\ Keeps(q) /\ ~ HasPerformed(q)
    BY <1>1, <1>5, <2>3, ServedArm, ServedReset, ServedDisconnect DEF Served, HasPerformed
  <2>5. \A w \in Nat : [q EXCEPT !.word = w] \in Packet /\ [q EXCEPT !.word = w].call = 0
    BY <1>1, <2>3 DEF Packet
  <2>6. \/ answers' = answers
        \/ \E c \in Channel : answers' = Append(answers, channels[c].last)
        \/ \E r \in Packet : r.call = 0 /\ answers' = Append(answers, r)
    <3>1. CASE \E w \in Nat : answers' = Append(answers, [q EXCEPT !.word = w])
      <4>1. PICK w \in Nat : answers' = Append(answers, [q EXCEPT !.word = w])
        BY <3>1
      <4>2. PICK r \in Packet : r = [q EXCEPT !.word = w] /\ r.call = 0
        BY <2>5
      <4> QED
        BY <4>1, <4>2
    <3> QED
      BY <2>4, <3>1 DEF Says
  <2> QED
    BY <2>1, <2>4, <2>6 DEF Keeps, Ignores
<1> QED
  BY <1>2, <1>3, <1>4, <1>5 DEF Serve

\* An access that is performed leaves the board as it should.
LEMMA PerformLeaves ==
  ASSUME Types, NEW q \in Packet, Perform(q)
  PROVE  Left(q.items)'
<1> SUFFICES ASSUME NEW a \in Addr \ Dead
             PROVE  /\ \A d \in Data : q.items = Write(a, d) => registers'[a] = d
                    /\ q.items = Read(a) => latch' = registers'[a]
  BY DEF Left, Read, Write
<1>1. a /= RESET_TCP /\ registers \in [Addr -> Value]
  BY FnetAssumption DEF Types
<1>2. ASSUME NEW d \in Data, q.items = Write(a, d)
      PROVE  registers'[a] = d
  <2>1. q.items /= << >> /\ q.items[1].addr = a /\ q.items[1].op = "write"
        /\ q.items[1].data = d
    BY <1>2 DEF Write
  <2> QED
    BY <1>1, <2>1 DEF Perform, Bus
<1>3. ASSUME q.items = Read(a)
      PROVE  latch' = registers'[a]
  <2>1. q.items /= << >> /\ q.items[1].addr = a /\ q.items[1].op = "read"
    BY <1>3 DEF Read
  <2> QED
    BY <1>1, <2>1 DEF Perform, Bus
<1> QED
  BY <1>2, <1>3

\* Performing a request counts it.
LEMMA PerformCounts ==
  ASSUME Types, NEW q \in Packet, q.call \in 1 .. Len(accesses), Perform(q)
  PROVE  /\ performed'[q.call] > 0
         /\ \A k \in 1 .. Len(accesses) : k /= q.call => performed'[k] = performed[k]
         /\ \A k \in 1 .. Len(accesses) : performed[k] \in Nat
<1>1. performed' = [performed EXCEPT ![q.call] = performed[q.call] + 1]
  BY DEF Perform
<1>2. \A k \in 1 .. Len(accesses) : performed[k] \in Nat
  BY ElementOfSeq DEF Types
<1>3. \A k \in 1 .. Len(accesses) : k /= q.call => performed'[k] = performed[k]
  BY <1>1
<1> QED
  BY <1>2, <1>3, TypeOfPerform

\* What is first in line is performed: nothing is behind it then, and the
\* board is as it leaves it.
LEMMA PerformInTurn ==
  ASSUME IInv, TurnInv, config.in_order, UNCHANGED <<config, accesses>>,
         NEW q, requests /= << >>, q = requests[1], requests' = Tail(requests), Performs(q)
  PROVE  InOrder'
<1>1. /\ requests \in Seq(Packet) /\ Len(requests) \in Nat \ {0} /\ q \in Packet
      /\ q.call \in 1 .. Len(accesses) /\ q.call \in Nat /\ Len(accesses) \in Nat
      /\ Perform(q)
  BY EmptySeq, ElementOfSeq DEF Performs, IInv, Types
<1>2. /\ Len(requests') = Len(requests) - 1
      /\ \A i \in 1 .. Len(requests) - 1 : requests'[i] = requests[i + 1]
  BY <1>1, HeadTailProperties
<1>3. /\ performed'[q.call] > 0
      /\ \A k \in 1 .. Len(accesses) : k /= q.call => performed'[k] = performed[k]
      /\ \A k \in 1 .. Len(accesses) : performed[k] \in Nat
  BY <1>1, PerformCounts DEF IInv
<1>4. InTurn /\ Behind /\ BoardAsLeft
  BY DEF TurnInv, InOrder
<1>5. InTurn'
  <2> SUFFICES ASSUME NEW i \in 1 .. Len(requests'), NEW j \in 1 .. Len(requests'),
                      i < j, requests'[i].call > 0, requests'[j].call > 0
               PROVE  requests'[i].call <= requests'[j].call
    BY DEF InTurn
  <2>1. i + 1 \in 1 .. Len(requests) /\ j + 1 \in 1 .. Len(requests) /\ i + 1 < j + 1
    BY <1>1, <1>2
  <2> QED
    BY <1>1, <1>2, <1>4, <2>1 DEF InTurn
<1>6. ASSUME NEW k \in 1 .. Len(accesses), performed'[k] > 0
      PROVE  k <= q.call
  BY <1>1, <1>3, <1>4, <1>6 DEF Behind
<1>7. Behind'
  <2> SUFFICES ASSUME NEW i \in 1 .. Len(requests'), NEW k \in 1 .. Len(accesses),
                      requests'[i].call > 0, performed'[k] > 0
               PROVE  k <= requests'[i].call
    BY DEF Behind
  <2>1. i + 1 \in 1 .. Len(requests) /\ 1 < i + 1 /\ 1 \in 1 .. Len(requests)
    BY <1>1, <1>2
  <2>2. requests[i + 1].call \in Nat /\ requests'[i] = requests[i + 1]
    <3>1. requests[i + 1] \in Packet
      BY <1>1, <2>1, ElementOfSeq
    <3>2. requests'[i] = requests[i + 1]
      BY <1>1, <1>2
    <3> QED
      BY <3>1, <3>2 DEF Packet
  <2>3. q.call <= requests[i + 1].call
    BY <1>1, <1>4, <2>1, <2>2 DEF InTurn
  <2> QED
    BY <1>1, <1>6, <2>2, <2>3
<1>8. BoardAsLeft'
  <2> SUFFICES ASSUME NEW k \in 1 .. Len(accesses), Latest(k)'
               PROVE  Left(accesses[k])'
    BY DEF BoardAsLeft
  <2>1. k <= q.call /\ ~ (k < q.call)
    <3>1. k <= q.call
      BY <1>6 DEF Latest
    <3>2. ASSUME k < q.call
          PROVE  FALSE
      <4>1. q.call \in k + 1 .. Len(accesses)
        BY <1>1, <3>2
      <4>2. performed'[q.call] = 0
        BY <4>1 DEF Latest
      <4> QED
        BY <1>3, <4>2
    <3> QED
      BY <3>1, <3>2
  <2>2. k = q.call
    BY <1>1, <2>1
  <2>3. q.items = accesses[k]
    BY <1>1, <2>2 DEF TurnInv, AsAsked
  <2>4. Left(q.items)'
    BY <1>1, PerformLeaves DEF IInv
  <2> QED
    BY <2>3, <2>4 DEF Left
<1> QED
  BY <1>5, <1>7, <1>8 DEF InOrder

\* What is known of the two accesses of a double read.
LEMMA TwoAccesses ==
  ASSUME IInv, TurnInv, OneAttempt
  PROVE  LET N == Len(accesses)
         IN /\ N \in Nat /\ N > 1 /\ operation.addr \in Addr \ Dead
            /\ accesses[N - 1] = Read(operation.addr)
            /\ accesses[N] = Read(SAFE_READ_ADDRESS)
            /\ performed[N - 1] > 0 /\ performed[N] \in Nat
<1>1. Len(accesses) \in Nat /\ Len(performed) = Len(accesses) /\ performed \in Seq(Nat)
  BY DEF IInv, Types
<1>2. Len(accesses) > 1
  BY DEF TurnInv, Purpose, OneAttempt
<1>3. Len(accesses) \in 1 .. Len(performed)
  BY <1>1, <1>2
<1>4. performed[Len(accesses)] \in Nat
  BY <1>1, <1>3, ElementOfSeq
<1> QED
  BY <1>1, <1>2, <1>4, FnetAssumption DEF TurnInv, Purpose, OneAttempt

\* If the board performs one of them no register changes, and the second is
\* answered with what the register holds.
LEMMA DoubleReadPerformed ==
  ASSUME IInv, TurnInv, OneAttempt, NEW q \in Packet, requests /= << >>, q = requests[1],
         Performs(q)
  PROVE  /\ q.call \in {Len(accesses) - 1, Len(accesses)}
         /\ registers' = registers
         /\ Tells(AnswerTo(q))
<1> DEFINE N == Len(accesses)
<1>1. /\ N \in Nat /\ N > 1 /\ operation.addr \in Addr \ Dead
      /\ accesses[N - 1] = Read(operation.addr)
      /\ accesses[N] = Read(SAFE_READ_ADDRESS)
      /\ performed[N - 1] > 0 /\ performed[N] \in Nat
  BY TwoAccesses
<1>2. /\ q.call \in 1 .. N /\ Perform(q) /\ 1 \in 1 .. Len(requests)
      /\ InTurn /\ Behind /\ BoardAsLeft
  <2>1. requests \in Seq(Packet)
    BY DEF IInv, Types
  <2>2. 1 \in 1 .. Len(requests)
    BY <2>1, EmptySeq
  <2> QED
    BY <2>2 DEF Performs, TurnInv, InOrder, OneAttempt
<1>3. q.call \in {N - 1, N}
  <2>1. N - 1 \in 1 .. N
    BY <1>1
  <2>2. N - 1 <= q.call
    BY <1>1, <1>2, <2>1 DEF Behind
  <2> QED
    BY <1>1, <1>2, <2>2
<1>4. q.items = accesses[q.call]
  BY <1>2 DEF TurnInv, AsAsked
<1>5. PICK a : q.items = Read(a)
  BY <1>1, <1>3, <1>4
<1>6. registers' = registers
  BY <1>2, <1>5 DEF Perform, Bus, Read
<1>7. AnswerTo(q).call = q.call
  BY TypeOfAnswer DEF IInv
<1>8. CASE q.call = N - 1
  BY <1>1, <1>3, <1>6, <1>7, <1>8 DEF Tells
<1>9. CASE q.call = N
  <2>1. performed[N] = 0
    BY <1>1, <1>2, <1>9 DEF TurnInv, SecondRead
  <2>2. Latest(N - 1) /\ N - 1 \in 1 .. N
    BY <1>1, <2>1 DEF Latest
  <2>3. latch = registers[operation.addr]
    <3>1. Left(accesses[N - 1])
      BY <1>2, <2>2 DEF BoardAsLeft
    <3> QED
      BY <1>1, <3>1 DEF Left
  <2>4. q.items = Read(SAFE_READ_ADDRESS) /\ SAFE_READ_ADDRESS \notin Dead
    BY <1>1, <1>4, <1>9 DEF OneAttempt
  <2>5. AnswerTo(q).items = [i \in DOMAIN q.items |-> Answered(q.items[i])]
    BY DEF AnswerTo, Packet
  <2>6. 1 \in DOMAIN q.items /\ q.items[1] = [op |-> "read", addr |-> SAFE_READ_ADDRESS,
                                               data |-> Garbage, done |-> FALSE]
    BY <2>4 DEF Read
  <2>7. Answered(q.items[1]).data = latch
    BY <2>4, <2>6 DEF Answered
  <2>8. AnswerTo(q).items[1].data = latch /\ AnswerTo(q).items /= << >>
    BY <2>5, <2>6, <2>7
  <2> QED
    BY <1>3, <1>6, <2>3, <2>8 DEF Tells
<1> QED
  BY <1>3, <1>8, <1>9

\* While the board works on a double read.
LEMMA ServedSecondRead ==
  ASSUME IInv, TurnInv, OneAttempt,
         NEW q \in Packet, requests /= << >>, q = requests[1], requests' = Tail(requests),
         Performs(q) \/ Ignores(q),
         UNCHANGED <<config, pc, caller, recv, attempt, ret, calls>>
  PROVE  SecondRead'
<1> DEFINE N == Len(accesses)
<1>1. /\ N \in Nat /\ N > 1
      /\ performed[N - 1] > 0 /\ performed[N] \in Nat
  BY TwoAccesses
<1>2. UNCHANGED <<accesses, failed, operation>>
  BY DEF calls
<1>3. /\ requests \in Seq(Packet) /\ answers \in Seq(Packet)
      /\ Len(requests) \in Nat \ {0} /\ Len(answers) \in Nat
  BY EmptySeq DEF IInv, Types
<1>4. /\ Len(requests') = Len(requests) - 1
      /\ \A i \in 1 .. Len(requests) - 1 : requests'[i] = requests[i + 1]
  BY <1>3, HeadTailProperties
<1>5. /\ pc \in {"drain", "attempt"} => performed[N] = 0
      /\ pc \in {"drain", "attempt"} \/ performed[N] > 0 =>
           \A i \in 1 .. Len(requests) : requests[i].call /= N
      /\ \A i, j \in 1 .. Len(requests) :
           requests[i].call = N /\ requests[j].call = N => i = j
      /\ \A i \in 1 .. Len(answers) : Tells(answers[i])
      /\ \A c \in Channel : Tells(channels[c].last)
      /\ pc \in {"returned", "answered"} /\ ret = 1 =>
           recv.items[1].data = registers[operation.addr]
  BY DEF TurnInv, SecondRead
<1>6. /\ registers' = registers
      /\ performed'[N] > 0 => performed[N] > 0 \/ q.call = N
      /\ performed'[N] = performed[N] \/ q.call = N
  <2>1. CASE Ignores(q)
    BY <2>1 DEF Ignores
  <2>2. CASE Performs(q)
    <3>1. registers' = registers /\ q.call \in 1 .. N /\ Perform(q)
      BY <2>2, DoubleReadPerformed DEF Performs
    <3>2. N \in 1 .. N
      BY <1>1
    <3> QED
      BY <3>1, <3>2, PerformCounts DEF IInv
  <2> QED
    BY <2>1, <2>2
<1>7. ASSUME NEW i \in 1 .. Len(requests')
      PROVE  /\ i + 1 \in 1 .. Len(requests) /\ 1 \in 1 .. Len(requests) /\ i + 1 /= 1
             /\ requests'[i] = requests[i + 1]
  BY <1>3, <1>4
<1>8. pc \in {"drain", "attempt"} => performed'[N] = 0
  BY <1>3, <1>5, <1>6
<1>9. ASSUME pc \in {"drain", "attempt"} \/ performed'[N] > 0,
             NEW i \in 1 .. Len(requests')
      PROVE  requests'[i].call /= N
  BY <1>5, <1>6, <1>7, <1>9
<1>10. ASSUME NEW i \in 1 .. Len(requests'), NEW j \in 1 .. Len(requests'),
              requests'[i].call = N, requests'[j].call = N
       PROVE  i = j
  <2>1. i + 1 = j + 1
    BY <1>5, <1>7, <1>10
  <2> QED
    BY <2>1
<1>11. ASSUME NEW r, answers' = Append(answers, r), Tells(r)
       PROVE  \A i \in 1 .. Len(answers') : Tells(answers'[i])
  <2>1. /\ Len(answers') = Len(answers) + 1
        /\ \A i \in 1 .. Len(answers) : answers'[i] = answers[i]
        /\ answers'[Len(answers) + 1] = r
    BY <1>3, <1>11
  <2> QED
    BY <1>3, <1>5, <1>11, <2>1
<1>12. \A i \in 1 .. Len(answers') : Tells(answers'[i])
  <2>1. CASE answers' = answers
    BY <1>5, <2>1
  <2>2. CASE \E c \in Channel : answers' = Append(answers, channels[c].last)
    BY <1>5, <1>11, <2>2
  <2>3. CASE \E r \in Packet : r.call = 0 /\ answers' = Append(answers, r)
    <3>1. PICK r \in Packet : r.call = 0 /\ answers' = Append(answers, r)
      BY <2>3
    <3>2. Tells(r)
      BY <1>1, <3>1 DEF Tells
    <3> QED
      BY <1>11, <3>1, <3>2
  <2>4. CASE Performs(q)
    BY <1>11, <2>4, DoubleReadPerformed DEF Performs
  <2> QED
    BY <2>1, <2>2, <2>3, <2>4 DEF Ignores
<1>13. \A c \in Channel : Tells(channels'[c].last)
  <2>1. Tells(NoAnswer)
    BY <1>1 DEF Tells, NoAnswer
  <2>2. Performs(q) => Tells(AnswerTo(q))
    BY DoubleReadPerformed
  <2> QED
    BY <1>5, <2>1, <2>2 DEF Performs, Ignores
<1>14. \A r : Tells(r) =>
         (r.call = Len(accesses') => r.items /= << >>
            /\ r.items[1].data = registers'[operation'.addr])
  BY <1>2, <1>6 DEF Tells
<1>15. /\ \A i \in 1 .. Len(answers') : Tells(answers[i])'
       /\ \A c \in Channel : Tells(channels[c].last)'
  BY <1>12, <1>13, <1>14 DEF Tells
<1>16. (pc \in {"returned", "answered"} /\ ret = 1 =>
           recv.items[1].data = registers[operation.addr])'
  BY <1>2, <1>5, <1>6
<1> QED
  BY <1>2, <1>8, <1>9, <1>10, <1>15, <1>16 DEF SecondRead

LEMMA ArrivalTurn ==
  ASSUME IInv, TurnInv, RequestArrives
  PROVE  TurnInv'
<1>1. PICK i \in 1 .. (IF config.in_order THEN 1 ELSE Len(requests)) :
        /\ requests /= << >>
        /\ Serve(requests[i])
        /\ \/ i = 1 /\ requests' = Tail(requests)
           \/ i > 1 /\ requests' = RemoveAt(requests, i)
           \/ ~ config.in_order /\ requests' = requests
  BY DEF RequestArrives
<1>2. /\ UNCHANGED <<config, pc, caller, send, recv, attempt, ret, calls>>
      /\ UNCHANGED <<accesses, failed, operation>>
  BY DEF RequestArrives, calls
<1>3. requests \in Seq(Packet) /\ requests \in Seq(Request) /\ Len(requests) \in Nat \ {0}
  BY <1>1, EmptySeq DEF IInv, Types, UnderWay
<1>4. i \in 1 .. Len(requests)
  BY <1>1, <1>3
<1>5. PICK q \in Request : q = requests[i]
  BY <1>3, <1>4, ElementOfSeq
<1>6. q \in Packet /\ (Performs(q) \/ Ignores(q))
  BY <1>1, <1>5, ServesOrNot DEF IInv, Request
<1>7. config.in_order => i = 1 /\ requests' = Tail(requests)
  BY <1>1
<1>8. Thinned
  BY <1>1, <1>3, <1>4, ThinnedByOne, NotThinned
<1>9. Open' = Open
  BY <1>2 DEF Open, IsAccess
<1>10. AsAsked'
  BY <1>2, <1>8, ThinnedAsked DEF TurnInv
<1>11. InOrder'
  <2> SUFFICES ASSUME config.in_order
               PROVE  InOrder'
    BY <1>2 DEF InOrder
  <2>1. CASE Performs(q)
    BY <1>1, <1>2, <1>5, <1>7, <2>1, PerformInTurn
  <2>2. CASE Ignores(q)
    BY <1>2, <1>8, <2>2, ThinnedOrder, SameBoard DEF TurnInv, InOrder, Ignores
  <2> QED
    BY <1>6, <2>1, <2>2
<1>12. \A k \in 1 .. Len(accesses) : performed[k] > 0 => performed'[k] > 0
  BY <1>6, TypeOfPerform DEF Performs, Ignores, IInv
<1>13. Told'
  <2> SUFFICES ASSUME pc = "answered", failed = {}
               PROVE  Len(accesses) > 0 /\ performed'[Len(accesses)] > 0
    BY <1>2 DEF Told
  <2>1. Len(accesses) > 0 /\ performed[Len(accesses)] > 0 /\ Len(accesses) \in Nat
    BY DEF TurnInv, Told, IInv, Types
  <2> QED
    BY <1>12, <2>1
<1>14. Purpose'
  <2>1. Len(accesses) \in Nat /\ Purpose
    BY DEF TurnInv, IInv, Types
  <2>2. \A N : N = Len(accesses) /\ N > 1 => N - 1 \in 1 .. Len(accesses)
    BY <2>1
  <2> QED
    BY <1>2, <1>9, <1>12, <2>1, <2>2 DEF Purpose
<1>15. SecondRead'
  <2> SUFFICES ASSUME OneAttempt'
               PROVE  SecondRead'
    BY DEF SecondRead
  <2>1. OneAttempt
    BY <1>2, <1>9 DEF OneAttempt
  <2>2. config.in_order
    BY <2>1 DEF OneAttempt
  <2> QED
    BY <1>1, <1>2, <1>5, <1>6, <1>7, <2>1, <2>2, ServedSecondRead
<1>16. attempt' \in Nat
  BY <1>2 DEF TurnInv
<1> QED
  BY <1>10, <1>11, <1>13, <1>14, <1>15, <1>16 DEF TurnInv

-----------------------------------------------------------------------------
(* What is lost, and what is sent and received                             *)

\* Every answer was there before.
FewerAnswers ==
  \A i \in 1 .. Len(answers') : \E j \in 1 .. Len(answers) : answers'[i] = answers[j]

LEMMA PartOfAnswers ==
  ASSUME Types,
         \/ answers' = answers
         \/ answers /= << >> /\ answers' = Tail(answers)
         \/ \E i \in 1 .. Len(answers) : answers' = RemoveAt(answers, i)
         \/ \E i \in 1 .. Len(answers) : answers' = <<answers[i]>> \o RemoveAt(answers, i)
         \/ \E n \in 0 .. Len(answers) : answers' = SubSeq(answers, n + 1, Len(answers))
  PROVE  FewerAnswers
<1> DEFINE S == {answers[j] : j \in 1 .. Len(answers)}
<1>1. answers \in Seq(Packet) /\ Len(answers) \in Nat
  BY DEF Types
<1>2. /\ answers \in Seq(S)
      /\ \A j \in 1 .. Len(answers) : answers[j] \in S
  BY <1>1, IsASeq
<1> HIDE DEF S
<1>3. answers' \in Seq(S)
  <2>1. CASE answers /= << >> /\ answers' = Tail(answers)
    BY <1>2, <2>1, EmptySeq, HeadTailProperties
  <2>2. CASE \/ \E i \in 1 .. Len(answers) : answers' = RemoveAt(answers, i)
             \/ \E i \in 1 .. Len(answers) : answers' = <<answers[i]>> \o RemoveAt(answers, i)
    BY <1>2, <2>2, PartsOfSequence
  <2>3. CASE \E n \in 0 .. Len(answers) : answers' = SubSeq(answers, n + 1, Len(answers))
    BY <1>1, <1>2, <2>3, SubSeqProperties
  <2> QED
    BY <1>2, <2>1, <2>2, <2>3
<1>4. \A i \in 1 .. Len(answers') : answers'[i] \in S
  BY <1>3, ElementOfSeq
<1> QED
  BY <1>4 DEF FewerAnswers, S

\* A double read goes on: nothing is performed and nothing new is under way.
LEMMA SecondReadGoesOn ==
  ASSUME Types, TurnInv, OneAttempt, Thinned, FewerAnswers,
         UNCHANGED <<accesses, performed, registers, channels, operation>>,
         pc' \in {"drain", "attempt"} => pc \in {"drain", "attempt"},
         pc' \in {"returned", "answered"} /\ ret' = 1 =>
           recv'.items[1].data = registers[operation.addr]
  PROVE  SecondRead'
<1> DEFINE N == Len(accesses)
<1>1. /\ pc \in {"drain", "attempt"} => performed[N] = 0
      /\ pc \in {"drain", "attempt"} \/ performed[N] > 0 =>
           \A i \in 1 .. Len(requests) : requests[i].call /= N
      /\ \A i, j \in 1 .. Len(requests) :
           requests[i].call = N /\ requests[j].call = N => i = j
      /\ \A i \in 1 .. Len(answers) : Tells(answers[i])
      /\ \A c \in Channel : Tells(channels[c].last)
  BY DEF TurnInv, SecondRead
<1>2. PICK f \in [1 .. Len(requests') -> 1 .. Len(requests)] :
        /\ \A i \in 1 .. Len(requests') : requests'[i] = requests[f[i]]
        /\ \A i, j \in 1 .. Len(requests') : i < j => f[i] < f[j]
  BY DEF Thinned
<1>3. \A i \in 1 .. Len(requests') : f[i] \in 1 .. Len(requests)
  OBVIOUS
<1>4. pc' \in {"drain", "attempt"} \/ performed'[N] > 0 =>
        \A i \in 1 .. Len(requests') : requests'[i].call /= N
  BY <1>1, <1>2, <1>3
<1>5. ASSUME NEW i \in 1 .. Len(requests'), NEW j \in 1 .. Len(requests'),
             requests'[i].call = N, requests'[j].call = N
      PROVE  i = j
  <2>1. f[i] = f[j]
    BY <1>1, <1>2, <1>3, <1>5
  <2>2. ~ (i < j) /\ ~ (j < i)
    BY <1>2, <1>3, <2>1
  <2> QED
    BY <2>2
<1>6. \A i \in 1 .. Len(answers') : Tells(answers'[i])
  BY <1>1 DEF FewerAnswers
<1>7. /\ \A i \in 1 .. Len(answers') : Tells(answers[i])'
      /\ \A c \in Channel : Tells(channels[c].last)'
  BY <1>1, <1>6 DEF Tells
<1> QED
  BY <1>1, <1>4, <1>5, <1>7 DEF SecondRead

LEMMA LostTurn ==
  ASSUME IInv, TurnInv, RequestUnheard \/ Lose
  PROVE  TurnInv'
<1>1. /\ UNCHANGED <<config, pc, caller, recv, attempt, ret>>
      /\ UNCHANGED <<registers, latch, channels, performed, operation, accesses, failed>>
  BY DEF RequestUnheard, Lose, board, calls
<1>2. requests \in Seq(Packet) /\ answers \in Seq(Packet)
  BY DEF IInv, Types
<1>3. Thinned
  <2>1. CASE RequestUnheard
    <3>1. 1 \in 1 .. Len(requests) /\ requests' = Tail(requests)
      BY <1>2, <2>1, EmptySeq DEF RequestUnheard
    <3> QED
      BY <1>2, <3>1, ThinnedByOne
  <2>2. CASE Lose
    BY <1>2, <2>2, LenProperties, ThinnedByOne, NotThinned DEF Lose
  <2> QED
    BY <2>1, <2>2
<1>4. FewerAnswers
  <2>1. DOMAIN answers = 1 .. Len(answers)
    BY <1>2, LenProperties
  <2> QED
    BY <2>1, PartOfAnswers DEF RequestUnheard, Lose, IInv
<1>5. Open' = Open
  BY <1>1 DEF Open, IsAccess
<1>6. AsAsked' /\ InOrder'
  BY <1>1, <1>3, ThinnedAsked, ThinnedOrder, SameBoard DEF TurnInv, InOrder
<1>7. Told' /\ Purpose'
  BY <1>1, <1>5 DEF TurnInv, Told, Purpose
<1>8. SecondRead'
  <2> SUFFICES ASSUME OneAttempt'
               PROVE  SecondRead'
    BY DEF SecondRead
  <2>1. OneAttempt
    BY <1>1, <1>5 DEF OneAttempt
  <2>2. pc \in {"returned", "answered"} /\ ret = 1 =>
          recv.items[1].data = registers[operation.addr]
    BY <2>1 DEF TurnInv, SecondRead
  <2> QED
    BY <1>1, <1>3, <1>4, <2>1, <2>2, SecondReadGoesOn DEF IInv
<1> QED
  BY <1>1, <1>6, <1>7, <1>8 DEF TurnInv

\* What is sent is the last access: it is behind everything.
LEMMA SentInTurn ==
  ASSUME IInv, TurnInv, Sending, requests' = Append(requests, send),
         UNCHANGED <<config, accesses, performed, registers, latch>>
  PROVE  AsAsked' /\ InOrder'
<1>1. /\ requests \in Seq(Packet) /\ requests \in Seq(Request) /\ Len(requests) \in Nat
      /\ Len(accesses) \in Nat
  BY DEF IInv, Types, UnderWay
<1>2. /\ Len(requests') = Len(requests) + 1
      /\ \A i \in 1 .. Len(requests) : requests'[i] = requests[i]
      /\ requests'[Len(requests) + 1] = send
  BY <1>1
<1>3. send.call > 0 => send.call = Len(accesses) /\ send.items = accesses[Len(accesses)]
  BY <1>1 DEF IInv, CurrentCall, Sending, Open
<1>4. \A i \in 1 .. Len(requests) : requests[i].call > 0 => requests[i].call <= Len(accesses)
  <2>1. \A i \in 1 .. Len(requests) : requests[i] \in Request
    BY <1>1, ElementOfSeq
  <2>2. \A q \in Request : q.call > 0 => q.call <= Len(accesses)
    BY <1>1 DEF Request
  <2> QED
    BY <2>1, <2>2
<1>5. AsAsked'
  <2> SUFFICES ASSUME NEW i \in 1 .. Len(requests'), requests'[i].call > 0
               PROVE  requests'[i].items = accesses[requests'[i].call]
    BY DEF AsAsked
  <2>1. CASE i \in 1 .. Len(requests)
    BY <1>2, <2>1 DEF TurnInv, AsAsked
  <2>2. CASE i = Len(requests) + 1
    BY <1>2, <1>3, <2>2
  <2> QED
    BY <1>1, <1>2, <2>1, <2>2
<1>6. ASSUME InTurn
      PROVE  InTurn'
  <2> SUFFICES ASSUME NEW i \in 1 .. Len(requests'), NEW j \in 1 .. Len(requests'),
                      i < j, requests'[i].call > 0, requests'[j].call > 0
               PROVE  requests'[i].call <= requests'[j].call
    BY DEF InTurn
  <2>1. i \in 1 .. Len(requests)
    BY <1>1, <1>2
  <2>2. CASE j \in 1 .. Len(requests)
    BY <1>2, <1>6, <2>1, <2>2 DEF InTurn
  <2>3. CASE j = Len(requests) + 1
    BY <1>2, <1>3, <1>4, <2>1, <2>3
  <2> QED
    BY <1>1, <1>2, <2>2, <2>3
<1>7. ASSUME Behind
      PROVE  Behind'
  <2> SUFFICES ASSUME NEW i \in 1 .. Len(requests'), NEW k \in 1 .. Len(accesses),
                      requests'[i].call > 0, performed[k] > 0
               PROVE  k <= requests'[i].call
    BY DEF Behind
  <2>1. CASE i \in 1 .. Len(requests)
    BY <1>2, <1>7, <2>1 DEF Behind
  <2>2. CASE i = Len(requests) + 1
    BY <1>2, <1>3, <2>2
  <2> QED
    BY <1>1, <1>2, <2>1, <2>2
<1> QED
  BY <1>5, <1>6, <1>7, SameBoard DEF TurnInv, InOrder

\* The second access of a double read is sent.
LEMMA SecondReadSent ==
  ASSUME IInv, TurnInv, OneAttempt, SendTo
  PROVE  SecondRead'
<1> DEFINE N == Len(accesses)
<1>1. /\ UNCHANGED <<answers, channels, operation, accesses, performed, registers>>
      /\ pc = "attempt" /\ pc' = "receive"
  BY DEF SendTo, board, calls
<1>2. requests \in Seq(Packet) /\ Len(requests) \in Nat
  BY DEF IInv, Types
<1>3. /\ Open /\ send.call = N
      /\ requests' = Append(requests, send)
  <2>1. Open /\ attempt = 0
    BY <1>1 DEF OneAttempt
  <2>2. send.call = N
    BY <2>1 DEF IInv, CurrentCall
  <2>3. requests' = Append(requests, send)
    BY <2>1 DEF SendTo, Sends
  <2> QED
    BY <2>1, <2>2, <2>3
<1>4. /\ performed[N] = 0
      /\ \A i \in 1 .. Len(requests) : requests[i].call /= N
      /\ \A i \in 1 .. Len(answers) : Tells(answers[i])
      /\ \A c \in Channel : Tells(channels[c].last)
  BY <1>1 DEF TurnInv, SecondRead
<1>5. /\ Len(requests') = Len(requests) + 1
      /\ \A i \in 1 .. Len(requests) : requests'[i] = requests[i]
  BY <1>2, <1>3
<1>6. ASSUME NEW i \in 1 .. Len(requests'), requests'[i].call = N
      PROVE  i = Len(requests) + 1
  BY <1>2, <1>4, <1>5, <1>6
<1>7. /\ \A i \in 1 .. Len(answers') : Tells(answers[i])'
      /\ \A c \in Channel : Tells(channels[c].last)'
  BY <1>1, <1>4 DEF Tells
<1>8. \A i, j \in 1 .. Len(requests') :
        requests'[i].call = N /\ requests'[j].call = N => i = j
  BY <1>6
<1> QED
  BY <1>1, <1>4, <1>7, <1>8 DEF SecondRead

\* As long as nothing failed, what is taken for the answer is the answer.
LEMMA SecondReadReceived ==
  ASSUME IInv, Timely, TurnInv, OneAttempt, Receive, attempt' = 0
  PROVE  SecondRead'
<1> DEFINE N == Len(accesses)
<1>1. /\ UNCHANGED <<requests, channels, operation, accesses, performed, registers, failed, caller>>
      /\ pc = "receive" /\ answers /= << >>
      /\ recv' = Into(answers[1]) /\ answers' = Tail(answers)
  BY DEF Receive, board, calls
<1>2. Open /\ IsAccess /\ failed = {} /\ requests \in Seq(Packet) /\ N \in Nat
  <2>1. Open /\ failed = {}
    BY <1>1 DEF OneAttempt
  <2>2. IsAccess
    BY <2>1 DEF Open
  <2> QED
    BY <2>1, <2>2 DEF IInv, Types
<1>3. /\ pc' = "returned"
      /\ check_reply(answers[1]) /= 0
  <2>1. attempt = 0
    BY DEF OneAttempt
  <2>2. attempt' /= attempt + 1
    BY <2>1
  <2> QED
    BY <2>2 DEF Receive, Return, NextAttempt
<1>4. answers[1].call \in 1 .. N /\ answers[1].call .. N - 1 \subseteq failed
  BY <1>1, <1>2, <1>3, AnswerVouches DEF check_reply, Port_!Vouches
<1>5. answers[1].call = N
  BY <1>2, <1>4
<1>6. 1 \in 1 .. Len(answers)
  BY <1>1, EmptySeq DEF IInv, Types
<1>7. answers[1].items /= << >> /\ answers[1].items[1].data = registers[operation.addr]
  BY <1>5, <1>6 DEF TurnInv, SecondRead, Tells
<1>8. recv'.items[1].data = registers[operation.addr]
  BY <1>1, <1>7 DEF Into
<1>9. Thinned /\ FewerAnswers
  BY <1>1, <1>2, NotThinned, PartOfAnswers DEF IInv
<1> QED
  BY <1>1, <1>3, <1>8, <1>9, SecondReadGoesOn DEF IInv

LEMMA PacketTurn ==
  ASSUME IInv, Timely, TurnInv, SendRecvPacket
  PROVE  TurnInv'
<1>1. /\ Sending /\ Sending' /\ pc \in {"drain", "attempt", "receive"}
      /\ pc' \in {"attempt", "receive", "returned"}
      /\ UNCHANGED <<config, caller, send, operation, accesses, failed>>
      /\ UNCHANGED <<registers, latch, channels, performed>>
  BY DEF SendRecvPacket, Drain, SelectFails, GiveUp, SendTo, SendInterrupted, SendFails,
         TimeOut, Receive, Return, Sending, board, calls, network
<1>2. Open' = Open
  BY <1>1 DEF Open, IsAccess, Sending
<1>3. attempt' \in Nat
  BY DEF SendRecvPacket, Drain, SelectFails, GiveUp, SendTo, SendInterrupted, SendFails,
         TimeOut, Receive, NextAttempt, TurnInv
<1>4. requests \in Seq(Packet) /\ requests' \in {requests, Append(requests, send)}
  BY DEF SendRecvPacket, Drain, SelectFails, GiveUp, SendTo, SendInterrupted, SendFails,
         TimeOut, Receive, network, IInv, Types
<1>5. AsAsked' /\ InOrder'
  <2>1. CASE requests' = requests
    BY <1>1, <1>4, <2>1, NotThinned, ThinnedAsked, ThinnedOrder, SameBoard DEF TurnInv, InOrder
  <2>2. CASE requests' = Append(requests, send)
    BY <1>1, <2>2, SentInTurn
  <2> QED
    BY <1>4, <2>1, <2>2
<1>6. Told' /\ Purpose'
  BY <1>1, <1>2 DEF TurnInv, Told, Purpose
<1>7. SecondRead'
  <2> SUFFICES ASSUME OneAttempt'
               PROVE  SecondRead'
    BY DEF SecondRead
  <2>1. attempt' = 0 /\ attempt \in Nat
    BY DEF OneAttempt, TurnInv
  <2>2. attempt' = attempt => OneAttempt
    BY <1>1, <1>2, <2>1 DEF OneAttempt
  <2>3. CASE Drain
    <3>1. Thinned /\ FewerAnswers /\ OneAttempt
      BY <1>4, <2>2, <2>3, NotThinned, PartOfAnswers DEF Drain, IInv
    <3> QED
      BY <1>1, <2>3, <3>1, SecondReadGoesOn DEF Drain, IInv
  <2>4. CASE SelectFails \/ SendFails
    <3>1. Thinned /\ FewerAnswers /\ OneAttempt
      BY <1>4, <2>2, <2>4, NotThinned, PartOfAnswers DEF SelectFails, SendFails, IInv
    <3> QED
      BY <1>1, <2>4, <3>1, SecondReadGoesOn DEF SelectFails, SendFails, Return, IInv
  <2>5. CASE GiveUp
    BY <2>1, <2>5, FnetAssumption DEF GiveUp
  <2>6. CASE SendInterrupted \/ TimeOut
    BY <2>1, <2>6 DEF SendInterrupted, TimeOut, NextAttempt
  <2>7. CASE SendTo
    BY <2>2, <2>7, SecondReadSent DEF SendTo
  <2>8. CASE Receive
    <3>1. OneAttempt
      BY <2>1, <2>2, <2>8 DEF Receive, NextAttempt
    <3> QED
      BY <2>1, <2>8, <3>1, SecondReadReceived
  <2> QED
    BY <2>3, <2>4, <2>5, <2>6, <2>7, <2>8 DEF SendRecvPacket
<1> QED
  BY <1>3, <1>5, <1>6, <1>7 DEF TurnInv

-----------------------------------------------------------------------------
(* Accesses begin and return                                               *)

\* The access c, with these items, is one of the operation.
Suits(c, items) ==
  /\ c = "write" => /\ operation'.addr \in Used /\ operation'.data \in Data
                    /\ items = Write(operation'.addr, operation'.data)
  /\ c = "first read" => operation'.addr \in Used /\ items = Read(operation'.addr)
  /\ c = "second read" =>
       /\ operation'.addr \in Used /\ items = Read(SAFE_READ_ADDRESS)
       /\ Len(accesses) > 0 /\ accesses[Len(accesses)] = Read(operation'.addr)
       /\ failed = {} => performed[Len(accesses)] > 0

LEMMA BeginTurn ==
  ASSUME IInv, TurnInv,
         NEW c, NEW port, NEW n, NEW items \in Seq(Item),
         SendRecvRegacc(c, port, n, items), Suits(c, items)
  PROVE  TurnInv'
<1> PICK N \in Nat : N = Len(accesses)
  BY DEF IInv, Types
<1>1. /\ accesses \in Seq(Seq(Item)) /\ performed \in Seq(Nat) /\ N = Len(accesses)
      /\ Len(performed) = N
      /\ requests \in Seq(Packet) /\ requests \in Seq(Request) /\ Len(requests) \in Nat
      /\ answers \in Seq(Reply) /\ Len(answers) \in Nat
  BY DEF IInv, Types, UnderWay
<1>2. /\ caller' = c /\ attempt' = 0 /\ pc' = "drain"
      /\ accesses' = Append(accesses, items) /\ performed' = Append(performed, 0)
      /\ UNCHANGED <<registers, latch, channels, requests, answers, config, failed>>
  BY DEF SendRecvRegacc, Call, network
<1>3. /\ Len(accesses') = N + 1 /\ accesses'[N + 1] = items
      /\ \A i \in 1 .. N : accesses'[i] = accesses[i]
  BY <1>1, <1>2
<1>4. /\ Len(performed') = N + 1 /\ performed'[N + 1] = 0
      /\ \A i \in 1 .. N : performed'[i] = performed[i]
  BY <1>1, <1>2
<1>5. \A q \in Request : q.call \in 0 .. N
  <2> SUFFICES ASSUME NEW q \in Request
               PROVE  q.call \in 0 .. N
    OBVIOUS
  <2>1. q.call \in Nat /\ (q.call = 0 \/ q.call \in 1 .. N)
    BY <1>1 DEF Request, Packet
  <2> QED
    BY <2>1
<1>6. /\ \A i \in 1 .. Len(requests) : requests[i].call \in 0 .. N
      /\ \A i \in 1 .. Len(answers) : answers[i].call \in 0 .. N
      /\ \A d \in Channel : channels[d].last.call \in 0 .. N
  <2>1. /\ \A i \in 1 .. Len(requests) : requests[i] \in Request
        /\ \A i \in 1 .. Len(answers) : answers[i] \in Request
    BY <1>1, SequencesOfPackets, ElementOfSeq
  <2>2. \A d \in Channel : channels[d].last \in Request \cup {NoAnswer}
    BY SequencesOfPackets DEF IInv, UnderWay
  <2>3. NoAnswer.call \in 0 .. N
    BY <1>1 DEF NoAnswer
  <2> QED
    BY <1>5, <2>1, <2>2, <2>3
<1>7. AsAsked'
  BY <1>1, <1>2, <1>3, <1>6 DEF TurnInv, AsAsked
<1>8. ASSUME InTurn
      PROVE  InTurn'
  BY <1>2, <1>8 DEF InTurn
<1>9. ASSUME Behind
      PROVE  Behind'
  <2> SUFFICES ASSUME NEW i \in 1 .. Len(requests), NEW k \in 1 .. Len(accesses'),
                      requests[i].call > 0, performed'[k] > 0
               PROVE  k <= requests[i].call
    BY <1>2 DEF Behind
  <2>1. k \in 1 .. N
    BY <1>1, <1>3, <1>4
  <2> QED
    BY <1>4, <1>9, <2>1 DEF Behind
<1>10. ASSUME BoardAsLeft
       PROVE  BoardAsLeft'
  <2> SUFFICES ASSUME NEW k \in 1 .. Len(accesses'), Latest(k)'
               PROVE  Left(accesses[k])'
    BY DEF BoardAsLeft
  <2>1. k \in 1 .. N
    <3>1. performed'[k] > 0
      BY DEF Latest
    <3>2. k /= N + 1
      BY <1>4, <3>1
    <3>3. k \in 1 .. N + 1
      BY <1>3
    <3> QED
      BY <3>2, <3>3
  <2>2. \A j \in k + 1 .. N : j \in 1 .. N /\ j \in k + 1 .. N + 1
    BY <2>1
  <2>3. performed'[k] > 0 /\ \A j \in k + 1 .. N + 1 : performed'[j] = 0
    BY <1>3 DEF Latest
  <2>4. performed[k] > 0 /\ \A j \in k + 1 .. N : performed[j] = 0
    BY <1>4, <2>1, <2>2, <2>3
  <2>5. Latest(k)
    BY <1>1, <2>4 DEF Latest
  <2>6. Left(accesses[k]) /\ accesses'[k] = accesses[k]
    BY <1>1, <1>3, <1>10, <2>1, <2>5 DEF BoardAsLeft
  <2> QED
    BY <1>2, <2>6 DEF Left
<1>11. InOrder'
  BY <1>2, <1>8, <1>9, <1>10 DEF TurnInv, InOrder
<1>12. Told'
  BY <1>2 DEF Told
<1>13. Purpose'
  <2> DEFINE Wrote == c = "write"
             Reads == c = "first read"
             Again == c = "second read"
  <2>1. /\ Wrote => /\ operation'.addr \in Used /\ operation'.data \in Data
                    /\ items = Write(operation'.addr, operation'.data)
        /\ Reads => operation'.addr \in Used /\ items = Read(operation'.addr)
        /\ Again => /\ operation'.addr \in Used /\ items = Read(SAFE_READ_ADDRESS)
                    /\ N > 0 /\ accesses[N] = Read(operation'.addr)
                    /\ failed = {} => performed[N] > 0
    BY <1>1, Zenon DEF Suits
  <2>2. /\ caller' = "write" => Wrote
        /\ caller' = "first read" => Reads
        /\ caller' = "second read" => Again
    BY <1>2, Zenon
  <2> HIDE DEF Wrote, Reads, Again
  <2>3. Wrote => /\ operation'.addr \in Used /\ operation'.data \in Data
                 /\ Len(accesses') > 0
                 /\ accesses'[Len(accesses')] = Write(operation'.addr, operation'.data)
    BY <1>3, <2>1
  <2>4. Reads => /\ operation'.addr \in Used /\ Len(accesses') > 0
                 /\ accesses'[Len(accesses')] = Read(operation'.addr)
    BY <1>3, <2>1
  <2>5. N > 0 => Len(accesses') > 1 /\ Len(accesses') - 1 = N /\ N \in 1 .. N
    BY <1>3
  <2>6. Again => /\ operation'.addr \in Used /\ Len(accesses') > 1
                 /\ accesses'[Len(accesses') - 1] = Read(operation'.addr)
                 /\ accesses'[Len(accesses')] = Read(SAFE_READ_ADDRESS)
                 /\ failed' = {} => performed'[Len(accesses') - 1] > 0
    <3>1. N > 0 => /\ accesses'[Len(accesses') - 1] = accesses[N]
                   /\ performed'[Len(accesses') - 1] = performed[N]
      BY <1>3, <1>4, <2>5
    <3>2. accesses'[Len(accesses')] = items
      BY <1>3
    <3> QED
      BY <1>2, <2>1, <2>5, <3>1, <3>2
  <2> QED
    BY <2>2, <2>3, <2>4, <2>6 DEF Purpose
<1>14. SecondRead'
  <2>1. \A q : q.call \in 0 .. N => q.call /= N + 1
    BY <1>1
  <2>2. /\ \A i \in 1 .. Len(answers') : Tells(answers[i])'
        /\ \A d \in Channel : Tells(channels[d].last)'
    BY <1>2, <1>3, <1>6, <2>1 DEF Tells
  <2>3. \A i \in 1 .. Len(requests') : requests'[i].call /= N + 1
    BY <1>2, <1>6, <2>1
  <2> QED
    BY <1>2, <1>3, <1>4, <2>2, <2>3 DEF SecondRead
<1>15. attempt' \in Nat
  BY <1>2
<1> QED
  BY <1>7, <1>11, <1>12, <1>13, <1>14, <1>15 DEF TurnInv

\* An access returns: if nothing failed, this one neither, and it was performed.
LEMMA RegaccReturnsTurn ==
  ASSUME IInv, TurnInv, RegaccReturns
  PROVE  TurnInv'
<1> DEFINE N == Len(accesses)
<1>1. /\ pc = "returned" /\ pc' = "answered" /\ Open /\ N \in Nat
      /\ requests \in Seq(Packet) /\ ret \in {-1, 0, 1}
      /\ failed' = IF ret >= 1 THEN failed ELSE failed \cup {N}
  BY DEF RegaccReturns, Open, IInv, Types
<1>2. /\ UNCHANGED <<config, caller, recv, attempt, ret, requests, answers>>
      /\ UNCHANGED <<registers, latch, channels, performed, operation, accesses>>
  BY DEF RegaccReturns, network, board
<1>3. Thinned /\ FewerAnswers
  BY <1>1, <1>2, NotThinned, PartOfAnswers DEF IInv
<1>4. failed' = {} => failed = {} /\ ret = 1
  BY <1>1
<1>5. AsAsked' /\ InOrder'
  BY <1>2, <1>3, ThinnedAsked, ThinnedOrder, SameBoard DEF TurnInv, InOrder
<1>6. Told'
  <2> SUFFICES ASSUME failed' = {}
               PROVE  N > 0 /\ performed[N] > 0
    BY <1>2 DEF Told
  <2>1. Succeeded /\ failed = {}
    BY <1>1, <1>4 DEF Succeeded
  <2>2. /\ recv.call \in 1 .. N /\ performed[recv.call] > 0
        /\ recv.call .. N - 1 \subseteq failed
    BY <2>1 DEF IInv, Vouched, Port_!Vouches
  <2>3. recv.call = N
    BY <1>1, <2>1, <2>2
  <2> QED
    BY <2>2, <2>3
<1>7. Purpose'
  <2>1. /\ caller = "write" =>
             /\ operation.addr \in Used /\ operation.data \in Data /\ N > 0
             /\ accesses[N] = Write(operation.addr, operation.data)
        /\ caller = "first read" =>
             operation.addr \in Used /\ N > 0 /\ accesses[N] = Read(operation.addr)
        /\ caller = "second read" =>
             /\ operation.addr \in Used /\ N > 1
             /\ accesses[N - 1] = Read(operation.addr)
             /\ accesses[N] = Read(SAFE_READ_ADDRESS)
             /\ failed = {} => performed[N - 1] > 0
    BY <1>1 DEF TurnInv, Purpose
  <2> QED
    BY <1>2, <1>4, <2>1 DEF Purpose
<1>8. SecondRead'
  <2> SUFFICES ASSUME OneAttempt'
               PROVE  SecondRead'
    BY DEF SecondRead
  <2>1. OneAttempt
    BY <1>1, <1>2, <1>4 DEF OneAttempt
  <2>2. ret = 1 => recv.items[1].data = registers[operation.addr]
    BY <1>1, <2>1 DEF TurnInv, SecondRead
  <2> QED
    BY <1>1, <1>2, <1>3, <2>1, <2>2, SecondReadGoesOn DEF IInv
<1> QED
  BY <1>2, <1>5, <1>6, <1>7, <1>8 DEF TurnInv

\* The steps between accesses.
LEMMA OtherTurn ==
  ASSUME IInv, TurnInv,
         \/ (Connect /\ ~ ConnectIdempotent) \/ Close \/ DisconnectReturns
         \/ pc = "answered" /\ \E ok : Finish(ok)
  PROVE  TurnInv'
<1>1. requests \in Seq(Packet) /\ attempt \in Nat
  BY DEF IInv, Types, TurnInv
<1>2. CASE pc = "answered" /\ \E ok : Finish(ok)
  <2>1. /\ requests' = requests /\ attempt' = attempt /\ ~ Open' /\ pc' /= "answered"
        /\ UNCHANGED <<config, accesses, performed, registers, latch>>
    BY <1>2 DEF Finish, Open, network, board
  <2> QED
    BY <1>1, <2>1, NotThinned, BetweenTurn
<1>3. CASE ProbeReturns
  <2>1. /\ requests' \in {requests, << >>} /\ attempt' = attempt /\ ~ Open' /\ pc' /= "answered"
        /\ UNCHANGED <<config, accesses, performed, registers, latch>>
    BY <1>3 DEF ProbeReturns, Open, network, board, calls
  <2> QED
    BY <1>1, <2>1, NotThinned, BetweenTurn
<1>4. CASE \/ ConnectReliable \/ EstablishArm \/ ArmReturns \/ ResetReturns
           \/ Close \/ DisconnectReturns
  <2>1. /\ requests' = requests /\ attempt' \in {0, attempt}
        /\ UNCHANGED <<config, accesses, performed, registers, latch>>
    BY <1>4 DEF ConnectReliable, EstablishArm, ArmReturns, ResetReturns, Close,
         DisconnectReturns, Unchanged, Quits, Call, NextTry, NextPort, network, board
  <2>2. \/ pc' \in {"establish", "ready", "refused", "end"}
        \/ pc' = "drain" /\ caller' \in {"arm", "reset", "disconnect"}
    <3>1. NextTry \/ NextPort => pc' \in {"establish", "refused"}
      BY DEF NextTry, NextPort, Quits
    <3>2. CASE ArmReturns
      BY <3>1, <3>2 DEF ArmReturns, Call
    <3>3. CASE ResetReturns
      BY <3>1, <3>3 DEF ResetReturns, Quits
    <3>4. CASE ConnectReliable \/ EstablishArm \/ Close
      BY <3>4 DEF ConnectReliable, EstablishArm, Close, Quits, Call
    <3>5. CASE DisconnectReturns
      BY <3>5 DEF DisconnectReturns, Quits, Call
    <3> QED
      BY <1>4, <3>2, <3>3, <3>4, <3>5
  <2>3. ~ Open' /\ pc' /= "answered"
    BY <2>2 DEF Open, IsAccess
  <2> QED
    BY <1>1, <2>1, <2>3, NotThinned, BetweenTurn
<1> QED
  BY <1>2, <1>3, <1>4 DEF Connect

\* The accesses of the operations.
LEMMA OperationTurn ==
  ASSUME IInv, TurnInv,
         \/ Operate \/ OnlyReadReturns \/ FirstReadGoesOn \/ FirstReadFails
         \/ SecondReadReturns \/ WriteReturns \/ SendTcpResetReturns
         \/ OpenTcpConnects \/ OpenTcpAgain
  PROVE  TurnInv'
<1> DEFINE Starting(c, items) == items \in Seq(Item) /\ Another(c, items)
<1>1. Used \subseteq Addr /\ SAFE_READ_ADDRESS \in Addr
  BY FnetAssumption
<1>2. ASSUME NEW c, NEW items, Starting(c, items), Suits(c, items)
      PROVE  TurnInv'
  BY <1>2, BeginTurn DEF Another
<1> HIDE DEF Starting
<1>3. CASE Close \/ (pc = "answered" /\ \E ok : Finish(ok))
  BY <1>3, OtherTurn
<1>4. CASE \E c \in {"only read", "tcp reset", "open tcp"} : \E items : Starting(c, items)
  <2>1. PICK c \in {"only read", "tcp reset", "open tcp"} : \E items : Starting(c, items)
    BY <1>4
  <2>2. PICK items : Starting(c, items)
    BY <2>1
  <2>3. Suits(c, items)
    BY <2>1 DEF Suits
  <2> QED
    BY <1>2, <2>2, <2>3
<1>5. CASE \E a \in Used : DoubleReadAddr(a)
  <2>1. PICK a \in Used : DoubleReadAddr(a)
    BY <1>5
  <2>2. Starting("first read", Read(a)) /\ operation'.addr = a
    BY <1>1, <2>1, ItemsOfAccesses DEF DoubleReadAddr, Starts, FirstAddress, Starting
  <2> QED
    BY <1>2, <2>2 DEF Suits
<1>6. CASE \E a \in Used, d \in Data : WriteAddr(a, d)
  <2>1. PICK a \in Used, d \in Data : WriteAddr(a, d)
    BY <1>6
  <2>2. Starting("write", Write(a, d)) /\ operation'.addr = a /\ operation'.data = d
    BY <1>1, <2>1, ItemsOfAccesses DEF WriteAddr, Starts, Starting
  <2> QED
    BY <1>2, <2>2 DEF Suits
<1>7. CASE FirstReadGoesOn
  <2>1. /\ Starting("second read", Read(SAFE_READ_ADDRESS)) /\ operation' = operation
        /\ pc = "answered" /\ caller = "first read"
    BY <1>1, <1>7, ItemsOfAccesses DEF FirstReadGoesOn, Answer, Starting
  <2>2. /\ operation.addr \in Used /\ Len(accesses) > 0
        /\ accesses[Len(accesses)] = Read(operation.addr)
        /\ failed = {} => performed[Len(accesses)] > 0
    BY <2>1 DEF TurnInv, Purpose, Told
  <2> QED
    BY <1>2, <2>1, <2>2 DEF Suits
<1>8. CASE (\E a \in Used : ReadOnce(a)) \/ SendTcpReset \/ OpenTcp
  BY <1>1, <1>4, <1>8, ItemsOfAccesses DEF ReadOnce, SendTcpReset, OpenTcp, Starting
<1>9. CASE OpenTcpAgain
  BY <1>1, <1>3, <1>4, <1>9, ItemsOfAccesses DEF OpenTcpAgain, Answer, Starting
<1>10. CASE \/ OnlyReadReturns \/ FirstReadFails \/ SecondReadReturns \/ WriteReturns
            \/ SendTcpResetReturns \/ OpenTcpConnects
  BY <1>3, <1>10 DEF OnlyReadReturns, FirstReadFails, SecondReadReturns, WriteReturns,
     SendTcpResetReturns, OpenTcpConnects, Answer
<1>11. CASE Operate
  BY <1>3, <1>5, <1>6, <1>8, <1>11 DEF Operate
<1> QED
  BY <1>7, <1>9, <1>10, <1>11

LEMMA NextTurn ==
  ASSUME IInv, Timely, TurnInv, [Next]_vars
  PROVE  TurnInv'
<1>1. CASE UNCHANGED vars
  <2>1. /\ UNCHANGED <<config, pc, caller, recv, attempt, ret, requests, answers>>
        /\ UNCHANGED <<registers, latch, channels, performed, operation, accesses, failed>>
    BY <1>1 DEF vars, network, board, calls
  <2>2. AsAsked' /\ InOrder'
    <3>1. Thinned
      BY <2>1, NotThinned DEF IInv, Types
    <3> QED
      BY <2>1, <3>1, ThinnedAsked, ThinnedOrder, SameBoard DEF TurnInv, InOrder
  <2>3. Told' /\ Purpose'
    BY <2>1 DEF TurnInv, Told, Purpose, Open, IsAccess
  <2>4. SecondRead'
    BY <2>1 DEF TurnInv, SecondRead, OneAttempt, Tells, Open, IsAccess
  <2> QED
    BY <2>1, <2>2, <2>3, <2>4 DEF TurnInv
<1>2. CASE Network
  BY <1>2, ArrivalTurn, LostTurn DEF Network
<1>3. CASE SendRecvPacket
  BY <1>3, PacketTurn
<1>4. CASE ConnectIdempotent
  <2>1. SendRecvRegacc("probe", 0, -1, << >>) /\ Suits("probe", << >>)
    BY <1>4 DEF ConnectIdempotent, Suits
  <2>2. << >> \in Seq(Item)
    BY EmptySeq
  <2> QED
    BY <2>1, <2>2, BeginTurn
<1>5. CASE (Connect /\ ~ ConnectIdempotent) \/ DisconnectReturns
  BY <1>5, OtherTurn
<1>6. CASE Operate
  BY <1>6, OperationTurn
<1>7. CASE Continue
  BY <1>5, <1>7, RegaccReturnsTurn, OperationTurn DEF Continue
<1> QED
  BY <1>1, <1>2, <1>3, <1>4, <1>5, <1>6, <1>7 DEF Next

\* The order of what is under way, and what the accesses leave on the board.
LEMMA TurnHolds == Spec /\ []Timely => []TurnInv
<1>1. ASSUME Init
      PROVE  TurnInv
  <2>1. /\ requests = << >> /\ accesses = << >> /\ attempt = 0 /\ pc = "closed"
        /\ ~ Open
    BY <1>1 DEF Init, Open
  <2>2. 1 .. Len(requests) = {} /\ 1 .. Len(accesses) = {}
    BY <2>1, EmptySeq
  <2> QED
    BY <2>1, <2>2 DEF TurnInv, AsAsked, InOrder, InTurn, Behind, BoardAsLeft, Told, Purpose,
         SecondRead, OneAttempt
<1> QED
  BY <1>1, NextTurn, MatchingInv, PTL DEF Spec

\* A register that was written has the value, on a network that keeps order,
\* as long as no access failed and the packet was sent: whatever is lost, and
\* however often the write is sent again (write_addr).
THEOREM WriteIsDone == Spec /\ []Timely => WriteTakesEffect
<1>1. ASSUME IInv, TurnInv, WriteReturns, result'.ok, ret = 1, failed = {}, config.in_order,
             operation.addr \notin Dead
      PROVE  registers[operation.addr] = operation.data
  <2> DEFINE N == Len(accesses)
  <2>1. /\ pc = "answered" /\ caller = "write" /\ N \in Nat
    BY <1>1 DEF WriteReturns, Answer, IInv, Types
  <2>2. /\ N > 0 /\ performed[N] > 0
        /\ operation.addr \in Addr \ Dead /\ operation.data \in Data
        /\ accesses[N] = Write(operation.addr, operation.data)
    BY <1>1, <2>1, FnetAssumption DEF TurnInv, Told, Purpose
  <2>3. N \in 1 .. N /\ Latest(N)
    BY <2>1, <2>2 DEF Latest
  <2>4. Left(accesses[N])
    BY <1>1, <2>3 DEF TurnInv, InOrder, BoardAsLeft
  <2> QED
    BY <2>2, <2>4 DEF Left
<1>2. ASSUME IInv, TurnInv
      PROVE  [ WriteReturns /\ result'.ok /\ ret = 1 /\ failed = {} /\ config.in_order
               /\ operation.addr \notin Dead
               => registers[operation.addr] = operation.data ]_vars
  BY <1>1, <1>2
<1> QED
  BY <1>2, MatchingInv, TurnHolds, PTL DEF WriteTakesEffect

\* A double read returns what the register holds, on a network that keeps order,
\* as long as nothing failed and the second of its accesses needed one attempt,
\* if the register read for its sake answers (double_read_addr).
THEOREM DoubleReadHolds ==
  ASSUME SAFE_READ_ADDRESS \notin Dead
  PROVE  Spec /\ []Timely => DoubleReadIsRight
<1>1. ASSUME IInv, TurnInv, SecondReadReturns, result'.ok, ret = 1, failed = {},
             config.in_order, attempt = 0, operation.addr \notin Dead
      PROVE  result'.data = registers[operation.addr]
  <2>1. pc = "answered" /\ caller = "second read" /\ result'.data = recv.items[1].data
    BY <1>1 DEF SecondReadReturns, Answer, Finish
  <2>2. OneAttempt
    BY <1>1, <2>1 DEF OneAttempt
  <2> QED
    BY <1>1, <2>1, <2>2 DEF TurnInv, SecondRead
<1>2. ASSUME IInv, TurnInv
      PROVE  [ SecondReadReturns /\ result'.ok /\ ret = 1 /\ failed = {} /\ config.in_order
               /\ attempt = 0 /\ operation.addr \notin Dead
               => result'.data = registers[operation.addr] ]_vars
  BY <1>1, <1>2
<1> QED
  BY <1>2, MatchingInv, TurnHolds, PTL DEF DoubleReadIsRight

=============================================================================
