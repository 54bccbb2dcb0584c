---------------------------- MODULE DataBuilder ----------------------------
(***************************************************************************)
(* The data builder process (data_builder.c): the main loop pulls bytes    *)
(* of one FPGA's TCP stream into the ring, assembles events word by word,  *)
(* publishes each complete event, and scans for the next event start       *)
(* ("reeling") after an error.  It also answers its manager and obeys      *)
(* signals.  CERES = TRUE is ceres_read_proc, CERES = FALSE is             *)
(* fontus_read_proc.                                                       *)
(*                                                                         *)
(* A byte is its place in the stream: `wire' is the sequence of 32-bit     *)
(* words the kernel will deliver and byte p of the stream is byte          *)
(* (p - 1) % 4 of word (p - 1) \div 4 + 1.  Four bytes of the ring make    *)
(* up a word of the wire only when they are its four bytes in order; any   *)
(* other four bytes are Garbage.                                           *)
(***************************************************************************)
EXTENDS Integers, Sequences, RingBuffer

CONSTANTS
  CERES,               \* BOOLEAN: which of the two builders
  HEADER_WORDS,        \* 32-bit words of an event header (5 CERES, 13 FONTUS)
  NUM_CHANNELS,        \* waveforms of an event (16 CERES, 4 FONTUS)
  CHANNEL_ORDER,       \* where each channel goes in the built event
  MAGIC,               \* the four bytes of the magic word in the order sent
  EVENT_BUFFER_WORDS,  \* 32-bit words of the event buffer
  NUM_EVENTS,          \* config.num_events: stop after so many, 0 = no limit
  COMMANDS,            \* the commands the manager may send
  Wires,               \* the word sequences an FPGA may send
  ChunkSizes,          \* how many bytes one recvmsg may return
  MaxCommands,         \* bound on manager commands
  MaxSignals           \* bound on SIGINT / SIGTERM

Channel == 0 .. NUM_CHANNELS - 1

(* What a word of the wire is.  A waveform word with sample = 0 is the     *)
(* channel's header, samples 1 .. length follow, and in a CERES stream the *)
(* word after them is the CRC.  A compressed word holds three sample pairs *)
(* (width = 3).  `length' is the length field of the event's header.       *)
(* A lookalike is any word with the bytes the scan for a start looks for.  *)
Word == [event     : Nat,
         part      : {"header", "waveform", "noise"},
         channel   : Nat,
         sample    : Nat,
         width     : {1, 3},
         length    : Nat,
         lookalike : BOOLEAN]

Garbage == [event |-> 0, part |-> "noise", channel |-> 0, sample |-> 0,
            width |-> 1, length |-> 0, lookalike |-> FALSE]

(* What the event buffer remembers of the j-th (from 0) pair of a word. *)
Tag(w, j) == [event   |-> w.event,
              part    |-> w.part,
              channel |-> w.channel,
              sample  |-> w.sample + j]

Tags == [event : Nat, part : {"header", "waveform", "noise"},
         channel : Nat, sample : Nat]

Command == {"CONNECTED", "ISREELING", "NUMBUILT", "DISPLAY_HEADERS",
            "RESET_CONN"}

ASSUME DataBuilderAssumption ==
  /\ CERES \in BOOLEAN
  /\ HEADER_WORDS \in Nat \ {0}
  /\ 4 * HEADER_WORDS < BUFFER_SIZE
  /\ NUM_CHANNELS \in Nat \ {0}
  /\ CHANNEL_ORDER \in [Channel -> Channel]
  /\ \A c, d \in Channel : CHANNEL_ORDER[c] = CHANNEL_ORDER[d] => c = d
  /\ EVENT_BUFFER_WORDS \in Nat \ {0}
  /\ NUM_EVENTS \in Nat
  /\ COMMANDS \subseteq Command
  /\ Wires \subseteq Seq(Word)
  /\ ChunkSizes \subseteq Nat \ {0}
  /\ MaxCommands \in Nat
  /\ MaxSignals \in Nat

VARIABLES
  wire,          \* words the kernel has delivered or will deliver, in order
  received,      \* bytes of the wire that recvmsg has returned
  connected,     \* the socket fpga_if.fd is open and connected
  memory,        \* for each byte of the ring, its place in the stream (0: none)
  ring,          \* the ring's pointers
  event,         \* EventInProgress: what has been read of the current event
  event_buffer,  \* the built event: its size and its words
  event_header,  \* header of the last complete event (trigger number, length)
  pc,            \* where in the main loop the process is
  limit,         \* bytes_in_buffer of the reader's data loop
  bytes_read,    \* bytes_read of the reader's data loop
  reeling,       \* scanning for the start of an event
  event_ready,   \* the reader has completed an event
  published,     \* every event published and written to disk, in order
  loop,          \* keep running
  num_kills,     \* signals received
  commands,      \* commands received from the manager
  reply          \* the last answer to the manager

socket  == <<wire, received, connected>>
reader  == <<event, event_buffer, event_header, limit, bytes_read>>
control == <<loop, num_kills, commands, reply>>
vars == <<socket, memory, ring, reader, pc, reeling, event_ready, published,
          control>>

-----------------------------------------------------------------------------
(* Words of the ring and places in the event buffer *)

StartEvent == [header |-> << >>, current_channel |-> 0,
               wf_header_read |-> FALSE, samples_read |-> 0]

(* The word whose bytes are at index o of the ring and round from there. *)
WordAround(o) ==
  LET p == memory[o]
      i == (p + 3) \div 4
  IN  IF /\ p % 4 = 1
         /\ \A k \in 1 .. 3 : memory[Wrap(o, k)] = p + k
         /\ i \in 1 .. Len(wire)
      THEN wire[i]
      ELSE Garbage

(* The word at index o of the ring memory. *)
WordAt(o) == IF o + 3 < BUFFER_SIZE THEN WordAround(o) ELSE Garbage

(* The scan compares the first byte in memory with the low byte of the    *)
(* magic number, though the number is sent high byte first.                *)
ScansAsStart(w) ==
  \/ w.lookalike
  \/ /\ w.part = "header" /\ w.sample = 0
     /\ \A k \in 1 .. 4 : MAGIC[k] = MAGIC[5 - k]

(* The header read holds a magic number and a matching CRC. *)
HeaderIsGood(h) ==
  \A k \in 1 .. HEADER_WORDS :
    /\ h[k].part = "header"
    /\ h[k].event = h[1].event
    /\ h[k].sample = k - 1

EventLength == event.header[1].length

(* Words of one channel that are not samples: header, and CERES' CRC. *)
ChannelOverhead == IF CERES THEN 2 ELSE 1

(* Mutant: channels stay in the order they are read. *)
SlotInReadOrder(c, i, length) ==
  HEADER_WORDS + c * (length + ChannelOverhead) + i

(* Where word i of channel c belongs in an event of that length. *)
Slot(c, i, length) ==
  HEADER_WORDS + CHANNEL_ORDER[c] * (length + ChannelOverhead) + i

(* Stash the n words tags[0], tags[1]... at consecutive slots. *)
Stash(first, w) ==
  event_buffer' =
    [num_words |-> event_buffer.num_words + w.width,
     data |-> [s \in DOMAIN event_buffer.data |->
                 IF s \in first .. first + w.width - 1
                 THEN Tag(w, s - first)
                 ELSE event_buffer.data[s]]]

-----------------------------------------------------------------------------
Init ==
  /\ wire \in Wires
  /\ received = 0
  /\ connected = TRUE
  /\ memory = [i \in Index |-> 0]
  /\ ring = EmptyRing
  /\ event = StartEvent
  /\ event_buffer = [num_words |-> 0,
                     data |-> [s \in 0 .. EVENT_BUFFER_WORDS - 1 |->
                                 Tag(Garbage, 0)]]
  /\ event_header = [trig_number |-> 0, length |-> 0]
  /\ pc = "command"
  /\ limit = 0
  /\ bytes_read = 0
  /\ reeling = FALSE
  /\ event_ready = FALSE
  /\ published = << >>
  /\ loop = TRUE
  /\ num_kills = 0
  /\ commands = 0
  /\ reply = [command |-> "NONE", arg |-> 0]

-----------------------------------------------------------------------------
(* The top of the main loop: leave it, or look at the manager's pipe *)

(* Mutant: the loop is not left in the middle of an event. *)
ExitBetweenEvents ==
  /\ pc = "command" /\ ~loop
  /\ event = StartEvent
  /\ pc' = "exit"
  /\ UNCHANGED <<socket, memory, ring, reader, reeling, event_ready,
                 published, control>>

Exit ==
  /\ pc = "command" /\ ~loop
  /\ pc' = "exit"
  /\ UNCHANGED <<socket, memory, ring, reader, reeling, event_ready,
                 published, control>>

NoCommand ==
  /\ pc = "command" /\ loop
  /\ pc' = "pull"
  /\ UNCHANGED <<socket, memory, ring, reader, reeling, event_ready,
                 published, control>>

(* One command is read and will be answered with arg. *)
Answer(c, arg) ==
  /\ pc = "command" /\ loop
  /\ c \in COMMANDS
  /\ commands < MaxCommands
  /\ commands' = commands + 1
  /\ reply' = [command |-> c, arg |-> arg]
  /\ pc' = "pull"
  /\ UNCHANGED <<received, memory, ring, reader, reeling, event_ready,
                 published>>

(* connected_to_fpga is set once before the loop and never again. *)
Query ==
  /\ \/ Answer("CONNECTED", 1)
     \/ Answer("ISREELING", IF reeling THEN 1 ELSE 0)
     \/ Answer("NUMBUILT", Len(published))
     \/ Answer("DISPLAY_HEADERS", 0)
  /\ UNCHANGED <<wire, connected, loop, num_kills>>

(* The old connection is closed and a new one made, whose stream begins    *)
(* with the event that starts at word i; what was in flight is lost.  Only *)
(* the descriptor changes: ring, event in progress and reeling stay.       *)
ResetReconnects ==
  /\ Answer("RESET_CONN", 0)
  /\ received % 4 = 0
  /\ \E i \in received \div 4 + 1 .. Len(wire) + 1 :
       /\ i \in DOMAIN wire =>
            wire[i].part = "header" /\ wire[i].sample = 0
       /\ wire' = SubSeq(wire, 1, received \div 4)
                    \o SubSeq(wire, i, Len(wire))
  /\ connected' = TRUE
  /\ UNCHANGED <<loop, num_kills>>

(* The TCP reset fails.  `continue' goes to the loop's condition, where    *)
(* the closed descriptor still is not negative, so the loop ends there and *)
(* the manager is told 0.                                                  *)
ResetGivesUp ==
  /\ Answer("RESET_CONN", 0)
  /\ connected' = FALSE
  /\ UNCHANGED <<wire, loop, num_kills>>

(* Connecting keeps failing until a signal clears `loop'. *)
ResetInterrupted ==
  /\ Answer("RESET_CONN", 1)
  /\ num_kills < MaxSignals
  /\ num_kills' = num_kills + 1
  /\ loop' = FALSE
  /\ connected' = FALSE
  /\ UNCHANGED wire

-----------------------------------------------------------------------------
(* pull_from_fpga: one recvmsg into the contiguous space *)

AfterPull == IF reeling THEN "find" ELSE "header"

PullNothing ==
  /\ pc = "pull"
  /\ ring' = Rewind(ring)
  /\ pc' = AfterPull
  /\ UNCHANGED <<socket, memory, reader, reeling, event_ready, published,
                 control>>

(* The bytes go to the write pointer as it was before the space was asked  *)
(* for.                                                                    *)
PullData ==
  /\ pc = "pull" /\ connected
  /\ \E n \in ChunkSizes :
       /\ n <= ContiguousSpaceAvailable(ring)
       /\ received + n <= 4 * Len(wire)
       /\ memory' = [o \in Index |->
                       IF o \in ring.write_pointer .. ring.write_pointer + n - 1
                       THEN received + 1 + (o - ring.write_pointer)
                       ELSE memory[o]]
       /\ ring' = UpdateWritePointer(Rewind(ring), n)
       /\ received' = received + n
  /\ pc' = AfterPull
  /\ UNCHANGED <<wire, connected, reader, reeling, event_ready, published,
                 control>>

-----------------------------------------------------------------------------
(* find_event_start, while reeling *)

(* Fewer than four bytes before the end of the memory and fewer after it. *)
TooLittleToScan ==
  /\ ContiguousReadable(ring) < 4
  /\ Readable(ring) - ContiguousReadable(ring) < 4

(* The stretch that is scanned: a short one before the wrap is skipped. *)
Skipped ==
  IF ContiguousReadable(ring) < 4
  THEN UpdateReadPointer(ring, ContiguousReadable(ring))
  ELSE ring

ScanLength ==
  IF ContiguousReadable(ring) < 4
  THEN Readable(ring) - ContiguousReadable(ring)
  ELSE ContiguousReadable(ring)

(* Mutant: the loop stops one byte early. *)
StartsButLast ==
  {i \in 0 .. ScanLength - 5 : ScansAsStart(WordAt(Skipped.read_pointer + i))}

(* How far into the stretch an event seems to start. *)
Starts ==
  {i \in 0 .. ScanLength - 4 : ScansAsStart(WordAt(Skipped.read_pointer + i))}

FindNothing ==
  /\ pc = "find" /\ TooLittleToScan
  /\ pc' = "publish"
  /\ UNCHANGED <<socket, memory, ring, reader, reeling, event_ready,
                 published, control>>

(* No start: the last three bytes go too. *)
FindFails ==
  /\ pc = "find" /\ ~TooLittleToScan
  /\ Starts = {}
  /\ ring' = UpdateEventReadPointer(UpdateReadPointer(Skipped, ScanLength))
  /\ pc' = "publish"
  /\ UNCHANGED <<socket, memory, reader, reeling, event_ready, published,
                 control>>

FindSucceeds ==
  /\ pc = "find" /\ ~TooLittleToScan
  /\ \E i \in Starts :
       /\ \A j \in Starts : i <= j
       /\ ring' = UpdateEventReadPointer(UpdateReadPointer(Skipped, i))
  /\ reeling' = FALSE
  /\ pc' = "publish"
  /\ UNCHANGED <<socket, memory, reader, event_ready, published, control>>

-----------------------------------------------------------------------------
(* The readers: the event header *)

(* pop32 across the wrap loses the first byte of the word and reverses the *)
(* others, so only a word of the form 00 x y x survives, which the first   *)
(* of a header is not.                                                     *)
AcrossTheWrap ==
  {Garbage} \cup
    {w \in {WordAround(ring.read_pointer)} : w.part = "header" => w.sample > 0}

(* pop32 of one word. *)
PopHeaderWord ==
  /\ pc = "header"
  /\ Len(event.header) < HEADER_WORDS
  /\ Readable(ring) >= 4
  /\ \E w \in IF ContiguousReadable(ring) >= 4
              THEN {WordAt(ring.read_pointer)}
              ELSE AcrossTheWrap :
       /\ event' = [event EXCEPT !.header = Append(@, w)]
       /\ event_buffer' =
            [event_buffer EXCEPT
               !.num_words = @ + 1,
               !.data[event_buffer.num_words] = Tag(w, 0)]
  /\ ring' = UpdateReadPointer(ring, 4)
  /\ UNCHANGED <<socket, memory, event_header, limit, bytes_read, pc, reeling,
                 event_ready, published, control>>

(* Mutant: the reader's early return leaves event_ready as it was. *)
HeaderIncompleteKeepsReady ==
  /\ pc = "header"
  /\ Len(event.header) < HEADER_WORDS
  /\ Readable(ring) < 4
  /\ pc' = "publish"
  /\ UNCHANGED <<socket, memory, ring, reader, reeling, event_ready,
                 published, control>>

HeaderIncomplete ==
  /\ pc = "header"
  /\ Len(event.header) < HEADER_WORDS
  /\ Readable(ring) < 4
  /\ event_ready' = FALSE
  /\ pc' = "publish"
  /\ UNCHANGED <<socket, memory, ring, reader, reeling, published, control>>

(* The event is dropped, but not its header words in the event buffer. *)
BadHeader ==
  /\ pc = "header"
  /\ Len(event.header) = HEADER_WORDS
  /\ ~HeaderIsGood(event.header)
  /\ reeling' = TRUE
  /\ event' = StartEvent
  /\ ring' = UpdateEventReadPointer(ring)
  /\ event_ready' = FALSE
  /\ pc' = "publish"
  /\ UNCHANGED <<socket, memory, event_buffer, event_header, limit,
                 bytes_read, published, control>>

GoodHeader ==
  /\ pc = "header"
  /\ Len(event.header) = HEADER_WORDS
  /\ HeaderIsGood(event.header)
  /\ limit' = ContiguousReadable(ring)
  /\ bytes_read' = 0
  /\ pc' = "data"
  /\ UNCHANGED <<socket, memory, ring, event, event_buffer, event_header,
                 reeling, event_ready, published, control>>

-----------------------------------------------------------------------------
(* The readers: the data loop *)

EventComplete == event.current_channel = NUM_CHANNELS

(* The loop's condition as it is in the code: it also holds with only      *)
(* three bytes left.                                                       *)
LoopCondition == bytes_read <= limit - 3

DataWord == WordAt(ring.read_pointer + bytes_read)

(* One turn of the loop takes a word. *)
TakeWord ==
  /\ pc = "data"
  /\ ~EventComplete
  /\ LoopCondition
  /\ bytes_read' = bytes_read + 4
  /\ UNCHANGED <<socket, memory, ring, event_header, limit, published,
                 control>>

IsChannelHeader(w) ==
  w.part = "waveform" /\ w.sample = 0 /\ w.channel = event.current_channel

ChannelHeader ==
  /\ ~event.wf_header_read
  /\ IsChannelHeader(DataWord)
  /\ TakeWord
  /\ Stash(Slot(event.current_channel, 0, EventLength), DataWord)
  /\ event' = [event EXCEPT !.wf_header_read = TRUE,
                            !.samples_read = IF CERES THEN 0 ELSE 1]
  /\ UNCHANGED <<pc, reeling, event_ready>>

(* The reader returns without moving the ring's pointers. *)
ChannelMismatch ==
  /\ ~event.wf_header_read
  /\ ~IsChannelHeader(DataWord)
  /\ TakeWord
  /\ reeling' = TRUE
  /\ event_buffer' = [event_buffer EXCEPT !.num_words = 0]
  /\ event' = StartEvent
  /\ event_ready' = FALSE
  /\ pc' = "publish"

NextChannel == [event EXCEPT !.current_channel = @ + 1,
                             !.wf_header_read = FALSE,
                             !.samples_read = 0]

CeresSamples ==
  /\ CERES
  /\ event.wf_header_read
  /\ event.samples_read < EventLength
  /\ TakeWord
  /\ Stash(Slot(event.current_channel, event.samples_read + 1, EventLength),
           DataWord)
  /\ event' = [event EXCEPT !.samples_read = @ + DataWord.width]
  /\ UNCHANGED <<pc, reeling, event_ready>>

CeresCrc ==
  /\ CERES
  /\ event.wf_header_read
  /\ event.samples_read >= EventLength
  /\ TakeWord
  /\ Stash(Slot(event.current_channel, event.samples_read + 1, EventLength),
           [DataWord EXCEPT !.width = 1])
  /\ event' = NextChannel
  /\ UNCHANGED <<pc, reeling, event_ready>>

FontusSample ==
  /\ ~CERES
  /\ event.wf_header_read
  /\ event.samples_read <= EventLength
  /\ TakeWord
  /\ Stash(Slot(event.current_channel, event.samples_read, EventLength),
           [DataWord EXCEPT !.width = 1])
  /\ event' = IF event.samples_read = EventLength
              THEN NextChannel
              ELSE [event EXCEPT !.samples_read = @ + 1]
  /\ UNCHANGED <<pc, reeling, event_ready>>

(* With length = 0 no branch applies: the word is gone. *)
FontusSwallow ==
  /\ ~CERES
  /\ event.wf_header_read
  /\ event.samples_read > EventLength
  /\ TakeWord
  /\ UNCHANGED <<event, event_buffer, pc, reeling, event_ready>>

(* The loop ends, by `break' or by its condition, and the pointers move. *)
EndOfData ==
  /\ pc = "data"
  /\ EventComplete \/ ~LoopCondition
  /\ ring' = UpdateEventReadPointer(UpdateReadPointer(ring, bytes_read))
  /\ event_ready' = EventComplete
  /\ IF EventComplete
     THEN /\ event_header' = [trig_number |-> event.header[1].event,
                              length |-> EventLength]
          /\ event' = StartEvent
     ELSE UNCHANGED <<event, event_header>>
  /\ pc' = "publish"
  /\ UNCHANGED <<socket, memory, event_buffer, limit, bytes_read, reeling,
                 published, control>>

-----------------------------------------------------------------------------
(* The end of the main loop's body *)

(* Mutant: the limit is noticed one event late. *)
BelowLimitOrAt(n) == NUM_EVENTS = 0 \/ n <= NUM_EVENTS

(* n events have been built and more are wanted. *)
BelowLimit(n) == NUM_EVENTS = 0 \/ n < NUM_EVENTS

(* Mutant: the event buffer is not cleared after it was published. *)
BufferKept == event_buffer

BufferCleared == [event_buffer EXCEPT !.num_words = 0]

PublishEvent ==
  /\ pc = "publish" /\ event_ready
  /\ published' =
       Append(published,
              [trig_number |-> event_header.trig_number,
               length |-> event_header.length,
               data |-> [s \in 1 .. event_buffer.num_words |->
                           IF s <= EVENT_BUFFER_WORDS
                           THEN event_buffer.data[s - 1]
                           ELSE Tag(Garbage, 0)]])
  /\ event_buffer' = BufferCleared
  /\ loop' = (loop /\ BelowLimit(Len(published) + 1))
  /\ pc' = "command"
  /\ UNCHANGED <<socket, memory, ring, event, event_header, limit, bytes_read,
                 reeling, event_ready, num_kills, commands, reply>>

NothingToPublish ==
  /\ pc = "publish" /\ ~event_ready
  /\ pc' = "command"
  /\ UNCHANGED <<socket, memory, ring, reader, reeling, event_ready,
                 published, control>>

(* sig_handler: the first signal ends the loop, the second the process. *)
Signal ==
  /\ pc /= "exit"
  /\ num_kills < MaxSignals
  /\ num_kills' = num_kills + 1
  /\ loop' = FALSE
  /\ pc' = IF num_kills >= 1 THEN "exit" ELSE pc
  /\ UNCHANGED <<socket, memory, ring, reader, reeling, event_ready,
                 published, commands, reply>>

-----------------------------------------------------------------------------
ManagerStep ==
  NoCommand \/ Query \/ ResetReconnects \/ ResetGivesUp \/ ResetInterrupted
Pull == PullNothing \/ PullData
FindEventStart == FindNothing \/ FindFails \/ FindSucceeds
ReadHeader == PopHeaderWord \/ HeaderIncomplete \/ BadHeader \/ GoodHeader
ReadData ==
  \/ ChannelHeader \/ ChannelMismatch
  \/ CeresSamples \/ CeresCrc
  \/ FontusSample \/ FontusSwallow
  \/ EndOfData
Publish == PublishEvent \/ NothingToPublish

Next ==
  Exit \/ ManagerStep \/ Pull \/ FindEventStart \/ ReadHeader \/ ReadData
    \/ Publish \/ Signal

Spec == Init /\ [][Next]_vars

(* The process keeps running, it is not sent commands for ever, and bytes  *)
(* on the wire reach the socket in the end.                                *)
Fairness ==
  /\ WF_vars(Exit \/ NoCommand \/ PullNothing \/ FindEventStart \/ ReadHeader
               \/ ReadData \/ Publish)
  /\ SF_vars(PullData)

FairSpec == Spec /\ Fairness

-----------------------------------------------------------------------------
(* Properties *)

PC == {"command", "pull", "find", "header", "data", "publish", "exit"}

(* Types of all the variables of the builder process (data_builder.c). *)
TypeOK ==
  /\ wire \in Seq(Word)
  /\ received \in 0 .. 4 * Len(wire)
  /\ connected \in BOOLEAN
  /\ memory \in [Index -> Nat]
  /\ ring \in Ring
  /\ event \in [header : Seq(Word), current_channel : 0 .. NUM_CHANNELS,
                wf_header_read : BOOLEAN, samples_read : Nat]
  /\ Len(event.header) <= HEADER_WORDS
  /\ pc = "data" => Len(event.header) = HEADER_WORDS
  /\ event_buffer \in [num_words : Nat,
                       data : [0 .. EVENT_BUFFER_WORDS - 1 -> Tags]]
  /\ event_header \in [trig_number : Nat, length : Nat]
  /\ pc \in PC
  /\ limit \in Nat
  /\ bytes_read \in Nat
  /\ reeling \in BOOLEAN
  /\ event_ready \in BOOLEAN
  /\ published \in Seq([trig_number : Nat, length : Nat,
                        data : Seq(Tags)])
  /\ loop \in BOOLEAN
  /\ num_kills \in Nat
  /\ commands \in Nat
  /\ reply \in [command : Command \cup {"NONE"}, arg : Nat]

(* The three pointers stay in order round the ring, and the bytes from the *)
(* event read pointer to the write pointer are the last ones received, in  *)
(* the order received: the stale write index of pull_from_fpga, the wraps  *)
(* and the moves of the two read pointers never let recvmsg overwrite a    *)
(* byte that is still kept, however TCP cuts the stream.                   *)
RingFifo ==
  /\ InOrder(ring)
  /\ Kept(ring) <= received
  /\ \A k \in 0 .. Kept(ring) - 1 :
       memory[Wrap(ring.event_read_pointer, k)]
         = received - Kept(ring) + 1 + k

(* The bytes looked at but still kept are exactly the words of the header  *)
(* being read, or none once its data is being read; a builder that reels   *)
(* is in no event and only scans.  So the read pointer never comes round   *)
(* to the event read pointer of a full ring, which would make the ring     *)
(* look unread again.                                                      *)
HeaderLag ==
  IF reeling
  THEN event.header = << >> /\ pc \notin {"header", "data"}
  ELSE /\ pc /= "find"
       /\ \/ Looked(ring) = 4 * Len(event.header)
          \/ Looked(ring) = 0 /\ Len(event.header) = HEADER_WORDS

(* The built event is exactly what the FPGA sent for that trigger: the     *)
(* header, then every channel's words at the channel's place, no more.     *)
Layout(e, length) ==
  LET size == length + ChannelOverhead
      Place(s) == s - HEADER_WORDS - 1
  IN  [s \in 1 .. HEADER_WORDS + NUM_CHANNELS * size |->
         IF s <= HEADER_WORDS
         THEN [event |-> e, part |-> "header", channel |-> 0, sample |-> s - 1]
         ELSE [event |-> e, part |-> "waveform",
               channel |-> CHOOSE c \in Channel :
                             CHANNEL_ORDER[c] = Place(s) \div size,
               sample |-> Place(s) % size]]

Intact(p) == p.data = Layout(p.trig_number, p.length)

(* What an FPGA sends may be damaged, but not within a waveform.           *)
ChannelSize(length) == length + ChannelOverhead

LastSample(w) == w.sample + w.width - 1

IsHeaderOf(w, c) == w.part = "waveform" /\ w.sample = 0 /\ w.channel = c

(* Word u is in a waveform of that length, and not its last. *)
IsAmid(u, length) ==
  /\ u.part = "waveform" /\ u.channel \in Channel
  /\ LastSample(u) < ChannelSize(length) - 1

(* Word v is the next one; a word of three pairs ends with the samples. *)
GoesOn(u, v, length) ==
  /\ v.part = "waveform" /\ v.event = u.event /\ v.channel = u.channel
  /\ v.sample = LastSample(u) + 1
  /\ IF CERES /\ v.sample <= length
     THEN LastSample(v) <= length
     ELSE v.width = 1

(* Word u is the last one before channel c. *)
IsBefore(u, c, length) ==
  \/ c = 0 /\ u.part = "header" /\ u.sample = HEADER_WORDS - 1
  \/ /\ u.part = "waveform" /\ u.channel = c - 1
     /\ LastSample(u) = ChannelSize(length) - 1

EventFits(length) ==
  HEADER_WORDS + NUM_CHANNELS * ChannelSize(length) <= EVENT_BUFFER_WORDS

(* The header words of an event agree on a length that fits into the event *)
(* buffer, a waveform that begins goes on to its end, and what comes next  *)
(* is no other event's next channel.                                       *)
WellSent(words) ==
  \A k, i \in 1 .. Len(words) :
    LET length == words[k].length IN
    words[k].part = "header" /\ words[k].event = words[i].event =>
      /\ words[i].part = "header" => words[i].length = length
      /\ EventFits(length)
      /\ i < Len(words) =>
           /\ IsAmid(words[i], length) => GoesOn(words[i], words[i + 1], length)
           /\ \A c \in Channel :
                IsBefore(words[i], c, length) /\ IsHeaderOf(words[i + 1], c)
                  => words[i + 1].event = words[i].event /\ words[i + 1].width = 1

(* The abstract stream of events, by trigger number: what was sent is what *)
(* the wire holds, what is delivered is what was published intact (0 for a *)
(* published event that is not what was sent).                             *)
SentEvents ==
  LET starts == SelectSeq(wire, LAMBDA w : w.part = "header" /\ w.sample = 0)
  IN  [i \in DOMAIN starts |-> starts[i].event]

DeliveredEvents ==
  [i \in DOMAIN published |->
     IF Intact(published[i]) THEN published[i].trig_number ELSE 0]

Stream == INSTANCE EventStream
            WITH sent <- SentEvents, delivered <- DeliveredEvents

(* On a clean stream received in whole words the builder implements the    *)
(* abstract stream: every event sent is published, once, whole, in order.  *)
DeliversStream == Stream!FairSpec

(* The same without the promise to deliver everything, for a builder that  *)
(* is told to stop.                                                        *)
DeliversPrefix == Stream!Spec

(* A clean stream never puts the builder into reeling, wherever recvmsg    *)
(* and the end of the ring cut an event.                                   *)
NeverReels == ~reeling

(* No event is published twice or after a later one: event_ready is left   *)
(* set after a publication and must have been cleared by the reader before *)
(* a pass of the main loop that only scans.                                *)
PublishedInOrder ==
  \A i, j \in DOMAIN published :
    i < j => published[i].trig_number < published[j].trig_number

(* The waveforms of a published event all belong to its trigger, each word *)
(* in its place, even when events around it had bad headers or channel     *)
(* headers and its own header was found by scanning.                       *)
WaveformsAreOneEvent ==
  \A i \in DOMAIN published :
    LET p == published[i]
        built == Layout(p.trig_number, p.length)
    IN  \A s \in DOMAIN built :
          s > HEADER_WORDS => s \in DOMAIN p.data /\ p.data[s] = built[s]

(* Every word of event e is on the wire undamaged. *)
SentIntact(e) ==
  \E i \in DOMAIN wire :
    /\ wire[i].event = e /\ wire[i].part = "header" /\ wire[i].sample = 0
    /\ LET words == {w \in {wire[j] : j \in DOMAIN wire} : w.event = e}
           tags == UNION {{Tag(w, k) : k \in 0 .. w.width - 1} : w \in words}
           built == Layout(e, wire[i].length)
       IN  \A s \in DOMAIN built : built[s] \in tags

(* After damage the builder gets back to work: each event that was sent    *)
(* undamaged is published in the end.                                      *)
RecoversFromReeling ==
  <>[](\A i \in DOMAIN wire :
         SentIntact(wire[i].event) =>
           \E j \in DOMAIN published :
             published[j].trig_number = wire[i].event)

(* Told to stop by a signal or by the event limit, the process leaves its  *)
(* main loop, also when it is reeling or in the middle of an event.        *)
StopsWhenTold == ~loop ~> pc = "exit"

(* The builder stops at exactly the configured number of events: the one   *)
(* that reaches the limit is the last to be published.                     *)
StopsAtLimit == NUM_EVENTS > 0 => Len(published) <= NUM_EVENTS

-----------------------------------------------------------------------------
(* What the comments of the source say, and the code does not do *)

(* "This shouldn't happen ever": reading more than is readable. *)
NeverReadsTooFar ==
  pc = "data" /\ (EventComplete \/ ~LoopCondition)
    => ~ReadTooFar(ring, bytes_read)

(* After reeling the program "resumes normal data processing": what it     *)
(* publishes is what was sent.                                             *)
ResumesNormalProcessing == \A i \in DOMAIN published : Intact(published[i])

(* A scan trashes "all the data upto the current read_pointer", so from an *)
(* event start it found to the last byte received everything is kept.      *)
ScanKeepsWhatItFound ==
  [][pc = "find" /\ reeling /\ ~reeling' => ~ring.is_empty']_vars

(* The scan "tries to find the magic values that indicates the start of a  *)
(* header": it does not throw away a header's first word.                  *)
ScanFindsEveryStart ==
  [][pc = "find" /\ reeling' /\ ring' /= ring =>
       \A i \in 0 .. ContiguousReadable(ring) - 4 :
         LET w == WordAt(ring.read_pointer + i)
         IN  ~(w.part = "header" /\ w.sample = 0)]_vars

(* After a failed TCP reset the builder says it "Will retry": the manager  *)
(* is not told that the reset worked while there is no connection.         *)
ResetReplyIsTrue ==
  pc = "pull" /\ reply = [command |-> "RESET_CONN", arg |-> 0] => connected

=============================================================================
