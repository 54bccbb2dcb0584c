---------------------------- MODULE WaveformProofs ----------------------------
(***************************************************************************)
(* What a builder publishes is one event's, for every board, every ring,   *)
(* every event buffer and everything an FPGA may send that is damaged only *)
(* between waveforms, scans and all.  The bytes must come in whole words   *)
(* and over one connection: the data loop takes a word when only three     *)
(* bytes are left, and a reset leaves the event in progress to go on with  *)
(* what comes after it.                                                    *)
(***************************************************************************)
EXTENDS DataBuilderProofs, FiniteSetTheorems

ComesInWords == BUFFER_SIZE % 4 = 0 /\ \A n \in ChunkSizes : n % 4 = 0

OneConnection == "RESET_CONN" \notin COMMANDS

WiresAreWellSent == \A w \in Wires : WellSent(w)

-----------------------------------------------------------------------------
(* The invariant *)

InWords(r) ==
  /\ r.read_pointer % 4 = 0 /\ r.write_pointer % 4 = 0
  /\ r.event_read_pointer % 4 = 0

\* Only where a word of the ring begins may a word of the wire begin.
MemoryInWords == \A o \in Index : memory[o] % 4 = 1 => o % 4 = 0

\* Bytes of the stream that were taken from the ring, the data loop's too.
Taken == IF pc = "data" THEN Position + bytes_read ELSE Position

\* Word i of the wire is the last one taken.
IsLast(i) == i \in 1 .. Len(wire) /\ 4 * i = Taken

\* The data loop's limit is what it would be now.
DataLoop ==
  pc = "data" =>
    /\ HeaderIsGood(event.header)
    /\ limit = ContiguousReadable(ring)
    /\ bytes_read % 4 = 0 /\ bytes_read <= limit

\* The header read was on the wire, the last word taken its last.
HeaderRead ==
  /\ Len(event.header) <= event_buffer.num_words
  /\ \A k \in 1 .. Len(event.header) :
       \E i \in 1 .. Len(wire) : wire[i] = event.header[k]
  /\ Len(event.header) < HEADER_WORDS =>
       event.current_channel = 0 /\ ~event.wf_header_read
  /\ Len(event.header) > 0 /\ event.current_channel = 0 /\ ~event.wf_header_read
       => \E i : IsLast(i) /\ wire[i] = event.header[Len(event.header)]

\* The first k words of channel c are in their places.
Stashed(e, length, c, k) ==
  \A i \in 0 .. k - 1 :
    event_buffer.data[Slot(c, i, length)] =
      [event |-> e, part |-> "waveform", channel |-> c, sample |-> i]

\* The last word taken ends with word s of channel c of event e.
LastEnds(e, c, s) ==
  \E i : /\ IsLast(i)
         /\ wire[i].part = "waveform" /\ wire[i].event = e /\ wire[i].channel = c
         /\ LastSample(wire[i]) = s

\* Channel c is there up to word s.
InWaveform(e, length, c, s) ==
  /\ s < ChannelSize(length) - 1
  /\ LastEnds(e, c, s)
  /\ Stashed(e, length, c, s + 1)
  /\ event_buffer.num_words >= HEADER_WORDS + c * ChannelSize(length) + s + 1

SoFar == IF CERES THEN event.samples_read ELSE event.samples_read - 1

\* All channels before c are there.
InEvent(e, length, c) ==
  /\ \A d \in Channel : d < c => Stashed(e, length, d, ChannelSize(length))
  /\ event_buffer.num_words >= HEADER_WORDS + c * ChannelSize(length)
  /\ ~event.wf_header_read /\ c > 0 =>
       LastEnds(e, c - 1, ChannelSize(length) - 1)
  /\ event.wf_header_read =>
       /\ c < NUM_CHANNELS
       /\ \/ ~CERES /\ event.samples_read > length
          \/ \E s \in Nat : s = SoFar /\ InWaveform(e, length, c, s)

\* The builder has the header of event e and is at its channel c.
IsAt(e, length, c) ==
  /\ Len(event.header) = HEADER_WORDS /\ HeaderIsGood(event.header)
  /\ e = event.header[1].event /\ length = EventLength
  /\ c = event.current_channel

Building ==
  pc /= "exit" =>
    /\ HeaderRead
    /\ \A e, length, c : IsAt(e, length, c) => InEvent(e, length, c)

\* An event that is complete is whole.
Complete(e, length) ==
  /\ EventFits(length)
  /\ \A c \in Channel : Stashed(e, length, c, ChannelSize(length))
  /\ event_buffer.num_words >= HEADER_WORDS + NUM_CHANNELS * ChannelSize(length)

ReadyIsComplete ==
  /\ event_ready => ~reeling
  /\ event_ready /\ pc = "publish" =>
       /\ event.header = << >>
       /\ \A e, length :
            e = event_header.trig_number /\ length = event_header.length
              => Complete(e, length)

WaveInv ==
  /\ WellSent(wire)
  /\ received % 4 = 0 /\ InWords(ring) /\ MemoryInWords
  /\ DataLoop
  /\ Building
  /\ ReadyIsComplete
  /\ WaveformsAreOneEvent
-----------------------------------------------------------------------------
(* Whole words *)

LEMMA ReadableInWords ==
  ASSUME ComesInWords, NEW r \in Ring, InOrder(r), InWords(r)
  PROVE  /\ ContiguousReadable(r) % 4 = 0 /\ Readable(r) % 4 = 0
         /\ ContiguousReadable(r) < 4 => Readable(r) = ContiguousReadable(r)
<1>1. /\ r.read_pointer \in 0 .. BUFFER_SIZE - 1
      /\ r.write_pointer \in 0 .. BUFFER_SIZE - 1
      /\ r.event_read_pointer \in 0 .. BUFFER_SIZE - 1
  BY DEF Ring, Index
<1>2. BUFFER_SIZE \in Nat /\ BUFFER_SIZE % 4 = 0 /\ BUFFER_SIZE > 0
  BY BufferSizeAssumption DEF ComesInWords
<1> QED
  BY <1>1, <1>2, SMTT(30)
     DEF InWords, ContiguousReadable, Readable, IsFull

LEMMA ReadsInWords ==
  ASSUME ComesInWords, NEW r \in Ring, InOrder(r), InWords(r),
         NEW n \in Nat, n % 4 = 0
  PROVE  /\ InWords(UpdateReadPointer(r, n))
         /\ InWords(UpdateEventReadPointer(r))
<1>1. /\ r.read_pointer \in 0 .. BUFFER_SIZE - 1
      /\ r.write_pointer \in 0 .. BUFFER_SIZE - 1
      /\ r.event_read_pointer \in 0 .. BUFFER_SIZE - 1
  BY DEF Ring, Index
<1>2. BUFFER_SIZE \in Nat /\ BUFFER_SIZE % 4 = 0 /\ BUFFER_SIZE > 0
  BY BufferSizeAssumption DEF ComesInWords
<1>3. InWords(EmptyRing)
  BY DEF InWords, EmptyRing
<1>4. InWords(UpdateEventReadPointer(r))
  BY <1>3 DEF InWords, UpdateEventReadPointer, Ring
<1>5. InWords(UpdateReadPointer(r, n))
  <2> DEFINE p == AtEnd(IF n <= ContiguousReadable(r) THEN r.read_pointer + n
                        ELSE n - (BUFFER_SIZE - r.read_pointer))
  <2>1. p % 4 = 0
    BY <1>1, <1>2, SMTT(30) DEF AtEnd, InWords
  <2>2. UpdateReadPointer(r, n) \in {r, [r EXCEPT !.read_pointer = p]}
    BY DEF UpdateReadPointer
  <2> HIDE DEF p
  <2>3. InWords([r EXCEPT !.read_pointer = p])
    BY <2>1 DEF InWords, Ring
  <2> QED
    BY <2>2, <2>3
<1> QED
  BY <1>4, <1>5

LEMMA WritesInWords ==
  ASSUME ComesInWords, NEW r \in Ring, InOrder(r), InWords(r),
         NEW n \in 1 .. ContiguousSpaceAvailable(r), n % 4 = 0
  PROVE  InWords(UpdateWritePointer(Rewind(r), n))
<1>1. Rewind(r) = r
  BY RewindMovesNothing
<1>2. n > 0 /\ n <= ContiguousSpaceAvailable(r) /\ n \in Nat
  BY SpaceIsFree, BufferSizeAssumption
<1> DEFINE p == AtEnd(r.write_pointer + n)
<1>3. UpdateWritePointer(r, n) = [r EXCEPT !.write_pointer = p, !.is_empty = FALSE]
  BY <1>1, <1>2 DEF UpdateWritePointer
<1>4. p % 4 = 0
  <2>1. r.write_pointer \in 0 .. BUFFER_SIZE - 1 /\ r.write_pointer % 4 = 0
    BY DEF Ring, Index, InWords
  <2> QED
    BY <1>2, <2>1, BufferSizeAssumption, SMTT(30) DEF AtEnd
<1> HIDE DEF p
<1> QED
  BY <1>1, <1>3, <1>4 DEF InWords, Ring

\* The word at a place that is readable and begins a word is the next of the
\* wire.
LEMMA WordRead ==
  ASSUME ComesInWords, IInv, received % 4 = 0, InWords(ring),
         NEW n \in Nat, n % 4 = 0, n + 4 <= ContiguousReadable(ring)
  PROVE  \E i \in 1 .. Len(wire) :
           /\ 4 * i = Position + n + 4
           /\ WordAt(ring.read_pointer + n) = wire[i]
<1> DEFINE o == ring.read_pointer + n
           p == memory[o]
<1>1. /\ ring \in Ring /\ InOrder(ring) /\ received \in Nat
      /\ received <= 4 * Len(wire) /\ Len(wire) \in Nat
      /\ memory \in [Index -> Nat]
  BY DEF IInv, TypeOK, RingFifo
<1>2. /\ Kept(ring) \in 0 .. BUFFER_SIZE /\ Looked(ring) \in 0 .. BUFFER_SIZE - 1
      /\ Readable(ring) = Kept(ring) - Looked(ring)
      /\ ContiguousReadable(ring) \in 0 .. Readable(ring)
      /\ ring.read_pointer + ContiguousReadable(ring) <= BUFFER_SIZE
      /\ Readable(ring) % 4 = 0
  BY <1>1, KeptInRing, ReadableIsTheRest, ReadableInWords
<1>3. /\ ring.read_pointer \in 0 .. BUFFER_SIZE - 1
      /\ ring.event_read_pointer \in 0 .. BUFFER_SIZE - 1
  BY <1>1 DEF Ring, Index
<1>4. Wrap(ring.event_read_pointer, Looked(ring)) = ring.read_pointer
  BY <1>1, BufferSizeAssumption, SMTT(30) DEF Wrap, Looked, Span, Ring, Index
<1>5. /\ o \in Nat /\ o + 4 <= BUFFER_SIZE /\ BUFFER_SIZE \in Nat
      /\ Looked(ring) + n + 4 <= Kept(ring)
      /\ Kept(ring) \in Nat /\ Looked(ring) \in Nat /\ Readable(ring) \in Nat
  <2>1. /\ BUFFER_SIZE \in Nat /\ Kept(ring) \in Nat /\ Looked(ring) \in Nat
        /\ Readable(ring) \in Nat /\ ContiguousReadable(ring) \in Nat
    BY <1>1, <1>2, BufferSizeAssumption, PositionIsInt DEF IInv
  <2> QED
    BY <1>2, <1>3, <2>1, BufferSizeAssumption
<1>13. /\ received \in Nat /\ Kept(ring) \in Nat /\ Looked(ring) \in Nat
       /\ Position = received - Kept(ring) + Looked(ring) /\ Position \in Int
  BY <1>1, <1>5, PositionIsInt DEF IInv
<1>14. Position % 4 = 0
  <2>1. received \in Nat /\ Readable(ring) \in Nat /\ Readable(ring) % 4 = 0
        /\ Position = received - Readable(ring)
    BY <1>1, <1>2, <1>5 DEF Position
  <2> QED
    BY <2>1, SMTT(30)
<1> HIDE DEF o
<1>6. ASSUME NEW j \in 0 .. 3
      PROVE  /\ o + j \in Index /\ memory[o + j] = Position + n + 1 + j
             /\ Wrap(o, j) = o + j
  <2>1. Looked(ring) + n + j \in 0 .. Kept(ring) - 1
    BY <1>2, <1>5
  <2>2. memory[Wrap(ring.event_read_pointer, Looked(ring) + n + j)]
          = received - Kept(ring) + 1 + (Looked(ring) + n + j)
    BY <2>1 DEF IInv, RingFifo
  <2>3. Wrap(ring.event_read_pointer, Looked(ring) + (n + j))
          = Wrap(ring.read_pointer, n + j)
    <3>1. /\ ring.event_read_pointer \in Index /\ Looked(ring) \in 0 .. BUFFER_SIZE
          /\ n + j \in 0 .. BUFFER_SIZE /\ Looked(ring) + (n + j) <= BUFFER_SIZE
      BY <1>2, <1>3, <1>5 DEF Index
    <3> QED
      BY <1>4, <3>1, WrapWrap
  <2>4. /\ ring.read_pointer + (n + j) = o + j /\ o + j < BUFFER_SIZE
        /\ Looked(ring) + (n + j) = Looked(ring) + n + j
    BY <1>2, <1>3, <1>5 DEF o
  <2>5. Wrap(ring.read_pointer, n + j) = o + j /\ Wrap(o, j) = o + j
    BY <2>4 DEF Wrap
  <2>6. o + j \in Index
    BY <1>5, <2>4 DEF Index
  <2>7. received - Kept(ring) + 1 + (Looked(ring) + n + j)
          = Position + n + 1 + j
    BY <1>13
  <2> QED
    BY <2>2, <2>3, <2>4, <2>5, <2>6, <2>7
<1>7. p = Position + n + 1 /\ p \in Nat
  <2>1. o + 0 = o /\ Position + n + 1 + 0 = Position + n + 1
    BY <1>5, <1>13
  <2>2. o + 0 \in Index /\ memory[o + 0] = Position + n + 1 + 0
    BY <1>6
  <2> QED
    BY <1>1, <2>1, <2>2
<1> HIDE DEF p
<1>8. PICK m \in Int : Position + n = 4 * m
  <2>1. PICK a \in Int : Position = 4 * a
    BY <1>13, <1>14
  <2>2. PICK b \in Nat : n = 4 * b
    OBVIOUS
  <2>3. a + b \in Int /\ Position + n = 4 * (a + b)
    BY <2>1, <2>2
  <2> QED
    BY <2>3
<1>15. p = 4 * m + 1 /\ m \in Nat
  BY <1>7, <1>8, <1>13
<1>9. p % 4 = 1 /\ (p + 3) \div 4 = m + 1
  BY <1>15
<1>16. m + 1 \in 1 .. Len(wire)
  <2>1. received \in Nat /\ Position + n \in Int /\ Position + n + 4 <= received
    BY <1>5, <1>13
  <2>2. received <= 4 * Len(wire) /\ Len(wire) \in Nat
    BY <1>1
  <2> QED
    BY <1>8, <1>15, <2>1, <2>2
<1>10. \A k \in 1 .. 3 : memory[Wrap(o, k)] = p + k
  <2> SUFFICES ASSUME NEW k \in 1 .. 3 PROVE memory[Wrap(o, k)] = p + k
    OBVIOUS
  <2>1. memory[Wrap(o, k)] = Position + n + 1 + k
    BY <1>6
  <2> QED
    BY <1>7, <2>1
<1>11. WordAt(o) = wire[m + 1]
  BY <1>5, <1>9, <1>10, <1>16 DEF WordAt, WordAround, p
<1>12. 4 * (m + 1) = Position + n + 4
  BY <1>7, <1>13, <1>15
<1> QED
  BY <1>16, <1>11, <1>12 DEF o

LEMMA PullInWords ==
  ASSUME ComesInWords, IInv, WaveInv, Pull
  PROVE  /\ (received % 4 = 0)' /\ InWords(ring)' /\ MemoryInWords'
         /\ Position' = Position
<1>1. /\ ring \in Ring /\ InOrder(ring) /\ received \in Nat
      /\ received % 4 = 0 /\ InWords(ring) /\ MemoryInWords
      /\ memory \in [Index -> Nat]
  BY DEF IInv, TypeOK, RingFifo, WaveInv
<1>2. CASE PullNothing
  <2>1. UNCHANGED <<ring, received, memory>>
    BY <1>1, <1>2, RewindMovesNothing DEF PullNothing, socket
  <2> QED
    BY <1>1, <2>1 DEF Position, MemoryInWords
<1>3. CASE PullData
  <2>1. PICK n \in ChunkSizes :
          /\ n <= ContiguousSpaceAvailable(ring)
          /\ memory' = [o \in Index |->
                          IF o \in ring.write_pointer .. ring.write_pointer + n - 1
                          THEN received + 1 + (o - ring.write_pointer)
                          ELSE memory[o]]
          /\ ring' = UpdateWritePointer(Rewind(ring), n)
          /\ received' = received + n
    BY <1>3 DEF PullData
  <2>2. /\ n \in Nat /\ n > 0 /\ n % 4 = 0
        /\ n \in 1 .. ContiguousSpaceAvailable(ring)
    <3>1. n \in Nat \ {0} /\ n % 4 = 0
      BY DataBuilderAssumption DEF ComesInWords
    <3>2. ContiguousSpaceAvailable(ring) \in Int
      BY <1>1, KeptInRing, SpaceIsFree, BufferSizeAssumption
    <3> QED
      BY <2>1, <3>1, <3>2
  <2>3. InWords(ring')
    BY <1>1, <2>1, <2>2, WritesInWords
  <2>4. received' % 4 = 0
    BY <1>1, <2>1, <2>2
  <2>5. MemoryInWords'
    <3>1. SUFFICES ASSUME NEW o \in Index, memory'[o] % 4 = 1
                   PROVE  o % 4 = 0
      BY DEF MemoryInWords
    <3>2. o \in Nat /\ ring.write_pointer \in Nat /\ ring.write_pointer % 4 = 0
      BY <1>1, BufferSizeAssumption DEF Index, Ring, InWords
    <3>3. CASE o \in ring.write_pointer .. ring.write_pointer + n - 1
      <4>1. memory'[o] = received + 1 + (o - ring.write_pointer)
        BY <2>1, <3>3
      <4> QED
        BY <1>1, <3>1, <3>2, <4>1
    <3>4. CASE o \notin ring.write_pointer .. ring.write_pointer + n - 1
      BY <1>1, <2>1, <3>1, <3>4 DEF MemoryInWords
    <3> QED
      BY <3>3, <3>4
  <2>6. Position' = Position
    <3>1. PICK m \in Nat \ {0} :
            /\ Kept(ring') = Kept(ring) + m /\ Looked(ring') = Looked(ring)
            /\ ring' \in Ring /\ InOrder(ring') /\ received' = received + m
      BY <1>3, PullAppends DEF IInv
    <3>2. /\ Readable(ring) = Kept(ring) - Looked(ring)
          /\ Readable(ring') = Kept(ring') - Looked(ring')
          /\ Kept(ring) \in 0 .. BUFFER_SIZE
          /\ Looked(ring) \in 0 .. BUFFER_SIZE - 1
      BY <1>1, <3>1, ReadableIsTheRest, KeptInRing
    <3>3. received' - Readable(ring') = received - Readable(ring)
      BY <1>1, <3>1, <3>2, BufferSizeAssumption
    <3> QED
      BY <1>1, <3>3 DEF Position
  <2> QED
    BY <2>3, <2>4, <2>5, <2>6
<1> QED
  BY <1>2, <1>3 DEF Pull

\* A word of the wire that a scan finds begins where a word begins.
LEMMA FindInWords ==
  ASSUME ComesInWords, IInv, WaveInv, FindEventStart
  PROVE  (received % 4 = 0)' /\ InWords(ring)' /\ MemoryInWords'
<1>1. /\ ring \in Ring /\ InOrder(ring) /\ received \in Nat
      /\ received % 4 = 0 /\ InWords(ring) /\ MemoryInWords
      /\ TypeOK /\ RingFifo
  BY DEF IInv, TypeOK, RingFifo, WaveInv
<1>2. received' = received /\ memory' = memory
  BY DEF FindEventStart, FindNothing, FindFails, FindSucceeds, socket
<1>3. (received % 4 = 0)' /\ MemoryInWords'
  BY <1>1, <1>2 DEF MemoryInWords
<1>4. /\ ContiguousReadable(ring) \in Nat /\ Readable(ring) \in Nat
      /\ ContiguousReadable(ring) % 4 = 0 /\ Readable(ring) % 4 = 0
  BY <1>1, ReadableInWords, ReadableIsTheRest, PositionIsInt
<1>5. Skipped \in Ring /\ InOrder(Skipped) /\ ScanLength \in Nat
  BY <1>1, SkippedReads
<1>6. InWords(Skipped)
  BY <1>1, <1>4, ReadsInWords DEF Skipped
<1>7. ScanLength % 4 = 0
  BY <1>4 DEF ScanLength
<1>8. ASSUME NEW n \in Nat, n % 4 = 0,
             ring' = UpdateEventReadPointer(UpdateReadPointer(Skipped, n))
      PROVE  InWords(ring')
  <2> DEFINE q == UpdateReadPointer(Skipped, n)
  <2>1. q \in Ring /\ InOrder(q)
    BY <1>5, ReadKeeps
  <2>2. InWords(q)
    BY <1>5, <1>6, <1>8, ReadsInWords
  <2>3. 0 \in Nat /\ 0 % 4 = 0
    OBVIOUS
  <2> QED
    BY <1>8, <2>1, <2>2, <2>3, ReadsInWords
<1>9. CASE FindNothing
  BY <1>1, <1>3, <1>9 DEF FindNothing
<1>10. CASE FindFails
  BY <1>3, <1>5, <1>7, <1>8, <1>10 DEF FindFails
<1>11. CASE FindSucceeds
  <2>1. PICK i \in Starts :
          ring' = UpdateEventReadPointer(UpdateReadPointer(Skipped, i))
    BY <1>11 DEF FindSucceeds
  <2>2. i \in Nat /\ ScansAsStart(WordAt(Skipped.read_pointer + i))
    BY <1>5 DEF Starts
  <2> DEFINE o == Skipped.read_pointer + i
  <2>3. WordAt(o) /= Garbage
    BY <2>2 DEF ScansAsStart, Garbage
  <2>4. o + 3 < BUFFER_SIZE /\ memory[o] % 4 = 1
    BY <2>3 DEF WordAt, WordAround
  <2>5. Skipped.read_pointer \in Nat /\ Skipped.read_pointer % 4 = 0
    BY <1>5, <1>6, BufferSizeAssumption DEF Ring, Index, InWords
  <2>6. o \in Index
    BY <2>2, <2>4, <2>5, BufferSizeAssumption DEF Index
  <2>7. o % 4 = 0
    BY <1>1, <2>4, <2>6 DEF MemoryInWords
  <2>8. i % 4 = 0
    BY <2>2, <2>5, <2>7
  <2> QED
    BY <1>3, <1>8, <2>1, <2>2, <2>8
<1> QED
  BY <1>3, <1>9, <1>10, <1>11 DEF FindEventStart

\* A reader that has come to the end of its words goes on behind them.
LEMMA EndOfDataMoves ==
  ASSUME ComesInWords, IInv, WaveInv, EndOfData
  PROVE  /\ (received % 4 = 0)' /\ InWords(ring)' /\ MemoryInWords'
         /\ ~EventComplete => Position' = Position + bytes_read
<1>1. /\ ring \in Ring /\ InOrder(ring) /\ received \in Nat
      /\ received % 4 = 0 /\ InWords(ring) /\ MemoryInWords
      /\ bytes_read \in Nat /\ limit \in Nat
      /\ limit = ContiguousReadable(ring)
      /\ bytes_read % 4 = 0 /\ bytes_read <= limit
  BY DEF IInv, TypeOK, RingFifo, WaveInv, DataLoop, EndOfData
<1>2. /\ ring' = UpdateEventReadPointer(UpdateReadPointer(ring, bytes_read))
      /\ received' = received /\ memory' = memory
      /\ EventComplete \/ ~LoopCondition
  BY DEF EndOfData, socket
<1>3. InWords(ring')
  <2> DEFINE q == UpdateReadPointer(ring, bytes_read)
  <2>1. q \in Ring /\ InOrder(q)
    BY <1>1, ReadKeeps
  <2>2. InWords(q)
    BY <1>1, ReadsInWords
  <2>3. 0 \in Nat /\ 0 % 4 = 0
    OBVIOUS
  <2> QED
    BY <1>2, <2>1, <2>2, <2>3, ReadsInWords
<1>4. ASSUME ~EventComplete
      PROVE  Position' = Position + bytes_read
  <2>1. /\ Readable(ring) \in Nat /\ limit <= Readable(ring) /\ limit % 4 = 0
        /\ limit < 4 => Readable(ring) = limit
    BY <1>1, ReadableInWords, ReadableIsTheRest, PositionIsInt DEF IInv
  <2>2. bytes_read = limit
    BY <1>1, <1>2, <1>4, <2>1 DEF LoopCondition
  <2>3. Readable(ring') = Readable(ring) - bytes_read
    <3>1. CASE bytes_read > 0
      BY <1>1, <1>2, <2>1, <2>2, <3>1, ReadsExactly
    <3>2. CASE bytes_read = 0
      <4>1. Readable(ring) = 0
        BY <2>1, <2>2, <3>2
      <4>2. Readable(ring') \in Nat /\ Readable(ring') <= Readable(ring)
        BY <1>1, <1>2, FreeReads
      <4> QED
        BY <3>2, <4>1, <4>2
    <3> QED
      BY <1>1, <3>1, <3>2
  <2> QED
    BY <1>1, <1>2, <2>1, <2>3 DEF Position
<1> QED
  BY <1>1, <1>2, <1>3, <1>4 DEF MemoryInWords
-----------------------------------------------------------------------------
(* Places in the event buffer *)

LEMMA RowsApart ==
  ASSUME NEW a \in Nat, NEW b \in Nat, NEW size \in Nat, a < b
  PROVE  a * size \in Nat /\ b * size \in Nat /\ a * size + size <= b * size
<1>1. PICK k \in Nat : b = a + 1 + k
  <2>1. b - a - 1 \in Nat /\ b = a + 1 + (b - a - 1)
    OBVIOUS
  <2> QED
    BY <2>1
<1>2. \A x, y \in Nat : x * y \in Nat
  OBVIOUS
<1>3. b * size = a * size + size + k * size
  BY <1>1, SMTT(30)
<1> QED
  BY <1>2, <1>3

LEMMA SizeIsNat ==
  ASSUME NEW n \in Nat
  PROVE  ChannelSize(n) \in Nat /\ ChannelSize(n) \in {n + 1, n + 2}
         /\ (CERES => ChannelSize(n) = n + 2) /\ (~CERES => ChannelSize(n) = n + 1)
BY DataBuilderAssumption DEF ChannelSize, ChannelOverhead

LEMMA OrderIsNat ==
  ASSUME NEW c \in Channel
  PROVE  /\ CHANNEL_ORDER[c] \in Nat /\ CHANNEL_ORDER[c] < NUM_CHANNELS
         /\ c \in Nat /\ c < NUM_CHANNELS
BY DataBuilderAssumption DEF Channel

LEMMA RowIsNat ==
  ASSUME NEW n \in Nat, NEW c \in Channel
  PROVE  c * ChannelSize(n) \in Nat
<1>1. c \in Nat
  BY OrderIsNat
<1>2. ChannelSize(n) \in Nat
  BY SizeIsNat
<1>3. \A x, y \in Nat : x * y \in Nat
  OBVIOUS
<1> QED
  BY <1>1, <1>2, <1>3

\* More than the channels before c are there.
LEMMA MoreThanBefore ==
  ASSUME NEW n \in Nat, NEW c \in Channel, NEW k \in Nat, NEW words \in Nat,
         words >= HEADER_WORDS + c * ChannelSize(n) + k + 1
  PROVE  words >= HEADER_WORDS + c * ChannelSize(n)
<1> DEFINE m == c * ChannelSize(n)
<1>1. m \in Nat /\ HEADER_WORDS \in Nat
  BY RowIsNat, DataBuilderAssumption
<1>2. words >= HEADER_WORDS + m + k + 1
  OBVIOUS
<1> HIDE DEF m
<1>3. words >= HEADER_WORDS + m
  BY <1>1, <1>2
<1> QED
  BY <1>3 DEF m

\* Each word of each channel has a place of its own behind the header.
LEMMA PlacesApart ==
  ASSUME NEW n \in Nat, NEW c \in Channel, NEW i \in Nat, i < ChannelSize(n)
  PROVE  /\ Slot(c, i, n) \in Nat /\ Slot(c, i, n) >= HEADER_WORDS
         /\ Slot(c, i, n) = Slot(c, 0, n) + i
         /\ EventFits(n) => Slot(c, i, n) < EVENT_BUFFER_WORDS
         /\ \A d \in Channel : \A j \in Nat :
              j < ChannelSize(n) /\ d /= c => Slot(c, i, n) /= Slot(d, j, n)
<1> DEFINE size == ChannelSize(n)
           q == CHANNEL_ORDER[c]
<1>1. size \in Nat /\ size = n + ChannelOverhead
  BY SizeIsNat DEF ChannelSize
<1>2. q \in Nat /\ q < NUM_CHANNELS /\ NUM_CHANNELS \in Nat
      /\ HEADER_WORDS \in Nat /\ EVENT_BUFFER_WORDS \in Nat
  BY OrderIsNat, DataBuilderAssumption
<1>3. \A d, j : Slot(d, j, n) = HEADER_WORDS + CHANNEL_ORDER[d] * size + j
  BY <1>1 DEF Slot
<1> HIDE DEF size, q
<1>4. /\ q * size \in Nat /\ NUM_CHANNELS * size \in Nat
      /\ q * size + size <= NUM_CHANNELS * size
  BY <1>1, <1>2, RowsApart
<1>5. Slot(c, i, n) = HEADER_WORDS + q * size + i /\ i < size
      /\ Slot(c, 0, n) = HEADER_WORDS + q * size + 0
  BY <1>3 DEF q, size
<1>6. EventFits(n) => HEADER_WORDS + NUM_CHANNELS * size <= EVENT_BUFFER_WORDS
  BY DEF EventFits, size
<1>7. ASSUME NEW d \in Channel, NEW j \in Nat, j < size, d /= c
      PROVE  Slot(c, i, n) /= Slot(d, j, n)
  <2> DEFINE p == CHANNEL_ORDER[d]
  <2>1. p \in Nat /\ p /= q
    BY <1>7, OrderIsNat, DataBuilderAssumption DEF q
  <2>2. Slot(d, j, n) = HEADER_WORDS + p * size + j
    BY <1>3
  <2> HIDE DEF p
  <2>3. CASE p < q
    <3>1. p * size \in Nat /\ p * size + size <= q * size
      BY <1>1, <1>2, <2>1, <2>3, RowsApart
    <3> QED
      BY <1>1, <1>2, <1>4, <1>5, <1>7, <2>2, <3>1
  <2>4. CASE q < p
    <3>1. p * size \in Nat /\ q * size + size <= p * size
      BY <1>1, <1>2, <2>1, <2>4, RowsApart
    <3> QED
      BY <1>1, <1>2, <1>4, <1>5, <1>7, <2>2, <3>1
  <2> QED
    BY <1>2, <2>1, <2>3, <2>4
<1>8. /\ Slot(c, i, n) \in Nat /\ Slot(c, i, n) >= HEADER_WORDS
      /\ Slot(c, i, n) = Slot(c, 0, n) + i
      /\ EventFits(n) => Slot(c, i, n) < EVENT_BUFFER_WORDS
  BY <1>1, <1>2, <1>4, <1>5, <1>6
<1> QED
  BY <1>7, <1>8 DEF size

-----------------------------------------------------------------------------
(* Stashing a word of a waveform in its place *)

\* Where a place in the buffer has what the word brings, and elsewhere.
LEMMA StashData ==
  ASSUME TypeOK, NEW n \in Nat, EventFits(n), NEW w \in Word,
         w.channel \in Channel, LastSample(w) < ChannelSize(n),
         Stash(Slot(w.channel, w.sample, n), w),
         NEW c \in Channel, NEW i \in Nat, i < ChannelSize(n)
  PROVE  event_buffer'.data[Slot(c, i, n)] =
           IF c = w.channel /\ w.sample <= i /\ i <= LastSample(w)
           THEN [event |-> w.event, part |-> w.part, channel |-> w.channel,
                 sample |-> i]
           ELSE event_buffer.data[Slot(c, i, n)]
<1> DEFINE s == Slot(c, i, n)
           first == Slot(w.channel, w.sample, n)
<1>1. /\ w.sample \in Nat /\ w.width \in {1, 3} /\ ChannelSize(n) \in Nat
      /\ LastSample(w) = w.sample + w.width - 1
  BY SizeIsNat DEF Word, LastSample
<1>2. w.sample < ChannelSize(n)
  BY <1>1
<1>3. s \in Nat /\ s < EVENT_BUFFER_WORDS /\ s = Slot(c, 0, n) + i
  BY PlacesApart
<1>4. first \in Nat /\ first = Slot(w.channel, 0, n) + w.sample
  BY <1>1, <1>2, PlacesApart
<1>5. Slot(c, 0, n) \in Nat
  <2>1. 0 \in Nat /\ 0 < ChannelSize(n)
    BY <1>1
  <2> QED
    BY <2>1, PlacesApart
<1> HIDE DEF s, first
<1>6. event_buffer'.data[s] = IF s \in first .. first + w.width - 1
                              THEN Tag(w, s - first)
                              ELSE event_buffer.data[s]
  <2>1. DOMAIN event_buffer.data = 0 .. EVENT_BUFFER_WORDS - 1
    BY DEF TypeOK
  <2>2. s \in DOMAIN event_buffer.data
    BY <1>3, <2>1, DataBuilderAssumption
  <2> QED
    BY <2>2 DEF Stash, first
<1>7. CASE c = w.channel
  <2> DEFINE base == Slot(w.channel, 0, n)
  <2>3. base \in Nat /\ s = base + i /\ first = base + w.sample
    BY <1>3, <1>4, <1>5, <1>7
  <2> HIDE DEF base
  <2>1. /\ s \in first .. first + w.width - 1
             <=> w.sample <= i /\ i <= LastSample(w)
        /\ w.sample + (s - first) = i
    BY <1>1, <2>3
  <2>2. Tag(w, s - first) = [event |-> w.event, part |-> w.part,
                             channel |-> w.channel, sample |-> i]
    BY <2>1 DEF Tag
  <2> QED
    BY <1>6, <1>7, <2>1, <2>2 DEF s
<1>8. CASE c /= w.channel
  <2>1. s \notin first .. first + w.width - 1
    <3>1. SUFFICES ASSUME s \in first .. first + w.width - 1
                   PROVE  FALSE
      OBVIOUS
    <3> DEFINE j == w.sample + (s - first)
               base == Slot(w.channel, 0, n)
    <3>2. j \in Nat /\ j < ChannelSize(n)
      BY <1>1, <1>3, <1>4, <3>1
    <3>3. Slot(w.channel, j, n) = base + j
      BY <3>2, PlacesApart
    <3>6. base \in Nat /\ first = base + w.sample
      <4>1. 0 \in Nat /\ 0 < ChannelSize(n)
        BY <1>1
      <4> QED
        BY <1>4, <4>1, PlacesApart
    <3> HIDE DEF base
    <3>7. base + j = s
      BY <1>1, <1>3, <3>6
    <3> HIDE DEF j
    <3>4. Slot(w.channel, j, n) = s
      BY <3>3, <3>7
    <3>5. Slot(c, i, n) /= Slot(w.channel, j, n)
      BY <1>8, <3>2, PlacesApart
    <3> QED
      BY <3>4, <3>5 DEF s
  <2> QED
    BY <1>6, <1>8, <2>1 DEF s
<1> QED
  BY <1>7, <1>8

LEMMA StashPuts ==
  ASSUME TypeOK, NEW n \in Nat, EventFits(n), NEW w \in Word,
         NEW e, NEW c \in Channel, NEW k \in Nat,
         w.part = "waveform", w.event = e, w.channel = c, LastSample(w) = k,
         k < ChannelSize(n), Stash(Slot(c, w.sample, n), w)
  PROVE  /\ event_buffer'.num_words = event_buffer.num_words + w.width
         /\ \A d \in Channel : d /= c /\ Stashed(e, n, d, ChannelSize(n))
              => Stashed(e, n, d, ChannelSize(n))'
         /\ Stashed(e, n, c, w.sample) => Stashed(e, n, c, k + 1)'
<1>1. /\ w.sample \in Nat /\ ChannelSize(n) \in Nat
  BY SizeIsNat DEF Word
<1>2. event_buffer'.num_words = event_buffer.num_words + w.width
  BY DEF Stash
<1>3. ASSUME NEW d \in Channel, d /= c, Stashed(e, n, d, ChannelSize(n))
      PROVE  Stashed(e, n, d, ChannelSize(n))'
  <2> SUFFICES ASSUME NEW i \in 0 .. ChannelSize(n) - 1
               PROVE  event_buffer'.data[Slot(d, i, n)] =
                        [event |-> e, part |-> "waveform", channel |-> d,
                         sample |-> i]
    BY DEF Stashed
  <2>1. i \in Nat /\ i < ChannelSize(n)
    BY <1>1
  <2>2. event_buffer'.data[Slot(d, i, n)] = event_buffer.data[Slot(d, i, n)]
    <3>1. /\ w.channel \in Channel /\ LastSample(w) < ChannelSize(n)
          /\ Stash(Slot(w.channel, w.sample, n), w) /\ d /= w.channel
      BY <1>3
    <3>2. event_buffer'.data[Slot(d, i, n)] =
            IF d = w.channel /\ w.sample <= i /\ i <= LastSample(w)
            THEN [event |-> w.event, part |-> w.part, channel |-> w.channel,
                  sample |-> i]
            ELSE event_buffer.data[Slot(d, i, n)]
      BY <2>1, <3>1, StashData, ZenonT(60)
    <3> QED
      BY <3>1, <3>2
  <2> QED
    BY <1>3, <2>2 DEF Stashed
<1>4. ASSUME Stashed(e, n, c, w.sample)
      PROVE  Stashed(e, n, c, k + 1)'
  <2> SUFFICES ASSUME NEW i \in 0 .. k + 1 - 1
               PROVE  event_buffer'.data[Slot(c, i, n)] =
                        [event |-> e, part |-> "waveform", channel |-> c,
                         sample |-> i]
    BY DEF Stashed
  <2>1. i \in Nat /\ i < ChannelSize(n) /\ i <= LastSample(w)
    BY <1>1
  <2>2. CASE w.sample <= i
    BY <2>1, <2>2, StashData
  <2>3. CASE ~(w.sample <= i)
    <3>1. event_buffer'.data[Slot(c, i, n)] = event_buffer.data[Slot(c, i, n)]
      BY <2>1, <2>3, StashData
    <3>2. i \in 0 .. w.sample - 1
      BY <1>1, <2>1, <2>3
    <3> QED
      BY <1>4, <3>1, <3>2 DEF Stashed
  <2> QED
    BY <2>2, <2>3
<1> QED
  BY <1>2, <1>3, <1>4

-----------------------------------------------------------------------------
(* The words of an event *)

\* A good header was sent, so what an FPGA sends of this event is well sent.
LEMMA GoodEvent ==
  ASSUME IInv, WaveInv, pc /= "exit", NEW e, NEW n, NEW at, IsAt(e, n, at)
  PROVE  /\ e \in Nat /\ n \in Nat /\ EventFits(n)
         /\ \A i \in 1 .. Len(wire) : wire[i].event = e /\ i < Len(wire) =>
              /\ IsAmid(wire[i], n) => GoesOn(wire[i], wire[i + 1], n)
              /\ \A c \in Channel :
                   IsBefore(wire[i], c, n) /\ IsHeaderOf(wire[i + 1], c)
                     => wire[i + 1].event = e /\ wire[i + 1].width = 1
<1>1. 1 \in 1 .. HEADER_WORDS
  BY DataBuilderAssumption
<1>2. HeaderRead
  BY DEF WaveInv, Building
<1>3. PICK k \in 1 .. Len(wire) : wire[k] = event.header[1]
  BY <1>1, <1>2 DEF HeaderRead, IsAt
<1>4. wire[k] \in Word /\ wire[k].part = "header"
      /\ wire[k].event = e /\ wire[k].length = n
  <2>1. wire[k] \in Word
    BY DEF IInv, TypeOK
  <2>2. event.header[1].part = "header" /\ event.header[1].event = e
        /\ event.header[1].length = n
    BY <1>1 DEF HeaderIsGood, EventLength, IsAt
  <2> QED
    BY <1>3, <2>1, <2>2
<1>5. WellSent(wire)
  BY DEF WaveInv
<1>6. e \in Nat /\ n \in Nat
  BY <1>4 DEF Word
<1>7. EventFits(n)
  BY <1>4, <1>5 DEF WellSent
<1> QED
  BY <1>4, <1>5, <1>6, <1>7 DEF WellSent

\* One turn of the data loop takes the next word of the wire.
LEMMA WordTaken ==
  ASSUME ComesInWords, IInv, WaveInv, TakeWord
  PROVE  \E i \in 1 .. Len(wire) :
           /\ DataWord = wire[i] /\ 4 * i = Taken + 4 /\ Taken \in Int
           /\ pc' = pc => IsLast(i)'
<1>1. /\ received % 4 = 0 /\ InWords(ring) /\ bytes_read \in Nat /\ limit \in Nat
      /\ limit = ContiguousReadable(ring) /\ bytes_read % 4 = 0
      /\ bytes_read <= limit /\ pc = "data" /\ bytes_read <= limit - 3
      /\ ring \in Ring /\ InOrder(ring)
  BY DEF IInv, TypeOK, RingFifo, WaveInv, DataLoop, TakeWord, LoopCondition
<1>2. limit % 4 = 0
  BY <1>1, ReadableInWords
<1>3. bytes_read + 4 <= limit
  BY <1>1, <1>2
<1>4. PICK i \in 1 .. Len(wire) :
        /\ 4 * i = Position + bytes_read + 4
        /\ WordAt(ring.read_pointer + bytes_read) = wire[i]
  BY <1>1, <1>3, WordRead
<1>5. Position \in Int /\ Taken = Position + bytes_read
  BY <1>1, PositionIsInt DEF IInv, Taken
<1>6. /\ UNCHANGED <<wire, ring, received>> /\ bytes_read' = bytes_read + 4
  BY DEF TakeWord, socket
<1>7. Position' = Position
  BY <1>6 DEF Position
<1>8. ASSUME pc' = pc
      PROVE  IsLast(i)'
  <2>1. Taken' = Position + bytes_read + 4
    BY <1>1, <1>5, <1>6, <1>7, <1>8 DEF Taken
  <2> QED
    BY <1>4, <1>6, <2>1 DEF IsLast
<1> QED
  BY <1>1, <1>4, <1>5, <1>8 DEF DataWord

\* What the word taken is, from the one before it.
LEMMA NextWord ==
  ASSUME ComesInWords, IInv, WaveInv, TakeWord,
         NEW e, NEW n, NEW c, IsAt(e, n, c)
  PROVE  /\ e \in Nat /\ n \in Nat /\ c \in Channel /\ EventFits(n)
         /\ InEvent(e, n, c) /\ DataWord \in Word
         /\ ~event.wf_header_read /\ IsChannelHeader(DataWord) =>
              DataWord.event = e /\ DataWord.width = 1
         /\ \A s \in Nat : s < ChannelSize(n) - 1 /\ LastEnds(e, c, s) =>
              /\ DataWord.part = "waveform" /\ DataWord.event = e
              /\ DataWord.channel = c /\ DataWord.sample = s + 1
              /\ IF CERES /\ s + 1 <= n
                 THEN LastSample(DataWord) <= n
                 ELSE DataWord.width = 1
<1>1. /\ pc = "data" /\ Len(event.header) = HEADER_WORDS
      /\ HeaderIsGood(event.header) /\ HeaderRead /\ Building
      /\ ~EventComplete /\ wire \in Seq(Word)
      /\ e = event.header[1].event /\ c = event.current_channel
  BY DEF IInv, TypeOK, WaveInv, DataLoop, Building, TakeWord, IsAt
<1>2. /\ e \in Nat /\ n \in Nat /\ EventFits(n)
      /\ \A i \in 1 .. Len(wire) : wire[i].event = e /\ i < Len(wire) =>
           /\ IsAmid(wire[i], n) => GoesOn(wire[i], wire[i + 1], n)
           /\ \A d \in Channel :
                IsBefore(wire[i], d, n) /\ IsHeaderOf(wire[i + 1], d)
                  => wire[i + 1].event = e /\ wire[i + 1].width = 1
  BY <1>1, GoodEvent
<1>3. InEvent(e, n, c)
  BY <1>1 DEF Building
<1>4. c \in Channel /\ c \in Nat
  <2>1. c \in 0 .. NUM_CHANNELS /\ c /= NUM_CHANNELS
    BY <1>1 DEF IInv, TypeOK, EventComplete
  <2> QED
    BY <2>1, DataBuilderAssumption DEF Channel
<1>5. PICK i \in 1 .. Len(wire) :
        DataWord = wire[i] /\ 4 * i = Taken + 4 /\ Taken \in Int
  BY WordTaken
<1>6. DataWord \in Word
  BY <1>1, <1>5
<1>7. ASSUME NEW j, IsLast(j)
      PROVE  j \in 1 .. Len(wire) /\ j < Len(wire) /\ j + 1 = i
  BY <1>1, <1>5, <1>7 DEF IsLast
<1>8. ASSUME ~event.wf_header_read, IsChannelHeader(DataWord)
      PROVE  DataWord.event = e /\ DataWord.width = 1
  <2>1. \E j : IsLast(j) /\ wire[j].event = e /\ IsBefore(wire[j], c, n)
    <3>1. CASE c = 0
      <4>1. Len(event.header) > 0 /\ HEADER_WORDS \in 1 .. HEADER_WORDS
        BY <1>1, DataBuilderAssumption
      <4>2. PICK j : IsLast(j) /\ wire[j] = event.header[Len(event.header)]
        BY <1>1, <1>8, <3>1, <4>1 DEF HeaderRead
      <4>3. /\ wire[j].part = "header" /\ wire[j].event = e
            /\ wire[j].sample = HEADER_WORDS - 1
        BY <1>1, <4>1, <4>2 DEF HeaderIsGood
      <4> QED
        BY <3>1, <4>2, <4>3 DEF IsBefore
    <3>2. CASE c /= 0
      <4>1. LastEnds(e, c - 1, ChannelSize(n) - 1)
        BY <1>3, <1>4, <1>8, <3>2 DEF InEvent
      <4> QED
        BY <4>1 DEF LastEnds, IsBefore
    <3> QED
      BY <3>1, <3>2
  <2>2. PICK j : IsLast(j) /\ wire[j].event = e /\ IsBefore(wire[j], c, n)
    BY <2>1
  <2>3. IsHeaderOf(wire[i], c)
    BY <1>1, <1>5, <1>8 DEF IsChannelHeader, IsHeaderOf
  <2>4. j \in 1 .. Len(wire) /\ j < Len(wire) /\ j + 1 = i
    BY <1>7, <2>2
  <2> QED
    BY <1>2, <1>4, <1>5, <2>2, <2>3, <2>4
<1>9. ASSUME NEW s \in Nat, s < ChannelSize(n) - 1, LastEnds(e, c, s)
      PROVE  /\ DataWord.part = "waveform" /\ DataWord.event = e
             /\ DataWord.channel = c /\ DataWord.sample = s + 1
             /\ IF CERES /\ s + 1 <= n
                THEN LastSample(DataWord) <= n
                ELSE DataWord.width = 1
  <2>1. PICK j : /\ IsLast(j) /\ wire[j].part = "waveform"
                 /\ wire[j].event = e /\ wire[j].channel = c
                 /\ LastSample(wire[j]) = s
    BY <1>9 DEF LastEnds
  <2>2. j \in 1 .. Len(wire) /\ j < Len(wire) /\ j + 1 = i
    BY <1>7, <2>1
  <2>3. IsAmid(wire[j], n)
    BY <1>4, <1>9, <2>1 DEF IsAmid
  <2>4. GoesOn(wire[j], DataWord, n)
    BY <1>2, <1>5, <2>1, <2>2, <2>3
  <2> QED
    BY <2>1, <2>4 DEF GoesOn
<1> QED
  BY <1>2, <1>3, <1>4, <1>6, <1>8, <1>9

-----------------------------------------------------------------------------
(* The data loop *)

\* A turn that takes a word keeps the invariant if it leaves every channel
\* as far as it is.
LEMMA TurnKeeps ==
  ASSUME ComesInWords, IInv, WaveInv, TakeWord,
         UNCHANGED <<pc, reeling, event_ready>>,
         event'.header = event.header,
         event_buffer'.num_words \in Nat,
         event_buffer'.num_words >= event_buffer.num_words,
         event'.wf_header_read \/ event'.current_channel /= 0,
         NEW e, NEW n, NEW c, IsAt(e, n, c),
         NEW d, d = event'.current_channel, InEvent(e, n, d)'
  PROVE  WaveInv'
<1>1. /\ pc = "data" /\ Len(event.header) = HEADER_WORDS
      /\ HeaderIsGood(event.header) /\ HeaderRead
      /\ limit = ContiguousReadable(ring) /\ limit \in Nat
      /\ bytes_read \in Nat /\ bytes_read % 4 = 0 /\ bytes_read <= limit - 3
      /\ ring \in Ring /\ InOrder(ring) /\ InWords(ring)
      /\ event_buffer.num_words \in Nat /\ HEADER_WORDS \in Nat
  BY DataBuilderAssumption
     DEF IInv, TypeOK, RingFifo, WaveInv, DataLoop, Building, TakeWord,
         LoopCondition
<1>2. /\ UNCHANGED <<wire, received, memory, ring, limit, published>>
      /\ bytes_read' = bytes_read + 4
  BY DEF TakeWord, socket
<1>3. /\ WellSent(wire)' /\ (received % 4 = 0)' /\ InWords(ring)'
      /\ MemoryInWords' /\ WaveformsAreOneEvent'
  BY <1>2 DEF WaveInv, MemoryInWords, WaveformsAreOneEvent
<1>4. DataLoop'
  <2>1. limit % 4 = 0
    BY <1>1, ReadableInWords
  <2>2. (bytes_read + 4) % 4 = 0 /\ bytes_read + 4 <= limit
    BY <1>1, <2>1
  <2> QED
    BY <1>1, <1>2, <2>2 DEF DataLoop
<1>5. HeaderRead'
  <2>1. Len(event'.header) <= event_buffer'.num_words
    BY <1>1 DEF HeaderRead
  <2>2. \A k \in 1 .. Len(event'.header) :
          \E i \in 1 .. Len(wire') : wire'[i] = event'.header[k]
    BY <1>1, <1>2, SMTT(30) DEF HeaderRead
  <2>3. /\ ~(Len(event'.header) < HEADER_WORDS)
        /\ ~(event'.current_channel = 0 /\ ~event'.wf_header_read)
    BY <1>1
  <2> QED
    BY <2>1, <2>2, <2>3, Zenon DEF HeaderRead
<1>6. Building'
  <2>1. SUFFICES ASSUME NEW f, NEW m, NEW b, IsAt(f, m, b)'
                 PROVE  InEvent(f, m, b)'
    BY <1>5 DEF Building
  <2>2. f = e /\ m = n /\ b = d
    BY <2>1 DEF IsAt, EventLength
  <2> QED
    BY <2>2
<1>7. ReadyIsComplete'
  BY <1>1 DEF WaveInv, ReadyIsComplete
<1> QED
  BY <1>3, <1>4, <1>6, <1>7 DEF WaveInv

\* What the first word of a channel, or the next one, does to the event.
LEMMA WaveformGrows ==
  ASSUME ComesInWords, IInv, WaveInv, TakeWord, pc' = pc,
         NEW e, NEW n, NEW c, IsAt(e, n, c), InEvent(e, n, c),
         NEW k \in Nat, k < ChannelSize(n), LastSample(DataWord) = k,
         DataWord.part = "waveform", DataWord.event = e, DataWord.channel = c,
         Stashed(e, n, c, DataWord.sample),
         Stash(Slot(c, DataWord.sample, n), DataWord),
         event_buffer.num_words
           >= HEADER_WORDS + c * ChannelSize(n) + DataWord.sample
  PROVE  /\ \A b \in Channel : b < c => Stashed(e, n, b, ChannelSize(n))'
         /\ Stashed(e, n, c, k + 1)'
         /\ LastEnds(e, c, k)'
         /\ event_buffer'.num_words \in Nat
         /\ event_buffer'.num_words >= event_buffer.num_words
         /\ event_buffer'.num_words
              >= HEADER_WORDS + c * ChannelSize(n) + k + 1
         /\ c * ChannelSize(n) \in Nat
<1>1. /\ e \in Nat /\ n \in Nat /\ c \in Channel /\ EventFits(n)
      /\ DataWord \in Word
  BY NextWord
<1> DEFINE w == DataWord
<1>2. /\ w.sample \in Nat /\ w.width \in {1, 3} /\ k = w.sample + w.width - 1
      /\ event_buffer.num_words \in Nat /\ HEADER_WORDS \in Nat
  BY <1>1, DataBuilderAssumption DEF Word, LastSample, IInv, TypeOK
<1>3. /\ event_buffer'.num_words = event_buffer.num_words + w.width
      /\ \A d \in Channel : d /= c /\ Stashed(e, n, d, ChannelSize(n))
           => Stashed(e, n, d, ChannelSize(n))'
      /\ Stashed(e, n, c, k + 1)'
  BY <1>1, StashPuts DEF IInv
<1>4. ASSUME NEW b \in Channel, b < c
      PROVE  Stashed(e, n, b, ChannelSize(n))'
  <2>1. b /= c /\ Stashed(e, n, b, ChannelSize(n))
    BY <1>1, <1>4, OrderIsNat DEF InEvent
  <2> QED
    BY <1>3, <2>1
<1>5. LastEnds(e, c, k)'
  <2>1. PICK i \in 1 .. Len(wire) : w = wire[i] /\ IsLast(i)'
    BY WordTaken
  <2>2. wire' = wire
    BY DEF TakeWord, socket
  <2>3. /\ wire'[i].part = "waveform" /\ wire'[i].event = e
        /\ wire'[i].channel = c /\ LastSample(wire'[i]) = k
    BY <2>1, <2>2
  <2> QED
    BY <2>1, <2>3 DEF LastEnds
<1>6. c * ChannelSize(n) \in Nat
  <2>1. c \in Nat /\ ChannelSize(n) \in Nat
    BY <1>1, SizeIsNat, OrderIsNat
  <2>2. \A x, y \in Nat : x * y \in Nat
    OBVIOUS
  <2> QED
    BY <2>1, <2>2
<1> HIDE DEF w
<1>7. /\ event_buffer'.num_words \in Nat
      /\ event_buffer'.num_words >= event_buffer.num_words
      /\ event_buffer'.num_words >= HEADER_WORDS + c * ChannelSize(n) + k + 1
  <2> DEFINE m == c * ChannelSize(n)
  <2>1. m \in Nat /\ event_buffer.num_words >= HEADER_WORDS + m + w.sample
    BY <1>6 DEF w
  <2> HIDE DEF m
  <2>2. /\ event_buffer'.num_words \in Nat
        /\ event_buffer'.num_words >= event_buffer.num_words
        /\ event_buffer'.num_words >= HEADER_WORDS + m + k + 1
    BY <1>2, <1>3, <2>1
  <2> QED
    BY <2>2 DEF m
<1> QED
  BY <1>3, <1>4, <1>5, <1>6, <1>7

LEMMA InData ==
  ASSUME IInv, WaveInv, pc = "data"
  PROVE  \E e, n, c : IsAt(e, n, c) /\ InEvent(e, n, c)
<1>1. Len(event.header) = HEADER_WORDS /\ HeaderIsGood(event.header)
  BY DEF IInv, TypeOK, WaveInv, DataLoop
<1>2. IsAt(event.header[1].event, EventLength, event.current_channel)
  BY <1>1 DEF IsAt
<1> QED
  BY <1>2 DEF WaveInv, Building

LEMMA ChannelHeaderKeeps ==
  ASSUME ComesInWords, IInv, WaveInv, ChannelHeader
  PROVE  WaveInv'
<1>1. TakeWord /\ pc = "data" /\ UNCHANGED <<pc, reeling, event_ready>>
      /\ ~event.wf_header_read /\ IsChannelHeader(DataWord)
  BY DEF ChannelHeader, TakeWord
<1>2. PICK e, n, c : IsAt(e, n, c) /\ InEvent(e, n, c)
  BY <1>1, InData
<1>3. /\ e \in Nat /\ n \in Nat /\ c \in Channel /\ EventFits(n)
      /\ DataWord \in Word /\ DataWord.event = e /\ DataWord.width = 1
  BY <1>1, <1>2, NextWord
<1>4. /\ c = event.current_channel /\ n = EventLength
      /\ DataWord.part = "waveform" /\ DataWord.sample = 0
      /\ DataWord.channel = c
  BY <1>1, <1>2 DEF IsAt, IsChannelHeader
<1>5. LastSample(DataWord) = 0
  BY <1>3, <1>4 DEF LastSample
<1>6. ChannelSize(n) \in Nat /\ 0 < ChannelSize(n)
      /\ (CERES \/ n > 0 => 0 < ChannelSize(n) - 1)
  BY <1>3, SizeIsNat
<1>7. Stash(Slot(c, DataWord.sample, n), DataWord)
  BY <1>4 DEF ChannelHeader
<1>8. Stashed(e, n, c, DataWord.sample)
  BY <1>4 DEF Stashed
<1>9. event_buffer.num_words
        >= HEADER_WORDS + c * ChannelSize(n) + DataWord.sample
  <2>1. c * ChannelSize(n) \in Nat
    BY <1>3, <1>6, OrderIsNat, SMTT(30)
  <2>2. event_buffer.num_words >= HEADER_WORDS + c * ChannelSize(n)
    BY <1>2 DEF InEvent
  <2> QED
    BY <1>4, <2>1, <2>2, DataBuilderAssumption
<1>10. /\ \A b \in Channel : b < c => Stashed(e, n, b, ChannelSize(n))'
       /\ Stashed(e, n, c, 0 + 1)'
       /\ LastEnds(e, c, 0)'
       /\ event_buffer'.num_words \in Nat
       /\ event_buffer'.num_words >= event_buffer.num_words
       /\ event_buffer'.num_words
            >= HEADER_WORDS + c * ChannelSize(n) + 0 + 1
       /\ c * ChannelSize(n) \in Nat
  BY <1>1, <1>2, <1>4, <1>5, <1>6, <1>7, <1>8, <1>9, <1>3, WaveformGrows
<1>11. /\ event'.header = event.header /\ event'.current_channel = c
       /\ event'.wf_header_read
       /\ event'.samples_read = IF CERES THEN 0 ELSE 1
  BY <1>4 DEF ChannelHeader, IInv, TypeOK
<1>12. InEvent(e, n, c)'
  <2>1. event_buffer'.num_words >= HEADER_WORDS + c * ChannelSize(n)
    BY <1>10, DataBuilderAssumption
  <2>2. c < NUM_CHANNELS
    BY <1>3, OrderIsNat
  <2>3. CASE ~CERES /\ n = 0
    BY <1>10, <1>11, <2>1, <2>2, <2>3 DEF InEvent
  <2>4. CASE CERES \/ n > 0
    <3>1. SoFar' = 0
      BY <1>11 DEF SoFar
    <3>2. InWaveform(e, n, c, 0)'
      BY <1>6, <1>10, <2>4 DEF InWaveform
    <3> QED
      BY <1>10, <1>11, <2>1, <2>2, <3>1, <3>2 DEF InEvent
  <2> QED
    BY <1>3, <2>3, <2>4
<1> QED
  BY <1>1, <1>2, <1>10, <1>11, <1>12, TurnKeeps

\* The next word of a channel whose header was read.
LEMMA SampleTaken ==
  ASSUME ComesInWords, IInv, WaveInv, TakeWord, pc' = pc,
         NEW e, NEW n, NEW c, IsAt(e, n, c), InEvent(e, n, c),
         event.wf_header_read, CERES \/ event.samples_read <= n
  PROVE  \E s, k \in Nat :
           /\ s = SoFar /\ s < ChannelSize(n) - 1 /\ k < ChannelSize(n)
           /\ DataWord \in Word /\ DataWord.sample = s + 1
           /\ k = s + DataWord.width
           /\ IF CERES /\ s + 1 <= n THEN k <= n ELSE DataWord.width = 1
           /\ Stash(Slot(c, s + 1, n), DataWord) =>
                /\ \A b \in Channel : b < c => Stashed(e, n, b, ChannelSize(n))'
                /\ Stashed(e, n, c, k + 1)'
                /\ LastEnds(e, c, k)'
                /\ event_buffer'.num_words \in Nat
                /\ event_buffer'.num_words >= event_buffer.num_words
                /\ event_buffer'.num_words
                     >= HEADER_WORDS + c * ChannelSize(n) + k + 1
<1>1. /\ e \in Nat /\ n \in Nat /\ c \in Channel /\ EventFits(n)
      /\ DataWord \in Word
  BY NextWord
<1>2. ChannelSize(n) \in Nat /\ (CERES => ChannelSize(n) = n + 2)
  BY <1>1, SizeIsNat
<1>3. event.samples_read \in Nat /\ n \in Nat
  BY <1>1 DEF IInv, TypeOK
<1>4. PICK s \in Nat : s = SoFar /\ InWaveform(e, n, c, s)
  BY <1>3 DEF InEvent
<1>5. /\ s < ChannelSize(n) - 1 /\ LastEnds(e, c, s)
      /\ Stashed(e, n, c, s + 1)
      /\ event_buffer.num_words >= HEADER_WORDS + c * ChannelSize(n) + s + 1
  BY <1>4 DEF InWaveform
<1>6. /\ DataWord.part = "waveform" /\ DataWord.event = e
      /\ DataWord.channel = c /\ DataWord.sample = s + 1
      /\ IF CERES /\ s + 1 <= n
         THEN LastSample(DataWord) <= n
         ELSE DataWord.width = 1
  BY <1>5, NextWord
<1>7. DataWord.width \in {1, 3}
  BY <1>1 DEF Word
<1>8. PICK k \in Nat : k = s + DataWord.width
  BY <1>7
<1>9. LastSample(DataWord) = k
  BY <1>6, <1>7, <1>8 DEF LastSample
<1>10. k < ChannelSize(n)
  BY <1>2, <1>5, <1>6, <1>8, <1>9, <1>1
<1>11. ASSUME Stash(Slot(c, s + 1, n), DataWord)
       PROVE  /\ \A b \in Channel : b < c => Stashed(e, n, b, ChannelSize(n))'
              /\ Stashed(e, n, c, k + 1)'
              /\ LastEnds(e, c, k)'
              /\ event_buffer'.num_words \in Nat
              /\ event_buffer'.num_words >= event_buffer.num_words
              /\ event_buffer'.num_words
                   >= HEADER_WORDS + c * ChannelSize(n) + k + 1
  <2>1. /\ Stash(Slot(c, DataWord.sample, n), DataWord)
        /\ Stashed(e, n, c, DataWord.sample)
        /\ event_buffer.num_words
             >= HEADER_WORDS + c * ChannelSize(n) + DataWord.sample
    <3>1. HEADER_WORDS + c * ChannelSize(n) + s + 1
            = HEADER_WORDS + c * ChannelSize(n) + (s + 1)
      <4>1. c * ChannelSize(n) \in Nat
        BY <1>1, <1>2, OrderIsNat, SMTT(30)
      <4> QED
        BY <4>1, DataBuilderAssumption
    <3> QED
      BY <1>5, <1>6, <1>11, <3>1
  <2> QED
    BY <1>6, <1>9, <1>10, <2>1, WaveformGrows
<1> QED
  BY <1>1, <1>4, <1>5, <1>6, <1>8, <1>9, <1>10, <1>11

\* A channel is there, and the next one begins.
LEMMA ChannelEnds ==
  ASSUME NEW e, NEW n \in Nat, NEW c \in Channel, NEW k \in Nat,
         NEW d, d = c + 1, k = ChannelSize(n) - 1, event' = NextChannel,
         \A b \in Channel : b < c => Stashed(e, n, b, ChannelSize(n))',
         Stashed(e, n, c, k + 1)', LastEnds(e, c, k)',
         event_buffer'.num_words \in Nat,
         event_buffer'.num_words >= HEADER_WORDS + c * ChannelSize(n) + k + 1,
         TypeOK
  PROVE  /\ event'.header = event.header /\ ~event'.wf_header_read
         /\ event'.current_channel = event.current_channel + 1
         /\ InEvent(e, n, d)'
<1>1. /\ event'.header = event.header /\ ~event'.wf_header_read
      /\ event'.current_channel = event.current_channel + 1
  BY DEF NextChannel, TypeOK
<1>2. c \in Nat /\ ChannelSize(n) \in Nat /\ HEADER_WORDS \in Nat
  BY SizeIsNat, OrderIsNat, DataBuilderAssumption
<1>3. k + 1 = ChannelSize(n) /\ d - 1 = c /\ d \in Nat
  BY <1>2
<1>4. ASSUME NEW b \in Channel, b < d
      PROVE  Stashed(e, n, b, ChannelSize(n))'
  <2>1. b < c \/ b = c
    BY <1>2, <1>4, OrderIsNat
  <2>2. Stashed(e, n, c, ChannelSize(n))'
    BY <1>3 DEF Stashed
  <2> QED
    BY <2>1, <2>2
<1>5. event_buffer'.num_words >= HEADER_WORDS + d * ChannelSize(n)
  <2>1. (c + 1) * ChannelSize(n) = c * ChannelSize(n) + ChannelSize(n)
        /\ c * ChannelSize(n) \in Nat
    BY <1>2, SMTT(30)
  <2> QED
    BY <1>2, <1>3, <2>1
<1>6. LastEnds(e, d - 1, ChannelSize(n) - 1)'
  BY <1>3 DEF LastEnds
<1>7. InEvent(e, n, d)'
  BY <1>1, <1>4, <1>5, <1>6 DEF InEvent
<1> QED
  BY <1>1, <1>7

\* Narrowing a word that is narrow changes nothing.
LEMMA NarrowWord ==
  ASSUME NEW w \in Word, w.width = 1
  PROVE  [w EXCEPT !.width = 1] = w
BY DEF Word

LEMMA CeresSamplesKeep ==
  ASSUME ComesInWords, IInv, WaveInv, CeresSamples
  PROVE  WaveInv'
<1>1. /\ TakeWord /\ pc = "data" /\ UNCHANGED <<pc, reeling, event_ready>>
      /\ event.wf_header_read /\ CERES /\ event.samples_read < EventLength
  BY DEF CeresSamples, TakeWord
<1>2. PICK e, n, c : IsAt(e, n, c) /\ InEvent(e, n, c)
  BY <1>1, InData
<1>3. /\ e \in Nat /\ n \in Nat /\ c \in Channel
  BY <1>1, <1>2, NextWord
<1>4. c = event.current_channel /\ n = EventLength
  BY <1>2 DEF IsAt
<1>5. PICK s, k \in Nat :
        /\ s = SoFar /\ s < ChannelSize(n) - 1 /\ k < ChannelSize(n)
        /\ DataWord \in Word /\ DataWord.sample = s + 1
        /\ k = s + DataWord.width
        /\ IF CERES /\ s + 1 <= n THEN k <= n ELSE DataWord.width = 1
        /\ Stash(Slot(c, s + 1, n), DataWord) =>
             /\ \A b \in Channel : b < c => Stashed(e, n, b, ChannelSize(n))'
             /\ Stashed(e, n, c, k + 1)'
             /\ LastEnds(e, c, k)'
             /\ event_buffer'.num_words \in Nat
             /\ event_buffer'.num_words >= event_buffer.num_words
             /\ event_buffer'.num_words
                  >= HEADER_WORDS + c * ChannelSize(n) + k + 1
  BY <1>1, <1>2, SampleTaken
<1>6. s = event.samples_read /\ s + 1 <= n
  BY <1>1, <1>3, <1>4, <1>5 DEF SoFar
<1>7. Stash(Slot(c, s + 1, n), DataWord)
  BY <1>4, <1>6 DEF CeresSamples
<1>8. /\ event'.header = event.header /\ event'.current_channel = c
      /\ event'.wf_header_read /\ event'.samples_read = k
  BY <1>1, <1>4, <1>5, <1>6 DEF CeresSamples, IInv, TypeOK
<1>9. /\ ChannelSize(n) \in Nat /\ ChannelSize(n) = n + 2
  BY <1>1, <1>3, SizeIsNat
<1>10. InEvent(e, n, c)'
  <2>1. SoFar' = k
    BY <1>1, <1>8 DEF SoFar
  <2>2. k < ChannelSize(n) - 1
    BY <1>1, <1>3, <1>5, <1>6, <1>9
  <2>3. InWaveform(e, n, c, k)'
    BY <1>5, <1>7, <2>2 DEF InWaveform
  <2>4. event_buffer'.num_words >= HEADER_WORDS + c * ChannelSize(n)
    BY <1>3, <1>5, <1>7, MoreThanBefore
  <2>5. c < NUM_CHANNELS
    BY <1>3, OrderIsNat
  <2> QED
    BY <1>5, <1>7, <1>8, <2>1, <2>3, <2>4, <2>5 DEF InEvent
<1> QED
  BY <1>1, <1>2, <1>5, <1>7, <1>8, <1>10, TurnKeeps

LEMMA CeresCrcKeeps ==
  ASSUME ComesInWords, IInv, WaveInv, CeresCrc
  PROVE  WaveInv'
<1>1. /\ TakeWord /\ pc = "data" /\ UNCHANGED <<pc, reeling, event_ready>>
      /\ event.wf_header_read /\ CERES /\ event.samples_read >= EventLength
      /\ event' = NextChannel
  BY DEF CeresCrc, TakeWord
<1>2. PICK e, n, c : IsAt(e, n, c) /\ InEvent(e, n, c)
  BY <1>1, InData
<1>3. /\ e \in Nat /\ n \in Nat /\ c \in Channel
  BY <1>1, <1>2, NextWord
<1>4. c = event.current_channel /\ n = EventLength
  BY <1>2 DEF IsAt
<1>5. PICK s, k \in Nat :
        /\ s = SoFar /\ s < ChannelSize(n) - 1 /\ k < ChannelSize(n)
        /\ DataWord \in Word /\ DataWord.sample = s + 1
        /\ k = s + DataWord.width
        /\ IF CERES /\ s + 1 <= n THEN k <= n ELSE DataWord.width = 1
        /\ Stash(Slot(c, s + 1, n), DataWord) =>
             /\ \A b \in Channel : b < c => Stashed(e, n, b, ChannelSize(n))'
             /\ Stashed(e, n, c, k + 1)'
             /\ LastEnds(e, c, k)'
             /\ event_buffer'.num_words \in Nat
             /\ event_buffer'.num_words >= event_buffer.num_words
             /\ event_buffer'.num_words
                  >= HEADER_WORDS + c * ChannelSize(n) + k + 1
  BY <1>1, <1>2, SampleTaken
<1>6. ChannelSize(n) \in Nat /\ ChannelSize(n) = n + 2
  BY <1>1, <1>3, SizeIsNat
<1>7. /\ s = event.samples_read /\ s = n /\ DataWord.width = 1
      /\ k = ChannelSize(n) - 1
  BY <1>1, <1>3, <1>4, <1>5, <1>6 DEF SoFar
<1>8. Stash(Slot(c, s + 1, n), DataWord)
  BY <1>4, <1>5, <1>7, NarrowWord DEF CeresCrc
<1>9. PICK d \in Nat : d = c + 1
  BY <1>3, OrderIsNat
<1>10. /\ event'.header = event.header /\ d /= 0
       /\ event'.current_channel = d /\ InEvent(e, n, d)'
  BY <1>1, <1>3, <1>4, <1>5, <1>7, <1>8, <1>9, OrderIsNat, ChannelEnds DEF IInv
<1> QED
  BY <1>1, <1>2, <1>5, <1>8, <1>10, TurnKeeps

LEMMA FontusSampleKeeps ==
  ASSUME ComesInWords, IInv, WaveInv, FontusSample
  PROVE  WaveInv'
<1>1. /\ TakeWord /\ pc = "data" /\ UNCHANGED <<pc, reeling, event_ready>>
      /\ event.wf_header_read /\ ~CERES /\ event.samples_read <= EventLength
  BY DEF FontusSample, TakeWord
<1>2. PICK e, n, c : IsAt(e, n, c) /\ InEvent(e, n, c)
  BY <1>1, InData
<1>3. /\ e \in Nat /\ n \in Nat /\ c \in Channel
  BY <1>1, <1>2, NextWord
<1>4. c = event.current_channel /\ n = EventLength
  BY <1>2 DEF IsAt
<1>5. PICK s, k \in Nat :
        /\ s = SoFar /\ s < ChannelSize(n) - 1 /\ k < ChannelSize(n)
        /\ DataWord \in Word /\ DataWord.sample = s + 1
        /\ k = s + DataWord.width
        /\ IF CERES /\ s + 1 <= n THEN k <= n ELSE DataWord.width = 1
        /\ Stash(Slot(c, s + 1, n), DataWord) =>
             /\ \A b \in Channel : b < c => Stashed(e, n, b, ChannelSize(n))'
             /\ Stashed(e, n, c, k + 1)'
             /\ LastEnds(e, c, k)'
             /\ event_buffer'.num_words \in Nat
             /\ event_buffer'.num_words >= event_buffer.num_words
             /\ event_buffer'.num_words
                  >= HEADER_WORDS + c * ChannelSize(n) + k + 1
  BY <1>1, <1>2, <1>4, SampleTaken
<1>6. ChannelSize(n) \in Nat /\ ChannelSize(n) = n + 1
  BY <1>1, <1>3, SizeIsNat
<1>7. /\ event.samples_read = k /\ DataWord.width = 1 /\ s + 1 = k
  <2>1. event.samples_read \in Nat
    BY DEF IInv, TypeOK
  <2> QED
    BY <1>1, <1>5, <2>1 DEF SoFar
<1>8. Stash(Slot(c, s + 1, n), DataWord)
  BY <1>4, <1>5, <1>7, NarrowWord DEF FontusSample
<1>9. CASE event.samples_read = n
  <2>1. event' = NextChannel /\ k = ChannelSize(n) - 1
    BY <1>3, <1>4, <1>6, <1>7, <1>9 DEF FontusSample
  <2>2. PICK d \in Nat : d = c + 1
    BY <1>3, OrderIsNat
  <2>3. /\ event'.header = event.header /\ d /= 0
        /\ event'.current_channel = d /\ InEvent(e, n, d)'
    BY <1>3, <1>4, <1>5, <1>8, <2>1, <2>2, OrderIsNat, ChannelEnds DEF IInv
  <2> QED
    BY <1>1, <1>2, <1>5, <1>8, <2>3, TurnKeeps
<1>10. CASE event.samples_read /= n
  <2>1. /\ event'.header = event.header /\ event'.current_channel = c
        /\ event'.wf_header_read /\ event'.samples_read = k + 1
    BY <1>1, <1>4, <1>7, <1>10 DEF FontusSample, IInv, TypeOK
  <2>2. SoFar' = k
    BY <1>1, <2>1 DEF SoFar
  <2>3. k < ChannelSize(n) - 1
    BY <1>1, <1>3, <1>4, <1>6, <1>7, <1>10
  <2>4. InWaveform(e, n, c, k)'
    BY <1>5, <1>8, <2>3 DEF InWaveform
  <2>5. event_buffer'.num_words >= HEADER_WORDS + c * ChannelSize(n)
    BY <1>3, <1>5, <1>8, MoreThanBefore
  <2>6. c < NUM_CHANNELS
    BY <1>3, OrderIsNat
  <2>7. InEvent(e, n, c)'
    BY <1>5, <1>8, <2>1, <2>2, <2>4, <2>5, <2>6 DEF InEvent
  <2> QED
    BY <1>1, <1>2, <1>5, <1>8, <2>1, <2>7, TurnKeeps
<1> QED
  BY <1>9, <1>10

LEMMA FontusSwallowKeeps ==
  ASSUME ComesInWords, IInv, WaveInv, FontusSwallow
  PROVE  WaveInv'
<1>1. /\ TakeWord /\ pc = "data" /\ UNCHANGED <<pc, reeling, event_ready>>
      /\ event.wf_header_read /\ ~CERES /\ event.samples_read > EventLength
      /\ UNCHANGED <<event, event_buffer>>
  BY DEF FontusSwallow, TakeWord
<1>2. PICK e, n, c : IsAt(e, n, c) /\ InEvent(e, n, c)
  BY <1>1, InData
<1>3. c = event.current_channel /\ n = EventLength
  BY <1>2 DEF IsAt
<1>4. InEvent(e, n, c)'
  BY <1>1, <1>2, <1>3 DEF InEvent, Stashed
<1>5. event_buffer.num_words \in Nat
  BY DEF IInv, TypeOK
<1> QED
  BY <1>1, <1>2, <1>3, <1>4, <1>5, TurnKeeps
-----------------------------------------------------------------------------
(* The other steps *)

\* Without a header there is nothing to build on.
LEMMA NoHeader ==
  ASSUME event'.header = << >>, event'.current_channel = 0,
         ~event'.wf_header_read, event_buffer'.num_words \in Nat
  PROVE  Building'
BY DataBuilderAssumption DEF Building, HeaderRead, IsAt

\* A step that takes no word, or leaves the loop, keeps what was built.
LEMMA BuildingStays ==
  ASSUME WaveInv, pc /= "exit", UNCHANGED <<wire, event, event_buffer>>,
         pc' = "exit" \/ Taken' = Taken
  PROVE  Building'
<1>1. SUFFICES ASSUME pc' /= "exit"
               PROVE  Building'
  BY DEF Building
<1>2. HeaderRead /\ Taken' = Taken
  BY <1>1 DEF WaveInv, Building
<1>3. \A i : IsLast(i)' <=> IsLast(i)
  BY <1>2 DEF IsLast
<1>4. HeaderRead'
  BY <1>2, <1>3 DEF HeaderRead
<1>5. ASSUME NEW e, NEW n, NEW c, IsAt(e, n, c)'
      PROVE  InEvent(e, n, c)'
  <2>1. InEvent(e, n, c)
    BY <1>5 DEF IsAt, EventLength, WaveInv, Building
  <2>2. \A d, k : Stashed(e, n, d, k) => Stashed(e, n, d, k)'
    BY DEF Stashed
  <2>3. \A d, k : LastEnds(e, d, k) => LastEnds(e, d, k)'
    BY <1>3 DEF LastEnds
  <2>4. \A s : InWaveform(e, n, c, s) => InWaveform(e, n, c, s)'
    BY <2>2, <2>3 DEF InWaveform
  <2>5. SoFar' = SoFar
    BY DEF SoFar
  <2> QED
    BY <2>1, <2>2, <2>3, <2>4, <2>5 DEF InEvent
<1> QED
  BY <1>4, <1>5 DEF Building

\* What is left when nothing is published.
LEMMA WaveStays ==
  ASSUME WaveInv, UNCHANGED <<wire, published>>, (received % 4 = 0)',
         InWords(ring)', MemoryInWords', Building', DataLoop', ReadyIsComplete'
  PROVE  WaveInv'
BY DEF WaveInv, WaveformsAreOneEvent

\* Steps that leave the ring, the event and its buffer alone.
LEMMA QuietKeeps ==
  ASSUME IInv, WaveInv, pc /= "exit",
         UNCHANGED <<wire, received, memory, ring, event, event_buffer,
                     event_header, published>>,
         pc' = "exit" \/ Taken' = Taken, DataLoop',
         \/ event_ready' = event_ready /\ reeling' = reeling
              /\ (pc' = "publish" => pc = "publish")
         \/ ~event_ready'
  PROVE  WaveInv'
<1>1. Building'
  BY BuildingStays
<1>2. (received % 4 = 0)' /\ InWords(ring)' /\ MemoryInWords'
  BY DEF WaveInv, MemoryInWords
<1>3. ReadyIsComplete'
  BY DEF WaveInv, ReadyIsComplete, Complete, Stashed
<1> QED
  BY <1>1, <1>2, <1>3, WaveStays

\* The event that was begun is dropped.
LEMMA DropKeeps ==
  ASSUME IInv, WaveInv, UNCHANGED <<wire, received, memory, published>>,
         event' = StartEvent, event_buffer'.num_words \in Nat,
         InWords(ring)', pc' = "publish", ~event_ready'
  PROVE  WaveInv'
<1>1. Building'
  BY NoHeader DEF StartEvent
<1>2. (received % 4 = 0)' /\ MemoryInWords' /\ DataLoop' /\ ReadyIsComplete'
  BY DEF WaveInv, MemoryInWords, DataLoop, ReadyIsComplete
<1> QED
  BY <1>1, <1>2, WaveStays

LEMMA LoopTopKeeps ==
  ASSUME IInv, WaveInv, OneConnection,
         Exit \/ ManagerStep \/ NothingToPublish \/ HeaderIncomplete \/ Signal
  PROVE  WaveInv'
<1>1. CASE Exit \/ NothingToPublish \/ HeaderIncomplete
  BY <1>1, QuietKeeps
     DEF Exit, NothingToPublish, HeaderIncomplete, socket, reader, control,
         Taken, Position, DataLoop
<1>2. CASE ManagerStep
  <2>1. NoCommand \/ Query
    BY <1>2 DEF ManagerStep, ResetReconnects, ResetGivesUp,
       ResetInterrupted, Answer, OneConnection
  <2> QED
    BY <2>1, QuietKeeps
       DEF NoCommand, Query, Answer, socket, reader, Taken, Position, DataLoop
<1>3. CASE Signal
  <2>1. /\ UNCHANGED <<wire, received, memory, ring, event, event_buffer,
                       event_header, published, event_ready, reeling,
                       bytes_read, limit>>
        /\ pc' \in {"exit", pc} /\ pc /= "exit"
    BY <1>3 DEF Signal, socket, reader
  <2>2. pc' = "exit" \/ Taken' = Taken
    BY <2>1 DEF Taken, Position
  <2>3. DataLoop'
    BY <2>1 DEF DataLoop, WaveInv
  <2> QED
    BY <2>1, <2>2, <2>3, QuietKeeps
<1> QED
  BY <1>1, <1>2, <1>3

LEMMA GoodHeaderKeeps ==
  ASSUME IInv, WaveInv, GoodHeader
  PROVE  WaveInv'
<1>1. /\ UNCHANGED <<wire, received, memory, ring, event, event_buffer,
                     event_header, published, event_ready, reeling>>
      /\ pc = "header" /\ pc' = "data" /\ bytes_read' = 0
      /\ limit' = ContiguousReadable(ring) /\ HeaderIsGood(event.header)
  BY DEF GoodHeader, socket
<1>2. /\ ring \in Ring /\ InOrder(ring) /\ Position \in Int
  BY PositionIsInt DEF IInv, TypeOK, RingFifo
<1>3. Taken' = Taken
  BY <1>1, <1>2 DEF Taken, Position
<1>4. DataLoop'
  <2>1. 0 <= ContiguousReadable(ring)
    BY <1>2, ReadableIsTheRest
  <2> QED
    BY <1>1, <2>1 DEF DataLoop
<1> QED
  BY <1>1, <1>3, <1>4, QuietKeeps

LEMMA DroppedKeeps ==
  ASSUME ComesInWords, IInv, WaveInv, BadHeader \/ ChannelMismatch
  PROVE  WaveInv'
<1>1. CASE BadHeader
  <2>1. InWords(ring)'
    <3>1. ring \in Ring /\ InOrder(ring) /\ InWords(ring)
      BY DEF IInv, TypeOK, RingFifo, WaveInv
    <3>2. 0 \in Nat /\ 0 % 4 = 0
      OBVIOUS
    <3> QED
      BY <1>1, <3>1, <3>2, ReadsInWords DEF BadHeader
  <2>2. event_buffer'.num_words \in Nat
    BY <1>1 DEF BadHeader, IInv, TypeOK
  <2> QED
    BY <1>1, <2>1, <2>2, DropKeeps DEF BadHeader, socket
<1>2. CASE ChannelMismatch
  <2>1. event_buffer'.num_words \in Nat
    BY <1>2 DEF ChannelMismatch, IInv, TypeOK
  <2>2. InWords(ring)'
    BY <1>2 DEF ChannelMismatch, TakeWord, WaveInv
  <2> QED
    BY <1>2, <2>1, <2>2, DropKeeps DEF ChannelMismatch, TakeWord, socket
<1> QED
  BY <1>1, <1>2

LEMMA PullKeeps ==
  ASSUME ComesInWords, IInv, WaveInv, Pull
  PROVE  WaveInv'
<1>1. /\ UNCHANGED <<wire, event, event_buffer, event_header, published,
                     event_ready, reeling>>
      /\ pc = "pull" /\ pc' \in {"find", "header"}
  BY DEF Pull, PullNothing, PullData, AfterPull, socket, reader
<1>2. /\ (received % 4 = 0)' /\ InWords(ring)' /\ MemoryInWords'
      /\ Position' = Position
  BY PullInWords
<1>3. Building'
  BY <1>1, <1>2, BuildingStays DEF Taken
<1>4. DataLoop' /\ ReadyIsComplete'
  BY <1>1 DEF DataLoop, ReadyIsComplete, WaveInv
<1> QED
  BY <1>1, <1>2, <1>3, <1>4, WaveStays

\* A builder that scans is in no event.
LEMMA FindKeeps ==
  ASSUME ComesInWords, IInv, WaveInv, FindEventStart
  PROVE  WaveInv'
<1>1. /\ UNCHANGED <<wire, event, event_buffer, event_header, published,
                     event_ready>>
      /\ pc = "find" /\ pc' = "publish"
  BY DEF FindEventStart, FindNothing, FindFails, FindSucceeds, socket, reader
<1>2. reeling /\ event.header = << >>
  BY <1>1 DEF IInv, HeaderLag
<1>3. ~event_ready'
  BY <1>1, <1>2 DEF WaveInv, ReadyIsComplete
<1>4. Building'
  <2>1. HeaderRead /\ Len(event.header) = 0 /\ 0 < HEADER_WORDS
    BY <1>1, <1>2, DataBuilderAssumption DEF WaveInv, Building
  <2>2. event.current_channel = 0 /\ ~event.wf_header_read
    BY <2>1 DEF HeaderRead
  <2>3. event_buffer.num_words \in Nat
    BY DEF IInv, TypeOK
  <2> QED
    BY <1>1, <1>2, <2>2, <2>3, NoHeader
<1>5. DataLoop' /\ ReadyIsComplete'
  BY <1>1, <1>3 DEF DataLoop, ReadyIsComplete
<1> QED
  BY <1>1, <1>4, <1>5, FindInWords, WaveStays
LEMMA PopKeeps ==
  ASSUME ComesInWords, IInv, WaveInv, PopHeaderWord
  PROVE  WaveInv'
<1>1. /\ ring \in Ring /\ InOrder(ring) /\ InWords(ring) /\ MemoryInWords
      /\ received % 4 = 0 /\ wire \in Seq(Word)
      /\ event \in [header : Seq(Word), current_channel : 0 .. NUM_CHANNELS,
                    wf_header_read : BOOLEAN, samples_read : Nat]
      /\ event_buffer \in [num_words : Nat,
                           data : [0 .. EVENT_BUFFER_WORDS - 1 -> Tags]]
  BY DEF IInv, TypeOK, RingFifo, WaveInv
<1>2. /\ pc = "header" /\ pc' = pc /\ Len(event.header) < HEADER_WORDS
      /\ Readable(ring) >= 4 /\ ring' = UpdateReadPointer(ring, 4)
      /\ UNCHANGED <<wire, received, memory, published, event_ready, reeling,
                     event_header>>
  BY DEF PopHeaderWord, socket
<1>3. ContiguousReadable(ring) \in Nat /\ ContiguousReadable(ring) >= 4
  <2>1. ContiguousReadable(ring) \in Nat /\ Readable(ring) \in Nat
        /\ (ContiguousReadable(ring) < 4
              => Readable(ring) = ContiguousReadable(ring))
    BY <1>1, ReadableInWords, ReadableIsTheRest, PositionIsInt DEF IInv
  <2> QED
    BY <1>2, <2>1
<1>4. Position \in Int /\ Position' = Position + 4
  BY PopMoves, PositionIsInt DEF IInv
<1>5. PICK i \in 1 .. Len(wire) :
        4 * i = Position + 4 /\ WordAt(ring.read_pointer) = wire[i]
  <2>1. /\ 0 \in Nat /\ 0 % 4 = 0 /\ 0 + 4 <= ContiguousReadable(ring)
        /\ ring.read_pointer + 0 = ring.read_pointer
        /\ Position + 0 + 4 = Position + 4
    BY <1>1, <1>3, <1>4, BufferSizeAssumption DEF Ring, Index
  <2>2. PICK i \in 1 .. Len(wire) :
          /\ 4 * i = Position + 0 + 4
          /\ WordAt(ring.read_pointer + 0) = wire[i]
    BY <1>1, <2>1, WordRead
  <2> QED
    BY <2>1, <2>2
<1>6. /\ event' = [event EXCEPT !.header = Append(@, wire[i])]
      /\ event_buffer'.num_words = event_buffer.num_words + 1
  BY <1>1, <1>3, <1>5 DEF PopHeaderWord
<1>7. /\ event'.header = Append(event.header, wire[i])
      /\ event'.current_channel = 0 /\ ~event'.wf_header_read
  BY <1>1, <1>2, <1>6 DEF WaveInv, Building, HeaderRead
<1>8. /\ event'.header \in Seq(Word) /\ Len(event'.header) = Len(event.header) + 1
      /\ event'.header[Len(event'.header)] = wire[i]
      /\ \A k \in 1 .. Len(event.header) : event'.header[k] = event.header[k]
      /\ Len(event.header) \in Nat /\ event_buffer.num_words \in Nat
  BY <1>1, <1>7
<1>9. IsLast(i)'
  BY <1>2, <1>4, <1>5 DEF IsLast, Taken
<1>10. HeaderRead'
  <2>1. Len(event'.header) <= event_buffer'.num_words
    BY <1>2, <1>6, <1>8 DEF WaveInv, Building, HeaderRead
  <2>2. ASSUME NEW k \in 1 .. Len(event'.header)
        PROVE  \E j \in 1 .. Len(wire') : wire'[j] = event'.header[k]
    <3>1. CASE k = Len(event'.header)
      BY <1>2, <1>8, <3>1
    <3>2. CASE k /= Len(event'.header)
      <4>1. k \in 1 .. Len(event.header)
        BY <1>8, <2>2, <3>2
      <4> QED
        BY <1>2, <1>8, <4>1 DEF WaveInv, Building, HeaderRead
    <3> QED
      BY <3>1, <3>2
  <2>3. \E j : IsLast(j)' /\ wire'[j] = event'.header[Len(event'.header)]
    BY <1>2, <1>8, <1>9
  <2> QED
    BY <1>7, <2>1, <2>2, <2>3 DEF HeaderRead
<1>11. Building'
  <2>1. SUFFICES ASSUME NEW e, NEW n, NEW c, IsAt(e, n, c)'
                 PROVE  InEvent(e, n, c)'
    BY <1>10 DEF Building
  <2>2. c = 0 /\ Len(event'.header) = HEADER_WORDS /\ n = event'.header[1].length
    BY <1>7, <2>1 DEF IsAt, EventLength
  <2>3. n \in Nat
    <3>1. event'.header[1] \in Word
      BY <1>8, <2>2, DataBuilderAssumption
    <3> QED
      BY <2>2, <3>1 DEF Word
  <2>4. event_buffer'.num_words >= HEADER_WORDS
    BY <1>6, <1>8, <1>10, <2>2 DEF HeaderRead
  <2>5. HEADER_WORDS + c * ChannelSize(n) = HEADER_WORDS
    <3>1. ChannelSize(n) \in Nat /\ HEADER_WORDS \in Nat
      BY <2>3, SizeIsNat, DataBuilderAssumption
    <3>2. 0 * ChannelSize(n) = 0
      BY <3>1
    <3> QED
      BY <2>2, <3>1, <3>2
  <2>6. \A d \in Channel : ~(d < c)
    BY <2>2, OrderIsNat
  <2> QED
    BY <1>7, <2>2, <2>4, <2>5, <2>6 DEF InEvent
<1>12. InWords(ring)'
  <2>1. 4 \in Nat /\ 4 % 4 = 0
    OBVIOUS
  <2> QED
    BY <1>1, <1>2, <2>1, ReadsInWords
<1>13. (received % 4 = 0)' /\ MemoryInWords' /\ DataLoop' /\ ReadyIsComplete'
  BY <1>1, <1>2 DEF MemoryInWords, DataLoop, ReadyIsComplete, WaveInv
<1> QED
  BY <1>2, <1>11, <1>12, <1>13, WaveStays

LEMMA EndOfDataKeeps ==
  ASSUME ComesInWords, IInv, WaveInv, EndOfData
  PROVE  WaveInv'
<1>1. /\ UNCHANGED <<wire, event_buffer, published, reeling>>
      /\ pc = "data" /\ pc' = "publish" /\ event_ready' = EventComplete
  BY DEF EndOfData, socket
<1>2. /\ (received % 4 = 0)' /\ InWords(ring)' /\ MemoryInWords'
      /\ ~EventComplete => Position' = Position + bytes_read
  BY EndOfDataMoves
<1>3. DataLoop' /\ ~reeling
  BY <1>1 DEF DataLoop, IInv, HeaderLag
<1>4. CASE EventComplete
  <2>1. PICK e, n, c : IsAt(e, n, c) /\ InEvent(e, n, c)
    BY <1>1, InData
  <2>2. e \in Nat /\ n \in Nat /\ EventFits(n)
    BY <1>1, <2>1, GoodEvent
  <2>3. c = NUM_CHANNELS
    BY <1>4, <2>1 DEF EventComplete, IsAt
  <2>4. Complete(e, n)
    BY <2>1, <2>2, <2>3, OrderIsNat DEF Complete, InEvent
  <2>5. /\ event_header'.trig_number = e /\ event_header'.length = n
        /\ event' = StartEvent
    BY <1>4, <2>1 DEF EndOfData, IsAt
  <2>6. Complete(e, n)'
    BY <1>1, <2>4 DEF Complete, Stashed
  <2>7. ReadyIsComplete'
    BY <1>1, <1>3, <2>5, <2>6 DEF ReadyIsComplete, StartEvent
  <2>8. Building'
    <3>1. event_buffer'.num_words \in Nat
      BY <1>1 DEF IInv, TypeOK
    <3> QED
      BY <2>5, <3>1, NoHeader DEF StartEvent
  <2> QED
    BY <1>1, <1>2, <1>3, <2>7, <2>8, WaveStays
<1>5. CASE ~EventComplete
  <2>1. event' = event /\ ~event_ready'
    BY <1>1, <1>5 DEF EndOfData
  <2>2. Taken' = Taken
    BY <1>1, <1>2, <1>5 DEF Taken
  <2>3. Building'
    BY <1>1, <2>1, <2>2, BuildingStays
  <2>4. ReadyIsComplete'
    BY <2>1 DEF ReadyIsComplete
  <2> QED
    BY <1>1, <1>2, <1>3, <2>3, <2>4, WaveStays
<1> QED
  BY <1>4, <1>5

-----------------------------------------------------------------------------
(* What is published *)

LEMMA DivMod ==
  ASSUME NEW p \in Nat, NEW s \in Nat, s > 0
  PROVE  /\ p \div s \in Nat /\ p % s \in Nat /\ p % s < s
         /\ p = (p \div s) * s + (p % s)
BY SMTT(30)

\* Every place is some channel's.
LEMMA EveryPlaceIsTaken ==
  ASSUME NEW q \in Channel
  PROVE  \E c \in Channel : CHANNEL_ORDER[c] = q
<1>1. CHANNEL_ORDER \in Injection(Channel, Channel)
  BY DataBuilderAssumption DEF Injection, IsInjective
<1>2. IsFiniteSet(Channel)
  BY DataBuilderAssumption, FS_Interval DEF Channel
<1>3. CHANNEL_ORDER \in Surjection(Channel, Channel)
  BY <1>1, <1>2, FS_Injection
<1> QED
  BY <1>3 DEF Surjection

\* Behind the header every word of the event built is some channel's.
LEMMA LayoutAt ==
  ASSUME NEW e, NEW n \in Nat, NEW s \in DOMAIN Layout(e, n), s > HEADER_WORDS
  PROVE  /\ s \in Nat /\ s <= HEADER_WORDS + NUM_CHANNELS * ChannelSize(n)
         /\ \E c \in Channel, i \in Nat :
              /\ i < ChannelSize(n) /\ s - 1 = Slot(c, i, n)
              /\ Layout(e, n)[s] = [event |-> e, part |-> "waveform",
                                    channel |-> c, sample |-> i]
<1> DEFINE size == ChannelSize(n)
           place == s - HEADER_WORDS - 1
           q == place \div size
           i == place % size
<1>1. /\ size \in Nat /\ size > 0 /\ size = n + ChannelOverhead
      /\ HEADER_WORDS \in Nat /\ NUM_CHANNELS \in Nat
  <2>1. size \in Nat /\ size \in {n + 1, n + 2}
    BY SizeIsNat
  <2> QED
    BY <2>1, DataBuilderAssumption DEF ChannelSize
<1>2. s \in 1 .. HEADER_WORDS + NUM_CHANNELS * size
  BY DEF Layout, ChannelSize
<1>3. s \in Nat /\ s <= HEADER_WORDS + NUM_CHANNELS * size
  BY <1>2
<1>4. Layout(e, n)[s] =
        [event |-> e, part |-> "waveform",
         channel |-> CHOOSE c \in Channel : CHANNEL_ORDER[c] = q,
         sample |-> i]
  BY <1>1, <1>2, ~(s <= HEADER_WORDS) DEF Layout, ChannelSize
<1>5. PICK m \in Nat : m = NUM_CHANNELS * size
  <2>1. \A x, y \in Nat : x * y \in Nat
    OBVIOUS
  <2> QED
    BY <1>1, <2>1
<1>6. place \in Nat /\ place < m /\ s - 1 = HEADER_WORDS + place
  BY <1>1, <1>3, <1>5
<1> HIDE DEF size, place
<1>7. q \in Nat /\ i \in Nat /\ i < size /\ place = q * size + i
  BY <1>1, <1>6, DivMod
<1> HIDE DEF q, i
<1>8. q < NUM_CHANNELS
  <2>1. SUFFICES ASSUME NUM_CHANNELS <= q
                 PROVE  FALSE
    BY <1>1, <1>7
  <2>2. PICK k \in Nat : q = NUM_CHANNELS + k
    <3>1. q - NUM_CHANNELS \in Nat /\ q = NUM_CHANNELS + (q - NUM_CHANNELS)
      BY <1>1, <1>7, <2>1
    <3> QED
      BY <3>1
  <2>3. q * size = m + k * size /\ k * size \in Nat
    BY <1>1, <1>5, <2>2, SMTT(30)
  <2> QED
    BY <1>5, <1>6, <1>7, <2>3
<1>9. PICK c \in Channel : c = CHOOSE d \in Channel : CHANNEL_ORDER[d] = q
  <2>1. q \in Channel
    BY <1>1, <1>7, <1>8 DEF Channel
  <2> QED
    BY <2>1, EveryPlaceIsTaken
<1>10. CHANNEL_ORDER[c] = q
  <2>1. q \in Channel
    BY <1>1, <1>7, <1>8 DEF Channel
  <2> QED
    BY <1>9, <2>1, EveryPlaceIsTaken
<1>11. s - 1 = Slot(c, i, n)
  <2>1. Slot(c, i, n) = HEADER_WORDS + q * size + i
    BY <1>1, <1>10 DEF Slot
  <2>2. q * size \in Nat
    BY <1>1, <1>7, SMTT(30)
  <2> QED
    BY <1>1, <1>6, <1>7, <2>1, <2>2
<1> QED
  BY <1>3, <1>4, <1>7, <1>9, <1>11 DEF size

LEMMA PublishKeeps ==
  ASSUME IInv, WaveInv, PublishEvent
  PROVE  WaveInv'
<1> DEFINE p == [trig_number |-> event_header.trig_number,
                 length |-> event_header.length,
                 data |-> [s \in 1 .. event_buffer.num_words |->
                             IF s <= EVENT_BUFFER_WORDS
                             THEN event_buffer.data[s - 1]
                             ELSE Tag(Garbage, 0)]]
           e == event_header.trig_number
           n == event_header.length
<1>1. /\ pc = "publish" /\ event_ready /\ pc' = "command"
      /\ published' = Append(published, p)
      /\ event_buffer' = BufferCleared
      /\ UNCHANGED <<wire, received, memory, ring, event, event_ready, reeling>>
  BY DEF PublishEvent, socket
<1>2. /\ Complete(e, n) /\ e \in Nat /\ n \in Nat /\ event.header = << >>
      /\ event_buffer.num_words \in Nat
      /\ published \in Seq([trig_number : Nat, length : Nat, data : Seq(Tags)])
  BY <1>1 DEF IInv, TypeOK, WaveInv, ReadyIsComplete
<1>3. ASSUME NEW s \in DOMAIN Layout(e, n), s > HEADER_WORDS
      PROVE  s \in DOMAIN p.data /\ p.data[s] = Layout(e, n)[s]
  <2>1. s \in Nat /\ s <= HEADER_WORDS + NUM_CHANNELS * ChannelSize(n)
    BY <1>2, <1>3, LayoutAt
  <2>2. PICK c \in Channel, i \in Nat :
          /\ i < ChannelSize(n) /\ s - 1 = Slot(c, i, n)
          /\ Layout(e, n)[s] = [event |-> e, part |-> "waveform",
                                channel |-> c, sample |-> i]
    BY <1>2, <1>3, LayoutAt
  <2>3. event_buffer.data[s - 1] = Layout(e, n)[s]
    <3>1. Stashed(e, n, c, ChannelSize(n)) /\ ChannelSize(n) \in Nat
      BY <1>2, SizeIsNat DEF Complete
    <3>2. i \in 0 .. ChannelSize(n) - 1
      BY <2>2, <3>1
    <3> QED
      BY <2>2, <3>1, <3>2 DEF Stashed
  <2>4. s \in 1 .. event_buffer.num_words /\ s <= EVENT_BUFFER_WORDS
    <3>1. PICK m \in Nat : m = NUM_CHANNELS * ChannelSize(n)
      <4>1. ChannelSize(n) \in Nat /\ NUM_CHANNELS \in Nat
        BY <1>2, SizeIsNat, DataBuilderAssumption
      <4>2. \A x, y \in Nat : x * y \in Nat
        OBVIOUS
      <4> QED
        BY <4>1, <4>2
    <3>2. /\ HEADER_WORDS + m <= EVENT_BUFFER_WORDS
          /\ event_buffer.num_words >= HEADER_WORDS + m
          /\ s <= HEADER_WORDS + m
      BY <1>2, <2>1, <3>1 DEF Complete, EventFits
    <3>3. HEADER_WORDS \in Nat /\ EVENT_BUFFER_WORDS \in Nat
      BY DataBuilderAssumption
    <3> QED
      BY <1>2, <1>3, <2>1, <3>1, <3>2, <3>3
  <2> QED
    BY <2>3, <2>4
<1>4. WaveformsAreOneEvent'
  <2>1. SUFFICES ASSUME NEW j \in DOMAIN published',
                        NEW s \in DOMAIN Layout(published'[j].trig_number,
                                                published'[j].length),
                        s > HEADER_WORDS
                 PROVE  /\ s \in DOMAIN published'[j].data
                        /\ published'[j].data[s] =
                             Layout(published'[j].trig_number,
                                    published'[j].length)[s]
    BY DEF WaveformsAreOneEvent
  <2>2. p.trig_number = e /\ p.length = n
    OBVIOUS
  <2> HIDE DEF p
  <2>3. CASE j = Len(published) + 1
    <3>1. published'[j] = p
      BY <1>1, <1>2, <2>3
    <3> QED
      BY <1>3, <2>1, <2>2, <3>1
  <2>4. CASE j /= Len(published) + 1
    <3>1. j \in DOMAIN published /\ published'[j] = published[j]
      BY <1>1, <1>2, <2>1, <2>4
    <3> QED
      BY <2>1, <3>1 DEF WaveInv, WaveformsAreOneEvent
  <2> QED
    BY <2>3, <2>4
<1>5. Building'
  <2>1. HeaderRead /\ Len(event.header) = 0 /\ 0 < HEADER_WORDS
    BY <1>1, <1>2, DataBuilderAssumption DEF WaveInv, Building
  <2>2. event.current_channel = 0 /\ ~event.wf_header_read
    BY <2>1 DEF HeaderRead
  <2>3. event_buffer'.num_words \in Nat
    BY <1>1 DEF BufferCleared, IInv, TypeOK
  <2> QED
    BY <1>1, <1>2, <2>2, <2>3, NoHeader
<1>6. /\ WellSent(wire)' /\ (received % 4 = 0)' /\ InWords(ring)'
      /\ MemoryInWords' /\ DataLoop' /\ ReadyIsComplete'
  BY <1>1 DEF WaveInv, MemoryInWords, DataLoop, ReadyIsComplete
<1> QED
  BY <1>4, <1>5, <1>6 DEF WaveInv

-----------------------------------------------------------------------------
(* The whole builder *)

LEMMA WaveInit ==
  ASSUME WiresAreWellSent, Init
  PROVE  WaveInv
<1>1. WellSent(wire) /\ received % 4 = 0
  BY DEF Init, WiresAreWellSent
<1>2. InWords(ring) /\ MemoryInWords
  BY DEF Init, InWords, EmptyRing, MemoryInWords
<1>3. Building
  BY DataBuilderAssumption
     DEF Init, Building, HeaderRead, IsAt, StartEvent
<1>4. DataLoop /\ ReadyIsComplete /\ WaveformsAreOneEvent
  BY DEF Init, DataLoop, ReadyIsComplete, WaveformsAreOneEvent
<1> QED
  BY <1>1, <1>2, <1>3, <1>4 DEF WaveInv

LEMMA WaveStep ==
  ASSUME ComesInWords, OneConnection, IInv, WaveInv, [Next]_vars
  PROVE  WaveInv'
<1>1. CASE UNCHANGED vars
  <2>1. UNCHANGED <<wire, received, memory, ring, event, event_buffer,
                    event_header, published, pc, limit, bytes_read,
                    reeling, event_ready>>
    BY <1>1 DEF vars, socket, reader
  <2>2. Taken' = Taken /\ DataLoop'
    BY <2>1 DEF Taken, Position, DataLoop, WaveInv
  <2>3. CASE pc = "exit"
    BY <2>1, <2>2, <2>3
       DEF WaveInv, MemoryInWords, Building, ReadyIsComplete,
           WaveformsAreOneEvent
  <2>4. CASE pc /= "exit"
    BY <2>1, <2>2, <2>4, QuietKeeps
  <2> QED
    BY <2>3, <2>4
<1>2. CASE ReadHeader
  BY <1>2, PopKeeps, LoopTopKeeps, DroppedKeeps, GoodHeaderKeeps
     DEF ReadHeader
<1>3. CASE ReadData
  BY <1>3, ChannelHeaderKeeps, DroppedKeeps, CeresSamplesKeep, CeresCrcKeeps,
     FontusSampleKeeps, FontusSwallowKeeps, EndOfDataKeeps DEF ReadData
<1>4. CASE Publish
  BY <1>4, PublishKeeps, LoopTopKeeps DEF Publish
<1> QED
  BY <1>1, <1>2, <1>3, <1>4, LoopTopKeeps, PullKeeps, FindKeeps DEF Next

(* What a builder publishes for a trigger is that trigger's waveforms,     *)
(* each word in its channel's place, for every board, ring and event       *)
(* buffer, whatever headers are damaged, words are lost or put in between  *)
(* waveforms and starts are found by scanning, if the bytes come in whole  *)
(* words over one connection (ceres_read_proc and fontus_read_proc take a  *)
(* word when three bytes are left, and reset_connection leaves the event   *)
(* in progress).                                                           *)
THEOREM WaveformsStayTogether ==
  ASSUME ComesInWords, OneConnection, WiresAreWellSent
  PROVE  Spec => []WaveformsAreOneEvent
<1>1. Init => WaveInv
  BY WaveInit
<1>2. IInv /\ WaveInv /\ [Next]_vars => WaveInv'
  BY WaveStep
<1>3. WaveInv => WaveformsAreOneEvent
  BY DEF WaveInv
<1> QED
  BY <1>1, <1>2, <1>3, Invariant, PTL DEF Spec

=============================================================================
