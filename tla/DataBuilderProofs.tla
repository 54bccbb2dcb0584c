-------------------------- MODULE DataBuilderProofs --------------------------
(***************************************************************************)
(* Proofs about DataBuilder for every size of the ring, every board, every *)
(* wire and every way TCP cuts it.  The inductive invariant is IInv.       *)
(***************************************************************************)
EXTENDS DataBuilder, SequenceTheorems, TLAPS

-----------------------------------------------------------------------------
(* The ring: what its operators do to the bytes it keeps.  All arithmetic  *)
(* is linear: Wrap and Span are written with a comparison, not with a      *)
(* remainder.                                                              *)


(* The ring starts out empty and in order. *)
LEMMA EmptyRingOK ==
  /\ EmptyRing \in Ring
  /\ InOrder(EmptyRing)
  /\ Kept(EmptyRing) = 0
  /\ Looked(EmptyRing) = 0
BY BufferSizeAssumption
   DEF EmptyRing, Ring, Index, InOrder, Kept, Looked, Span

(* Asking for the space never moves a pointer of a ring that is in order:  *)
(* an empty one is already at 0.                                           *)
LEMMA RewindMovesNothing ==
  ASSUME NEW r \in Ring, InOrder(r)
  PROVE  Rewind(r) = r
BY DEF Rewind, InOrder

(* The bytes kept and looked at are numbers of bytes of the ring. *)
LEMMA KeptInRing ==
  ASSUME NEW r \in Ring, InOrder(r)
  PROVE  /\ Kept(r) \in 0 .. BUFFER_SIZE
         /\ Looked(r) \in 0 .. BUFFER_SIZE - 1
BY BufferSizeAssumption DEF Ring, Index, InOrder, Kept, Looked, Span, EmptyRing

(* ring_buffer_readable is right, whatever the pointers: what may be read  *)
(* is what is kept and has not been looked at.                             *)
LEMMA ReadableIsTheRest ==
  ASSUME NEW r \in Ring, InOrder(r)
  PROVE  /\ Readable(r) = Kept(r) - Looked(r)
         /\ ContiguousReadable(r) \in 0 .. Readable(r)
         /\ r.read_pointer + ContiguousReadable(r) <= BUFFER_SIZE
BY BufferSizeAssumption
   DEF Ring, Index, InOrder, Kept, Looked, Span, EmptyRing, Readable,
       ContiguousReadable, IsFull

(* ring_buffer_contiguous_space_available never offers a byte that is kept *)
(* and never runs over the end of the memory.                              *)
LEMMA SpaceIsFree ==
  ASSUME NEW r \in Ring, InOrder(r)
  PROVE  /\ ContiguousSpaceAvailable(r) \in 0 .. BUFFER_SIZE - Kept(r)
         /\ r.write_pointer + ContiguousSpaceAvailable(r) <= BUFFER_SIZE
         /\ Kept(r) < BUFFER_SIZE =>
              r.write_pointer = Wrap(r.event_read_pointer, Kept(r))
<1>1. CASE r.is_empty
  BY <1>1, BufferSizeAssumption
     DEF InOrder, Kept, EmptyRing, ContiguousSpaceAvailable, Wrap
<1>2. CASE ~r.is_empty
  <2>1. /\ ContiguousSpaceAvailable(r) \in Int
        /\ ContiguousSpaceAvailable(r) >= 0
        /\ ContiguousSpaceAvailable(r) <= BUFFER_SIZE - Kept(r)
        /\ r.write_pointer + ContiguousSpaceAvailable(r) <= BUFFER_SIZE
    BY <1>2, BufferSizeAssumption
       DEF Ring, Index, Kept, Span, ContiguousSpaceAvailable
  <2>2. Kept(r) < BUFFER_SIZE =>
          r.write_pointer = Wrap(r.event_read_pointer, Kept(r))
    BY <1>2, BufferSizeAssumption DEF Ring, Index, Kept, Span, Wrap
  <2> QED
    BY <2>1, <2>2, KeptInRing, BufferSizeAssumption
<1> QED
  BY <1>1, <1>2

(* Storing n bytes that fit adds n to the bytes kept and nothing else. *)
LEMMA WriteAdds ==
  ASSUME NEW r \in Ring, InOrder(r),
         NEW n \in 1 .. ContiguousSpaceAvailable(r)
  PROVE  LET w == UpdateWritePointer(r, n)
         IN  /\ w \in Ring
             /\ InOrder(w)
             /\ Kept(w) = Kept(r) + n
             /\ Looked(w) = Looked(r)
             /\ w.event_read_pointer = r.event_read_pointer
<1>1. Rewind(r) = r
  BY RewindMovesNothing
<1>2. n \in Nat /\ n > 0 /\ n <= ContiguousSpaceAvailable(r)
  BY SpaceIsFree, KeptInRing, BufferSizeAssumption
<1>3. UpdateWritePointer(r, n)
        = [r EXCEPT !.write_pointer = AtEnd(r.write_pointer + n),
                    !.is_empty = FALSE]
  BY <1>1, <1>2 DEF UpdateWritePointer
<1> DEFINE x == AtEnd(r.write_pointer + n)
           w == [r EXCEPT !.write_pointer = x, !.is_empty = FALSE]
<1>4. x \in Index
  BY <1>2, SpaceIsFree, BufferSizeAssumption DEF Ring, Index, AtEnd
<1>5. /\ w \in Ring
      /\ w.event_read_pointer = r.event_read_pointer
      /\ w.read_pointer = r.read_pointer
      /\ w.write_pointer = x
      /\ ~w.is_empty
  <2> HIDE DEF x
  <2> QED
    BY <1>4 DEF Ring
<1>6. Looked(w) = Looked(r)
  BY <1>5 DEF Looked
<1>7. Kept(w) = Kept(r) + n
  <2> HIDE DEF w
  <2>1. CASE r.is_empty
    <3>1. /\ r.event_read_pointer = 0 /\ r.write_pointer = 0
          /\ n <= BUFFER_SIZE
      BY <1>2, <2>1 DEF InOrder, EmptyRing, ContiguousSpaceAvailable
    <3> QED
      BY <1>2, <1>5, <2>1, <3>1, BufferSizeAssumption DEF Kept, Span, AtEnd
  <2>2. CASE ~r.is_empty
    BY <1>2, <1>5, <2>2, BufferSizeAssumption
       DEF Ring, Index, Kept, Span, ContiguousSpaceAvailable, AtEnd
  <2> QED
    BY <2>1, <2>2
<1>8. InOrder(w)
  BY <1>2, <1>5, <1>6, <1>7, KeptInRing, BufferSizeAssumption DEF InOrder
<1> QED
  BY <1>3, <1>5, <1>6, <1>7, <1>8

(* Reading keeps every byte.  It looks at n more of them, or appears to    *)
(* have looked at none when it came round a full ring to where it began.   *)
LEMMA ReadKeeps ==
  ASSUME NEW r \in Ring, InOrder(r), NEW n \in Nat
  PROVE  LET q == UpdateReadPointer(r, n)
         IN  /\ q \in Ring
             /\ InOrder(q)
             /\ Kept(q) = Kept(r)
             /\ q.event_read_pointer = r.event_read_pointer
             /\ q.write_pointer = r.write_pointer
             /\ n <= Readable(r) /\ Looked(r) + n < BUFFER_SIZE =>
                  Looked(q) = Looked(r) + n
<1>1. CASE n = 0 \/ ReadTooFar(r, n)
  BY <1>1, BufferSizeAssumption, ReadableIsTheRest, KeptInRing
     DEF UpdateReadPointer, ReadTooFar, Ring, Index, Looked, Span
<1>2. CASE n > 0 /\ n <= Readable(r)
  <2>1. ~r.is_empty
    BY <1>2 DEF Readable
  <2>2. PICK p \in Nat :
          /\ p = IF n <= ContiguousReadable(r) THEN r.read_pointer + n
                 ELSE n - (BUFFER_SIZE - r.read_pointer)
          /\ p <= BUFFER_SIZE
          /\ UpdateReadPointer(r, n) = [r EXCEPT !.read_pointer = AtEnd(p)]
    BY <1>2, BufferSizeAssumption
       DEF UpdateReadPointer, ReadTooFar, Readable, ContiguousReadable,
           IsFull, Ring, Index
  <2> QED
    BY <1>2, <2>1, <2>2, BufferSizeAssumption
       DEF Readable, ContiguousReadable, IsFull, Ring, Index, InOrder, Kept,
           Looked, Span, EmptyRing, AtEnd
<1> QED
  BY <1>1, <1>2, ReadableIsTheRest, KeptInRing DEF ReadTooFar

(* Moving the event read pointer frees exactly the bytes looked at, or     *)
(* every byte when the read pointer has met the write pointer.             *)
LEMMA EventReadFrees ==
  ASSUME NEW r \in Ring, InOrder(r)
  PROVE  LET q == UpdateEventReadPointer(r)
         IN  /\ q \in Ring
             /\ InOrder(q)
             /\ Looked(q) = 0
             /\ \/ Kept(q) = 0
                \/ /\ Kept(q) = Kept(r) - Looked(r)
                   /\ q.event_read_pointer
                        = Wrap(r.event_read_pointer, Looked(r))
<1>1. CASE r.read_pointer = r.write_pointer
  BY <1>1, EmptyRingOK DEF UpdateEventReadPointer
<1>2. CASE r.read_pointer /= r.write_pointer
  <2>1. ~r.is_empty
    BY <1>2 DEF InOrder, EmptyRing
  <2> QED
    BY <1>2, <2>1, BufferSizeAssumption
       DEF UpdateEventReadPointer, Ring, Index, InOrder, Kept, Looked, Span,
           EmptyRing, Wrap
<1> QED
  BY <1>1, <1>2

(* Walking on round the ring: two walks make one. *)
LEMMA WrapWrap ==
  ASSUME NEW p \in Index, NEW j \in 0 .. BUFFER_SIZE,
         NEW k \in 0 .. BUFFER_SIZE, j + k <= BUFFER_SIZE
  PROVE  Wrap(Wrap(p, j), k) = Wrap(p, j + k)
BY BufferSizeAssumption DEF Wrap, Index

-----------------------------------------------------------------------------

IInv == TypeOK /\ RingFifo /\ HeaderLag

-----------------------------------------------------------------------------
(* Words and tags *)

(* Whatever four bytes the ring holds, they read as a word. *)
LEMMA WordsAreWords ==
  ASSUME TypeOK, NEW o
  PROVE  WordAround(o) \in Word /\ WordAt(o) \in Word
<1>1. Garbage \in Word
  BY DEF Garbage, Word
<1>2. \A i \in 1 .. Len(wire) : wire[i] \in Word
  BY DEF TypeOK
<1> QED
  BY <1>1, <1>2 DEF WordAround, WordAt

LEMMA TagsAreTags ==
  ASSUME NEW w \in Word, NEW j \in Nat
  PROVE  Tag(w, j) \in Tags
BY DEF Word, Tag, Tags

(* A place in the event buffer is a number for every channel of an event   *)
(* whose header was read.                                                  *)
LEMMA SlotsAreNumbers ==
  ASSUME TypeOK, pc = "data", ~EventComplete, NEW i \in Nat
  PROVE  /\ EventLength \in Nat
         /\ Slot(event.current_channel, i, EventLength) \in Nat
<1>1. event.header[1] \in Word
  BY DataBuilderAssumption DEF TypeOK
<1>2. EventLength \in Nat
  BY <1>1 DEF EventLength, Word
<1>3. event.current_channel \in Channel
  BY DataBuilderAssumption, SMTT(30) DEF TypeOK, EventComplete, Channel
<1>4. CHANNEL_ORDER[event.current_channel] \in Nat
  BY <1>3, DataBuilderAssumption DEF Channel
<1>5. EventLength + ChannelOverhead \in Nat
  BY <1>2 DEF ChannelOverhead
<1>6. \A a, b \in Nat : a * b \in Nat
  OBVIOUS
<1>7. CHANNEL_ORDER[event.current_channel] * (EventLength + ChannelOverhead)
        \in Nat
  BY <1>4, <1>5, <1>6
<1> QED
  BY <1>2, <1>7, DataBuilderAssumption DEF Slot

(* Stashing keeps the event buffer an event buffer. *)
LEMMA StashType ==
  ASSUME TypeOK, NEW w \in Word, NEW first \in Nat, Stash(first, w)
  PROVE  event_buffer' \in [num_words : Nat,
                            data : [0 .. EVENT_BUFFER_WORDS - 1 -> Tags]]
<1> DEFINE data == [s \in DOMAIN event_buffer.data |->
                      IF s \in first .. first + w.width - 1
                      THEN Tag(w, s - first)
                      ELSE event_buffer.data[s]]
<1>1. w.width \in Nat
  BY DEF Word
<1>2. data \in [0 .. EVENT_BUFFER_WORDS - 1 -> Tags]
  <2>1. DOMAIN event_buffer.data = 0 .. EVENT_BUFFER_WORDS - 1
    BY DEF TypeOK
  <2>2. ASSUME NEW s \in 0 .. EVENT_BUFFER_WORDS - 1
        PROVE  (IF s \in first .. first + w.width - 1
                THEN Tag(w, s - first)
                ELSE event_buffer.data[s]) \in Tags
    <3>1. CASE s \in first .. first + w.width - 1
      BY <1>1, <3>1, TagsAreTags, DataBuilderAssumption
    <3>2. CASE s \notin first .. first + w.width - 1
      BY <3>2 DEF TypeOK
    <3> QED
      BY <3>1, <3>2
  <2> QED
    BY <2>1, <2>2
<1>3. event_buffer' = [num_words |-> event_buffer.num_words + w.width,
                       data |-> data]
  BY DEF Stash
<1> QED
  BY <1>1, <1>2, <1>3, SMTT(30) DEF TypeOK

-----------------------------------------------------------------------------
(* What one step does to the ring *)

(* A step that moves no byte in: it may read on from where it is, and it   *)
(* may free what it has read.                                              *)
ReadsOnly ==
  /\ UNCHANGED <<memory, received>>
  /\ \E q \in Ring :
       /\ InOrder(q)
       /\ Kept(q) = Kept(ring)
       /\ q.event_read_pointer = ring.event_read_pointer
       /\ ring' = q \/ ring' = UpdateEventReadPointer(q)

LEMMA SkippedReads ==
  ASSUME TypeOK, RingFifo
  PROVE  /\ Skipped \in Ring
         /\ InOrder(Skipped)
         /\ Kept(Skipped) = Kept(ring)
         /\ Skipped.event_read_pointer = ring.event_read_pointer
         /\ ScanLength \in Nat
<1>1. ring \in Ring /\ InOrder(ring)
  BY DEF TypeOK, RingFifo
<1>2. ContiguousReadable(ring) \in Nat /\ Readable(ring) \in Nat
      /\ ContiguousReadable(ring) <= Readable(ring)
  BY <1>1, ReadableIsTheRest, KeptInRing, BufferSizeAssumption DEF InOrder
<1>3. ScanLength \in Nat
  BY <1>2 DEF ScanLength
<1>4. CASE ContiguousReadable(ring) < 4
  BY <1>1, <1>2, <1>3, <1>4, ReadKeeps DEF Skipped
<1>5. CASE ~(ContiguousReadable(ring) < 4)
  BY <1>1, <1>3, <1>5 DEF Skipped
<1> QED
  BY <1>4, <1>5

(* Every step but a pull that returned data only reads. *)
LEMMA RingStep ==
  ASSUME TypeOK, RingFifo, [Next]_vars
  PROVE  ReadsOnly \/ PullData
<1>1. ring \in Ring /\ InOrder(ring)
  BY DEF TypeOK, RingFifo
<1>2. ASSUME UNCHANGED <<memory, received, ring>>
      PROVE  ReadsOnly
  BY <1>1, <1>2 DEF ReadsOnly
<1>3. CASE UNCHANGED vars
  BY <1>2, <1>3 DEF vars, socket
<1>4. CASE Exit
  BY <1>2, <1>4 DEF Exit, socket
<1>5. CASE ManagerStep
  BY <1>2, <1>5
     DEF ManagerStep, NoCommand, Query, ResetReconnects, ResetGivesUp,
         ResetInterrupted, Answer, socket
<1>6. CASE Pull
  <2>1. CASE PullNothing
    BY <1>1, <1>2, <2>1, RewindMovesNothing DEF PullNothing, socket
  <2> QED
    BY <1>6, <2>1 DEF Pull
<1>7. CASE FindEventStart
  <2>1. CASE FindNothing
    BY <1>2, <2>1 DEF FindNothing, socket
  <2>2. ASSUME NEW n \in Nat, UNCHANGED <<memory, received>>,
               ring' = UpdateEventReadPointer(UpdateReadPointer(Skipped, n))
        PROVE  ReadsOnly
    <3>1. LET q == UpdateReadPointer(Skipped, n)
          IN  /\ q \in Ring /\ InOrder(q) /\ Kept(q) = Kept(ring)
              /\ q.event_read_pointer = ring.event_read_pointer
      BY SkippedReads, ReadKeeps
    <3> QED
      BY <2>2, <3>1 DEF ReadsOnly
  <2>3. CASE FindFails
    BY <2>2, <2>3, SkippedReads DEF FindFails, socket
  <2>4. CASE FindSucceeds
    <3>1. PICK i \in Starts :
            ring' = UpdateEventReadPointer(UpdateReadPointer(Skipped, i))
      BY <2>4 DEF FindSucceeds
    <3>2. i \in Nat
      BY SkippedReads DEF Starts
    <3> QED
      BY <2>2, <2>4, <3>1, <3>2 DEF FindSucceeds, socket
  <2> QED
    BY <1>7, <2>1, <2>3, <2>4 DEF FindEventStart
<1>8. CASE ReadHeader
  <2>1. CASE PopHeaderWord
    BY <1>1, <2>1, ReadKeeps DEF PopHeaderWord, ReadsOnly, socket
  <2>2. CASE HeaderIncomplete \/ GoodHeader
    BY <1>2, <2>2 DEF HeaderIncomplete, GoodHeader, socket
  <2>3. CASE BadHeader
    BY <1>1, <2>3 DEF BadHeader, ReadsOnly, socket
  <2> QED
    BY <1>8, <2>1, <2>2, <2>3 DEF ReadHeader
<1>9. CASE ReadData
  <2>1. CASE TakeWord
    BY <1>2, <2>1 DEF TakeWord, socket
  <2>2. CASE EndOfData
    <3>1. bytes_read \in Nat
      BY DEF TypeOK
    <3> QED
      BY <1>1, <2>2, <3>1, ReadKeeps DEF EndOfData, ReadsOnly, socket
  <2> QED
    BY <1>9, <2>1, <2>2
       DEF ReadData, ChannelHeader, ChannelMismatch, CeresSamples, CeresCrc,
           FontusSample, FontusSwallow
<1>10. CASE Publish
  BY <1>2, <1>10 DEF Publish, PublishEvent, NothingToPublish, socket
<1>11. CASE Signal
  BY <1>2, <1>11 DEF Signal, socket
<1> QED
  BY <1>3, <1>4, <1>5, <1>6, <1>7, <1>8, <1>9, <1>10, <1>11 DEF Next

-----------------------------------------------------------------------------
(* The ring is a queue *)

(* A step that only reads keeps the queue. *)
LEMMA ReadsKeepFifo ==
  ASSUME TypeOK, RingFifo, ReadsOnly
  PROVE  RingFifo'
<1>1. PICK q \in Ring :
        /\ InOrder(q)
        /\ Kept(q) = Kept(ring)
        /\ q.event_read_pointer = ring.event_read_pointer
        /\ ring' = q \/ ring' = UpdateEventReadPointer(q)
  BY DEF ReadsOnly
<1>2. memory' = memory /\ received' = received
  BY DEF ReadsOnly
<1>3. /\ Kept(q) \in 0 .. BUFFER_SIZE
      /\ Looked(q) \in 0 .. BUFFER_SIZE - 1
      /\ Looked(q) <= Kept(q)
  BY <1>1, KeptInRing DEF InOrder
<1>4. received \in Nat
  BY DEF TypeOK
<1>5. CASE ring' = q
  BY <1>1, <1>2, <1>5 DEF RingFifo
<1>6. CASE ring' = UpdateEventReadPointer(q)
  <2>1. InOrder(ring')
    BY <1>1, <1>6, EventReadFrees
  <2>2. CASE Kept(ring') = 0
    BY <1>2, <1>4, <2>1, <2>2 DEF RingFifo
  <2>3. CASE /\ Kept(ring') = Kept(q) - Looked(q)
             /\ ring'.event_read_pointer
                  = Wrap(q.event_read_pointer, Looked(q))
    <3>1. Kept(ring') <= received'
      BY <1>1, <1>2, <1>3, <1>4, <2>3 DEF RingFifo
    <3>2. ASSUME NEW k \in 0 .. Kept(ring') - 1
          PROVE  memory'[Wrap(ring'.event_read_pointer, k)]
                   = received' - Kept(ring') + 1 + k
      <4>1. /\ Looked(q) + k \in 0 .. Kept(ring) - 1
            /\ k \in 0 .. BUFFER_SIZE
            /\ Looked(q) \in 0 .. BUFFER_SIZE
            /\ Looked(q) + k <= BUFFER_SIZE
        BY <1>1, <1>3, <2>3, BufferSizeAssumption
      <4>2. ring.event_read_pointer \in Index
        BY DEF TypeOK, Ring
      <4>3. Wrap(ring'.event_read_pointer, k)
              = Wrap(ring.event_read_pointer, Looked(q) + k)
        BY <1>1, <2>3, <4>1, <4>2, WrapWrap
      <4>4. memory[Wrap(ring.event_read_pointer, Looked(q) + k)]
              = received - Kept(ring) + 1 + (Looked(q) + k)
        BY <4>1 DEF RingFifo
      <4> QED
        BY <1>1, <1>2, <1>3, <1>4, <2>3, <4>1, <4>3, <4>4,
           BufferSizeAssumption
    <3> QED
      BY <2>1, <3>1, <3>2 DEF RingFifo
  <2> QED
    BY <1>1, <1>6, <2>2, <2>3, EventReadFrees
<1> QED
  BY <1>1, <1>5, <1>6

(* What a pull does to the ring, with the stale write index. *)
LEMMA PullAppends ==
  ASSUME TypeOK, RingFifo, PullData
  PROVE  \E n \in Nat \ {0} :
           /\ n <= ContiguousSpaceAvailable(ring)
           /\ received + n <= 4 * Len(wire)
           /\ received' = received + n
           /\ memory' = [o \in Index |->
                           IF o \in ring.write_pointer
                                      .. ring.write_pointer + n - 1
                           THEN received + 1 + (o - ring.write_pointer)
                           ELSE memory[o]]
           /\ ring' \in Ring
           /\ InOrder(ring')
           /\ Kept(ring') = Kept(ring) + n
           /\ Looked(ring') = Looked(ring)
           /\ ring'.event_read_pointer = ring.event_read_pointer
<1>1. ring \in Ring /\ InOrder(ring)
  BY DEF TypeOK, RingFifo
<1>2. PICK n \in ChunkSizes :
        /\ n <= ContiguousSpaceAvailable(ring)
        /\ received + n <= 4 * Len(wire)
        /\ memory' = [o \in Index |->
                        IF o \in ring.write_pointer
                                   .. ring.write_pointer + n - 1
                        THEN received + 1 + (o - ring.write_pointer)
                        ELSE memory[o]]
        /\ ring' = UpdateWritePointer(Rewind(ring), n)
        /\ received' = received + n
  BY DEF PullData
<1>3. n \in Nat \ {0}
  BY DataBuilderAssumption
<1>4. n \in 1 .. ContiguousSpaceAvailable(ring)
  BY <1>1, <1>2, <1>3, SpaceIsFree, KeptInRing, BufferSizeAssumption
<1>5. ring' = UpdateWritePointer(ring, n)
  BY <1>1, <1>2, RewindMovesNothing
<1>6. /\ ring' \in Ring
      /\ InOrder(ring')
      /\ Kept(ring') = Kept(ring) + n
      /\ Looked(ring') = Looked(ring)
      /\ ring'.event_read_pointer = ring.event_read_pointer
  BY <1>1, <1>4, <1>5, WriteAdds
<1> QED
  BY <1>2, <1>3, <1>6

(* A pull writes behind the bytes that are kept, never over one of them. *)
LEMMA PullKeepsFifo ==
  ASSUME TypeOK, RingFifo, PullData
  PROVE  RingFifo'
<1>1. PICK n \in Nat \ {0} :
        /\ n <= ContiguousSpaceAvailable(ring)
        /\ received' = received + n
        /\ memory' = [o \in Index |->
                        IF o \in ring.write_pointer
                                   .. ring.write_pointer + n - 1
                        THEN received + 1 + (o - ring.write_pointer)
                        ELSE memory[o]]
        /\ InOrder(ring')
        /\ Kept(ring') = Kept(ring) + n
        /\ ring'.event_read_pointer = ring.event_read_pointer
  BY PullAppends
<1> DEFINE e == ring.event_read_pointer
           w == ring.write_pointer
           K == Kept(ring)
<1>2. ring \in Ring /\ InOrder(ring)
  BY DEF TypeOK, RingFifo
<1>3. e \in Index /\ w \in Index
  BY <1>2 DEF Ring
<1>4. K \in 0 .. BUFFER_SIZE
  BY <1>2, KeptInRing
<1>5. /\ K + n <= BUFFER_SIZE
      /\ w + n <= BUFFER_SIZE
      /\ w = Wrap(e, K)
  <2>1. /\ ContiguousSpaceAvailable(ring) \in 0 .. BUFFER_SIZE - K
        /\ w + ContiguousSpaceAvailable(ring) <= BUFFER_SIZE
        /\ K < BUFFER_SIZE => w = Wrap(e, K)
    BY <1>2, SpaceIsFree
  <2> QED
    BY <1>1, <1>3, <1>4, <2>1, BufferSizeAssumption DEF Index
<1>6. received \in Nat /\ K <= received
  BY DEF TypeOK, RingFifo
<1>7. ASSUME NEW k \in 0 .. K + n - 1
      PROVE  memory'[Wrap(e, k)] = received - K + 1 + k
  <2> HIDE DEF e, w, K
  <2>1. Wrap(e, k) \in Index
    BY <1>1, <1>3, <1>4, <1>5, BufferSizeAssumption DEF Wrap, Index
  <2>2. CASE k < K
    <3>1. Wrap(e, k) \notin w .. w + n - 1
      BY <1>1, <1>3, <1>4, <1>5, <2>2, BufferSizeAssumption DEF Wrap, Index
    <3>2. memory'[Wrap(e, k)] = memory[Wrap(e, k)]
      BY <1>1, <2>1, <3>1 DEF w
    <3>3. memory[Wrap(e, k)] = received - K + 1 + k
      BY <1>4, <2>2 DEF RingFifo, K, e
    <3> QED
      BY <3>2, <3>3
  <2>3. CASE k >= K
    <3>1. Wrap(e, k) = w + (k - K)
      BY <1>1, <1>3, <1>4, <1>5, <2>3, BufferSizeAssumption DEF Wrap, Index
    <3>2. Wrap(e, k) \in w .. w + n - 1
      BY <1>1, <1>3, <1>4, <2>3, <3>1 DEF Index
    <3>3. memory'[Wrap(e, k)] = received + 1 + (Wrap(e, k) - w)
      BY <1>1, <2>1, <3>2 DEF w
    <3> QED
      BY <1>3, <1>4, <1>6, <2>3, <3>1, <3>3 DEF Index
  <2> QED
    BY <1>4, <2>2, <2>3
<1>8. Kept(ring') <= received'
  BY <1>1, <1>4, <1>6
<1>9. ASSUME NEW k \in 0 .. Kept(ring') - 1
      PROVE  memory'[Wrap(ring'.event_read_pointer, k)]
               = received' - Kept(ring') + 1 + k
  <2>1. received' - Kept(ring') = received - K
    BY <1>1, <1>4, <1>6
  <2>2. k \in 0 .. K + n - 1
    <3>1. Kept(ring') = K + n
      BY <1>1
    <3> HIDE DEF K
    <3> QED
      BY <1>4, <3>1
  <2>3. memory'[Wrap(e, k)] = received - K + 1 + k
    BY <1>7, <2>2
  <2>4. ring'.event_read_pointer = e
    BY <1>1
  <2> HIDE DEF e, K
  <2> QED
    BY <2>1, <2>3, <2>4
<1> QED
  BY <1>1, <1>8, <1>9 DEF RingFifo

LEMMA FifoStep ==
  ASSUME TypeOK, RingFifo, [Next]_vars
  PROVE  RingFifo'
BY RingStep, ReadsKeepFifo, PullKeepsFifo

-----------------------------------------------------------------------------
(* How far the read pointer is ahead *)

(* After a move of the event read pointer nothing has been looked at. *)
LEMMA NothingLooked ==
  ASSUME NEW r \in Ring, InOrder(r), NEW n \in Nat
  PROVE  Looked(UpdateEventReadPointer(UpdateReadPointer(r, n))) = 0
BY ReadKeeps, EventReadFrees

LEMMA LagStep ==
  ASSUME IInv, [Next]_vars
  PROVE  HeaderLag'
<1>1. /\ ring \in Ring /\ InOrder(ring)
      /\ Len(event.header) \in 0 .. HEADER_WORDS
      /\ event.header \in Seq(Word)
  BY DEF IInv, TypeOK, RingFifo
<1>2. ASSUME UNCHANGED <<ring, reeling>>, event'.header = event.header,
             IF reeling THEN pc' \notin {"header", "data"} ELSE pc' /= "find"
      PROVE  HeaderLag'
  BY <1>2 DEF IInv, HeaderLag
<1>3. CASE UNCHANGED vars
  BY <1>2, <1>3 DEF vars, reader, IInv, HeaderLag
<1>4. CASE Exit
  BY <1>2, <1>4 DEF Exit, reader
<1>5. CASE ManagerStep
  BY <1>2, <1>5
     DEF ManagerStep, NoCommand, Query, ResetReconnects, ResetGivesUp,
         ResetInterrupted, Answer, reader
<1>6. CASE Pull
  <2>1. CASE PullNothing
    BY <1>1, <1>2, <2>1, RewindMovesNothing DEF PullNothing, AfterPull, reader
  <2>2. CASE PullData
    <3>1. Looked(ring') = Looked(ring)
      BY <2>2, PullAppends DEF IInv
    <3> QED
      BY <2>2, <3>1 DEF IInv, HeaderLag, PullData, AfterPull, reader
  <2> QED
    BY <1>6, <2>1, <2>2 DEF Pull
<1>7. CASE FindEventStart
  <2>1. CASE FindNothing
    BY <1>2, <2>1 DEF FindNothing, reader
  <2>2. ASSUME NEW n \in Nat,
               ring' = UpdateEventReadPointer(UpdateReadPointer(Skipped, n)),
               UNCHANGED event, pc' = "publish", pc = "find"
        PROVE  HeaderLag'
    <3>1. Looked(ring') = 0
      BY <2>2, SkippedReads, NothingLooked DEF IInv
    <3>2. event'.header = << >>
      BY <2>2 DEF IInv, HeaderLag
    <3> QED
      BY <2>2, <3>1, <3>2 DEF HeaderLag
  <2>3. CASE FindFails
    BY <2>2, <2>3, SkippedReads DEF FindFails, reader, IInv
  <2>4. CASE FindSucceeds
    <3>1. PICK i \in Starts :
            ring' = UpdateEventReadPointer(UpdateReadPointer(Skipped, i))
      BY <2>4 DEF FindSucceeds
    <3>2. i \in Nat
      BY SkippedReads DEF Starts, IInv
    <3> QED
      BY <2>2, <2>4, <3>1, <3>2 DEF FindSucceeds, reader
  <2> QED
    BY <1>7, <2>1, <2>3, <2>4 DEF FindEventStart
<1>8. CASE ReadHeader
  <2>1. CASE PopHeaderWord
    <3>1. PICK w : event' = [event EXCEPT !.header = Append(@, w)]
      BY <2>1 DEF PopHeaderWord
    <3>2. Len(event'.header) = Len(event.header) + 1
      BY <1>1, <3>1 DEF IInv, TypeOK
    <3>3. ~reeling /\ reeling' = reeling /\ pc' = "header"
      BY <2>1 DEF PopHeaderWord, IInv, HeaderLag
    <3>4. Len(event.header) < HEADER_WORDS /\ 4 <= Readable(ring)
      BY <2>1, <1>1, ReadableIsTheRest, KeptInRing, BufferSizeAssumption
         DEF PopHeaderWord
    <3>5. Looked(ring) = 4 * Len(event.header)
      BY <1>1, <3>3, <3>4 DEF IInv, HeaderLag
    <3>6. Looked(ring) + 4 < BUFFER_SIZE
      BY <1>1, <3>4, <3>5, DataBuilderAssumption, BufferSizeAssumption
    <3>7. Looked(ring') = Looked(ring) + 4
      BY <1>1, <2>1, <3>4, <3>6, ReadKeeps DEF PopHeaderWord
    <3> QED
      BY <1>1, <3>2, <3>3, <3>5, <3>7 DEF HeaderLag
  <2>2. CASE HeaderIncomplete \/ GoodHeader
    BY <1>2, <2>2 DEF HeaderIncomplete, GoodHeader, reader, IInv, HeaderLag
  <2>3. CASE BadHeader
    BY <2>3 DEF BadHeader, HeaderLag, StartEvent
  <2> QED
    BY <1>8, <2>1, <2>2, <2>3 DEF ReadHeader
<1>9. CASE ReadData
  <2>1. ~reeling
    BY <1>9
       DEF ReadData, ChannelHeader, ChannelMismatch, CeresSamples, CeresCrc,
           FontusSample, FontusSwallow, TakeWord, EndOfData, IInv, HeaderLag
  <2>2. CASE ChannelHeader \/ CeresSamples \/ CeresCrc \/ FontusSample
               \/ FontusSwallow
    <3>1. event'.header = event.header
      BY <2>2
         DEF ChannelHeader, CeresSamples, CeresCrc, FontusSample,
             FontusSwallow, NextChannel, IInv, TypeOK
    <3> QED
      BY <1>2, <2>1, <2>2, <3>1
         DEF ChannelHeader, CeresSamples, CeresCrc, FontusSample,
             FontusSwallow, TakeWord
  <2>3. CASE ChannelMismatch
    BY <2>3 DEF ChannelMismatch, HeaderLag, StartEvent
  <2>4. CASE EndOfData
    <3>1. Looked(ring') = 0
      BY <1>1, <2>4, NothingLooked DEF EndOfData, IInv, TypeOK
    <3>2. Len(event'.header) = HEADER_WORDS \/ event'.header = << >>
      BY <2>4 DEF EndOfData, StartEvent, IInv, TypeOK
    <3> QED
      BY <2>1, <2>4, <3>1, <3>2 DEF EndOfData, HeaderLag
  <2> QED
    BY <1>9, <2>2, <2>3, <2>4 DEF ReadData
<1>10. CASE Publish
  BY <1>2, <1>10 DEF Publish, PublishEvent, NothingToPublish, reader
<1>11. CASE Signal
  BY <1>2, <1>11 DEF Signal, reader, IInv, HeaderLag
<1> QED
  BY <1>3, <1>4, <1>5, <1>6, <1>7, <1>8, <1>9, <1>10, <1>11 DEF Next

-----------------------------------------------------------------------------
(* Types *)

LEMMA TypeInit ==
  ASSUME Init
  PROVE  TypeOK
<1>1. wire \in Seq(Word)
  BY DataBuilderAssumption DEF Init
<1>2. event_buffer \in [num_words : Nat,
                        data : [0 .. EVENT_BUFFER_WORDS - 1 -> Tags]]
  BY DEF Init, Tag, Tags, Garbage
<1>3. event \in [header : Seq(Word), current_channel : 0 .. NUM_CHANNELS,
                 wf_header_read : BOOLEAN, samples_read : Nat]
      /\ Len(event.header) <= HEADER_WORDS
  BY DataBuilderAssumption DEF Init, StartEvent
<1>4. memory \in [Index -> Nat] /\ ring \in Ring
  BY EmptyRingOK DEF Init
<1>5. received \in 0 .. 4 * Len(wire)
  BY <1>1 DEF Init
<1>6. /\ event_header \in [trig_number : Nat, length : Nat]
      /\ reply \in [command : Command \cup {"NONE"}, arg : Nat]
      /\ published \in Seq([trig_number : Nat, length : Nat,
                            data : Seq(Tags)])
  BY DEF Init
<1> QED
  BY <1>1, <1>2, <1>3, <1>4, <1>5, <1>6 DEF Init, TypeOK, PC

(* The types of the ring and its memory, from what a step does to them. *)
LEMMA RingType ==
  ASSUME TypeOK, RingFifo, [Next]_vars
  PROVE  ring' \in Ring /\ memory' \in [Index -> Nat]
<1>1. CASE ReadsOnly
  BY <1>1, EventReadFrees DEF ReadsOnly, TypeOK
<1>2. CASE PullData
  <2>1. PICK n \in Nat \ {0} :
          /\ memory' = [o \in Index |->
                          IF o \in ring.write_pointer
                                     .. ring.write_pointer + n - 1
                          THEN received + 1 + (o - ring.write_pointer)
                          ELSE memory[o]]
          /\ ring' \in Ring
    BY <1>2, PullAppends
  <2>2. ASSUME NEW o \in Index
        PROVE  (IF o \in ring.write_pointer .. ring.write_pointer + n - 1
                THEN received + 1 + (o - ring.write_pointer)
                ELSE memory[o]) \in Nat
    <3>1. /\ received \in Nat
          /\ o \in Int /\ ring.write_pointer \in Int
          /\ memory[o] \in Nat
      <4>1. ring.write_pointer \in Index /\ memory[o] \in Nat
        BY DEF TypeOK, Ring
      <4>2. received \in Nat
        BY DEF TypeOK
      <4> QED
        BY <4>1, <4>2, BufferSizeAssumption DEF Index
    <3>2. CASE o \in ring.write_pointer .. ring.write_pointer + n - 1
      <4>1. o - ring.write_pointer \in Nat
        BY <3>1, <3>2
      <4>2. received + 1 + (o - ring.write_pointer) \in Nat
        BY <3>1, <4>1
      <4> QED
        BY <3>2, <4>2
    <3>3. CASE o \notin ring.write_pointer .. ring.write_pointer + n - 1
      BY <3>1, <3>3
    <3> QED
      BY <3>2, <3>3
  <2> QED
    BY <2>1, <2>2
<1> QED
  BY <1>1, <1>2, RingStep

(* A word of the data loop changes event and event buffer within their     *)
(* types.                                                                  *)
LEMMA DataWordType ==
  ASSUME TypeOK,
         ChannelHeader \/ CeresSamples \/ CeresCrc \/ FontusSample
  PROVE  /\ event' \in [header : Seq(Word),
                        current_channel : 0 .. NUM_CHANNELS,
                        wf_header_read : BOOLEAN, samples_read : Nat]
         /\ event'.header = event.header
         /\ event_buffer' \in [num_words : Nat,
                               data : [0 .. EVENT_BUFFER_WORDS - 1 -> Tags]]
<1>1. pc = "data" /\ ~EventComplete
  BY DEF ChannelHeader, CeresSamples, CeresCrc, FontusSample, TakeWord
<1>2. DataWord \in Word /\ [DataWord EXCEPT !.width = 1] \in Word
  BY WordsAreWords DEF DataWord, Word
<1>3. DataWord.width \in Nat
  BY <1>2 DEF Word
<1>4. event.current_channel + 1 \in 0 .. NUM_CHANNELS
  BY <1>1, DataBuilderAssumption DEF TypeOK, EventComplete
<1>5. /\ event' \in [header : Seq(Word), current_channel : 0 .. NUM_CHANNELS,
                     wf_header_read : BOOLEAN, samples_read : Nat]
      /\ event'.header = event.header
  <2>1. CASE ChannelHeader
    BY <2>1 DEF ChannelHeader, TypeOK
  <2>2. CASE CeresSamples
    <3>1. event' = [event EXCEPT !.samples_read
                                  = event.samples_read + DataWord.width]
      BY <2>2 DEF CeresSamples
    <3>2. event.samples_read + DataWord.width \in Nat
      BY <1>3 DEF TypeOK
    <3> QED
      BY <3>1, <3>2 DEF TypeOK
  <2>3. NextChannel \in [header : Seq(Word),
                         current_channel : 0 .. NUM_CHANNELS,
                         wf_header_read : BOOLEAN, samples_read : Nat]
        /\ NextChannel.header = event.header
    BY <1>4 DEF NextChannel, TypeOK
  <2>4. CASE CeresCrc
    BY <2>3, <2>4 DEF CeresCrc
  <2>5. CASE FontusSample
    <3>1. \/ event' = NextChannel
          \/ event' = [event EXCEPT !.samples_read = event.samples_read + 1]
      BY <2>5 DEF FontusSample
    <3>2. event.samples_read + 1 \in Nat
      BY DEF TypeOK
    <3> QED
      BY <2>3, <3>1, <3>2 DEF TypeOK
  <2> QED
    BY <2>1, <2>2, <2>4, <2>5
<1>6. \A i \in Nat : Slot(event.current_channel, i, EventLength) \in Nat
  BY <1>1, SlotsAreNumbers
<1>7. event.samples_read \in Nat /\ event.samples_read + 1 \in Nat
  BY DEF TypeOK
<1>8. \E w \in Word, first \in Nat : Stash(first, w)
  BY <1>2, <1>6, <1>7
     DEF ChannelHeader, CeresSamples, CeresCrc, FontusSample
<1> QED
  BY <1>5, <1>8, StashType

(* What is published is a sequence of events, each a sequence of tags. *)
LEMMA PublishedType ==
  ASSUME TypeOK, PublishEvent
  PROVE  published' \in Seq([trig_number : Nat, length : Nat,
                             data : Seq(Tags)])
<1> DEFINE data == [s \in 1 .. event_buffer.num_words |->
                      IF s <= EVENT_BUFFER_WORDS
                      THEN event_buffer.data[s - 1]
                      ELSE Tag(Garbage, 0)]
<1>1. Tag(Garbage, 0) \in Tags
  BY DEF Tag, Garbage, Tags
<1>2. \A s \in 1 .. event_buffer.num_words : data[s] \in Tags
  BY <1>1, DataBuilderAssumption DEF TypeOK
<1>3. data \in Seq(Tags)
  <2>1. event_buffer.num_words \in Nat
    BY DEF TypeOK
  <2>2. data \in [1 .. event_buffer.num_words -> Tags]
    BY <1>2
  <2> QED
    BY <2>1, <2>2, SeqDef
<1>4. published' = Append(published,
                          [trig_number |-> event_header.trig_number,
                           length |-> event_header.length,
                           data |-> data])
  BY DEF PublishEvent
<1> HIDE DEF data
<1> QED
  BY <1>3, <1>4 DEF TypeOK

(* After a reset the wire goes on at a later word, and every byte already  *)
(* received is still on it.                                                *)
LEMMA ResetType ==
  ASSUME TypeOK, ResetReconnects
  PROVE  wire' \in Seq(Word) /\ received' \in 0 .. 4 * Len(wire')
<1> DEFINE k == received \div 4
<1>1. /\ wire \in Seq(Word)
      /\ Len(wire) \in Nat
      /\ received \in Nat
      /\ received <= 4 * Len(wire)
  BY DEF TypeOK
<1>2. received' = received /\ received = 4 * k /\ k \in 0 .. Len(wire)
  BY <1>1 DEF ResetReconnects, Answer
<1>3. PICK i \in k + 1 .. Len(wire) + 1 :
        wire' = SubSeq(wire, 1, k) \o SubSeq(wire, i, Len(wire))
  BY DEF ResetReconnects
<1> HIDE DEF k
<1>4. i \in 1 .. Len(wire) + 1 /\ Len(wire) \in i - 1 .. Len(wire)
  BY <1>1, <1>2
<1>5. SubSeq(wire, 1, k) \in Seq(Word) /\ Len(SubSeq(wire, 1, k)) = k
  BY <1>1, <1>2, SubSeqProperties
<1>6. /\ SubSeq(wire, i, Len(wire)) \in Seq(Word)
      /\ Len(SubSeq(wire, i, Len(wire))) \in Nat
  BY <1>1, <1>4, SubSeqProperties, LenProperties
<1>7. wire' \in Seq(Word) /\ Len(wire') >= k /\ Len(wire') \in Nat
  <2>1. wire' \in Seq(Word)
    BY <1>3, <1>5, <1>6, ConcatProperties
  <2>2. Len(wire') = k + Len(SubSeq(wire, i, Len(wire)))
    BY <1>3, <1>5, <1>6, ConcatProperties
  <2> QED
    BY <1>1, <1>2, <1>6, <2>1, <2>2
<1> QED
  BY <1>1, <1>2, <1>7

(* An event that has just been started. *)
LEMMA StartEventType ==
  /\ StartEvent \in [header : Seq(Word), current_channel : 0 .. NUM_CHANNELS,
                     wf_header_read : BOOLEAN, samples_read : Nat]
  /\ Len(StartEvent.header) <= HEADER_WORDS
BY DataBuilderAssumption DEF StartEvent

LEMMA TypeStep ==
  ASSUME TypeOK, RingFifo, [Next]_vars
  PROVE  TypeOK'
<1>1. ring' \in Ring /\ memory' \in [Index -> Nat]
  BY RingType
<1>2. CASE UNCHANGED vars
  BY <1>2 DEF TypeOK, vars, socket, reader, control
<1>3. CASE Exit
  BY <1>3 DEF TypeOK, Exit, socket, reader, control, PC
<1>4. CASE ManagerStep
  <2>1. CASE NoCommand
    BY <2>1 DEF TypeOK, NoCommand, socket, reader, control, PC
  <2>2. ASSUME NEW c, NEW arg \in Nat, Answer(c, arg)
        PROVE  /\ commands' \in Nat
               /\ reply' \in [command : Command \cup {"NONE"}, arg : Nat]
               /\ pc' = "pull"
               /\ UNCHANGED <<received, memory, ring, reader, reeling,
                              event_ready, published>>
    BY <2>2, DataBuilderAssumption DEF Answer, TypeOK
  <2>3. CASE Query
    <3>1. Len(published) \in Nat
      BY DEF TypeOK
    <3> QED
      BY <2>2, <2>3, <3>1 DEF Query, TypeOK, PC, reader
  <2>4. CASE ResetReconnects
    BY <2>2, <2>4, ResetType DEF ResetReconnects, TypeOK, PC, reader
  <2>5. CASE ResetGivesUp
    BY <2>2, <2>5 DEF ResetGivesUp, TypeOK, PC, reader
  <2>6. CASE ResetInterrupted
    <3>1. num_kills' \in Nat /\ loop' \in BOOLEAN /\ connected' \in BOOLEAN
      <4>1. num_kills \in Nat
        BY DEF TypeOK
      <4>2. num_kills' = num_kills + 1 /\ loop' = FALSE /\ connected' = FALSE
        BY <2>6 DEF ResetInterrupted
      <4>3. num_kills' \in Nat
        BY <4>1, <4>2
      <4> QED
        BY <4>2, <4>3, Zenon
    <3>2. wire' = wire /\ Answer("RESET_CONN", 1)
      BY <2>6 DEF ResetInterrupted
    <3> QED
      BY <2>2, <3>1, <3>2 DEF TypeOK, PC, reader
  <2> QED
    BY <1>4, <2>1, <2>3, <2>4, <2>5, <2>6 DEF ManagerStep
<1>5. CASE Pull
  <2>1. CASE PullNothing
    BY <1>1, <2>1
       DEF PullNothing, AfterPull, TypeOK, socket, reader, control, PC
  <2>2. CASE PullData
    <3>1. received' \in 0 .. 4 * Len(wire')
      <4>1. PICK n \in Nat \ {0} :
              received + n <= 4 * Len(wire) /\ received' = received + n
        BY <2>2, PullAppends
      <4>2. wire' = wire /\ received \in Nat /\ 4 * Len(wire) \in Nat
        BY <2>2 DEF PullData, TypeOK
      <4> QED
        BY <4>1, <4>2
    <3> QED
      BY <1>1, <2>2, <3>1 DEF PullData, AfterPull, TypeOK, reader, control, PC
  <2> QED
    BY <1>5, <2>1, <2>2 DEF Pull
<1>6. CASE FindEventStart
  BY <1>1, <1>6
     DEF FindEventStart, FindNothing, FindFails, FindSucceeds, TypeOK, socket,
         reader, control, PC
<1>7. CASE ReadHeader
  <2>1. CASE PopHeaderWord
    <3>1. PICK w \in Word :
            /\ event' = [event EXCEPT !.header = Append(@, w)]
            /\ event_buffer' =
                 [event_buffer EXCEPT
                    !.num_words = @ + 1,
                    !.data[event_buffer.num_words] = Tag(w, 0)]
      BY <2>1, WordsAreWords DEF PopHeaderWord, AcrossTheWrap, Garbage, Word
    <3>2. Tag(w, 0) \in Tags
      BY <3>1, TagsAreTags
    <3>3. event_buffer' \in [num_words : Nat,
                             data : [0 .. EVENT_BUFFER_WORDS - 1 -> Tags]]
      <4> DEFINE n == event_buffer.num_words
                 d == [event_buffer.data EXCEPT ![n] = Tag(w, 0)]
      <4>1. n + 1 \in Nat
        BY DEF TypeOK
      <4>2. d \in [0 .. EVENT_BUFFER_WORDS - 1 -> Tags]
        BY <3>2 DEF TypeOK
      <4>3. event_buffer' = [num_words |-> n + 1, data |-> d]
        BY <3>1 DEF TypeOK
      <4> HIDE DEF n, d
      <4> QED
        BY <4>1, <4>2, <4>3
    <3>4. /\ event' \in [header : Seq(Word),
                         current_channel : 0 .. NUM_CHANNELS,
                         wf_header_read : BOOLEAN, samples_read : Nat]
          /\ Len(event'.header) <= HEADER_WORDS
      <4> DEFINE h == Append(event.header, w)
      <4>1. h \in Seq(Word) /\ Len(h) = Len(event.header) + 1
        BY <3>1 DEF TypeOK
      <4>2. Len(h) <= HEADER_WORDS
        <5>1. Len(event.header) \in Nat /\ Len(event.header) < HEADER_WORDS
          BY <2>1 DEF TypeOK, PopHeaderWord
        <5> HIDE DEF h
        <5> QED
          BY <4>1, <5>1, DataBuilderAssumption
      <4>3. event' = [event EXCEPT !.header = h]
        BY <3>1
      <4> HIDE DEF h
      <4> QED
        BY <4>1, <4>2, <4>3 DEF TypeOK
    <3> QED
      BY <1>1, <2>1, <3>3, <3>4
         DEF TypeOK, PopHeaderWord, socket, control, PC
  <2>2. CASE HeaderIncomplete
    BY <2>2 DEF TypeOK, HeaderIncomplete, socket, reader, control, PC
  <2>3. CASE BadHeader
    BY <1>1, <2>3, StartEventType
       DEF TypeOK, BadHeader, socket, control, PC
  <2>4. CASE GoodHeader
    <3>1. ContiguousReadable(ring) \in Nat
      BY ReadableIsTheRest, KeptInRing, BufferSizeAssumption
         DEF TypeOK, RingFifo, InOrder
    <3> QED
      BY <2>4, <3>1 DEF TypeOK, GoodHeader, socket, control, PC
  <2> QED
    BY <1>7, <2>1, <2>2, <2>3, <2>4 DEF ReadHeader
<1>8. CASE ReadData
  <2>1. CASE ChannelHeader \/ CeresSamples \/ CeresCrc \/ FontusSample
    <3>1. TakeWord /\ UNCHANGED <<pc, reeling, event_ready>>
      BY <2>1 DEF ChannelHeader, CeresSamples, CeresCrc, FontusSample
    <3>2. bytes_read' \in Nat
      BY <3>1 DEF TakeWord, TypeOK
    <3> QED
      BY <2>1, <3>1, <3>2, DataWordType DEF TakeWord, TypeOK, socket, control
  <2>2. CASE ChannelMismatch
    <3>1. bytes_read' \in Nat
      BY <2>2, SMTT(30) DEF ChannelMismatch, TakeWord, TypeOK
    <3>2. event_buffer' \in [num_words : Nat,
                             data : [0 .. EVENT_BUFFER_WORDS - 1 -> Tags]]
      BY <2>2 DEF ChannelMismatch, TypeOK
    <3> QED
      BY <2>2, <3>1, <3>2, StartEventType
         DEF TypeOK, ChannelMismatch, TakeWord, socket, control, PC
  <2>3. CASE FontusSwallow
    BY <2>3 DEF TypeOK, FontusSwallow, TakeWord, socket, control
  <2>4. CASE EndOfData
    <3>1. event.header[1] \in Word
      BY <2>4, DataBuilderAssumption DEF TypeOK, EndOfData
    <3>2. event_header' \in [trig_number : Nat, length : Nat]
      <4>1. EventLength \in Nat /\ event.header[1].event \in Nat
        BY <3>1 DEF EventLength, Word
      <4>2. CASE EventComplete
        BY <2>4, <4>1, <4>2 DEF EndOfData
      <4>3. CASE ~EventComplete
        BY <2>4, <4>3 DEF EndOfData, TypeOK
      <4> QED
        BY <4>2, <4>3
    <3>3. /\ event' \in [header : Seq(Word),
                         current_channel : 0 .. NUM_CHANNELS,
                         wf_header_read : BOOLEAN, samples_read : Nat]
          /\ Len(event'.header) <= HEADER_WORDS
      <4>1. CASE EventComplete
        BY <2>4, <4>1, StartEventType DEF EndOfData
      <4>2. CASE ~EventComplete
        BY <2>4, <4>2 DEF EndOfData, TypeOK
      <4> QED
        BY <4>1, <4>2
    <3>4. EventComplete \in BOOLEAN
      BY DEF EventComplete
    <3> QED
      BY <1>1, <2>4, <3>2, <3>3, <3>4
         DEF TypeOK, EndOfData, socket, control, PC
  <2> QED
    BY <1>8, <2>1, <2>2, <2>3, <2>4 DEF ReadData
<1>9. CASE Publish
  <2>1. CASE PublishEvent
    <3>1. BufferCleared \in [num_words : Nat,
                             data : [0 .. EVENT_BUFFER_WORDS - 1 -> Tags]]
      BY DEF BufferCleared, TypeOK
    <3>2. loop' \in BOOLEAN
      BY <2>1 DEF PublishEvent
    <3> QED
      BY <2>1, <3>1, <3>2, PublishedType
         DEF TypeOK, PublishEvent, socket, PC
  <2>2. CASE NothingToPublish
    BY <2>2 DEF TypeOK, NothingToPublish, socket, reader, control, PC
  <2> QED
    BY <1>9, <2>1, <2>2 DEF Publish
<1>10. CASE Signal
  <2>1. num_kills' \in Nat /\ loop' \in BOOLEAN
    <3>1. num_kills \in Nat
      BY DEF TypeOK
    <3>2. num_kills' = num_kills + 1 /\ loop' = FALSE
      BY <1>10 DEF Signal
    <3>3. num_kills' \in Nat
      BY <3>1, <3>2
    <3> QED
      BY <3>2, <3>3, Zenon
  <2>2. pc' \in PC /\ (pc' = "data" => pc = "data")
    BY <1>10 DEF Signal, TypeOK, PC
  <2> QED
    BY <1>10, <2>1, <2>2 DEF TypeOK, Signal, socket, reader
<1> QED
  BY <1>2, <1>3, <1>4, <1>5, <1>6, <1>7, <1>8, <1>9, <1>10 DEF Next

-----------------------------------------------------------------------------
(* The theorems *)

LEMMA InvInit ==
  ASSUME Init
  PROVE  IInv
<1>1. TypeOK
  BY TypeInit
<1>2. RingFifo
  BY EmptyRingOK DEF Init, RingFifo
<1>3. HeaderLag
  BY EmptyRingOK DEF Init, HeaderLag, StartEvent
<1> QED
  BY <1>1, <1>2, <1>3 DEF IInv

(* The inductive invariant holds. *)
THEOREM Invariant == Spec => []IInv
<1>1. Init => IInv
  BY InvInit
<1>2. IInv /\ [Next]_vars => IInv'
  BY TypeStep, FifoStep, LagStep DEF IInv
<1> QED
  BY <1>1, <1>2, PTL DEF Spec

(* Every variable of the builder keeps its type. *)
THEOREM TypeCorrect == Spec => []TypeOK
<1>1. IInv => TypeOK
  BY DEF IInv
<1> QED
  BY <1>1, Invariant, PTL

(* recvmsg never overwrites a byte that is still kept, and the ring is a   *)
(* queue of the last bytes received, for every size of the ring and every  *)
(* way the stream is cut, damaged or reset.                                *)
THEOREM RingIsAQueue == Spec => []RingFifo
<1>1. IInv => RingFifo
  BY DEF IInv
<1> QED
  BY <1>1, Invariant, PTL

(* The bytes looked at are the words of the header being read: a full ring *)
(* is never mistaken for an unread one.                                    *)
THEOREM HeaderStaysKept == Spec => []HeaderLag
<1>1. IInv => HeaderLag
  BY DEF IInv
<1> QED
  BY <1>1, Invariant, PTL

-----------------------------------------------------------------------------
(* The event limit *)

(* The limit is only ever reached on the way to the top of the main loop,  *)
(* with loop cleared.                                                      *)
LimitInv ==
  NUM_EVENTS > 0 =>
    /\ Len(published) <= NUM_EVENTS
    /\ loop \/ pc \notin {"command", "exit"} => Len(published) < NUM_EVENTS

LEMMA LimitStep ==
  ASSUME TypeOK, LimitInv, [Next]_vars
  PROVE  LimitInv'
<1>1. Len(published) \in Nat /\ NUM_EVENTS \in Nat
  BY DataBuilderAssumption DEF TypeOK
<1>2. CASE PublishEvent
  <2>1. Len(published') = Len(published) + 1
    BY <1>2 DEF PublishEvent, TypeOK
  <2>2. /\ pc = "publish" /\ pc' = "command"
        /\ loop' = (loop /\ BelowLimit(Len(published) + 1))
    BY <1>2 DEF PublishEvent
  <2>3. NUM_EVENTS > 0 => Len(published) < NUM_EVENTS
    <3>1. pc \notin {"command", "exit"}
      BY <2>2, Zenon
    <3> QED
      BY <3>1, Zenon DEF LimitInv
  <2>4. loop' => BelowLimit(Len(published) + 1)
    BY <2>2, Zenon
  <2>5. BelowLimit(Len(published) + 1) /\ NUM_EVENTS > 0
          => Len(published') < NUM_EVENTS
    BY <1>1, <2>1 DEF BelowLimit
  <2>6. NUM_EVENTS > 0 => Len(published') <= NUM_EVENTS
    BY <1>1, <2>1, <2>3
  <2>7. pc' \in {"command", "exit"}
    BY <2>2, Zenon
  <2> QED
    BY <2>4, <2>5, <2>6, <2>7, Zenon DEF LimitInv
<1>3. ASSUME published' = published,
             loop' => loop,
             \/ loop
             \/ pc \notin {"command", "exit"}
             \/ pc' \in {"command", "exit"}
      PROVE  LimitInv'
  BY <1>1, <1>3 DEF LimitInv
<1>4. CASE UNCHANGED vars
  BY <1>3, <1>4 DEF vars, control
<1>5. CASE Exit \/ ManagerStep
  BY <1>3, <1>5
     DEF Exit, ManagerStep, NoCommand, Query, ResetReconnects, ResetGivesUp,
         ResetInterrupted, Answer, control
<1>6. CASE Pull \/ FindEventStart \/ ReadHeader \/ ReadData
  BY <1>3, <1>6
     DEF Pull, PullNothing, PullData, FindEventStart, FindNothing, FindFails,
         FindSucceeds, ReadHeader, PopHeaderWord, HeaderIncomplete, BadHeader,
         GoodHeader, ReadData, ChannelHeader, ChannelMismatch, CeresSamples,
         CeresCrc, FontusSample, FontusSwallow, TakeWord, EndOfData, control
<1>7. CASE NothingToPublish \/ Signal
  BY <1>3, <1>7 DEF NothingToPublish, Signal, control
<1> QED
  BY <1>2, <1>4, <1>5, <1>6, <1>7 DEF Next, Publish

(* A builder with an event limit never publishes more events, whenever     *)
(* signals and commands arrive.                                            *)
THEOREM LimitIsKept == Spec => []StopsAtLimit
<1>1. Init => LimitInv
  BY DataBuilderAssumption DEF Init, LimitInv
<1>2. TypeOK /\ LimitInv /\ [Next]_vars => LimitInv'
  BY LimitStep
<1>3. LimitInv => StopsAtLimit
  BY DEF LimitInv, StopsAtLimit
<1> QED
  BY <1>1, <1>2, <1>3, TypeCorrect, PTL DEF Spec

-----------------------------------------------------------------------------
(* The order of what is published *)

(* The first word of an event. *)
IsStart(w) == w.part = "header" /\ w.sample = 0

(* The FPGA numbers its events upwards. *)
Ascending(words) ==
  \A i, j \in 1 .. Len(words) :
    i < j /\ IsStart(words[i]) /\ IsStart(words[j])
      => words[i].event < words[j].event

TriggersAscend == \A w \in Wires : Ascending(w)

(* How many bytes of the stream were read or given up. *)
Position == received - Readable(ring)

(* The events that start on the part of the wire not read are later ones. *)
IsPast(e) ==
  \A i \in 1 .. Len(wire) :
    IsStart(wire[i]) /\ 4 * (i - 1) >= Position => e < wire[i].event

(* Event e comes after everything that was published. *)
IsNew(e) == \A i \in 1 .. Len(published) : published[i].trig_number < e

OrderInv ==
  /\ Ascending(wire)
  /\ \A i \in 1 .. Len(published) : IsPast(published[i].trig_number)
  /\ PublishedInOrder
  /\ Len(event.header) > 0 /\ IsStart(event.header[1]) =>
       IsPast(event.header[1].event) /\ IsNew(event.header[1].event)
  /\ pc = "data" => IsStart(event.header[1])
  /\ event_ready => ~reeling
  /\ event_ready /\ pc = "publish" =>
       /\ event.header = << >>
       /\ IsPast(event_header.trig_number) /\ IsNew(event_header.trig_number)

(* However much a move of both read pointers asks for, no byte read        *)
(* becomes unread, and nothing is left once they have come round.          *)
LEMMA FreeReads ==
  ASSUME NEW r \in Ring, InOrder(r), NEW n \in Nat
  PROVE  /\ Readable(UpdateEventReadPointer(UpdateReadPointer(r, n))) \in Nat
         /\ Readable(UpdateEventReadPointer(UpdateReadPointer(r, n))) <= Readable(r)
         /\ n <= Readable(r) /\ ~(Looked(r) + n < BUFFER_SIZE) =>
              Readable(UpdateEventReadPointer(UpdateReadPointer(r, n))) = 0
<1> DEFINE q == UpdateReadPointer(r, n)
           f == UpdateEventReadPointer(q)
<1>1. /\ q \in Ring /\ InOrder(q) /\ Kept(q) = Kept(r)
      /\ n <= Readable(r) /\ Looked(r) + n < BUFFER_SIZE => Looked(q) = Looked(r) + n
  BY ReadKeeps
<1>2. /\ Kept(r) \in Nat /\ Kept(r) <= BUFFER_SIZE /\ Looked(r) \in Nat
      /\ Readable(r) = Kept(r) - Looked(r) /\ Looked(r) <= Kept(r)
  BY KeptInRing, ReadableIsTheRest, BufferSizeAssumption DEF InOrder
<1>3. f \in Ring /\ InOrder(f) /\ Looked(f) = 0
      /\ (Kept(f) = 0 \/ Kept(f) = Kept(q) - Looked(q))
  BY <1>1, EventReadFrees
<1>4. Readable(f) = Kept(f) - Looked(f)
  BY <1>3, ReadableIsTheRest
<1>5. n > Readable(r) => Looked(q) = Looked(r)
  BY DEF UpdateReadPointer, ReadTooFar
<1>6. ASSUME n <= Readable(r), ~ (Looked(r) + n < BUFFER_SIZE)
      PROVE  Readable(f) = 0
  <2>1. Looked(r) + n = BUFFER_SIZE /\ Kept(r) = BUFFER_SIZE
    BY <1>2, <1>6, BufferSizeAssumption
  <2>2. /\ r.read_pointer \in 0 .. BUFFER_SIZE - 1
        /\ r.write_pointer \in 0 .. BUFFER_SIZE - 1
        /\ r.event_read_pointer \in 0 .. BUFFER_SIZE - 1
    BY DEF Ring, Index
  <2>3. ~ r.is_empty /\ r.event_read_pointer = r.write_pointer
    BY <2>1, <2>2, BufferSizeAssumption DEF Kept, Span
  <2>4. n > 0 /\ n = BUFFER_SIZE - Span(r.write_pointer, r.read_pointer)
    BY <1>2, <2>1, <2>2, <2>3, BufferSizeAssumption DEF Looked, Span
  <2>5. AtEnd(IF n <= ContiguousReadable(r) THEN r.read_pointer + n
              ELSE n - (BUFFER_SIZE - r.read_pointer)) = r.write_pointer
    <3>1. CASE r.read_pointer = r.write_pointer
      <4>1. n = BUFFER_SIZE /\ IsFull(r)
        BY <2>2, <2>3, <2>4, <3>1, BufferSizeAssumption DEF Span, IsFull
      <4>2. ContiguousReadable(r) = BUFFER_SIZE - r.read_pointer
        BY <2>3, <4>1 DEF ContiguousReadable
      <4> QED
        BY <2>2, <3>1, <4>1, <4>2, BufferSizeAssumption DEF AtEnd
    <3>2. CASE r.read_pointer < r.write_pointer
      <4>1. n = r.write_pointer - r.read_pointer
        BY <2>2, <2>4, <3>2, BufferSizeAssumption DEF Span
      <4>2. ContiguousReadable(r) = r.write_pointer - r.read_pointer
        BY <2>2, <2>3, <3>2, BufferSizeAssumption
           DEF ContiguousReadable, IsFull
      <4> QED
        BY <2>2, <3>2, <4>1, <4>2, BufferSizeAssumption DEF AtEnd
    <3>3. CASE r.read_pointer > r.write_pointer
      <4>1. n = BUFFER_SIZE - (r.read_pointer - r.write_pointer)
        BY <2>2, <2>4, <3>3, BufferSizeAssumption DEF Span
      <4>2. ContiguousReadable(r) = BUFFER_SIZE - r.read_pointer
        BY <2>2, <2>3, <3>3, BufferSizeAssumption
           DEF ContiguousReadable, IsFull
      <4> QED
        BY <2>2, <3>3, <4>1, <4>2, BufferSizeAssumption DEF AtEnd
    <3> QED
      BY <2>2, <3>1, <3>2, <3>3, BufferSizeAssumption
  <2>6. q = [r EXCEPT !.read_pointer = r.write_pointer]
    <3>1. ~ (n = 0 \/ ReadTooFar(r, n))
      BY <1>2, <1>6, <2>4 DEF ReadTooFar
    <3>2. q = [r EXCEPT !.read_pointer =
                 AtEnd(IF n <= ContiguousReadable(r) THEN r.read_pointer + n
                       ELSE n - (BUFFER_SIZE - r.read_pointer))]
      BY <3>1 DEF UpdateReadPointer
    <3> QED
      BY <2>5, <3>2
  <2>7. q.read_pointer = q.write_pointer
    BY <2>6 DEF Ring
  <2> QED
    BY <2>7 DEF UpdateEventReadPointer, Readable, EmptyRing
<1> HIDE DEF q, f
<1>7. /\ Readable(f) \in Nat /\ Readable(f) <= Readable(r)
      /\ n <= Readable(r) /\ ~(Looked(r) + n < BUFFER_SIZE) => Readable(f) = 0
  BY <1>1, <1>2, <1>3, <1>4, <1>5, <1>6, BufferSizeAssumption
<1> QED
  BY <1>7 DEF q, f

(* What is read and freed is no longer readable, and the rest still is.    *)
LEMMA ReadsExactly ==
  ASSUME NEW r \in Ring, InOrder(r), NEW n \in Nat, n > 0, n <= Readable(r)
  PROVE  Readable(UpdateEventReadPointer(UpdateReadPointer(r, n)))
           = Readable(r) - n
<1> DEFINE q == UpdateReadPointer(r, n)
           f == UpdateEventReadPointer(q)
<1>1. /\ q \in Ring /\ InOrder(q) /\ Kept(q) = Kept(r)
      /\ Looked(r) + n < BUFFER_SIZE => Looked(q) = Looked(r) + n
  BY ReadKeeps
<1>2. /\ Kept(r) \in Nat /\ Kept(r) <= BUFFER_SIZE /\ Looked(r) \in Nat
      /\ Readable(r) = Kept(r) - Looked(r) /\ BUFFER_SIZE \in Nat
  BY KeptInRing, ReadableIsTheRest, BufferSizeAssumption DEF InOrder
<1>3. Readable(q) = Kept(q) - Looked(q)
  BY <1>1, ReadableIsTheRest
<1>4. CASE Looked(r) + n < BUFFER_SIZE
  <2>1. /\ q.read_pointer \in 0 .. BUFFER_SIZE - 1
        /\ q.write_pointer \in 0 .. BUFFER_SIZE - 1
        /\ q.event_read_pointer \in 0 .. BUFFER_SIZE - 1
    BY <1>1 DEF Ring, Index
  <2>2. Looked(q) > 0 /\ ~q.is_empty /\ Looked(q) <= Kept(q)
    BY <1>1, <1>2, <1>4, <2>1 DEF InOrder, Looked, Span, EmptyRing
  <2>3. Readable(q) = Readable(r) - n
    BY <1>1, <1>2, <1>3, <1>4
  <2>4. CASE q.read_pointer = q.write_pointer
    <3>1. Kept(q) = Looked(q)
      BY <1>2, <2>1, <2>2, <2>4 DEF Kept, Looked, Span
    <3>2. Readable(f) = 0
      BY <2>4 DEF UpdateEventReadPointer, Readable, EmptyRing
    <3> QED
      BY <1>1, <1>2, <1>3, <1>4, <2>3, <3>1, <3>2
  <2>5. CASE q.read_pointer /= q.write_pointer
    <3>1. Readable(f) = Readable(q)
      BY <1>1, <2>2, <2>5 DEF UpdateEventReadPointer, Readable, IsFull, Ring
    <3> QED
      BY <2>3, <3>1
  <2> QED
    BY <2>4, <2>5
<1>5. CASE ~(Looked(r) + n < BUFFER_SIZE)
  <2>1. Readable(f) = 0
    BY <1>5, FreeReads
  <2>2. Readable(r) - n = 0
    BY <1>2, <1>5
  <2> QED
    BY <2>1, <2>2
<1> QED
  BY <1>4, <1>5

LEMMA PositionIsInt ==
  ASSUME TypeOK, RingFifo
  PROVE  /\ Readable(ring) \in Nat /\ Position \in Int
         /\ Position = received - Kept(ring) + Looked(ring)
<1>1. ring \in Ring /\ InOrder(ring) /\ received \in Nat
  BY DEF TypeOK, RingFifo
<1>2. /\ Kept(ring) \in 0 .. BUFFER_SIZE /\ Looked(ring) \in 0 .. BUFFER_SIZE - 1
      /\ Readable(ring) = Kept(ring) - Looked(ring) /\ Looked(ring) <= Kept(ring)
  BY <1>1, KeptInRing, ReadableIsTheRest DEF InOrder
<1> QED
  BY <1>1, <1>2, BufferSizeAssumption DEF Position

(* A short stretch before the wrap is skipped only if there is more.       *)
LEMMA SkippedReadable ==
  ASSUME TypeOK, RingFifo, ~ TooLittleToScan
  PROVE  Readable(Skipped) \in Nat /\ Readable(Skipped) <= Readable(ring)
<1> DEFINE c == ContiguousReadable(ring)
<1>1. ring \in Ring /\ InOrder(ring)
  BY DEF TypeOK, RingFifo
<1>2. /\ Kept(ring) \in 0 .. BUFFER_SIZE /\ Looked(ring) \in 0 .. BUFFER_SIZE - 1
      /\ Readable(ring) = Kept(ring) - Looked(ring) /\ Looked(ring) <= Kept(ring)
      /\ c \in 0 .. Readable(ring)
  BY <1>1, KeptInRing, ReadableIsTheRest DEF InOrder
<1>3. CASE c < 4
  <2>1. Readable(ring) - c >= 4
    BY <1>2, <1>3, BufferSizeAssumption DEF TooLittleToScan
  <2> HIDE DEF c
  <2>2. c \in Nat /\ c <= Readable(ring) /\ Looked(ring) + c < BUFFER_SIZE
    BY <1>2, <2>1, BufferSizeAssumption
  <2>3. Skipped = UpdateReadPointer(ring, c)
    BY <1>3 DEF Skipped, c
  <2>4. Kept(Skipped) = Kept(ring) /\ Looked(Skipped) = Looked(ring) + c
    BY <1>1, <2>2, <2>3, ReadKeeps
  <2>5. Readable(Skipped) = Kept(Skipped) - Looked(Skipped)
    BY SkippedReads, ReadableIsTheRest
  <2> QED
    BY <1>2, <2>1, <2>2, <2>4, <2>5, BufferSizeAssumption
<1>4. CASE ~ (c < 4)
  BY <1>2, <1>4, BufferSizeAssumption DEF Skipped
<1> QED
  BY <1>3, <1>4
(* The next words are popped from where the read pointer is. *)
LEMMA PopMoves ==
  ASSUME IInv, PopHeaderWord
  PROVE  /\ Looked(ring) = 4 * Len(event.header)
         /\ Looked(ring) + 4 <= Kept(ring) /\ Looked(ring) + 4 < BUFFER_SIZE
         /\ Position' = Position + 4
<1>1. /\ ring \in Ring /\ InOrder(ring) /\ received \in Nat
      /\ Len(event.header) \in Nat
  BY DEF IInv, TypeOK, RingFifo
<1>2. ~reeling
  BY DEF PopHeaderWord, IInv, HeaderLag
<1>3. Len(event.header) < HEADER_WORDS /\ 4 <= Readable(ring)
  BY <1>1, ReadableIsTheRest, KeptInRing, BufferSizeAssumption
     DEF PopHeaderWord
<1>4. Looked(ring) = 4 * Len(event.header)
  BY <1>1, <1>2, <1>3 DEF IInv, HeaderLag
<1>5. Looked(ring) + 4 < BUFFER_SIZE
  BY <1>1, <1>3, <1>4, DataBuilderAssumption, BufferSizeAssumption
<1>6. ring' = UpdateReadPointer(ring, 4) /\ received' = received
  BY DEF PopHeaderWord, socket
<1>7. /\ ring' \in Ring /\ InOrder(ring') /\ Kept(ring') = Kept(ring)
      /\ Looked(ring') = Looked(ring) + 4
  BY <1>1, <1>3, <1>5, <1>6, ReadKeeps
<1>8. /\ Readable(ring) = Kept(ring) - Looked(ring)
      /\ Readable(ring') = Kept(ring') - Looked(ring')
      /\ Kept(ring) \in 0 .. BUFFER_SIZE /\ Looked(ring) \in 0 .. BUFFER_SIZE - 1
  BY <1>1, <1>7, ReadableIsTheRest, KeptInRing
<1>9. /\ Looked(ring) + 4 <= Kept(ring)
      /\ received' - Readable(ring') = received - Readable(ring) + 4
  BY <1>1, <1>3, <1>6, <1>7, <1>8, BufferSizeAssumption
<1> QED
  BY <1>4, <1>5, <1>9 DEF Position

(* The builder never goes back in the stream: a byte that was read, or     *)
(* given up by the scan or by an overlong move, is never read again.       *)
LEMMA PositionGrows ==
  ASSUME IInv, [Next]_vars
  PROVE  Position \in Int /\ Position' \in Int /\ Position' >= Position
<1>1. /\ ring \in Ring /\ InOrder(ring) /\ received \in Nat
      /\ Readable(ring) \in Nat /\ Position \in Int
  <2>1. TypeOK /\ RingFifo
    BY DEF IInv
  <2>2. ring \in Ring /\ InOrder(ring) /\ received \in Nat
    BY <2>1 DEF TypeOK, RingFifo
  <2> QED
    BY <2>1, <2>2, PositionIsInt
<1>2. ASSUME received' = received, Readable(ring') \in Nat,
             Readable(ring') <= Readable(ring)
      PROVE  Position \in Int /\ Position' \in Int /\ Position' >= Position
  BY <1>1, <1>2 DEF Position
<1>3. ASSUME UNCHANGED <<ring, received>>
      PROVE  Position \in Int /\ Position' \in Int /\ Position' >= Position
  BY <1>1, <1>3 DEF Position
<1>4. CASE UNCHANGED vars
  BY <1>3, <1>4 DEF vars, socket
<1>5. CASE Exit \/ ManagerStep
  BY <1>3, <1>5
     DEF Exit, ManagerStep, NoCommand, Query, ResetReconnects, ResetGivesUp,
         ResetInterrupted, Answer, socket
<1>6. CASE Pull
  <2>1. CASE PullNothing
    BY <1>1, <1>3, <2>1, RewindMovesNothing DEF PullNothing, socket
  <2>2. CASE PullData
    <3>1. PICK n \in Nat \ {0} :
            /\ Kept(ring') = Kept(ring) + n /\ Looked(ring') = Looked(ring)
            /\ ring' \in Ring /\ InOrder(ring') /\ received' = received + n
      BY <2>2, PullAppends DEF IInv
    <3>3. /\ Readable(ring) = Kept(ring) - Looked(ring)
          /\ Readable(ring') = Kept(ring') - Looked(ring')
          /\ Kept(ring) \in 0 .. BUFFER_SIZE
          /\ Looked(ring) \in 0 .. BUFFER_SIZE - 1
      BY <1>1, <3>1, ReadableIsTheRest, KeptInRing
    <3>4. received' - Readable(ring') = received - Readable(ring)
      BY <1>1, <3>1, <3>3, BufferSizeAssumption
    <3> QED
      BY <1>1, <3>4 DEF Position
  <2> QED
    BY <1>6, <2>1, <2>2 DEF Pull
<1>7. CASE FindEventStart
  <2>1. CASE FindNothing
    BY <1>3, <2>1 DEF FindNothing, socket
  <2>2. ASSUME NEW n \in Nat, ~ TooLittleToScan, received' = received,
               ring' = UpdateEventReadPointer(UpdateReadPointer(Skipped, n))
        PROVE  Position \in Int /\ Position' \in Int /\ Position' >= Position
    <3>1. Readable(Skipped) \in Nat /\ Readable(Skipped) <= Readable(ring)
      BY <2>2, SkippedReadable DEF IInv
    <3>2. Readable(ring') \in Nat /\ Readable(ring') <= Readable(Skipped)
      BY <2>2, SkippedReads, FreeReads DEF IInv
    <3>3. Readable(ring') <= Readable(ring)
      BY <1>1, <3>1, <3>2
    <3> QED
      BY <1>2, <2>2, <3>2, <3>3
  <2>3. CASE FindFails
    BY <2>2, <2>3, SkippedReads DEF FindFails, socket, IInv
  <2>4. CASE FindSucceeds
    <3>1. PICK i \in Starts :
            ring' = UpdateEventReadPointer(UpdateReadPointer(Skipped, i))
      BY <2>4 DEF FindSucceeds
    <3>2. i \in Nat
      BY SkippedReads DEF Starts, IInv
    <3> QED
      BY <2>2, <2>4, <3>1, <3>2 DEF FindSucceeds, socket
  <2> QED
    BY <1>7, <2>1, <2>3, <2>4 DEF FindEventStart
<1>8. CASE ReadHeader
  <2>1. CASE PopHeaderWord
    BY <1>1, <2>1, PopMoves
  <2>2. CASE HeaderIncomplete \/ GoodHeader
    BY <1>3, <2>2 DEF HeaderIncomplete, GoodHeader, socket
  <2>3. CASE BadHeader
    <3>1. UpdateReadPointer(ring, 0) = ring
      BY DEF UpdateReadPointer
    <3>2. Readable(ring') \in Nat /\ Readable(ring') <= Readable(ring)
      BY <1>1, <2>3, <3>1, FreeReads DEF BadHeader
    <3> QED
      BY <1>2, <2>3, <3>2 DEF BadHeader, socket
  <2> QED
    BY <1>8, <2>1, <2>2, <2>3 DEF ReadHeader
<1>9. CASE ReadData
  <2>1. CASE EndOfData
    <3>1. bytes_read \in Nat
      BY DEF IInv, TypeOK
    <3>2. Readable(ring') \in Nat /\ Readable(ring') <= Readable(ring)
      BY <1>1, <2>1, <3>1, FreeReads DEF EndOfData
    <3> QED
      BY <1>2, <2>1, <3>2 DEF EndOfData, socket
  <2>2. CASE ~ EndOfData
    BY <1>3, <1>9, <2>2
       DEF ReadData, ChannelHeader, ChannelMismatch, CeresSamples, CeresCrc,
           FontusSample, FontusSwallow, TakeWord, socket
  <2> QED
    BY <2>1, <2>2
<1>10. CASE Publish
  BY <1>3, <1>10 DEF Publish, PublishEvent, NothingToPublish, socket
<1>11. CASE Signal
  BY <1>3, <1>11 DEF Signal, socket
<1> QED
  BY <1>4, <1>5, <1>6, <1>7, <1>8, <1>9, <1>10, <1>11 DEF Next
(* Where the word begins whose first byte is the p-th of the stream. *)
LEMMA FirstByteOfAWord ==
  ASSUME NEW p \in Nat, p % 4 = 1
  PROVE  4 * ((p + 3) \div 4 - 1) = p - 1
OBVIOUS

(* A start in the header being read is the word of the wire the builder    *)
(* was at: what is popped across the wrap is never taken for one.          *)
LEMMA StartPopped ==
  ASSUME IInv, PopHeaderWord
  PROVE  \E w \in Word :
           /\ event' = [event EXCEPT !.header = Append(@, w)]
           /\ IsStart(w) =>
                \E i \in 1 .. Len(wire) : w = wire[i] /\ 4 * (i - 1) = Position
<1>1. /\ ring \in Ring /\ InOrder(ring) /\ received \in Nat
      /\ wire \in Seq(Word) /\ memory \in [Index -> Nat]
  BY DEF IInv, TypeOK, RingFifo
<1>2. PICK w \in IF ContiguousReadable(ring) >= 4
                 THEN {WordAt(ring.read_pointer)}
                 ELSE AcrossTheWrap :
        event' = [event EXCEPT !.header = Append(@, w)]
  BY DEF PopHeaderWord
<1>3. w \in Word
  <2>1. Garbage \in Word
    BY DEF Garbage, Word
  <2>2. \A o : WordAround(o) \in Word /\ WordAt(o) \in Word
    BY WordsAreWords DEF IInv
  <2> QED
    BY <1>2, <2>1, <2>2 DEF AcrossTheWrap
<1>4. ASSUME IsStart(w)
      PROVE  w = WordAround(ring.read_pointer) /\ w /= Garbage
  BY <1>2, <1>4 DEF AcrossTheWrap, WordAt, IsStart, Garbage
<1>5. ASSUME IsStart(w)
      PROVE  \E i \in 1 .. Len(wire) : w = wire[i] /\ 4 * (i - 1) = Position
  <2> DEFINE p == memory[ring.read_pointer]
             i == (p + 3) \div 4
  <2>1. p % 4 = 1 /\ i \in 1 .. Len(wire) /\ w = wire[i]
    BY <1>4, <1>5 DEF WordAround
  <2>2. /\ Kept(ring) \in 0 .. BUFFER_SIZE
        /\ Looked(ring) \in 0 .. BUFFER_SIZE - 1
        /\ Looked(ring) + 4 <= Kept(ring)
        /\ Position = received - Kept(ring) + Looked(ring)
    BY <1>1, KeptInRing, PopMoves, PositionIsInt DEF IInv
  <2>3. Wrap(ring.event_read_pointer, Looked(ring)) = ring.read_pointer
    BY <1>1, BufferSizeAssumption, SMTT(30) DEF Wrap, Looked, Span, Ring, Index
  <2>4. Looked(ring) \in 0 .. Kept(ring) - 1
    BY <2>2, BufferSizeAssumption
  <2>5. p = received - Kept(ring) + 1 + Looked(ring)
    BY <2>3, <2>4 DEF IInv, RingFifo
  <2>6. p \in Nat /\ p = Position + 1
    BY <1>1, <2>2, <2>5, BufferSizeAssumption DEF Ring
  <2> HIDE DEF p
  <2>7. 4 * (i - 1) = p - 1
    BY <2>1, <2>6, FirstByteOfAWord
  <2>8. 4 * (i - 1) = Position
    BY <2>2, <2>6, <2>7, <1>1, BufferSizeAssumption
  <2> QED
    BY <2>1, <2>8
<1> QED
  BY <1>2, <1>3, <1>5

(* A reset moves later words of the wire forward and drops some.           *)
LEMMA ResetSkips ==
  ASSUME IInv, ResetReconnects
  PROVE  /\ UNCHANGED <<received, ring>>
         /\ \E d \in Nat :
              \A k \in 1 .. Len(wire') :
                \/ k <= received \div 4 /\ k \in 1 .. Len(wire)
                     /\ wire'[k] = wire[k]
                \/ k > received \div 4 /\ k + d \in 1 .. Len(wire)
                     /\ wire'[k] = wire[k + d]
<1>1. wire \in Seq(Word) /\ received \in Nat /\ received <= 4 * Len(wire)
  BY DEF IInv, TypeOK
<1> DEFINE m == received \div 4
<1>2. m \in Nat /\ m <= Len(wire)
  BY <1>1
<1> HIDE DEF m
<1>3. PICK i \in m + 1 .. Len(wire) + 1 :
        wire' = SubSeq(wire, 1, m) \o SubSeq(wire, i, Len(wire))
  BY DEF ResetReconnects, m
<1> DEFINE a == SubSeq(wire, 1, m)
           b == SubSeq(wire, i, Len(wire))
<1>4. a \in Seq(Word) /\ Len(a) = m /\ \A k \in 1 .. m : a[k] = wire[k]
  BY <1>1, <1>2, SubSeqProperties
<1>5. /\ b \in Seq(Word) /\ Len(b) = Len(wire) - i + 1
      /\ \A k \in 1 .. Len(b) : b[k] = wire[i + k - 1]
  BY <1>1, <1>2, <1>3, SubSeqProperties
<1>6. i - m - 1 \in Nat /\ wire' = a \o b
  BY <1>2, <1>3
<1> HIDE DEF a, b
<1>7. \A k \in 1 .. Len(wire') :
        \/ k <= m /\ k \in 1 .. Len(wire) /\ wire'[k] = wire[k]
        \/ k > m /\ k + (i - m - 1) \in 1 .. Len(wire)
             /\ wire'[k] = wire[k + (i - m - 1)]
  <2> TAKE k \in 1 .. Len(wire')
  <2>1. /\ Len(wire') = m + Len(b)
        /\ wire'[k] = IF k <= m THEN a[k] ELSE b[k - m]
    <3>1. /\ Len(a \o b) = m + Len(b)
          /\ \A j \in 1 .. Len(a) + Len(b) :
               (a \o b)[j] = IF j <= Len(a) THEN a[j] ELSE b[j - Len(a)]
      BY <1>4, <1>5, ConcatProperties
    <3> QED
      BY <1>4, <1>6, <3>1
  <2>2. CASE k <= m
    BY <1>1, <1>2, <1>4, <2>1, <2>2
  <2>3. CASE k > m
    <3>1. k - m \in 1 .. Len(b)
      BY <1>2, <1>5, <2>1, <2>3
    <3>2. wire'[k] = wire[i + (k - m) - 1]
      BY SMTT(30), <1>2, <1>5, <2>1, <2>3, <3>1
    <3>3. i + (k - m) - 1 = k + (i - m - 1) /\ k + (i - m - 1) \in 1 .. Len(wire)
      BY <1>1, <1>2, <1>3, <1>5, <3>1, <2>3
    <3> QED
      BY <2>3, <3>2, <3>3
  <2> QED
    BY <1>2, <2>2, <2>3
<1>8. UNCHANGED <<received, ring>>
  BY DEF ResetReconnects, Answer
<1> QED
  BY <1>6, <1>7, <1>8 DEF m
(* What is past stays past as long as the wire stays the same. *)
LEMMA PastStays ==
  ASSUME IInv, [Next]_vars, NEW e, IsPast(e), wire' = wire
  PROVE  \A i \in 1 .. Len(wire') :
           IsStart(wire'[i]) /\ 4 * (i - 1) >= Position' => e < wire'[i].event
<1>1. TAKE i \in 1 .. Len(wire')
<1>2. i \in Int /\ i \in 1 .. Len(wire)
  OBVIOUS
<1>3. 4 * (i - 1) >= Position' => 4 * (i - 1) >= Position
  BY <1>2, PositionGrows
<1> QED
  BY <1>2, <1>3 DEF IsPast

(* A step that starts and completes no event keeps the order. *)
LEMMA OrderStays ==
  ASSUME IInv, [Next]_vars, OrderInv, UNCHANGED <<wire, published>>,
         event'.header \in {event.header, << >>},
         pc' = "data" => event'.header = event.header /\ IsStart(event.header[1]),
         event_ready' => ~reeling',
         event_ready' /\ pc' = "publish" =>
           /\ event_ready /\ pc = "publish"
           /\ UNCHANGED <<event, event_header>>
  PROVE  OrderInv'
<1>1. Ascending(wire)' /\ PublishedInOrder'
  BY DEF OrderInv, PublishedInOrder
<1>2. ASSUME NEW i \in 1 .. Len(published')
      PROVE  IsPast(published[i].trig_number)'
  <2>1. published'[i] = published[i] /\ IsPast(published[i].trig_number)
    BY <1>2 DEF OrderInv
  <2> QED
    BY <2>1, PastStays DEF IsPast
<1>3. ASSUME Len(event'.header) > 0, IsStart(event'.header[1])
      PROVE  IsPast(event.header[1].event)' /\ IsNew(event.header[1].event)'
  <2>1. event'.header = event.header
    BY <1>3
  <2>2. IsPast(event.header[1].event) /\ IsNew(event.header[1].event)
    BY <1>3, <2>1 DEF OrderInv
  <2>3. IsPast(event.header[1].event)'
    BY <2>1, <2>2, PastStays DEF IsPast
  <2>4. IsNew(event.header[1].event)'
    BY <2>1, <2>2 DEF IsNew
  <2> QED
    BY <2>3, <2>4
<1>4. ASSUME event_ready', pc' = "publish"
      PROVE  /\ event'.header = << >>
             /\ IsPast(event_header.trig_number)'
             /\ IsNew(event_header.trig_number)'
  <2>1. /\ event' = event /\ event_header' = event_header
        /\ event.header = << >>
        /\ IsPast(event_header.trig_number) /\ IsNew(event_header.trig_number)
    BY <1>4, Zenon DEF OrderInv
  <2>2. IsPast(event_header.trig_number)'
    BY <2>1, PastStays DEF IsPast
  <2>3. IsNew(event_header.trig_number)'
    BY <2>1 DEF IsNew
  <2> QED
    BY <2>1, <2>2, <2>3
<1>5. pc' = "data" => IsStart(event'.header[1])
  OBVIOUS
<1> QED
  BY <1>1, <1>2, <1>3, <1>4, <1>5 DEF OrderInv

LEMMA OrderStep ==
  ASSUME IInv, OrderInv, [Next]_vars
  PROVE  OrderInv'
<1>1. /\ wire \in Seq(Word) /\ Position \in Int /\ Position' \in Int
      /\ event.header \in Seq(Word) /\ received \in Nat
      /\ published \in Seq([trig_number : Nat, length : Nat, data : Seq(Tags)])
      /\ event_header \in [trig_number : Nat, length : Nat]
  BY PositionGrows DEF IInv, TypeOK
<1>2. CASE UNCHANGED vars
  BY <1>2, OrderStays DEF vars, socket, reader, OrderInv
<1>3. CASE Exit \/ NoCommand \/ Query \/ ResetGivesUp \/ ResetInterrupted
  BY <1>3, OrderStays
     DEF Exit, NoCommand, Query, ResetGivesUp, ResetInterrupted, Answer,
         socket, reader, OrderInv
<1>4. CASE ResetReconnects
  <2>1. PICK d \in Nat :
          \A k \in 1 .. Len(wire') :
            \/ k <= received \div 4 /\ k \in 1 .. Len(wire)
                 /\ wire'[k] = wire[k]
            \/ k > received \div 4 /\ k + d \in 1 .. Len(wire)
                 /\ wire'[k] = wire[k + d]
    BY <1>4, ResetSkips
  <2>2. Position' = Position
    BY <1>4, ResetSkips DEF Position
  <2>3. Ascending(wire')
    <3>1. SUFFICES ASSUME NEW i \in 1 .. Len(wire'), NEW j \in 1 .. Len(wire'),
                          i < j, IsStart(wire'[i]), IsStart(wire'[j])
                   PROVE  wire'[i].event < wire'[j].event
      BY DEF Ascending
    <3> DEFINE F(k) == IF k <= received \div 4 THEN k ELSE k + d
    <3>2. ASSUME NEW k \in 1 .. Len(wire')
          PROVE  F(k) \in 1 .. Len(wire) /\ wire'[k] = wire[F(k)]
      <4>1. CASE k <= received \div 4
        BY <1>1, <2>1, <4>1
      <4>2. CASE ~ (k <= received \div 4)
        BY <1>1, <2>1, <4>2
      <4> QED
        BY <4>1, <4>2
    <3>3. F(i) < F(j)
      BY <1>1, <2>1, <3>1, SMTT(30)
    <3> HIDE DEF F
    <3>4. /\ F(i) \in 1 .. Len(wire) /\ wire'[i] = wire[F(i)]
          /\ F(j) \in 1 .. Len(wire) /\ wire'[j] = wire[F(j)]
      BY <3>2
    <3> QED
      BY <3>1, <3>3, <3>4 DEF OrderInv, Ascending
  <2>4. ASSUME NEW e, IsPast(e)
        PROVE  \A i \in 1 .. Len(wire') :
                 IsStart(wire'[i]) /\ 4 * (i - 1) >= Position'
                   => e < wire'[i].event
    <3> TAKE i \in 1 .. Len(wire')
    <3>1. PICK f \in 1 .. Len(wire) : wire'[i] = wire[f] /\ f >= i
      BY <2>1
    <3>2. 4 * (i - 1) >= Position' => 4 * (f - 1) >= Position
      BY <1>1, <2>2, <3>1
    <3> QED
      BY <2>4, <3>1, <3>2 DEF IsPast
  <2>5. /\ UNCHANGED <<event, event_header, published, event_ready, reeling>>
        /\ pc' = "pull"
    BY <1>4 DEF ResetReconnects, Answer, reader
  <2>6. \A i \in 1 .. Len(published') : IsPast(published[i].trig_number)'
    BY <2>4, <2>5 DEF OrderInv, IsPast
  <2>7. Len(event'.header) > 0 /\ IsStart(event'.header[1]) =>
          IsPast(event.header[1].event)' /\ IsNew(event.header[1].event)'
    BY <2>4, <2>5 DEF OrderInv, IsPast, IsNew
  <2>8. PublishedInOrder' /\ (event_ready' => ~reeling')
    BY <2>5 DEF OrderInv, PublishedInOrder
  <2> QED
    BY <2>3, <2>5, <2>6, <2>7, <2>8 DEF OrderInv
<1>5. CASE Pull \/ FindEventStart
  <2>1. UNCHANGED <<wire, published, event, event_header, event_ready>>
        /\ pc' /= "data"
    BY <1>5 DEF Pull, PullNothing, PullData, AfterPull, FindEventStart,
       FindNothing, FindFails, FindSucceeds, socket, reader
  <2>2. pc' = "publish" => reeling
    BY <1>5 DEF Pull, PullNothing, PullData, AfterPull, FindEventStart,
       FindNothing, FindFails, FindSucceeds, IInv, HeaderLag
  <2>3. reeling' = reeling \/ ~reeling'
    BY <1>5 DEF Pull, PullNothing, PullData, FindEventStart,
       FindNothing, FindFails, FindSucceeds
  <2> QED
    BY <2>1, <2>2, <2>3, OrderStays DEF OrderInv
<1>6. CASE PopHeaderWord
  <2>1. PICK w \in Word :
           /\ event' = [event EXCEPT !.header = Append(@, w)]
           /\ IsStart(w) =>
                \E i \in 1 .. Len(wire) : w = wire[i] /\ 4 * (i - 1) = Position
    BY <1>6, StartPopped
  <2>2. event'.header = Append(event.header, w)
    BY <2>1 DEF IInv, TypeOK
  <2>3. /\ UNCHANGED <<wire, published, event_header, event_ready, reeling>>
        /\ pc' = "header"
    BY <1>6 DEF PopHeaderWord, socket
  <2>4. Position' = Position + 4
    BY <1>6, PopMoves
  <2>5. ASSUME IsStart(w)
        PROVE  IsNew(w.event)'
               /\ \A i \in 1 .. Len(wire') :
                    IsStart(wire'[i]) /\ 4 * (i - 1) >= Position'
                      => w.event < wire'[i].event
    <3>1. PICK i \in 1 .. Len(wire) : w = wire[i] /\ 4 * (i - 1) = Position
      BY <2>1, <2>5
    <3>2. IsNew(w.event)
      BY <1>1, <2>5, <3>1 DEF OrderInv, IsPast, IsNew
    <3>3. ASSUME NEW j \in 1 .. Len(wire), IsStart(wire[j]),
                 4 * (j - 1) >= Position'
          PROVE  w.event < wire[j].event
      <4>1. i < j
        BY <1>1, <2>4, <3>1, <3>3
      <4> QED
        BY <2>5, <3>1, <3>3, <4>1 DEF OrderInv, Ascending
    <3> QED
      BY <2>3, <3>2, <3>3 DEF IsNew
  <2>6. Len(event'.header) > 0 /\ IsStart(event'.header[1]) =>
          IsPast(event.header[1].event)' /\ IsNew(event.header[1].event)'
    <3>1. CASE event.header = << >>
      <4>1. event'.header[1] = w
        BY <2>2, <3>1
      <4> QED
        BY <2>5, <4>1 DEF IsPast
    <3>2. CASE event.header /= << >>
      <4>1. event'.header[1] = event.header[1] /\ Len(event.header) > 0
        BY <1>1, <2>2, <3>2
      <4>2. ASSUME IsStart(event.header[1])
            PROVE  IsPast(event.header[1].event) /\ IsNew(event.header[1].event)
        BY <4>1, <4>2 DEF OrderInv
      <4>3. IsStart(event.header[1]) => IsPast(event.header[1].event)'
        BY <2>3, <4>1, <4>2, PastStays DEF IsPast
      <4>4. IsStart(event.header[1]) => IsNew(event.header[1].event)'
        BY <2>3, <4>1, <4>2 DEF IsNew
      <4> QED
        BY <4>1, <4>3, <4>4
    <3> QED
      BY <3>1, <3>2
  <2>7. \A i \in 1 .. Len(published') : IsPast(published[i].trig_number)'
    BY <2>3, PastStays DEF OrderInv, IsPast
  <2>8. Ascending(wire)' /\ PublishedInOrder' /\ (event_ready' => ~reeling')
    BY <2>3 DEF OrderInv, PublishedInOrder
  <2> QED
    BY <2>3, <2>6, <2>7, <2>8 DEF OrderInv
<1>7. CASE HeaderIncomplete \/ BadHeader
  BY <1>7, OrderStays
     DEF HeaderIncomplete, BadHeader, socket, reader, StartEvent
<1>8. CASE GoodHeader
  <2>1. IsStart(event.header[1])
    BY <1>8, DataBuilderAssumption DEF GoodHeader, HeaderIsGood, IsStart
  <2> QED
    BY <1>8, <2>1, OrderStays DEF GoodHeader, socket, OrderInv
<1>9. CASE ReadData
  <2>1. pc = "data" /\ UNCHANGED <<wire, published>> /\ ~reeling
        /\ IsStart(event.header[1])
    BY <1>9 DEF ReadData, ChannelHeader, ChannelMismatch, CeresSamples,
       CeresCrc, FontusSample, FontusSwallow, TakeWord, EndOfData, IInv,
       HeaderLag, OrderInv, socket
  <2>2. CASE ChannelMismatch
    BY <2>1, <2>2, OrderStays DEF ChannelMismatch, StartEvent
  <2>3. CASE EndOfData /\ ~EventComplete
    <3>1. event' = event /\ pc' = "publish" /\ ~event_ready'
      BY <2>3 DEF EndOfData
    <3> QED
      BY <2>1, <3>1, OrderStays
  <2>4. CASE EndOfData /\ EventComplete
    <3>1. /\ event_header' = [trig_number |-> event.header[1].event,
                              length |-> EventLength]
          /\ event' = StartEvent /\ pc' = "publish" /\ reeling' = reeling
      BY <2>4 DEF EndOfData
    <3>2. Len(event.header) = HEADER_WORDS
      BY <2>1 DEF IInv, TypeOK
    <3>3. IsPast(event.header[1].event) /\ IsNew(event.header[1].event)
      BY <2>1, <3>2, DataBuilderAssumption DEF OrderInv
    <3>4. event_header'.trig_number = event.header[1].event
          /\ event'.header = << >>
      BY <3>1 DEF StartEvent
    <3>5. IsPast(event_header.trig_number)' /\ IsNew(event_header.trig_number)'
      BY <2>1, <3>3, <3>4, PastStays DEF IsPast, IsNew
    <3>6. \A i \in 1 .. Len(published') : IsPast(published[i].trig_number)'
      BY <2>1, PastStays DEF OrderInv, IsPast
    <3>7. Ascending(wire)' /\ PublishedInOrder' /\ ~reeling'
      BY <2>1, <3>1 DEF OrderInv, PublishedInOrder
    <3> QED
      BY <3>1, <3>4, <3>5, <3>6, <3>7 DEF OrderInv
  <2>5. CASE ChannelHeader \/ CeresSamples \/ CeresCrc \/ FontusSample
               \/ FontusSwallow
    <3>1. event'.header = event.header
      BY <2>5
         DEF ChannelHeader, CeresSamples, CeresCrc, FontusSample,
             FontusSwallow, NextChannel, IInv, TypeOK
    <3>2. UNCHANGED <<pc, reeling, event_ready>>
      BY <2>5
         DEF ChannelHeader, CeresSamples, CeresCrc, FontusSample,
             FontusSwallow
    <3> QED
      BY <2>1, <3>1, <3>2, OrderStays
  <2> QED
    BY <1>9, <2>2, <2>3, <2>4, <2>5 DEF ReadData
<1>10. CASE PublishEvent
  <2>1. PICK p : published' = Append(published, p)
                 /\ p.trig_number = event_header.trig_number
    BY <1>10 DEF PublishEvent
  <2>2. /\ UNCHANGED <<wire, event, event_header, event_ready, reeling>>
        /\ pc' = "command" /\ event.header = << >>
        /\ IsPast(event_header.trig_number) /\ IsNew(event_header.trig_number)
    BY <1>10 DEF PublishEvent, OrderInv, socket
  <2>3. /\ Len(published') = Len(published) + 1
        /\ \A i \in 1 .. Len(published) : published'[i] = published[i]
        /\ published'[Len(published) + 1] = p
    BY <1>1, <2>1
  <2>4. PublishedInOrder'
    <3>1. DOMAIN published' = 1 .. Len(published) + 1
          /\ DOMAIN published = 1 .. Len(published) /\ Len(published) \in Nat
      BY <1>1, <2>1
    <3>2. ASSUME NEW i \in 1 .. Len(published) + 1,
                 NEW j \in 1 .. Len(published) + 1, i < j
          PROVE  published'[i].trig_number < published'[j].trig_number
      <4>1. CASE j = Len(published) + 1
        BY <2>1, <2>2, <2>3, <3>1, <3>2, <4>1 DEF IsNew
      <4>2. CASE j /= Len(published) + 1
        BY <2>3, <3>1, <3>2, <4>2 DEF OrderInv, PublishedInOrder
      <4> QED
        BY <4>1, <4>2
    <3> QED
      BY <3>1, <3>2 DEF PublishedInOrder
  <2>5. ASSUME NEW i \in 1 .. Len(published')
        PROVE  IsPast(published[i].trig_number)'
    <3>1. IsPast(published'[i].trig_number)
      <4>1. CASE i = Len(published) + 1
        BY <2>1, <2>2, <2>3, <4>1
      <4>2. CASE i /= Len(published) + 1
        <5>1. i \in 1 .. Len(published)
          BY <1>1, <2>3, <2>5, <4>2
        <5> QED
          BY <2>3, <5>1 DEF OrderInv
      <4> QED
        BY <4>1, <4>2
    <3> QED
      BY <2>2, <3>1, PastStays DEF IsPast
  <2>6. Ascending(wire)' /\ (event_ready' => ~reeling')
    BY <2>2 DEF OrderInv
  <2> QED
    BY <2>2, <2>4, <2>5, <2>6 DEF OrderInv
<1>11. CASE NothingToPublish
  BY <1>11, OrderStays DEF NothingToPublish, OrderInv, socket, reader
<1>12. CASE Signal
  <2>1. /\ UNCHANGED <<wire, published, event, event_header, event_ready,
                       reeling>>
        /\ pc' \in {"exit", pc}
    BY <1>12 DEF Signal, socket, reader
  <2> QED
    BY <2>1, OrderStays DEF OrderInv
<1> QED
  BY <1>2, <1>3, <1>4, <1>5, <1>6, <1>7, <1>8, <1>9, <1>10, <1>11, <1>12
     DEF Next, ManagerStep, ReadHeader, Publish

(* No event is published twice or after a later one, for every size of the *)
(* ring, every damage on the wire, every reset and every cut of the        *)
(* stream, if the FPGA numbers the events it sends upwards.                *)
THEOREM PublicationsInOrder ==
  ASSUME TriggersAscend
  PROVE  Spec => []PublishedInOrder
<1>1. Init => OrderInv
  BY DEF Init, OrderInv, TriggersAscend, PublishedInOrder, StartEvent
<1>2. IInv /\ OrderInv /\ [Next]_vars => OrderInv'
  BY OrderStep
<1>3. OrderInv => PublishedInOrder
  BY DEF OrderInv
<1> QED
  BY <1>1, <1>2, <1>3, Invariant, PTL DEF Spec

=============================================================================
