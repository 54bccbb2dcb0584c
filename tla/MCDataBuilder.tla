--------------------------- MODULE MCDataBuilder ---------------------------
(***************************************************************************)
(* Small instances of DataBuilder: two header words, two channels, events  *)
(* of a few samples, rings of a few dozen bytes.                           *)
(***************************************************************************)
EXTENDS DataBuilder, SequencesExt, FiniteSetsExt

\* The two magic numbers in the order their bytes are sent.
CeresMagic == <<255, 255, 255, 255>>
FontusMagic == <<240, 15, 240, 15>>

\* Two channels swapped, as a CERES reorders; a FONTUS does not.
Swapped == [c \in {0, 1} |-> 1 - c]
Unchanged == [c \in {0, 1} |-> c]

HeaderWord(e, length, k) ==
  [Garbage EXCEPT !.event = e, !.part = "header", !.sample = k,
                  !.length = length]

WaveformWord(e, c, i, width) ==
  [Garbage EXCEPT !.event = e, !.part = "waveform", !.channel = c,
                  !.sample = i, !.width = width]

HeaderOf(e, length) ==
  [k \in 1 .. HEADER_WORDS |-> HeaderWord(e, length, k - 1)]

\* A waveform whose first three pairs, if compressed, are one word.
Waveform(e, c, length, compressed) ==
  LET first == IF compressed THEN 4 ELSE 1
      words == length + ChannelOverhead - first
  IN  <<WaveformWord(e, c, 0, 1)>>
        \o (IF compressed THEN <<WaveformWord(e, c, 1, 3)>> ELSE << >>)
        \o [k \in 1 .. words |-> WaveformWord(e, c, first + k - 1, 1)]

EventWords(e, length, compressed) ==
  HeaderOf(e, length)
    \o FlattenSeq([c \in 1 .. NUM_CHANNELS |->
                     Waveform(e, c - 1, length, compressed)])

\* The words at the places of S were damaged on their way.
Damaged(words, S) ==
  [i \in DOMAIN words |-> IF i \in S THEN Garbage ELSE words[i]]

\* Word i has the bytes of the magic number.
Lookalike(words, i) == [words EXCEPT ![i].lookalike = TRUE]

-----------------------------------------------------------------------------
\* CERES, nothing wrong: short, compressed and empty waveforms.
CleanCeresWires ==
  {EventWords(1, 1, FALSE) \o EventWords(2, 4, TRUE) \o EventWords(3, 0, FALSE),
   EventWords(1, 3, TRUE) \o EventWords(2, 1, FALSE) \o EventWords(5, 2, FALSE)}

\* Three clean CERES events of eight words.
ThreeEvents ==
  EventWords(1, 1, FALSE) \o EventWords(2, 1, FALSE) \o EventWords(3, 1, FALSE)

ThreeCeresWires == {ThreeEvents}

\* The first event, the second or both have one damaged header word (the
\* first or second word of the event) or channel header (its third or sixth).
NoisyCeresWires ==
  {Damaged(ThreeEvents, {i, j} \ {0}) : i \in {0, 1, 6}, j \in {9, 10, 11, 14}}

\* Two events. The first word is damaged; a sample and the second word of the
\* next header look like the magic number.
LookalikeCeresWires ==
  {Lookalike(Lookalike(Damaged(EventWords(1, 1, FALSE) \o EventWords(2, 1, FALSE),
                               {1}),
                       4),
             10)}

\* Three FONTUS events; in the second wire one of them has no samples at all.
StopFontusWires ==
  {EventWords(1, 1, FALSE) \o EventWords(2, n, FALSE) \o EventWords(3, 1, FALSE) :
     n \in {0, 1}}

\* The second of three FONTUS events has a damaged header.
NoisyFontusWires ==
  {Damaged(EventWords(1, 1, FALSE) \o EventWords(2, 1, FALSE)
             \o EventWords(3, 1, FALSE), {8})}

AllCommands == Command
NoCommands == {}
ResetOnly == {"RESET_CONN"}
Queries == Command \ {"RESET_CONN"}

\* How TCP may cut the stream: at whole words, a few sizes of them (one word,
\* part of an event, a full ring), or anywhere.
WholeWords == {4 * k : k \in 1 .. BUFFER_SIZE \div 4}
FewWords == {4, 12, 24}
AnyBytes == {1, 3, 6, 16}

\* What the theorem about published waveforms asks of a wire.
ASSUME WiresAreWellSent == \A w \in Wires : WellSent(w)

-----------------------------------------------------------------------------
\* What tells two states apart: not the ring's bytes that are no longer kept
\* (a stale byte never completes a word, so nothing reads one) and not the
\* locals of a data loop that is over.
KeptBytes ==
  {Wrap(ring.event_read_pointer, k) : k \in 0 .. Kept(ring) - 1}

View ==
  <<socket, [o \in Index |-> IF o \in KeptBytes THEN memory[o] ELSE 0],
    ring, event, event_buffer, event_header,
    IF pc = "data" THEN <<limit, bytes_read>> ELSE << >>,
    pc, reeling, event_ready, published, control>>

=============================================================================
