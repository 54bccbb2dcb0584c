----------------------------- MODULE RingBuffer -----------------------------
(***************************************************************************)
(* The byte ring of data_builder.c as operators on its control record.     *)
(*                                                                         *)
(* The ring has two read pointers.  read_pointer is where the next byte is *)
(* taken from; event_read_pointer is how far the writer may go, so bytes   *)
(* between the two have been read but are still kept.  When all pointers   *)
(* are equal the flag is_empty tells a full ring from an empty one.        *)
(***************************************************************************)
EXTENDS Integers

CONSTANT BUFFER_SIZE    \* bytes in the ring (10 MB in the code)

ASSUME BufferSizeAssumption == BUFFER_SIZE \in Nat \ {0}

Index == 0 .. BUFFER_SIZE - 1

Ring == [event_read_pointer : Index,
         read_pointer       : Index,
         write_pointer      : Index,
         is_empty           : BOOLEAN]

EmptyRing == [event_read_pointer |-> 0,
              read_pointer       |-> 0,
              write_pointer      |-> 0,
              is_empty           |-> TRUE]

(* Mutant: the exact wrap is forgotten. *)
AtEndStays(p) == p

(* A pointer that has just moved to the end of the memory goes to 0. *)
AtEnd(p) == IF p = BUFFER_SIZE THEN 0 ELSE p

(* Index p moved on by k \in 0 .. BUFFER_SIZE bytes round the ring. *)
Wrap(p, k) == IF p + k < BUFFER_SIZE THEN p + k ELSE p + k - BUFFER_SIZE

-----------------------------------------------------------------------------
(* How much may be written.  Asking moves the pointers of an empty ring    *)
(* to 0: Rewind is that side effect.                                       *)

Rewind(r) == IF r.is_empty THEN EmptyRing ELSE r

(* Mutant: bytes read but still kept count as free. *)
SpaceToReadPointer(r) ==
  IF r.is_empty THEN BUFFER_SIZE
  ELSE IF r.write_pointer < r.read_pointer
       THEN r.read_pointer - r.write_pointer
       ELSE IF r.write_pointer = r.event_read_pointer
            THEN 0
            ELSE BUFFER_SIZE - r.write_pointer

ContiguousSpaceAvailable(r) ==
  IF r.is_empty THEN BUFFER_SIZE
  ELSE IF r.write_pointer < r.event_read_pointer
       THEN r.event_read_pointer - r.write_pointer
       ELSE IF r.write_pointer = r.event_read_pointer
            THEN 0
            ELSE BUFFER_SIZE - r.write_pointer

(* The last two cases return the space in use, as the code does. *)
SpaceAvailable(r) ==
  IF r.is_empty THEN BUFFER_SIZE
  ELSE IF r.write_pointer < r.event_read_pointer
       THEN r.write_pointer + (BUFFER_SIZE - r.event_read_pointer)
       ELSE r.write_pointer - r.event_read_pointer

-----------------------------------------------------------------------------
(* How much may be read. *)

IsFull(r) ==
  /\ ~r.is_empty
  /\ r.read_pointer = r.write_pointer
  /\ r.event_read_pointer = r.write_pointer

ContiguousReadable(r) ==
  IF r.is_empty THEN 0
  ELSE IF IsFull(r) \/ r.write_pointer < r.read_pointer
       THEN BUFFER_SIZE - r.read_pointer
       ELSE r.write_pointer - r.read_pointer

Readable(r) ==
  IF r.is_empty THEN 0
  ELSE IF IsFull(r) THEN BUFFER_SIZE
       ELSE IF r.read_pointer > r.write_pointer
            THEN r.write_pointer + (BUFFER_SIZE - r.read_pointer)
            ELSE r.write_pointer - r.read_pointer

-----------------------------------------------------------------------------
(* The three pointer updates. *)

(* n bytes were stored.  If they do not fit, only a message is logged. *)
UpdateWritePointer(r, n) ==
  LET q == Rewind(r)
      w == IF n <= ContiguousSpaceAvailable(q) THEN q.write_pointer + n
           ELSE IF n <= SpaceAvailable(q)
                THEN n - (BUFFER_SIZE - q.write_pointer)
                ELSE q.write_pointer
  IN  IF n = 0 THEN r
      ELSE [q EXCEPT !.write_pointer = AtEnd(w), !.is_empty = FALSE]

(* n bytes are more than there are: the code logs and moves nothing. *)
ReadTooFar(r, n) == n > Readable(r)

UpdateReadPointer(r, n) ==
  LET p == IF n <= ContiguousReadable(r) THEN r.read_pointer + n
           ELSE n - (BUFFER_SIZE - r.read_pointer)
  IN  IF n = 0 \/ ReadTooFar(r, n) THEN r
      ELSE [r EXCEPT !.read_pointer = AtEnd(p)]

(* Mutant: nothing is freed before the ring has been read to its end. *)
EventReadPointerStays(r) ==
  IF r.read_pointer = r.write_pointer THEN EmptyRing ELSE r

(* Everything before the read pointer may be overwritten from now on. *)
UpdateEventReadPointer(r) ==
  IF r.read_pointer = r.write_pointer
  THEN EmptyRing
  ELSE [r EXCEPT !.event_read_pointer = r.read_pointer]

-----------------------------------------------------------------------------
(* How the pointers divide the ring, for its properties. *)

(* Bytes from index a round to index b. *)
Span(a, b) == IF a <= b THEN b - a ELSE b + BUFFER_SIZE - a

(* Bytes the writer must not touch. *)
Kept(r) ==
  IF r.is_empty THEN 0
  ELSE IF r.write_pointer = r.event_read_pointer THEN BUFFER_SIZE
       ELSE Span(r.event_read_pointer, r.write_pointer)

(* How many of them have been read. *)
Looked(r) == Span(r.event_read_pointer, r.read_pointer)

(* An empty ring is at 0; otherwise the read pointer is between the event  *)
(* read pointer and the write pointer.                                     *)
InOrder(r) ==
  /\ r.is_empty => r = EmptyRing
  /\ Looked(r) <= Kept(r)

=============================================================================
