----------------------------- MODULE EventLoop -----------------------------
(***************************************************************************)
(* The table of file events of the event loop (ae.c) and the kernel's list *)
(* of descriptors behind it (ae_epoll.c).  A loop is a record: for each    *)
(* descriptor its mask and the data its handler gets, the descriptors that *)
(* the kernel watches, and what it watches them for.                       *)
(***************************************************************************)
EXTENDS Integers, FiniteSets

CONSTANTS setsize,      \* of the table: descriptors from 0 to setsize - 1
          Fd,           \* the descriptors there are
          NoData        \* of a descriptor without a handler

ASSUME LoopAssumption == setsize \in Nat \ {0} /\ Fd \subseteq Nat

AE_READABLE == "readable"
AE_WRITABLE == "writable"
Mask == SUBSET {AE_READABLE, AE_WRITABLE}

aeCreateEventLoop ==
  [mask |-> [fd \in Fd |-> {}], data |-> [fd \in Fd |-> NoData],
   watched |-> {}, interest |-> [fd \in Fd |-> {}]]

\* A descriptor with an empty mask is added, another one modified.  The kernel
\* refuses to add what it watches and to modify what it does not.
EpollRefuses(loop, fd) == (loop.mask[fd] = {}) = (fd \in loop.watched)

aeApiAddEvent(loop, fd, mask) ==
  [loop EXCEPT !.watched = @ \cup {fd}, !.interest[fd] = mask \cup loop.mask[fd]]

\* AE_ERR leaves the loop as it is.
Refuses(loop, fd) == fd >= setsize \/ EpollRefuses(loop, fd)

aeCreateFileEvent(loop, fd, mask, data) ==
  IF Refuses(loop, fd) THEN loop
  ELSE [aeApiAddEvent(loop, fd, mask) EXCEPT !.mask[fd] = @ \cup mask,
                                             !.data[fd] = data]

aeApiDelEvent(loop, fd, delmask) ==
  IF loop.mask[fd] \ delmask # {}
    THEN [loop EXCEPT !.interest[fd] = loop.mask[fd] \ delmask]
    ELSE [loop EXCEPT !.watched = @ \ {fd}, !.interest[fd] = {}]

aeDeleteFileEvent(loop, fd, mask) ==
  IF fd >= setsize \/ loop.mask[fd] = {} THEN loop
  ELSE [aeApiDelEvent(loop, fd, mask) EXCEPT !.mask[fd] = @ \ mask]

\* close(2): the kernel forgets the descriptor.
Close(loop, fd) ==
  [loop EXCEPT !.watched = @ \ {fd}, !.interest[fd] = {}]

\* What is ready of a descriptor: an error or a hangup fires both events.
Fires(loop, fd, readable, writable, broken) ==
  IF fd \notin loop.watched THEN {}
  ELSE IF broken THEN {AE_READABLE, AE_WRITABLE}
  ELSE loop.interest[fd] \cap ((IF readable THEN {AE_READABLE} ELSE {})
                                 \cup (IF writable THEN {AE_WRITABLE} ELSE {}))

=============================================================================
