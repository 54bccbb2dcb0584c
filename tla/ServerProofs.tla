---------------------------- MODULE ServerProofs ----------------------------
(***************************************************************************)
(* Proofs about Server, for any peers, whatever bytes they send, however   *)
(* the network cuts them, and any number of descriptors that is enough:    *)
(* the three lists of clients are what the flags of the clients say, no    *)
(* event leads to a client that is gone, what a client is owed is on its   *)
(* way, and the buffers of a client are kept well by the parser, by the    *)
(* replies and by the socket.                                              *)
(*                                                                         *)
(* The argument is about the server's books, a record of all that its      *)
(* functions read and write (Server!State).  Each function is shown to     *)
(* keep them, from the inside out: lists, the table of events, one client, *)
(* all clients; then each action.                                          *)
(***************************************************************************)
EXTENDS Server, Induction, SequenceTheorems, FiniteSetTheorems

\* What a block of replies holds (clientReplyBlock.size).
BlockSize == PROTO_REPLY_CHUNK_BYTES - REPLY_BLOCK_HEADER
\* The wordings of replies.
Words == {"+", "OK", "answer", "-ERR", "too big", "unbalanced quotes",
          "invalid multibulk length", "expected '$'", "invalid bulk length",
          "unknown command", "wrong number of arguments", "error performing",
          ":", "*", "crlf"}
\* A unit of a reply.
Unit == Words \X Int
\* A block of the list of replies.
Block == {b \in [size : Int, capacity : Int, data : Seq(Unit)] :
            /\ b.size = BlockSize /\ b.capacity = PROTO_REPLY_CHUNK_BYTES
            /\ Len(b.data) <= BlockSize}
\* The fields of a client.
ClientFields ==
  {"flags", "querybuf", "qb_pos", "reqtype", "multibulklen", "bulklen", "argv",
   "buf", "reply", "reply_bytes", "sentlen"}

\* The buffers of a client are in order, and the counters of its parser in range.
Kept(c) ==
  /\ DOMAIN c = ClientFields
  /\ c.flags \subseteq Flags
  /\ c.querybuf \in Seq(0..255) /\ c.qb_pos \in Nat
  /\ c.multibulklen \in 0..MaxMultibulk /\ c.bulklen \in Int /\ c.bulklen >= -1
  /\ c.buf \in Seq(Unit) /\ Len(c.buf) <= PROTO_REPLY_CHUNK_BYTES
  /\ c.reply \in Seq(Block) /\ c.reply_bytes = Len(c.reply) * BlockSize
  /\ c.sentlen \in Nat
\* Besides, no arguments are left of an earlier command.
WellKept(c) ==
  /\ Kept(c)
  /\ c.multibulklen # 0 \/ c.argv = <<>> \/ "CLOSE_AFTER_REPLY" \in c.flags

\* A client is owed something.
Owes(c) == clientHasPendingReplies(c)

\* The fields of the books.
SharedFields == {"loop", "client", "fd", "conn", "clients", "writer", "pending",
                 "to_close", "waiting", "room", "got", "line"}
\* The descriptors of clients.
Ours == Fd \ {LISTEN, CHILD}
\* The tables of events.
Loops == [mask : [Fd -> Mask], data : [Fd -> Peer \cup {NoData}],
          watched : SUBSET Fd, interest : [Fd -> Mask]]

\* Every part of the books is of its kind.
Shape(s) ==
  /\ DOMAIN s = SharedFields
  /\ s.clients \subseteq Peer
  /\ s.fd \in [Peer -> Fd \cup {NoFd}] /\ s.writer \in [Peer -> BOOLEAN]
  /\ s.loop \in Loops /\ s.room \in [Peer -> Nat]
  /\ DOMAIN s.client = Peer /\ \A p \in Peer : WellKept(s.client[p])
\* Nothing is kept of who is not a client.
Gone(s) == \A p \in Peer \ s.clients :
  s.client[p] = NewClient /\ s.fd[p] = NoFd /\ ~ s.writer[p]
\* Every client has a descriptor of its own.
Apart(s) == /\ \A p \in s.clients : s.fd[p] \in Ours
            /\ \A p, q \in s.clients : s.fd[p] = s.fd[q] => p = q
\* Every client is listened to, for what the table says.
Heard(s) == \A p \in s.clients :
  /\ AE_READABLE \in s.loop.interest[s.fd[p]] /\ s.fd[p] \in s.loop.watched
  /\ s.loop.interest[s.fd[p]] = s.loop.mask[s.fd[p]] /\ s.loop.data[s.fd[p]] = p
  /\ s.writer[p] <=> AE_WRITABLE \in s.loop.mask[s.fd[p]]
\* Nothing is listened to but the clients.
Unused(s) == \A d \in Ours : (\A p \in s.clients : s.fd[p] # d) =>
                s.loop.mask[d] = {} /\ d \notin s.loop.watched
\* The books are right, but for the lists.
Core(s) == Shape(s) /\ Gone(s) /\ Apart(s) /\ Heard(s) /\ Unused(s)

(* A client is written back: it is put on the lists its new flags ask for. *)
LEMMA WithClientFields ==
  ASSUME NEW s, DOMAIN s = SharedFields, DOMAIN s.client = Peer, NEW p \in Peer, NEW c
  PROVE  LET t == WithClient(s, p, c)
             news(f) == f \in c.flags /\ f \notin s.client[p].flags
         IN /\ DOMAIN t = SharedFields
            /\ t.client = [s.client EXCEPT ![p] = c]
            /\ t.pending = IF news("PENDING_WRITE") THEN <<p>> \o s.pending ELSE s.pending
            /\ t.to_close = IF news("CLOSE_ASAP") THEN Append(s.to_close, p) ELSE s.to_close
            /\ t.waiting = IF news("BLOCKED") THEN Append(s.waiting, p) ELSE s.waiting
            /\ \A f \in {"loop", "fd", "conn", "clients", "writer", "room", "got", "line"} :
                 t[f] = s[f]
  BY DEF WithClient, SharedFields

(* The books stay right when a client changes that is well kept. *)
LEMMA CoreAfter ==
  ASSUME NEW s, NEW t, Core(s), NEW p \in s.clients, NEW c, WellKept(c),
         DOMAIN t = SharedFields, t.client = [s.client EXCEPT ![p] = c],
         t.room \in [Peer -> Nat], t.loop = s.loop, t.fd = s.fd,
         t.clients = s.clients, t.writer = s.writer
  PROVE  Core(t)
<1>1. p \in Peer
  BY DEF Core, Shape
<1>2. Shape(t)
  BY <1>1 DEF Core, Shape
<1> QED
  BY <1>1, <1>2 DEF Core, Gone, Apart, Heard, Unused, Shape

-----------------------------------------------------------------------------
(* Lists of clients *)

\* Nobody is on the list twice.
NoDup(list) == \A i, j \in DOMAIN list : list[i] = list[j] => i = j
\* The list is of those in T, once each.
Listed(list, T) == list \in Seq(Peer) /\ NoDup(list) /\ Elements(list) = T

(* The empty list. *)
LEMMA ListedEmpty == Listed(<<>>, {})
  BY DEF Listed, NoDup, Elements

(* At the end. *)
LEMMA ListedAppend ==
  ASSUME NEW l, NEW T, Listed(l, T), NEW p \in Peer, p \notin T
  PROVE  Listed(Append(l, p), T \cup {p})
<1> DEFINE m == Append(l, p)
<1>1. /\ m \in Seq(Peer) /\ Len(m) = Len(l) + 1 /\ m[Len(l) + 1] = p
      /\ \A i \in 1..Len(l) : m[i] = l[i]
      /\ DOMAIN m = 1..Len(l) + 1 /\ DOMAIN l = 1..Len(l) /\ Len(l) \in Nat
  BY DEF Listed
<1> HIDE DEF m
<1>2. \A i \in 1..Len(l) : l[i] # p
  BY <1>1 DEF Listed, Elements
<1>3. NoDup(m)
  BY <1>1, <1>2 DEF Listed, NoDup
<1>4. \A q \in T : \E i \in 1..Len(l) : q = l[i]
  BY <1>1 DEF Listed, Elements
<1>5. Elements(m) = T \cup {p}
  <2>1. \A i \in 1..Len(l) + 1 : m[i] \in T \cup {p}
    BY <1>1 DEF Listed, Elements
  <2>2. \A q \in T \cup {p} : \E i \in 1..Len(l) + 1 : q = m[i]
    BY <1>1, <1>4
  <2> QED
    BY <1>1, <2>1, <2>2 DEF Elements
<1> QED
  BY <1>1, <1>3, <1>5 DEF Listed, m

(* In front. *)
LEMMA ListedFirst ==
  ASSUME NEW l, NEW T, Listed(l, T), NEW p \in Peer, p \notin T
  PROVE  Listed(<<p>> \o l, T \cup {p})
<1> DEFINE m == <<p>> \o l
<1>1. /\ m \in Seq(Peer) /\ Len(m) = Len(l) + 1 /\ m[1] = p
      /\ \A i \in 1..Len(l) : m[i + 1] = l[i]
      /\ DOMAIN m = 1..Len(l) + 1 /\ DOMAIN l = 1..Len(l) /\ Len(l) \in Nat
  BY DEF Listed
<1> HIDE DEF m
<1>2. \A i \in 1..Len(l) : l[i] # p
  BY <1>1 DEF Listed, Elements
<1>3. \A i \in 2..Len(l) + 1 : m[i] = l[i - 1] /\ i - 1 \in 1..Len(l)
  <2> SUFFICES ASSUME NEW i \in 2..Len(l) + 1
               PROVE  m[i] = l[i - 1] /\ i - 1 \in 1..Len(l)
    OBVIOUS
  <2>1. i - 1 \in 1..Len(l) /\ (i - 1) + 1 = i
    BY <1>1
  <2> QED
    BY <1>1, <2>1
<1>4. NoDup(m)
  <2> SUFFICES ASSUME NEW i \in 1..Len(l) + 1, NEW j \in 1..Len(l) + 1, m[i] = m[j]
               PROVE  i = j
    BY <1>1 DEF NoDup
  <2>1. \A k \in 2..Len(l) + 1 : m[k] # p
    BY <1>2, <1>3
  <2>2. CASE i = 1 \/ j = 1
    BY <1>1, <2>1, <2>2
  <2>3. CASE i # 1 /\ j # 1
    <3>1. i \in 2..Len(l) + 1 /\ j \in 2..Len(l) + 1
      BY <1>1, <2>3
    <3>2. /\ i - 1 \in DOMAIN l /\ j - 1 \in DOMAIN l
          /\ m[i] = l[i - 1] /\ m[j] = l[j - 1]
      BY <1>1, <1>3, <3>1
    <3>3. i - 1 = j - 1
      BY <3>2, Zenon DEF Listed, NoDup
    <3> QED
      BY <3>1, <3>3
  <2> QED
    BY <2>2, <2>3
<1>5. \A q \in T : \E i \in 1..Len(l) : q = l[i]
  BY <1>1 DEF Listed, Elements
<1>6. Elements(m) = T \cup {p}
  <2>1. \A i \in 1..Len(l) + 1 : m[i] \in T \cup {p}
    BY <1>1, <1>3, SMTT(20) DEF Listed, Elements
  <2>2. ASSUME NEW q \in T
        PROVE  \E i \in 1..Len(l) + 1 : q = m[i]
    <3>1. PICK i \in 1..Len(l) : q = l[i]
      BY <1>5
    <3>2. i + 1 \in 1..Len(l) + 1
      BY <1>1
    <3> QED
      BY <1>1, <3>1, <3>2
  <2>3. 1 \in 1..Len(l) + 1
    BY <1>1
  <2> QED
    BY <1>1, <2>1, <2>2, <2>3 DEF Elements
<1> QED
  BY <1>1, <1>4, <1>6 DEF Listed, m

(* Without the first. *)
LEMMA ListedTail ==
  ASSUME NEW l, NEW T, Listed(l, T), l # <<>>
  PROVE  Head(l) \in T /\ Listed(Tail(l), T \ {Head(l)})
<1> DEFINE m == Tail(l)
<1>1. /\ l \in Seq(Peer) /\ Len(l) \in Nat \ {0} /\ DOMAIN l = 1..Len(l)
      /\ Head(l) = l[1] /\ m \in Seq(Peer) /\ DOMAIN m = 1..Len(l) - 1
      /\ \A i \in 1..Len(l) - 1 : m[i] = l[i + 1]
  BY EmptySeq, HeadTailProperties DEF Listed
<1> HIDE DEF m
<1>2. ASSUME NEW i \in 1..Len(l) - 1
      PROVE  i + 1 \in 1..Len(l) /\ m[i] = l[i + 1] /\ m[i] # l[1]
  <2>1. i + 1 \in 1..Len(l) /\ 1 \in 1..Len(l) /\ i + 1 # 1
    BY <1>1
  <2> QED
    BY <1>1, <2>1 DEF Listed, NoDup
<1>3. NoDup(m)
  <2> SUFFICES ASSUME NEW i \in 1..Len(l) - 1, NEW j \in 1..Len(l) - 1, m[i] = m[j]
               PROVE  i = j
    BY <1>1 DEF NoDup
  <2>0. /\ i + 1 \in 1..Len(l) /\ j + 1 \in 1..Len(l)
        /\ l[i + 1] = l[j + 1]
    BY <1>2
  <2>1. i + 1 = j + 1
    BY <1>1, <2>0 DEF Listed, NoDup
  <2> QED
    BY <2>1
<1>4. \A q \in T : \E i \in 1..Len(l) : q = l[i]
  BY <1>1 DEF Listed, Elements
<1>5. Elements(m) = T \ {l[1]}
  <2>1. \A i \in 1..Len(l) - 1 : m[i] \in T \ {l[1]}
    BY <1>1, <1>2 DEF Listed, Elements
  <2>2. \A q \in T \ {l[1]} : \E i \in 1..Len(l) - 1 : q = m[i]
    <3> SUFFICES ASSUME NEW q \in T \ {l[1]}
                 PROVE  \E i \in 1..Len(l) - 1 : q = m[i]
      OBVIOUS
    <3>1. PICK i \in 1..Len(l) : q = l[i]
      BY <1>4
    <3>2. i - 1 \in 1..Len(l) - 1 /\ (i - 1) + 1 = i
      BY <1>1, <3>1
    <3> QED
      BY <1>2, <3>1, <3>2
  <2>3. \A q : q \in Elements(m) <=> \E i \in 1..Len(l) - 1 : q = m[i]
    BY <1>1, Zenon DEF Elements
  <2> QED
    BY <2>1, <2>2, <2>3
<1>6. l[1] \in T
  BY <1>1 DEF Listed, Elements
<1> QED
  BY <1>1, <1>3, <1>5, <1>6 DEF Listed, m

(* Without one of them. *)
LEMMA ListedRemove ==
  ASSUME NEW l, NEW T, Listed(l, T), NEW p
  PROVE  Listed(RemoveFirst(l, p), T \ {p})
<1>1. l \in Seq(Peer) /\ Len(l) \in Nat /\ DOMAIN l = 1..Len(l)
  BY DEF Listed
<1>2. CASE ~ \E i \in 1..Len(l) : l[i] = p
  <2>1. RemoveFirst(l, p) = l
    BY <1>2 DEF RemoveFirst
  <2>2. p \notin T
    BY <1>1, <1>2 DEF Listed, Elements
  <2> QED
    BY <2>1, <2>2
<1>3. CASE \E i \in 1..Len(l) : l[i] = p
  <2>1. PICK k \in 1..Len(l) : l[k] = p
    BY <1>3
  <2> DEFINE I == {i \in 1..Len(l) : l[i] = p}
  <2>2. I = {k}
    BY <1>1, <2>1 DEF Listed, NoDup
  <2>3. Min({k}) = k
    BY DEF Min
  <2>4. RemoveFirst(l, p) = SubSeq(l, 1, k - 1) \o SubSeq(l, k + 1, Len(l))
    <3>1. SelectInSeq(l, LAMBDA v : v = p) = k
      BY <2>2, <2>3 DEF SelectInSeq
    <3> QED
      BY <1>3, <3>1 DEF RemoveFirst, RemoveAt
  <2> DEFINE m == SubSeq(l, 1, k - 1) \o SubSeq(l, k + 1, Len(l))
  <2>5. /\ m \in Seq(Peer) /\ Len(m) = Len(l) - 1 /\ DOMAIN m = 1..Len(l) - 1
        /\ \A i \in 1..Len(l) - 1 : m[i] = IF i < k THEN l[i] ELSE l[i + 1]
    <3> DEFINE a == SubSeq(l, 1, k - 1)
               b == SubSeq(l, k + 1, Len(l))
    <3>1. \A i \in 1..k - 1 : l[i] \in Peer
      BY <1>1
    <3>2. /\ a \in Seq(Peer) /\ Len(a) = k - 1
          /\ \A i \in 1..k - 1 : a[i] = l[i]
      BY <1>1, <3>1
    <3>3. \A i \in k + 1..Len(l) : l[i] \in Peer
      BY <1>1
    <3>n. k \in Nat \ {0} /\ k <= Len(l)
      BY <1>1
    <3>4. /\ b \in Seq(Peer) /\ Len(b) = Len(l) - k
          /\ \A i \in 1..Len(l) - k : b[i] = l[k + i]
      <4>1. /\ b \in Seq(Peer)
            /\ Len(b) = IF k + 1 <= Len(l) THEN Len(l) - (k + 1) + 1 ELSE 0
            /\ \A i \in 1..Len(l) - (k + 1) + 1 : b[i] = l[(k + 1) + i - 1]
        BY <1>1, <3>3, SubSeqProperties
      <4> HIDE DEF b
      <4>2. \A i \in 1..Len(l) - k : i \in 1..Len(l) - (k + 1) + 1 /\ (k + 1) + i - 1 = k + i
        BY <1>1, <3>n
      <4>3. Len(b) = Len(l) - k
        <5>1. Len(b) = IF k + 1 <= Len(l) THEN Len(l) - (k + 1) + 1 ELSE 0
          BY <4>1
        <5> DEFINE n == Len(l)
        <5>2. n \in Nat /\ k \in Nat /\ k <= n
          BY <1>1, <3>n
        <5> HIDE DEF n
        <5>3. (IF k + 1 <= n THEN n - (k + 1) + 1 ELSE 0) = n - k
          BY <5>2
        <5> QED
          BY <5>1, <5>3, SMT DEF n
      <4> QED
        BY <4>1, <4>2, <4>3
    <3> HIDE DEF a, b
    <3>5. /\ a \o b \in Seq(Peer) /\ Len(a \o b) = Len(l) - 1
          /\ \A i \in 1..Len(l) - 1 :
               (a \o b)[i] = IF i <= k - 1 THEN a[i] ELSE b[i - (k - 1)]
      <4>1. (k - 1) + (Len(l) - k) = Len(l) - 1
        BY <1>1, <3>n
      <4>2. /\ a \o b \in Seq(Peer) /\ Len(a \o b) = Len(a) + Len(b)
            /\ \A i \in 1..Len(a) + Len(b) :
                 (a \o b)[i] = IF i <= Len(a) THEN a[i] ELSE b[i - Len(a)]
        BY <3>2, <3>4, ConcatProperties
      <4>3. Len(a) = k - 1 /\ Len(b) = Len(l) - k
        BY <3>2, <3>4
      <4>4. Len(a) + Len(b) = Len(l) - 1
        BY <4>1, <4>3
      <4> QED
        BY <4>2, <4>3, <4>4
    <3>6. \A i \in 1..Len(l) - 1 :
            (a \o b)[i] = IF i < k THEN l[i] ELSE l[i + 1]
      <4> SUFFICES ASSUME NEW i \in 1..Len(l) - 1
                   PROVE  (a \o b)[i] = IF i < k THEN l[i] ELSE l[i + 1]
        OBVIOUS
      <4>1. CASE i < k
        BY <1>1, <3>2, <3>5, <4>1
      <4>2. CASE ~ (i < k)
        <5>1. i - (k - 1) \in 1..Len(l) - k /\ k + (i - (k - 1)) = i + 1
          BY <1>1, <4>2
        <5> QED
          BY <1>1, <3>4, <3>5, <4>2, <5>1
      <4> QED
        BY <4>1, <4>2
    <3> DEFINE c == a \o b
    <3>7. DOMAIN c = 1..Len(c)
      BY <3>5, LenProperties
    <3> QED
      BY <3>5, <3>6, <3>7 DEF a, b
  <2> HIDE DEF m
  <2>6. NoDup(m)
    BY <1>1, <2>5, SMTT(20) DEF Listed, NoDup
  <2>7. \A q \in T : \E i \in 1..Len(l) : q = l[i]
    BY <1>1 DEF Listed, Elements
  <2>8. Elements(m) = T \ {p}
    <3>1. ASSUME NEW i \in 1..Len(l) - 1
          PROVE  m[i] \in T \ {p}
      <4>1. i \in 1..Len(l) /\ i + 1 \in 1..Len(l)
        BY <1>1
      <4>2. l[i] \in T /\ l[i + 1] \in T
        BY <1>1, <4>1 DEF Listed, Elements
      <4>3. i # k => l[i] # p
        BY <1>1, <2>1, <4>1 DEF Listed, NoDup
      <4>4. i + 1 # k => l[i + 1] # p
        BY <1>1, <2>1, <4>1 DEF Listed, NoDup
      <4> QED
        BY <1>1, <2>5, <4>2, <4>3, <4>4
    <3>2. ASSUME NEW q \in T \ {p}
          PROVE  \E i \in 1..Len(l) - 1 : q = m[i]
      <4>1. PICK i \in 1..Len(l) : q = l[i]
        BY <2>7
      <4>2. CASE i < k
        BY <1>1, <2>5, <4>1, <4>2
      <4>3. CASE i >= k
        <5>1. i > k
          BY <1>1, <2>1, <4>1, <4>3
        <5>2. i - 1 \in 1..Len(l) - 1 /\ ~ (i - 1 < k) /\ (i - 1) + 1 = i
          BY <1>1, <5>1
        <5> QED
          BY <2>5, <4>1, <5>2
      <4> QED
        BY <1>1, <4>2, <4>3
    <3> QED
      BY <2>5, <3>1, <3>2, ZenonT(30) DEF Elements
  <2> QED
    BY <2>4, <2>5, <2>6, <2>8 DEF Listed, m
<1> QED
  BY <1>2, <1>3

(* A list of clients has as many members as it is long. *)
LEMMA ListedLength ==
  ASSUME NEW l, NEW T, Listed(l, T)
  PROVE  Cardinality(Elements(l)) = Len(l)
<1>1. l \in Seq(Peer) /\ Len(l) \in Nat /\ DOMAIN l = 1..Len(l)
  BY DEF Listed
<1>2. l \in Bijection(1..Len(l), Elements(l))
  <2>1. l \in [1..Len(l) -> Elements(l)]
    BY <1>1 DEF Elements
  <2>2. \A q \in Elements(l) : \E i \in 1..Len(l) : l[i] = q
    BY <1>1 DEF Elements
  <2> QED
    BY <1>1, <2>1, <2>2 DEF Listed, NoDup, Bijection, Injection, Surjection, IsInjective
<1>3. IsFiniteSet(1..Len(l)) /\ Cardinality(1..Len(l)) = Len(l)
  BY <1>1, FS_Interval, SMTT(20)
<1> QED
  BY <1>2, <1>3, FS_Bijection DEF ExistsBijection

\* The members after the first k.
Later(l, k) == {l[i] : i \in k + 1..Len(l)}

(* As a list is gone through, its members are dealt with one by one. *)
LEMMA LaterThings ==
  ASSUME NEW l, NEW T, Listed(l, T)
  PROVE  /\ Later(l, 0) = T /\ Later(l, Len(l)) = {}
         /\ \A k \in 1..Len(l) : /\ l[k] \in Later(l, k - 1) /\ l[k] \in Peer
                                 /\ Later(l, k) = Later(l, k - 1) \ {l[k]}
<1>1. l \in Seq(Peer) /\ Len(l) \in Nat /\ DOMAIN l = 1..Len(l)
  BY DEF Listed
<1>2. Later(l, 0) = T
  BY <1>1 DEF Later, Listed, Elements
<1>3. Later(l, Len(l)) = {}
  BY <1>1 DEF Later
<1>4. ASSUME NEW k \in 1..Len(l)
      PROVE  /\ l[k] \in Later(l, k - 1) /\ l[k] \in Peer
             /\ Later(l, k) = Later(l, k - 1) \ {l[k]}
  <2>1. \A i \in k..Len(l) : i \in 1..Len(l) /\ (i = k \/ i \in k + 1..Len(l))
    BY <1>1
  <2>2. Later(l, k - 1) = {l[i] : i \in k..Len(l)}
    BY <1>1 DEF Later
  <2>3. \A i \in k + 1..Len(l) : i \in k..Len(l) /\ l[i] # l[k]
    BY <1>1 DEF Listed, NoDup
  <2>4. k \in k..Len(l)
    BY <1>1
  <2> QED
    BY <1>1, <2>1, <2>2, <2>3, <2>4 DEF Later
<1> QED
  BY <1>2, <1>3, <1>4

-----------------------------------------------------------------------------
(* The table of events *)

\* In table t, the mask of descriptor d is m, and its data p; w is watched.
Table(t, l, d, m, p, w) ==
  /\ t \in Loops /\ t.mask = [l.mask EXCEPT ![d] = m]
  /\ t.interest = [l.interest EXCEPT ![d] = m]
  /\ t.data = [l.data EXCEPT ![d] = p] /\ t.watched = w

\* Only the mask of descriptor d changes in the table, to m.
Awaits(t, l, d, m) ==
  /\ t \in Loops /\ t.mask = [l.mask EXCEPT ![d] = m]
  /\ t.interest = [l.interest EXCEPT ![d] = m]
  /\ t.data = l.data /\ t.watched = l.watched

(* A descriptor is listened at for the first time. *)
LEMMA ListenFirst ==
  ASSUME EnoughDescriptors, NEW l \in Loops, NEW d \in Fd, NEW p \in Peer \cup {NoData},
         l.mask[d] = {}, d \notin l.watched
  PROVE  Table(aeCreateFileEvent(l, d, {AE_READABLE}, p), l, d, {AE_READABLE}, p,
               l.watched \cup {d})
<1> DEFINE t == aeCreateFileEvent(l, d, {AE_READABLE}, p)
<1>1. ~ Refuses(l, d)
  <2>1. d < setsize /\ d \in Nat /\ setsize \in Nat
    BY LoopAssumption DEF EnoughDescriptors
  <2>2. ~ EpollRefuses(l, d)
    BY DEF EpollRefuses
  <2> QED
    BY <2>1, <2>2 DEF Refuses
<1>2. t = [mask |-> [l.mask EXCEPT ![d] = l.mask[d] \cup {AE_READABLE}],
           data |-> [l.data EXCEPT ![d] = p], watched |-> l.watched \cup {d},
           interest |-> [l.interest EXCEPT ![d] = {AE_READABLE} \cup l.mask[d]]]
  BY <1>1 DEF aeCreateFileEvent, aeApiAddEvent, Loops
<1>3. {AE_READABLE} \in Mask
  BY DEF Mask
<1>4. l.mask[d] \cup {AE_READABLE} = {AE_READABLE} /\ {AE_READABLE} \cup l.mask[d] = {AE_READABLE}
  OBVIOUS
<1>5. /\ [l.mask EXCEPT ![d] = {AE_READABLE}] \in [Fd -> Mask]
      /\ [l.interest EXCEPT ![d] = {AE_READABLE}] \in [Fd -> Mask]
      /\ [l.data EXCEPT ![d] = p] \in [Fd -> Peer \cup {NoData}]
      /\ l.watched \cup {d} \in SUBSET Fd
  BY <1>3 DEF Loops
<1> QED
  BY <1>2, <1>4, <1>5, SMTT(20) DEF Loops, Table

(* Writing is waited for as well, or no longer. *)
LEMMA AwaitWrite ==
  ASSUME EnoughDescriptors, NEW l \in Loops, NEW d \in Fd, NEW p \in Peer,
         AE_READABLE \in l.mask[d], d \in l.watched, l.data[d] = p
  PROVE  Awaits(aeCreateFileEvent(l, d, {AE_WRITABLE}, p), l, d,
                l.mask[d] \cup {AE_WRITABLE})
<1> DEFINE t == aeCreateFileEvent(l, d, {AE_WRITABLE}, p)
<1>1. ~ Refuses(l, d)
  <2>1. d < setsize /\ d \in Nat /\ setsize \in Nat
    BY LoopAssumption DEF EnoughDescriptors
  <2>2. ~ EpollRefuses(l, d)
    BY DEF EpollRefuses
  <2> QED
    BY <2>1, <2>2 DEF Refuses
<1>2. t = [mask |-> [l.mask EXCEPT ![d] = l.mask[d] \cup {AE_WRITABLE}],
           data |-> l.data, watched |-> l.watched \cup {d},
           interest |-> [l.interest EXCEPT ![d] = {AE_WRITABLE} \cup l.mask[d]]]
  BY <1>1 DEF aeCreateFileEvent, aeApiAddEvent, Loops
<1>3. l.mask[d] \cup {AE_WRITABLE} \in Mask
  BY DEF Mask, Loops
<1>4. /\ {AE_WRITABLE} \cup l.mask[d] = l.mask[d] \cup {AE_WRITABLE}
      /\ l.watched \cup {d} = l.watched
  OBVIOUS
<1>5. /\ [l.mask EXCEPT ![d] = l.mask[d] \cup {AE_WRITABLE}] \in [Fd -> Mask]
      /\ [l.interest EXCEPT ![d] = l.mask[d] \cup {AE_WRITABLE}] \in [Fd -> Mask]
      /\ l.data \in [Fd -> Peer \cup {NoData}]
      /\ l.watched \in SUBSET Fd
  BY <1>3 DEF Loops
<1>6. t = [mask |-> [l.mask EXCEPT ![d] = l.mask[d] \cup {AE_WRITABLE}],
           data |-> l.data, watched |-> l.watched,
           interest |-> [l.interest EXCEPT ![d] = l.mask[d] \cup {AE_WRITABLE}]]
  BY <1>2, <1>4, Zenon
<1>7. /\ t.mask = [l.mask EXCEPT ![d] = l.mask[d] \cup {AE_WRITABLE}]
      /\ t.data = l.data /\ t.watched = l.watched
      /\ t.interest = [l.interest EXCEPT ![d] = l.mask[d] \cup {AE_WRITABLE}]
  <2> HIDE DEF t
  <2> QED BY <1>6
<1>8. t \in Loops
  <2> HIDE DEF t
  <2> QED BY <1>5, <1>6 DEF Loops
<1> QED
  BY <1>7, <1>8, Zenon DEF Awaits

(* Writing is no longer waited for. *)
LEMMA StopWriting ==
  ASSUME EnoughDescriptors, NEW l \in Loops, NEW d \in Fd, AE_READABLE \in l.mask[d]
  PROVE  Awaits(aeDeleteFileEvent(l, d, {AE_WRITABLE}), l, d,
                l.mask[d] \ {AE_WRITABLE})
<1> DEFINE t == aeDeleteFileEvent(l, d, {AE_WRITABLE})
<1>1. ~ (d >= setsize)
  BY LoopAssumption DEF EnoughDescriptors
<1>2. AE_READABLE # AE_WRITABLE
  BY DEF AE_READABLE, AE_WRITABLE
<1>3. l.mask[d] \ {AE_WRITABLE} # {} /\ l.mask[d] # {}
  BY <1>2
<1>4. t = [mask |-> [l.mask EXCEPT ![d] = l.mask[d] \ {AE_WRITABLE}],
           data |-> l.data, watched |-> l.watched,
           interest |-> [l.interest EXCEPT ![d] = l.mask[d] \ {AE_WRITABLE}]]
  BY <1>1, <1>3 DEF aeDeleteFileEvent, aeApiDelEvent, Loops
<1>5. l.mask[d] \ {AE_WRITABLE} \in Mask
  BY DEF Mask, Loops
<1>6. /\ [l.mask EXCEPT ![d] = l.mask[d] \ {AE_WRITABLE}] \in [Fd -> Mask]
      /\ [l.interest EXCEPT ![d] = l.mask[d] \ {AE_WRITABLE}] \in [Fd -> Mask]
      /\ l.data \in [Fd -> Peer \cup {NoData}] /\ l.watched \in SUBSET Fd
  BY <1>5 DEF Loops
<1>7. /\ t.mask = [l.mask EXCEPT ![d] = l.mask[d] \ {AE_WRITABLE}]
      /\ t.data = l.data /\ t.watched = l.watched
      /\ t.interest = [l.interest EXCEPT ![d] = l.mask[d] \ {AE_WRITABLE}]
  <2> HIDE DEF t
  <2> QED BY <1>4
<1>8. t \in Loops
  <2> HIDE DEF t
  <2> QED BY <1>4, <1>6 DEF Loops
<1> QED
  BY <1>7, <1>8, Zenon DEF Awaits

(* A descriptor is closed. *)
LEMMA CloseForgets ==
  ASSUME EnoughDescriptors, NEW l \in Loops, NEW d \in Fd
  PROVE  LET t == Close(ForgetEvents(l, d), d)
         IN /\ t \in Loops
            /\ t.mask = [l.mask EXCEPT ![d] = {}]
            /\ t.interest = [l.interest EXCEPT ![d] = {}]
            /\ t.data = l.data /\ t.watched = l.watched \ {d}
<1>1. ~ (d >= setsize)
  BY LoopAssumption DEF EnoughDescriptors
<1>2. {} \in Mask
  BY DEF Mask
<1>3. ASSUME NEW m \in Loops, NEW mask \in Mask
      PROVE  LET t == aeDeleteFileEvent(m, d, mask)
             IN /\ t \in Loops /\ t.mask = [m.mask EXCEPT ![d] = @ \ mask]
                /\ t.data = m.data /\ t.watched \cup {d} = m.watched \cup {d}
                /\ \A e \in Fd \ {d} : t.interest[e] = m.interest[e]
  <2> DEFINE t == aeDeleteFileEvent(m, d, mask)
  <2>1. CASE m.mask[d] = {}
    <3>1. t = m
      BY <2>1 DEF aeDeleteFileEvent
    <3>2. [m.mask EXCEPT ![d] = @ \ mask] = m.mask
      BY <2>1 DEF Loops
    <3> QED
      BY <3>1, <3>2
  <2>2. CASE m.mask[d] # {} /\ m.mask[d] \ mask # {}
    <3>1. t = [mask |-> [m.mask EXCEPT ![d] = m.mask[d] \ mask],
               data |-> m.data, watched |-> m.watched,
               interest |-> [m.interest EXCEPT ![d] = m.mask[d] \ mask]]
      BY <1>1, <2>2 DEF aeDeleteFileEvent, aeApiDelEvent, Loops
    <3>2. m.mask[d] \ mask \in Mask
      BY DEF Mask, Loops
    <3>3. /\ [m.mask EXCEPT ![d] = m.mask[d] \ mask] \in [Fd -> Mask]
          /\ [m.interest EXCEPT ![d] = m.mask[d] \ mask] \in [Fd -> Mask]
          /\ m.data \in [Fd -> Peer \cup {NoData}] /\ m.watched \in SUBSET Fd
          /\ \A e \in Fd \ {d} : [m.interest EXCEPT ![d] = m.mask[d] \ mask][e]
                                   = m.interest[e]
      BY <3>2 DEF Loops
    <3> QED
      BY <3>1, <3>3 DEF Loops
  <2>3. CASE m.mask[d] # {} /\ m.mask[d] \ mask = {}
    <3>1. t = [mask |-> [m.mask EXCEPT ![d] = m.mask[d] \ mask],
               data |-> m.data, watched |-> m.watched \ {d},
               interest |-> [m.interest EXCEPT ![d] = {}]]
      BY <1>1, <2>3 DEF aeDeleteFileEvent, aeApiDelEvent, Loops
    <3>2. m.mask[d] \ mask \in Mask
      BY DEF Mask, Loops
    <3>3. /\ [m.mask EXCEPT ![d] = m.mask[d] \ mask] \in [Fd -> Mask]
          /\ [m.interest EXCEPT ![d] = {}] \in [Fd -> Mask]
          /\ m.data \in [Fd -> Peer \cup {NoData}] /\ m.watched \ {d} \in SUBSET Fd
          /\ \A e \in Fd \ {d} : [m.interest EXCEPT ![d] = {}][e] = m.interest[e]
          /\ (m.watched \ {d}) \cup {d} = m.watched \cup {d}
      BY <1>2, <3>2 DEF Loops
    <3> QED
      BY <3>1, <3>3 DEF Loops
  <2> QED
    BY <2>1, <2>2, <2>3
<1>4. {AE_READABLE} \in Mask /\ {AE_WRITABLE} \in Mask
  BY DEF Mask
<1> DEFINE a == aeDeleteFileEvent(l, d, {AE_READABLE})
           b == aeDeleteFileEvent(a, d, {AE_WRITABLE})
<1>5. /\ a \in Loops /\ a.mask = [l.mask EXCEPT ![d] = @ \ {AE_READABLE}]
      /\ a.data = l.data /\ a.watched \cup {d} = l.watched \cup {d}
      /\ \A e \in Fd \ {d} : a.interest[e] = l.interest[e]
  BY <1>3, <1>4
<1> HIDE DEF a
<1>6. /\ b \in Loops /\ b.mask = [a.mask EXCEPT ![d] = @ \ {AE_WRITABLE}]
      /\ b.data = a.data /\ b.watched \cup {d} = a.watched \cup {d}
      /\ \A e \in Fd \ {d} : b.interest[e] = a.interest[e]
  BY <1>3, <1>4, <1>5
<1> HIDE DEF b
<1>7. l.mask[d] \subseteq {AE_READABLE, AE_WRITABLE}
  BY DEF Mask, Loops
<1>8. b.mask = [l.mask EXCEPT ![d] = {}]
  BY <1>5, <1>6, <1>7 DEF Loops
<1>9. Close(b, d) = [mask |-> b.mask, data |-> b.data, watched |-> b.watched \ {d},
                     interest |-> [b.interest EXCEPT ![d] = {}]]
  <2>1. ASSUME NEW m \in Loops
        PROVE  Close(m, d) \in [mask : {m.mask}, data : {m.data},
                 watched : {m.watched \ {d}}, interest : {[m.interest EXCEPT ![d] = {}]}]
    BY DEF Close, Loops
  <2>2. Close(b, d) \in [mask : {b.mask}, data : {b.data},
          watched : {b.watched \ {d}}, interest : {[b.interest EXCEPT ![d] = {}]}]
    BY <1>6, <2>1, Zenon
  <2> QED
    BY <2>2
<1>10. b.watched \ {d} = l.watched \ {d}
  <2>1. b.watched \cup {d} = l.watched \cup {d}
    BY <1>5, <1>6
  <2>2. (b.watched \cup {d}) \ {d} = b.watched \ {d} /\ (l.watched \cup {d}) \ {d} = l.watched \ {d}
    OBVIOUS
  <2> QED
    BY <2>1, <2>2
<1>11. [b.interest EXCEPT ![d] = {}] = [l.interest EXCEPT ![d] = {}]
  <2>1. b.interest \in [Fd -> Mask] /\ l.interest \in [Fd -> Mask]
    BY <1>6 DEF Loops
  <2>2. \A e \in Fd \ {d} : b.interest[e] = l.interest[e]
    BY <1>5, <1>6
  <2> QED
    BY <2>1, <2>2
<1>12. /\ [l.interest EXCEPT ![d] = {}] \in [Fd -> Mask] /\ b.mask \in [Fd -> Mask]
       /\ l.data \in [Fd -> Peer \cup {NoData}] /\ l.watched \ {d} \in SUBSET Fd
  BY <1>2, <1>6 DEF Loops
<1>13. ForgetEvents(l, d) = b
  BY DEF ForgetEvents, a, b
<1>14. Close(ForgetEvents(l, d), d)
         = [mask |-> [l.mask EXCEPT ![d] = {}], data |-> l.data,
            watched |-> l.watched \ {d}, interest |-> [l.interest EXCEPT ![d] = {}]]
  BY <1>5, <1>6, <1>8, <1>9, <1>10, <1>11, <1>13, Zenon
<1> QED
  BY <1>8, <1>12, <1>14 DEF Loops

-----------------------------------------------------------------------------
(* One client *)

(* A flag is put up: nothing else of the client changes. *)
LEMMA FlagKeeps ==
  ASSUME NEW c, WellKept(c), NEW f \in Flags
  PROVE  /\ WellKept(Flag(c, f)) /\ Flag(c, f).flags = c.flags \cup {f}
         /\ Owes(Flag(c, f)) <=> Owes(c)
<1>1. /\ DOMAIN Flag(c, f) = ClientFields /\ Flag(c, f).flags = c.flags \cup {f}
      /\ \A x \in ClientFields \ {"flags"} : Flag(c, f)[x] = c[x]
  BY DEF Flag, WellKept, Kept, ClientFields
<1>2. WellKept(Flag(c, f))
  BY <1>1 DEF WellKept, Kept, ClientFields
<1> QED
  BY <1>1, <1>2 DEF Owes, clientHasPendingReplies, ClientFields

(* A flag is taken down. *)
LEMMA UnflagKeeps ==
  ASSUME NEW c, WellKept(c), NEW f, f # "CLOSE_AFTER_REPLY"
  PROVE  /\ WellKept(Unflag(c, f)) /\ Unflag(c, f).flags = c.flags \ {f}
         /\ Owes(Unflag(c, f)) <=> Owes(c)
<1>1. /\ DOMAIN Unflag(c, f) = ClientFields /\ Unflag(c, f).flags = c.flags \ {f}
      /\ \A x \in ClientFields \ {"flags"} : Unflag(c, f)[x] = c[x]
  BY DEF Unflag, WellKept, Kept, ClientFields
<1>2. WellKept(Unflag(c, f))
  BY <1>1 DEF WellKept, Kept, ClientFields
<1> QED
  BY <1>1, <1>2 DEF Owes, clientHasPendingReplies, ClientFields

(* A client that has just come has nothing to wait for. *)
LEMMA NewClientKept ==
  WellKept(NewClient) /\ NewClient.flags = {} /\ ~ Owes(NewClient)
<1>1. MaxMultibulk \in Nat /\ PROTO_REPLY_CHUNK_BYTES \in Nat /\ REPLY_BLOCK_HEADER \in Nat
  BY BufferAssumption
<1>2. 0 * BlockSize = 0
  BY <1>1 DEF BlockSize
<1> QED
  BY <1>1, <1>2 DEF NewClient, WellKept, Kept, ClientFields, Owes, clientHasPendingReplies

-----------------------------------------------------------------------------
(* Folds: what the recursion goes through, round by round.  An operator     *)
(* cannot be a parameter of a lemma, so each of them has its own.          *)

(* The largest of the first natural numbers. *)
LEMMA MaxOfRange ==
  ASSUME NEW T, NEW k \in Nat \ {0}, T \subseteq 1..k, k \in T
  PROVE  Max(T) = k
<1>1. \A y \in T : y <= k
  OBVIOUS
<1>2. \A x \in T : (\A y \in T : x >= y) => x = k
  OBVIOUS
<1> QED
  BY <1>1, <1>2 DEF Max

\* The list of those to be closed is emptied.
NoneToClose(s) == [s EXCEPT !.to_close = <<>>]

(* Those due are dealt with one after the other. *)
LEMMA FoldDue ==
  ASSUME NEW s, NEW n \in Nat, DOMAIN s.pending = 1..n
  PROVE  \E g : /\ g[0] = [s EXCEPT !.pending = <<>>]
                /\ \A k \in 1..n : g[k] = HandlePendingWrite(g[k - 1], s.pending[k])
                /\ handleClientsWithPendingWrites(s) = g[n]
<1> DEFINE base == [s EXCEPT !.pending = <<>>]
           list == s.pending
           Step(f, T) == IF T = {} THEN base
                         ELSE HandlePendingWrite(f[T \ {Max(T)}], list[Max(T)])
           Steps(f, D) == f = [T \in SUBSET D |-> Step(f, T)]
           Has == {k \in Nat : \E f : Steps(f, 1..k)}
           iter == CHOOSE f : Steps(f, 1..n)
<1>1. handleClientsWithPendingWrites(s) = iter[1..n]
  BY DEF FoldLeft, MapThenFoldSet, handleClientsWithPendingWrites
<1> HIDE DEF base, list
<1>2. 0 \in Has
  <2>1. Steps([T \in SUBSET (1..0) |-> base], 1..0)
    <3>1. \A T \in SUBSET (1..0) : T = {}
      OBVIOUS
    <3> QED
      BY <3>1, Zenon
  <2> QED
    BY <2>1
<1>3. ASSUME NEW k \in Nat, k \in Has
      PROVE  k + 1 \in Has
  <2>1. PICK f : Steps(f, 1..k)
    BY <1>3
  <2> DEFINE h == [T \in SUBSET (1..k + 1) |->
                     IF k + 1 \in T
                       THEN HandlePendingWrite(f[T \ {k + 1}], list[k + 1])
                       ELSE f[T]]
  <2>2. ASSUME NEW T \in SUBSET (1..k + 1)
        PROVE  h[T] = Step(h, T)
    <3>1. CASE k + 1 \in T
      <4>1. Max(T) = k + 1
        <5>1. k + 1 \in Nat \ {0} /\ T \subseteq 1..k + 1
          OBVIOUS
        <5> QED
          BY <3>1, <5>1, MaxOfRange, Zenon
      <4>2. T # {} /\ T \ {k + 1} \in SUBSET (1..k + 1) /\ k + 1 \notin T \ {k + 1}
        BY <3>1
      <4>3. h[T \ {k + 1}] = f[T \ {k + 1}]
        BY <4>2, Zenon
      <4> QED
        BY <3>1, <4>1, <4>2, <4>3, Zenon
    <3>2. CASE k + 1 \notin T
      <4>1. T \in SUBSET (1..k)
        BY <3>2
      <4>2. h[T] = f[T] /\ f[T] = Step(f, T)
        BY <2>1, <3>2, <4>1, Zenon
      <4>3. T # {} => /\ T \ {Max(T)} \in SUBSET (1..k + 1)
                      /\ k + 1 \notin T \ {Max(T)}
        BY <3>2
      <4>4. T # {} => h[T \ {Max(T)}] = f[T \ {Max(T)}]
        BY <4>3, Zenon
      <4> QED
        BY <4>2, <4>4, Zenon
    <3> QED
      BY <3>1, <3>2
  <2>3. Steps(h, 1..k + 1)
    BY <2>2, Zenon
  <2>4. k + 1 \in Nat
    OBVIOUS
  <2> QED
    BY <2>3, <2>4, Zenon
<1>4. Steps(iter, 1..n)
  <2>1. n \in Has
    <3> HIDE DEF Has
    <3> QED BY <1>2, <1>3, NaturalsInSet
  <2> QED
    BY <2>1, Zenon
<1>5. iter[1..0] = base
  BY <1>4, 1..0 = {}, Zenon
<1>6. ASSUME NEW k \in 1..n
      PROVE  iter[1..k] = HandlePendingWrite(iter[1..k - 1], list[k])
  <2>1. /\ 1..k \in SUBSET (1..n) /\ k \in 1..k /\ k \in Nat \ {0}
        /\ (1..k) \ {k} = 1..k - 1 /\ 1..k \subseteq 1..k
    <3> HIDE DEF iter
    <3> QED OBVIOUS
  <2>2. Max(1..k) = k
    BY <2>1, MaxOfRange, Zenon
  <2> QED
    BY <1>4, <2>1, <2>2, Zenon
<1> DEFINE g == [k \in 0..n |-> iter[1..k]]
<1> QED
  <2> HIDE DEF iter
  <2>1. g[0] = base /\ g[n] = iter[1..n]
    BY <1>5
  <2>2. ASSUME NEW k \in 1..n
        PROVE  g[k] = HandlePendingWrite(g[k - 1], list[k])
    <3>1. k \in 0..n /\ k - 1 \in 0..n
      OBVIOUS
    <3>2. g[k] = iter[1..k] /\ g[k - 1] = iter[1..k - 1]
      BY <3>1, Zenon
    <3> QED
      BY <3>2, <1>6, Zenon
  <2> QED
    BY <1>1, <2>1, <2>2 DEF base, list

(* Those to be closed are freed one after the other. *)
LEMMA FoldFree ==
  ASSUME NEW s, NEW n \in Nat, DOMAIN s.to_close = 1..n
  PROVE  \E g : /\ g[0] = s
                /\ \A k \in 1..n : g[k] = freeClient(g[k - 1], s.to_close[k])
                /\ freeClientsInAsyncFreeQueue(s) = NoneToClose(g[n])
<1> DEFINE base == s
           list == s.to_close
           Step(f, T) == IF T = {} THEN base
                         ELSE freeClient(f[T \ {Max(T)}], list[Max(T)])
           Steps(f, D) == f = [T \in SUBSET D |-> Step(f, T)]
           Has == {k \in Nat : \E f : Steps(f, 1..k)}
           iter == CHOOSE f : Steps(f, 1..n)
<1>1. freeClientsInAsyncFreeQueue(s) = NoneToClose(iter[1..n])
  BY DEF FoldLeft, MapThenFoldSet, freeClientsInAsyncFreeQueue, NoneToClose
<1> HIDE DEF base, list
<1>2. 0 \in Has
  <2>1. Steps([T \in SUBSET (1..0) |-> base], 1..0)
    <3>1. \A T \in SUBSET (1..0) : T = {}
      OBVIOUS
    <3> QED
      BY <3>1, Zenon
  <2> QED
    BY <2>1
<1>3. ASSUME NEW k \in Nat, k \in Has
      PROVE  k + 1 \in Has
  <2>1. PICK f : Steps(f, 1..k)
    BY <1>3
  <2> DEFINE h == [T \in SUBSET (1..k + 1) |->
                     IF k + 1 \in T
                       THEN freeClient(f[T \ {k + 1}], list[k + 1])
                       ELSE f[T]]
  <2>2. ASSUME NEW T \in SUBSET (1..k + 1)
        PROVE  h[T] = Step(h, T)
    <3>1. CASE k + 1 \in T
      <4>1. Max(T) = k + 1
        <5>1. k + 1 \in Nat \ {0} /\ T \subseteq 1..k + 1
          OBVIOUS
        <5> QED
          BY <3>1, <5>1, MaxOfRange, Zenon
      <4>2. T # {} /\ T \ {k + 1} \in SUBSET (1..k + 1) /\ k + 1 \notin T \ {k + 1}
        BY <3>1
      <4>3. h[T \ {k + 1}] = f[T \ {k + 1}]
        BY <4>2, Zenon
      <4> QED
        BY <3>1, <4>1, <4>2, <4>3, Zenon
    <3>2. CASE k + 1 \notin T
      <4>1. T \in SUBSET (1..k)
        BY <3>2
      <4>2. h[T] = f[T] /\ f[T] = Step(f, T)
        BY <2>1, <3>2, <4>1, Zenon
      <4>3. T # {} => /\ T \ {Max(T)} \in SUBSET (1..k + 1)
                      /\ k + 1 \notin T \ {Max(T)}
        BY <3>2
      <4>4. T # {} => h[T \ {Max(T)}] = f[T \ {Max(T)}]
        BY <4>3, Zenon
      <4> QED
        BY <4>2, <4>4, Zenon
    <3> QED
      BY <3>1, <3>2
  <2>3. Steps(h, 1..k + 1)
    BY <2>2, Zenon
  <2>4. k + 1 \in Nat
    OBVIOUS
  <2> QED
    BY <2>3, <2>4, Zenon
<1>4. Steps(iter, 1..n)
  <2>1. n \in Has
    <3> HIDE DEF Has
    <3> QED BY <1>2, <1>3, NaturalsInSet
  <2> QED
    BY <2>1, Zenon
<1>5. iter[1..0] = base
  BY <1>4, 1..0 = {}, Zenon
<1>6. ASSUME NEW k \in 1..n
      PROVE  iter[1..k] = freeClient(iter[1..k - 1], list[k])
  <2>1. /\ 1..k \in SUBSET (1..n) /\ k \in 1..k /\ k \in Nat \ {0}
        /\ (1..k) \ {k} = 1..k - 1 /\ 1..k \subseteq 1..k
    <3> HIDE DEF iter
    <3> QED OBVIOUS
  <2>2. Max(1..k) = k
    BY <2>1, MaxOfRange, Zenon
  <2> QED
    BY <1>4, <2>1, <2>2, Zenon
<1> DEFINE g == [k \in 0..n |-> iter[1..k]]
<1> QED
  <2> HIDE DEF iter
  <2>1. g[0] = base /\ g[n] = iter[1..n]
    BY <1>5
  <2>2. ASSUME NEW k \in 1..n
        PROVE  g[k] = freeClient(g[k - 1], list[k])
    <3>1. k \in 0..n /\ k - 1 \in 0..n
      OBVIOUS
    <3>2. g[k] = iter[1..k] /\ g[k - 1] = iter[1..k - 1]
      BY <3>1, Zenon
    <3> QED
      BY <3>2, <1>6, Zenon
  <2> QED
    BY <1>1, <2>1, <2>2 DEF base, list

(* What a client is owed is written piece by piece. *)
LEMMA FoldWrites ==
  ASSUME NEW c, NEW room_, NEW n \in Nat, DOMAIN [i \in 1..Len(c.reply) + 2 |-> i] = 1..n
  PROVE  \E g : /\ g[0] = [client |-> c, room |-> room_, sent |-> <<>>, nwritten |-> 0]
                /\ \A k \in 1..n : g[k] = WriteOnce(g[k - 1])
                /\ WriteAll(c, room_) = g[n]
<1> DEFINE base == [client |-> c, room |-> room_, sent |-> <<>>, nwritten |-> 0]
           list == [i \in 1..Len(c.reply) + 2 |-> i]
           Step(f, T) == IF T = {} THEN base
                         ELSE WriteOnce(f[T \ {Max(T)}])
           Steps(f, D) == f = [T \in SUBSET D |-> Step(f, T)]
           Has == {k \in Nat : \E f : Steps(f, 1..k)}
           iter == CHOOSE f : Steps(f, 1..n)
<1>1. WriteAll(c, room_) = iter[1..n]
  BY DEF FoldLeft, MapThenFoldSet, WriteAll
<1> HIDE DEF base, list
<1>2. 0 \in Has
  <2>1. Steps([T \in SUBSET (1..0) |-> base], 1..0)
    <3>1. \A T \in SUBSET (1..0) : T = {}
      OBVIOUS
    <3> QED
      BY <3>1, Zenon
  <2> QED
    BY <2>1
<1>3. ASSUME NEW k \in Nat, k \in Has
      PROVE  k + 1 \in Has
  <2>1. PICK f : Steps(f, 1..k)
    BY <1>3
  <2> DEFINE h == [T \in SUBSET (1..k + 1) |->
                     IF k + 1 \in T
                       THEN WriteOnce(f[T \ {k + 1}])
                       ELSE f[T]]
  <2>2. ASSUME NEW T \in SUBSET (1..k + 1)
        PROVE  h[T] = Step(h, T)
    <3>1. CASE k + 1 \in T
      <4>1. Max(T) = k + 1
        <5>1. k + 1 \in Nat \ {0} /\ T \subseteq 1..k + 1
          OBVIOUS
        <5> QED
          BY <3>1, <5>1, MaxOfRange, Zenon
      <4>2. T # {} /\ T \ {k + 1} \in SUBSET (1..k + 1) /\ k + 1 \notin T \ {k + 1}
        BY <3>1
      <4>3. h[T \ {k + 1}] = f[T \ {k + 1}]
        BY <4>2, Zenon
      <4> QED
        BY <3>1, <4>1, <4>2, <4>3, Zenon
    <3>2. CASE k + 1 \notin T
      <4>1. T \in SUBSET (1..k)
        BY <3>2
      <4>2. h[T] = f[T] /\ f[T] = Step(f, T)
        BY <2>1, <3>2, <4>1, Zenon
      <4>3. T # {} => /\ T \ {Max(T)} \in SUBSET (1..k + 1)
                      /\ k + 1 \notin T \ {Max(T)}
        BY <3>2
      <4>4. T # {} => h[T \ {Max(T)}] = f[T \ {Max(T)}]
        BY <4>3, Zenon
      <4> QED
        BY <4>2, <4>4, Zenon
    <3> QED
      BY <3>1, <3>2
  <2>3. Steps(h, 1..k + 1)
    BY <2>2, Zenon
  <2>4. k + 1 \in Nat
    OBVIOUS
  <2> QED
    BY <2>3, <2>4, Zenon
<1>4. Steps(iter, 1..n)
  <2>1. n \in Has
    <3> HIDE DEF Has
    <3> QED BY <1>2, <1>3, NaturalsInSet
  <2> QED
    BY <2>1, Zenon
<1>5. iter[1..0] = base
  BY <1>4, 1..0 = {}, Zenon
<1>6. ASSUME NEW k \in 1..n
      PROVE  iter[1..k] = WriteOnce(iter[1..k - 1])
  <2>1. /\ 1..k \in SUBSET (1..n) /\ k \in 1..k /\ k \in Nat \ {0}
        /\ (1..k) \ {k} = 1..k - 1 /\ 1..k \subseteq 1..k
    <3> HIDE DEF iter
    <3> QED OBVIOUS
  <2>2. Max(1..k) = k
    BY <2>1, MaxOfRange, Zenon
  <2> QED
    BY <1>4, <2>1, <2>2, Zenon
<1> DEFINE g == [k \in 0..n |-> iter[1..k]]
<1> QED
  <2> HIDE DEF iter
  <2>1. g[0] = base /\ g[n] = iter[1..n]
    BY <1>5
  <2>2. ASSUME NEW k \in 1..n
        PROVE  g[k] = WriteOnce(g[k - 1])
    <3>1. k \in 0..n /\ k - 1 \in 0..n
      OBVIOUS
    <3>2. g[k] = iter[1..k] /\ g[k - 1] = iter[1..k - 1]
      BY <3>1, Zenon
    <3> QED
      BY <3>2, <1>6, Zenon
  <2> QED
    BY <1>1, <2>1, <2>2 DEF base, list

(* The pieces of a reply are added one after the other. *)
LEMMA FoldReplies ==
  ASSUME NEW c, NEW pieces, NEW n \in Nat, DOMAIN pieces = 1..n
  PROVE  \E g : /\ g[0] = c
                /\ \A k \in 1..n : g[k] = addReplyProto(g[k - 1], pieces[k])
                /\ AddReply(c, pieces) = g[n]
<1> DEFINE base == c
           list == pieces
           Step(f, T) == IF T = {} THEN base
                         ELSE addReplyProto(f[T \ {Max(T)}], list[Max(T)])
           Steps(f, D) == f = [T \in SUBSET D |-> Step(f, T)]
           Has == {k \in Nat : \E f : Steps(f, 1..k)}
           iter == CHOOSE f : Steps(f, 1..n)
<1>1. AddReply(c, pieces) = iter[1..n]
  BY DEF FoldLeft, MapThenFoldSet, AddReply
<1> HIDE DEF base, list
<1>2. 0 \in Has
  <2>1. Steps([T \in SUBSET (1..0) |-> base], 1..0)
    <3>1. \A T \in SUBSET (1..0) : T = {}
      OBVIOUS
    <3> QED
      BY <3>1, Zenon
  <2> QED
    BY <2>1
<1>3. ASSUME NEW k \in Nat, k \in Has
      PROVE  k + 1 \in Has
  <2>1. PICK f : Steps(f, 1..k)
    BY <1>3
  <2> DEFINE h == [T \in SUBSET (1..k + 1) |->
                     IF k + 1 \in T
                       THEN addReplyProto(f[T \ {k + 1}], list[k + 1])
                       ELSE f[T]]
  <2>2. ASSUME NEW T \in SUBSET (1..k + 1)
        PROVE  h[T] = Step(h, T)
    <3>1. CASE k + 1 \in T
      <4>1. Max(T) = k + 1
        <5>1. k + 1 \in Nat \ {0} /\ T \subseteq 1..k + 1
          OBVIOUS
        <5> QED
          BY <3>1, <5>1, MaxOfRange, Zenon
      <4>2. T # {} /\ T \ {k + 1} \in SUBSET (1..k + 1) /\ k + 1 \notin T \ {k + 1}
        BY <3>1
      <4>3. h[T \ {k + 1}] = f[T \ {k + 1}]
        BY <4>2, Zenon
      <4> QED
        BY <3>1, <4>1, <4>2, <4>3, Zenon
    <3>2. CASE k + 1 \notin T
      <4>1. T \in SUBSET (1..k)
        BY <3>2
      <4>2. h[T] = f[T] /\ f[T] = Step(f, T)
        BY <2>1, <3>2, <4>1, Zenon
      <4>3. T # {} => /\ T \ {Max(T)} \in SUBSET (1..k + 1)
                      /\ k + 1 \notin T \ {Max(T)}
        BY <3>2
      <4>4. T # {} => h[T \ {Max(T)}] = f[T \ {Max(T)}]
        BY <4>3, Zenon
      <4> QED
        BY <4>2, <4>4, Zenon
    <3> QED
      BY <3>1, <3>2
  <2>3. Steps(h, 1..k + 1)
    BY <2>2, Zenon
  <2>4. k + 1 \in Nat
    OBVIOUS
  <2> QED
    BY <2>3, <2>4, Zenon
<1>4. Steps(iter, 1..n)
  <2>1. n \in Has
    <3> HIDE DEF Has
    <3> QED BY <1>2, <1>3, NaturalsInSet
  <2> QED
    BY <2>1, Zenon
<1>5. iter[1..0] = base
  BY <1>4, 1..0 = {}, Zenon
<1>6. ASSUME NEW k \in 1..n
      PROVE  iter[1..k] = addReplyProto(iter[1..k - 1], list[k])
  <2>1. /\ 1..k \in SUBSET (1..n) /\ k \in 1..k /\ k \in Nat \ {0}
        /\ (1..k) \ {k} = 1..k - 1 /\ 1..k \subseteq 1..k
    <3> HIDE DEF iter
    <3> QED OBVIOUS
  <2>2. Max(1..k) = k
    BY <2>1, MaxOfRange, Zenon
  <2> QED
    BY <1>4, <2>1, <2>2, Zenon
<1> DEFINE g == [k \in 0..n |-> iter[1..k]]
<1> QED
  <2> HIDE DEF iter
  <2>1. g[0] = base /\ g[n] = iter[1..n]
    BY <1>5
  <2>2. ASSUME NEW k \in 1..n
        PROVE  g[k] = addReplyProto(g[k - 1], list[k])
    <3>1. k \in 0..n /\ k - 1 \in 0..n
      OBVIOUS
    <3>2. g[k] = iter[1..k] /\ g[k - 1] = iter[1..k - 1]
      BY <3>1, Zenon
    <3> QED
      BY <3>2, <1>6, Zenon
  <2> QED
    BY <1>1, <2>1, <2>2 DEF base, list

(* The arguments of a command are parsed round by round. *)
LEMMA FoldArguments ==
  ASSUME NEW c, NEW n \in Nat, DOMAIN [i \in 1..MaxMultibulk + 1 |-> i] = 1..n
  PROVE  \E g : /\ g[0] = (IF c.multibulklen = 0 THEN MultibulkLength(c) ELSE More(c))
                /\ \A k \in 1..n : g[k] = NextArgument(g[k - 1])
                /\ processMultibulkBuffer(c) = g[n]
<1> DEFINE base == (IF c.multibulklen = 0 THEN MultibulkLength(c) ELSE More(c))
           list == [i \in 1..MaxMultibulk + 1 |-> i]
           Step(f, T) == IF T = {} THEN base
                         ELSE NextArgument(f[T \ {Max(T)}])
           Steps(f, D) == f = [T \in SUBSET D |-> Step(f, T)]
           Has == {k \in Nat : \E f : Steps(f, 1..k)}
           iter == CHOOSE f : Steps(f, 1..n)
<1>1. processMultibulkBuffer(c) = iter[1..n]
  BY DEF FoldLeft, MapThenFoldSet, processMultibulkBuffer
<1> HIDE DEF base, list
<1>2. 0 \in Has
  <2>1. Steps([T \in SUBSET (1..0) |-> base], 1..0)
    <3>1. \A T \in SUBSET (1..0) : T = {}
      OBVIOUS
    <3> QED
      BY <3>1, Zenon
  <2> QED
    BY <2>1
<1>3. ASSUME NEW k \in Nat, k \in Has
      PROVE  k + 1 \in Has
  <2>1. PICK f : Steps(f, 1..k)
    BY <1>3
  <2> DEFINE h == [T \in SUBSET (1..k + 1) |->
                     IF k + 1 \in T
                       THEN NextArgument(f[T \ {k + 1}])
                       ELSE f[T]]
  <2>2. ASSUME NEW T \in SUBSET (1..k + 1)
        PROVE  h[T] = Step(h, T)
    <3>1. CASE k + 1 \in T
      <4>1. Max(T) = k + 1
        <5>1. k + 1 \in Nat \ {0} /\ T \subseteq 1..k + 1
          OBVIOUS
        <5> QED
          BY <3>1, <5>1, MaxOfRange, Zenon
      <4>2. T # {} /\ T \ {k + 1} \in SUBSET (1..k + 1) /\ k + 1 \notin T \ {k + 1}
        BY <3>1
      <4>3. h[T \ {k + 1}] = f[T \ {k + 1}]
        BY <4>2, Zenon
      <4> QED
        BY <3>1, <4>1, <4>2, <4>3, Zenon
    <3>2. CASE k + 1 \notin T
      <4>1. T \in SUBSET (1..k)
        BY <3>2
      <4>2. h[T] = f[T] /\ f[T] = Step(f, T)
        BY <2>1, <3>2, <4>1, Zenon
      <4>3. T # {} => /\ T \ {Max(T)} \in SUBSET (1..k + 1)
                      /\ k + 1 \notin T \ {Max(T)}
        BY <3>2
      <4>4. T # {} => h[T \ {Max(T)}] = f[T \ {Max(T)}]
        BY <4>3, Zenon
      <4> QED
        BY <4>2, <4>4, Zenon
    <3> QED
      BY <3>1, <3>2
  <2>3. Steps(h, 1..k + 1)
    BY <2>2, Zenon
  <2>4. k + 1 \in Nat
    OBVIOUS
  <2> QED
    BY <2>3, <2>4, Zenon
<1>4. Steps(iter, 1..n)
  <2>1. n \in Has
    <3> HIDE DEF Has
    <3> QED BY <1>2, <1>3, NaturalsInSet
  <2> QED
    BY <2>1, Zenon
<1>5. iter[1..0] = base
  BY <1>4, 1..0 = {}, Zenon
<1>6. ASSUME NEW k \in 1..n
      PROVE  iter[1..k] = NextArgument(iter[1..k - 1])
  <2>1. /\ 1..k \in SUBSET (1..n) /\ k \in 1..k /\ k \in Nat \ {0}
        /\ (1..k) \ {k} = 1..k - 1 /\ 1..k \subseteq 1..k
    <3> HIDE DEF iter
    <3> QED OBVIOUS
  <2>2. Max(1..k) = k
    BY <2>1, MaxOfRange, Zenon
  <2> QED
    BY <1>4, <2>1, <2>2, Zenon
<1> DEFINE g == [k \in 0..n |-> iter[1..k]]
<1> QED
  <2> HIDE DEF iter
  <2>1. g[0] = base /\ g[n] = iter[1..n]
    BY <1>5
  <2>2. ASSUME NEW k \in 1..n
        PROVE  g[k] = NextArgument(g[k - 1])
    <3>1. k \in 0..n /\ k - 1 \in 0..n
      OBVIOUS
    <3>2. g[k] = iter[1..k] /\ g[k - 1] = iter[1..k - 1]
      BY <3>1, Zenon
    <3> QED
      BY <3>2, <1>6, Zenon
  <2> QED
    BY <1>1, <2>1, <2>2 DEF base, list

(* What has been read is parsed command by command. *)
LEMMA FoldCommands ==
  ASSUME NEW c, NEW n \in Nat, DOMAIN [i \in 1..Len(c.querybuf) |-> i] = 1..n
  PROVE  \E g : /\ g[0] = More(c)
                /\ \A k \in 1..n : g[k] = NextCommand(g[k - 1])
                /\ processInputBuffer(c) = Trimmed(g[n].client)
<1> DEFINE base == More(c)
           list == [i \in 1..Len(c.querybuf) |-> i]
           Step(f, T) == IF T = {} THEN base
                         ELSE NextCommand(f[T \ {Max(T)}])
           Steps(f, D) == f = [T \in SUBSET D |-> Step(f, T)]
           Has == {k \in Nat : \E f : Steps(f, 1..k)}
           iter == CHOOSE f : Steps(f, 1..n)
<1>1. processInputBuffer(c) = Trimmed(iter[1..n].client)
  BY DEF FoldLeft, MapThenFoldSet, processInputBuffer
<1> HIDE DEF base, list
<1>2. 0 \in Has
  <2>1. Steps([T \in SUBSET (1..0) |-> base], 1..0)
    <3>1. \A T \in SUBSET (1..0) : T = {}
      OBVIOUS
    <3> QED
      BY <3>1, Zenon
  <2> QED
    BY <2>1
<1>3. ASSUME NEW k \in Nat, k \in Has
      PROVE  k + 1 \in Has
  <2>1. PICK f : Steps(f, 1..k)
    BY <1>3
  <2> DEFINE h == [T \in SUBSET (1..k + 1) |->
                     IF k + 1 \in T
                       THEN NextCommand(f[T \ {k + 1}])
                       ELSE f[T]]
  <2>2. ASSUME NEW T \in SUBSET (1..k + 1)
        PROVE  h[T] = Step(h, T)
    <3>1. CASE k + 1 \in T
      <4>1. Max(T) = k + 1
        <5>1. k + 1 \in Nat \ {0} /\ T \subseteq 1..k + 1
          OBVIOUS
        <5> QED
          BY <3>1, <5>1, MaxOfRange, Zenon
      <4>2. T # {} /\ T \ {k + 1} \in SUBSET (1..k + 1) /\ k + 1 \notin T \ {k + 1}
        BY <3>1
      <4>3. h[T \ {k + 1}] = f[T \ {k + 1}]
        BY <4>2, Zenon
      <4> QED
        BY <3>1, <4>1, <4>2, <4>3, Zenon
    <3>2. CASE k + 1 \notin T
      <4>1. T \in SUBSET (1..k)
        BY <3>2
      <4>2. h[T] = f[T] /\ f[T] = Step(f, T)
        BY <2>1, <3>2, <4>1, Zenon
      <4>3. T # {} => /\ T \ {Max(T)} \in SUBSET (1..k + 1)
                      /\ k + 1 \notin T \ {Max(T)}
        BY <3>2
      <4>4. T # {} => h[T \ {Max(T)}] = f[T \ {Max(T)}]
        BY <4>3, Zenon
      <4> QED
        BY <4>2, <4>4, Zenon
    <3> QED
      BY <3>1, <3>2
  <2>3. Steps(h, 1..k + 1)
    BY <2>2, Zenon
  <2>4. k + 1 \in Nat
    OBVIOUS
  <2> QED
    BY <2>3, <2>4, Zenon
<1>4. Steps(iter, 1..n)
  <2>1. n \in Has
    <3> HIDE DEF Has
    <3> QED BY <1>2, <1>3, NaturalsInSet
  <2> QED
    BY <2>1, Zenon
<1>5. iter[1..0] = base
  BY <1>4, 1..0 = {}, Zenon
<1>6. ASSUME NEW k \in 1..n
      PROVE  iter[1..k] = NextCommand(iter[1..k - 1])
  <2>1. /\ 1..k \in SUBSET (1..n) /\ k \in 1..k /\ k \in Nat \ {0}
        /\ (1..k) \ {k} = 1..k - 1 /\ 1..k \subseteq 1..k
    <3> HIDE DEF iter
    <3> QED OBVIOUS
  <2>2. Max(1..k) = k
    BY <2>1, MaxOfRange, Zenon
  <2> QED
    BY <1>4, <2>1, <2>2, Zenon
<1> DEFINE g == [k \in 0..n |-> iter[1..k]]
<1> QED
  <2> HIDE DEF iter
  <2>1. g[0] = base /\ g[n] = iter[1..n]
    BY <1>5
  <2>2. ASSUME NEW k \in 1..n
        PROVE  g[k] = NextCommand(g[k - 1])
    <3>1. k \in 0..n /\ k - 1 \in 0..n
      OBVIOUS
    <3>2. g[k] = iter[1..k] /\ g[k - 1] = iter[1..k - 1]
      BY <3>1, Zenon
    <3> QED
      BY <3>2, <1>6, Zenon
  <2> QED
    BY <1>1, <2>1, <2>2 DEF base, list

(* The digits of a number are read one after the other. *)
LEMMA FoldDigits ==
  ASSUME NEW s, NEW n \in Nat, DOMAIN Tail(s) = 1..n
  PROVE  \E g : /\ g[0] = Head(s) - 48
                /\ \A k \in 1..n : g[k] = NextDigit(g[k - 1], Tail(s)[k])
                /\ Digits(s) = g[n]
<1> DEFINE base == Head(s) - 48
           list == Tail(s)
           Step(f, T) == IF T = {} THEN base
                         ELSE NextDigit(f[T \ {Max(T)}], list[Max(T)])
           Steps(f, D) == f = [T \in SUBSET D |-> Step(f, T)]
           Has == {k \in Nat : \E f : Steps(f, 1..k)}
           iter == CHOOSE f : Steps(f, 1..n)
<1>1. Digits(s) = iter[1..n]
  BY DEF FoldLeft, MapThenFoldSet, Digits
<1> HIDE DEF base, list
<1>2. 0 \in Has
  <2>1. Steps([T \in SUBSET (1..0) |-> base], 1..0)
    <3>1. \A T \in SUBSET (1..0) : T = {}
      OBVIOUS
    <3> QED
      BY <3>1, Zenon
  <2> QED
    BY <2>1
<1>3. ASSUME NEW k \in Nat, k \in Has
      PROVE  k + 1 \in Has
  <2>1. PICK f : Steps(f, 1..k)
    BY <1>3
  <2> DEFINE h == [T \in SUBSET (1..k + 1) |->
                     IF k + 1 \in T
                       THEN NextDigit(f[T \ {k + 1}], list[k + 1])
                       ELSE f[T]]
  <2>2. ASSUME NEW T \in SUBSET (1..k + 1)
        PROVE  h[T] = Step(h, T)
    <3>1. CASE k + 1 \in T
      <4>1. Max(T) = k + 1
        <5>1. k + 1 \in Nat \ {0} /\ T \subseteq 1..k + 1
          OBVIOUS
        <5> QED
          BY <3>1, <5>1, MaxOfRange, Zenon
      <4>2. T # {} /\ T \ {k + 1} \in SUBSET (1..k + 1) /\ k + 1 \notin T \ {k + 1}
        BY <3>1
      <4>3. h[T \ {k + 1}] = f[T \ {k + 1}]
        BY <4>2, Zenon
      <4> QED
        BY <3>1, <4>1, <4>2, <4>3, Zenon
    <3>2. CASE k + 1 \notin T
      <4>1. T \in SUBSET (1..k)
        BY <3>2
      <4>2. h[T] = f[T] /\ f[T] = Step(f, T)
        BY <2>1, <3>2, <4>1, Zenon
      <4>3. T # {} => /\ T \ {Max(T)} \in SUBSET (1..k + 1)
                      /\ k + 1 \notin T \ {Max(T)}
        BY <3>2
      <4>4. T # {} => h[T \ {Max(T)}] = f[T \ {Max(T)}]
        BY <4>3, Zenon
      <4> QED
        BY <4>2, <4>4, Zenon
    <3> QED
      BY <3>1, <3>2
  <2>3. Steps(h, 1..k + 1)
    BY <2>2, Zenon
  <2>4. k + 1 \in Nat
    OBVIOUS
  <2> QED
    BY <2>3, <2>4, Zenon
<1>4. Steps(iter, 1..n)
  <2>1. n \in Has
    <3> HIDE DEF Has
    <3> QED BY <1>2, <1>3, NaturalsInSet
  <2> QED
    BY <2>1, Zenon
<1>5. iter[1..0] = base
  BY <1>4, 1..0 = {}, Zenon
<1>6. ASSUME NEW k \in 1..n
      PROVE  iter[1..k] = NextDigit(iter[1..k - 1], list[k])
  <2>1. /\ 1..k \in SUBSET (1..n) /\ k \in 1..k /\ k \in Nat \ {0}
        /\ (1..k) \ {k} = 1..k - 1 /\ 1..k \subseteq 1..k
    <3> HIDE DEF iter
    <3> QED OBVIOUS
  <2>2. Max(1..k) = k
    BY <2>1, MaxOfRange, Zenon
  <2> QED
    BY <1>4, <2>1, <2>2, Zenon
<1> DEFINE g == [k \in 0..n |-> iter[1..k]]
<1> QED
  <2> HIDE DEF iter
  <2>1. g[0] = base /\ g[n] = iter[1..n]
    BY <1>5
  <2>2. ASSUME NEW k \in 1..n
        PROVE  g[k] = NextDigit(g[k - 1], list[k])
    <3>1. k \in 0..n /\ k - 1 \in 0..n
      OBVIOUS
    <3>2. g[k] = iter[1..k] /\ g[k - 1] = iter[1..k - 1]
      BY <3>1, Zenon
    <3> QED
      BY <3>2, <1>6, Zenon
  <2> QED
    BY <1>1, <2>1, <2>2 DEF base, list

-----------------------------------------------------------------------------
(* Writing *)

\* What is still to be written, in pieces.
Pieces(c) == Len(c.reply) + (IF c.buf # <<>> THEN 1 ELSE 0)

\* What writeToClient goes on with.
WriteFields == {"client", "room", "sent", "nwritten"}

\* After k rounds for client c: all that is said of a client still holds, and
\* there are fewer pieces, unless there is nothing to do.
Writing(c, x, k) ==
  /\ DOMAIN x = WriteFields /\ WellKept(x.client) /\ x.client.flags = c.flags
  /\ x.room \in Nat /\ (Owes(x.client) => Owes(c))
  /\ \/ x.nwritten = -1 \/ ~ Owes(x.client)
     \/ x.room = 0 /\ k <= Len(c.reply) + 1
     \/ Pieces(x.client) + k <= Len(c.reply) + 1

(* One less. *)
LEMMA OneBlockLess ==
  ASSUME NEW m \in Int, NEW b \in Int
  PROVE  (m - 1) * b = m * b - b
  OBVIOUS
(* One more. *)
LEMMA OneBlockMore ==
  ASSUME NEW m \in Int, NEW b \in Int
  PROVE  (m + 1) * b = m * b + b
  OBVIOUS

(* A client whose replies change, and nothing of what is being parsed. *)
LEMMA RepliesChange ==
  ASSUME NEW c, WellKept(c), NEW d, DOMAIN d = ClientFields,
         c.flags \subseteq d.flags, d.flags \subseteq Flags,
         d.querybuf = c.querybuf, d.qb_pos = c.qb_pos,
         d.multibulklen = c.multibulklen, d.bulklen = c.bulklen, d.argv = c.argv,
         d.buf \in Seq(Unit), Len(d.buf) <= PROTO_REPLY_CHUNK_BYTES,
         d.reply \in Seq(Block), d.reply_bytes = Len(d.reply) * BlockSize,
         d.sentlen \in Nat
  PROVE  WellKept(d)
  BY DEF WellKept, Kept

(* There is a piece where there is something to write. *)
LEMMA PiecesOfSome ==
  ASSUME NEW c, Len(c.reply) \in Nat
  PROVE  /\ Pieces(c) \in Nat
         /\ c.buf # <<>> => Pieces(c) = Len(c.reply) + 1
         /\ c.buf = <<>> => Pieces(c) = Len(c.reply)
<1> DEFINE r == Len(c.reply)
<1>1. r \in Nat
  OBVIOUS
<1>2. Pieces(c) = r + (IF c.buf # <<>> THEN 1 ELSE 0)
  BY DEF Pieces
<1> HIDE DEF r
<1>3. CASE c.buf # <<>>
  <2>1. Pieces(c) = r + 1
    BY <1>2, <1>3
  <2> QED
    BY <1>1, <1>3, <2>1 DEF r
<1>4. CASE c.buf = <<>>
  <2>1. Pieces(c) = r + 0
    BY <1>2, <1>4
  <2> QED
    BY <1>1, <1>4, <2>1 DEF r
<1> QED
  BY <1>3, <1>4

(* Nothing is written to a client but what is pending. *)
LEMMA WriteOnceKeeps ==
  ASSUME NEW c, WellKept(c), NEW k \in Nat, NEW x, Writing(c, x, k)
  PROVE  Writing(c, WriteOnce(x), k + 1)
<1> DEFINE d == x.client
           first == IF d.buf # <<>> THEN d.buf ELSE Head(d.reply).data
           unsent == SubSeq(first, d.sentlen + 1, Len(first))
           n == IF Len(unsent) < x.room THEN Len(unsent) ELSE x.room
           whole == d.sentlen + n = Len(first)
           y == WriteOnce(x)
<1>0. /\ PROTO_REPLY_CHUNK_BYTES \in Nat /\ REPLY_BLOCK_HEADER \in Nat
      /\ BlockSize \in Int
  BY BufferAssumption DEF BlockSize
<1>c. c.reply \in Seq(Block) /\ Len(c.reply) \in Nat
  BY DEF WellKept, Kept
<1>1. CASE x.nwritten = -1 \/ ~ Owes(d)
  <2>1. y = x
    BY <1>1 DEF WriteOnce, Owes
  <2> QED
    BY <1>1, <2>1 DEF Writing
<1>2. CASE x.nwritten # -1 /\ Owes(d)
  <2>1. WellKept(d) /\ x.room \in Nat /\ DOMAIN x = WriteFields /\ d.flags = c.flags /\ Owes(c)
    BY <1>2 DEF Writing
  <2>2. first \in Seq(Unit)
    <3>1. CASE d.buf # <<>>
      BY <2>1, <3>1 DEF WellKept, Kept
    <3>2. CASE d.buf = <<>>
      <4>1. d.reply \in Seq(Block) /\ d.reply # <<>>
        BY <1>2, <2>1, <3>2 DEF WellKept, Kept, Owes, clientHasPendingReplies
      <4>2. Head(d.reply) \in Block
        BY <4>1
      <4> QED
        BY <3>2, <4>2 DEF Block
    <3> QED
      BY <3>1, <3>2
  <2>3. /\ d.sentlen \in Nat /\ Len(first) \in Nat
        /\ unsent \in Seq(Unit)
        /\ Len(unsent) = IF d.sentlen + 1 <= Len(first) THEN Len(first) - d.sentlen ELSE 0
    <3> DEFINE m == d.sentlen
    <3>m. m \in Nat
      BY <2>1 DEF WellKept, Kept
    <3> HIDE DEF m, first
    <3>l. Len(first) \in Nat
      BY <2>2, LenProperties
    <3>1. m \in Nat /\ Len(first) \in Nat
      BY <3>m, <3>l
    <3>2. \A i \in m + 1..Len(first) : i \in 1..Len(first)
      BY <3>1
    <3>3. \A i \in m + 1..Len(first) : first[i] \in Unit
      BY <2>2, <3>2, ElementOfSeq
    <3>4. /\ SubSeq(first, m + 1, Len(first)) \in Seq(Unit)
          /\ Len(SubSeq(first, m + 1, Len(first)))
               = IF m + 1 <= Len(first) THEN Len(first) - (m + 1) + 1 ELSE 0
      BY <2>2, <3>1, <3>3, SubSeqProperties
    <3>5. (IF m + 1 <= Len(first) THEN Len(first) - (m + 1) + 1 ELSE 0)
            = IF m + 1 <= Len(first) THEN Len(first) - m ELSE 0
      BY <3>1
    <3> QED
      BY <3>1, <3>4, <3>5 DEF m
  <2> HIDE DEF unsent, first
  <2>4. n \in Nat /\ n <= x.room /\ n <= Len(unsent) /\ Len(unsent) \in Nat
    BY <2>1, <2>3
  <2>5. n # 0 /\ ~ whole => n = x.room
    BY <2>1, <2>3
  <2> DEFINE e == CASE ~whole -> [d EXCEPT !.sentlen = @ + n]
                    [] whole /\ d.buf # <<>> ->
                         [d EXCEPT !.buf = <<>>, !.sentlen = 0]
                    [] OTHER ->
                         [d EXCEPT !.reply = Tail(@), !.sentlen = 0,
                                   !.reply_bytes = @ - Head(d.reply).size]
             out == x.sent \o SubSeq(unsent, 1, n)
  <2>6. y = IF n = 0 THEN [x EXCEPT !.nwritten = -1]
            ELSE [x EXCEPT !.nwritten = n, !.room = @ - n, !.sent = out,
                           !.client = e]
    BY <1>2 DEF WriteOnce, Owes, unsent, first
  <2> HIDE DEF n, whole, e, out
  <2>7. CASE n = 0
    <3>1. y = [x EXCEPT !.nwritten = -1]
      BY <2>6, <2>7
    <3> HIDE DEF y
    <3>2. /\ DOMAIN y = WriteFields /\ y.nwritten = -1 /\ y.room = x.room
          /\ y.client = d
      BY <2>1, <3>1 DEF WriteFields
    <3> QED
      BY <2>1, <3>2 DEF Writing, y
  <2>8. CASE n # 0
    <3>0. y = [x EXCEPT !.nwritten = n, !.room = @ - n, !.sent = out, !.client = e]
      BY <2>6, <2>8
    <3> HIDE DEF y
    <3>1. DOMAIN y = WriteFields /\ y.room = x.room - n /\ y.client = e
      BY <2>1, <3>0 DEF WriteFields
    <3>2. y.room \in Nat
      BY <2>1, <2>4, <3>1
    <3>p. /\ x.room = 0 \/ Pieces(d) + k <= Len(c.reply) + 1
          /\ x.room # 0
      BY <1>2, <2>4, <2>8 DEF Writing
    <3>q. Len(d.reply) \in Nat /\ d.reply \in Seq(Block)
      BY <2>1, SMTT(20) DEF WellKept, Kept
    <3> HIDE DEF d, e
    <3>3. CASE ~ whole
      <4>1. e = [d EXCEPT !.sentlen = @ + n]
        BY <3>3 DEF e
      <4>2. /\ DOMAIN e = ClientFields /\ e.sentlen = d.sentlen + n
            /\ e.flags = d.flags /\ e.querybuf = d.querybuf /\ e.qb_pos = d.qb_pos
            /\ e.multibulklen = d.multibulklen /\ e.bulklen = d.bulklen
            /\ e.argv = d.argv /\ e.buf = d.buf /\ e.reply = d.reply
            /\ e.reply_bytes = d.reply_bytes
        BY <2>1, <4>1 DEF WellKept, Kept, ClientFields
      <4>3. WellKept(e)
        <5>1. /\ WellKept(d) /\ d.flags \subseteq Flags /\ d.buf \in Seq(Unit)
              /\ Len(d.buf) <= PROTO_REPLY_CHUNK_BYTES /\ d.reply \in Seq(Block)
              /\ d.reply_bytes = Len(d.reply) * BlockSize
          BY <2>1 DEF WellKept, Kept, d
        <5>2. d.sentlen \in Nat
          BY <2>3 DEF d
        <5>3. d.sentlen + n \in Nat
          BY <2>4, <5>2
        <5>4. e.sentlen \in Nat
          BY <4>2, <5>3
        <5>5. c.flags = d.flags
          BY <2>1 DEF d
        <5> QED
          BY <4>2, <5>1, <5>4, RepliesChange
      <4>4. y.room = 0 /\ k + 1 <= Len(c.reply) + 1
        <5>1. y.room = 0
          BY <2>1, <2>5, <2>8, <3>1, <3>3
        <5>2. Pieces(d) >= 1 /\ Pieces(d) \in Nat
          <6>1. d.buf # <<>> \/ Len(d.reply) # 0
            BY <1>2, <3>q, EmptySeq DEF Owes, clientHasPendingReplies, d
          <6> QED
            BY <3>q, <6>1, PiecesOfSome
        <5> DEFINE a == Pieces(d)
                   b == Len(c.reply)
        <5>3. a + k <= b + 1 /\ a >= 1 /\ a \in Nat /\ b \in Nat
          BY <1>c, <3>p, <5>2
        <5> HIDE DEF a, b
        <5>4. k + 1 <= b + 1
          BY <5>3
        <5> QED
          BY <5>1, <5>4 DEF b
      <4>5. Owes(e) <=> Owes(d)
        BY <4>2 DEF Owes, clientHasPendingReplies
      <4> QED
        BY <2>1, <3>1, <3>2, <4>2, <4>3, <4>4 DEF Writing, e, y, d
    <3>4. CASE whole /\ d.buf # <<>>
      <4>1. e = [d EXCEPT !.buf = <<>>, !.sentlen = 0]
        BY <3>4 DEF e
      <4>2. /\ DOMAIN e = ClientFields /\ e.sentlen = 0
            /\ e.flags = d.flags /\ e.querybuf = d.querybuf /\ e.qb_pos = d.qb_pos
            /\ e.multibulklen = d.multibulklen /\ e.bulklen = d.bulklen
            /\ e.argv = d.argv /\ e.buf = <<>> /\ e.reply = d.reply
            /\ e.reply_bytes = d.reply_bytes
        BY <2>1, <4>1 DEF WellKept, Kept, ClientFields, d
      <4>3. WellKept(e)
        BY <1>0, <2>1, <4>2 DEF WellKept, Kept, d
      <4>4. Pieces(e) + (k + 1) <= Len(c.reply) + 1
        <5> DEFINE a == Pieces(d)
                   b == Len(c.reply)
                   r == Len(d.reply)
                   f == Pieces(e)
        <5>1. a = r + 1
          BY <3>4, <3>q, PiecesOfSome
        <5>2. f = r
          BY <3>4, <3>q, <4>2, PiecesOfSome
        <5>3. a + k <= b + 1 /\ b \in Nat /\ r \in Nat
          BY <1>c, <3>p, <3>q
        <5> HIDE DEF a, b, f, r
        <5>4. f + (k + 1) <= b + 1
          BY <5>1, <5>2, <5>3
        <5> QED
          BY <5>4 DEF f, b
      <4> QED
        BY <2>1, <3>1, <3>2, <4>2, <4>3, <4>4 DEF Writing, e, y, d
    <3>5. CASE whole /\ d.buf = <<>>
      <4>1. e = [d EXCEPT !.reply = Tail(@), !.sentlen = 0,
                          !.reply_bytes = @ - Head(d.reply).size]
        BY <3>5 DEF e
      <4>2. /\ DOMAIN e = ClientFields /\ e.sentlen = 0
            /\ e.flags = d.flags /\ e.querybuf = d.querybuf /\ e.qb_pos = d.qb_pos
            /\ e.multibulklen = d.multibulklen /\ e.bulklen = d.bulklen
            /\ e.argv = d.argv /\ e.buf = d.buf /\ e.reply = Tail(d.reply)
            /\ e.reply_bytes = d.reply_bytes - Head(d.reply).size
        BY <2>1, <4>1 DEF WellKept, Kept, ClientFields, d
      <4>3. d.reply # <<>>
        BY <1>2, <3>5 DEF Owes, clientHasPendingReplies, d
      <4>4. /\ Head(d.reply) \in Block /\ Tail(d.reply) \in Seq(Block)
            /\ Len(Tail(d.reply)) = Len(d.reply) - 1 /\ Len(d.reply) # 0
        BY <3>q, <4>3, HeadTailProperties, EmptySeq
      <4>5. e.reply_bytes = Len(e.reply) * BlockSize
        <5>1. Head(d.reply).size = BlockSize
          BY <4>4 DEF Block
        <5>2. d.reply_bytes = Len(d.reply) * BlockSize
          BY <2>1 DEF WellKept, Kept, d
        <5>3. (Len(d.reply) - 1) * BlockSize = Len(d.reply) * BlockSize - BlockSize
          BY <1>0, <3>q, OneBlockLess
        <5> QED
          BY <4>2, <4>4, <5>1, <5>2, <5>3
      <4>6. WellKept(e)
        BY <1>0, <2>1, <4>2, <4>4, <4>5 DEF WellKept, Kept, d
      <4>7. Pieces(e) + (k + 1) <= Len(c.reply) + 1
        <5> DEFINE a == Pieces(d)
                   b == Len(c.reply)
                   r == Len(d.reply)
                   f == Pieces(e)
        <5>1. a = r
          BY <3>5, <3>q, PiecesOfSome
        <5>2. f = r - 1
          <6>1. Len(e.reply) = r - 1 /\ Len(e.reply) \in Nat /\ e.buf = <<>>
            BY <3>5, <3>q, <4>2, <4>4
          <6> QED
            BY <6>1, PiecesOfSome
        <5>3. a + k <= b + 1 /\ b \in Nat /\ r \in Nat
          BY <1>c, <3>p, <3>q
        <5> HIDE DEF a, b, f, r
        <5>4. f + (k + 1) <= b + 1
          BY <5>1, <5>2, <5>3
        <5> QED
          BY <5>4 DEF f, b
      <4> QED
        BY <2>1, <3>1, <3>2, <4>2, <4>6, <4>7 DEF Writing, e, y, d
    <3> QED
      BY <3>3, <3>4, <3>5
  <2> QED
    BY <2>7, <2>8
<1> QED
  BY <1>1, <1>2 DEF y

(* Writing leaves a client in order, and stops when nothing is left or nothing
   can be written. *)
LEMMA WriteAllKeeps ==
  ASSUME NEW c, WellKept(c), NEW n \in Nat
  PROVE  LET x == WriteAll(c, n)
         IN /\ WellKept(x.client) /\ x.client.flags = c.flags /\ x.room \in Nat
            /\ Owes(x.client) => Owes(c)
            /\ x.nwritten = -1 \/ ~ Owes(x.client)
<1> DEFINE m == Len(c.reply) + 2
           x == WriteAll(c, n)
<1>1. m \in Nat /\ Len(c.reply) \in Nat
  BY DEF WellKept, Kept
<1>2. PICK g : /\ g[0] = [client |-> c, room |-> n, sent |-> <<>>, nwritten |-> 0]
               /\ \A k \in 1..m : g[k] = WriteOnce(g[k - 1])
               /\ x = g[m]
  BY <1>1, FoldWrites
<1> HIDE DEF x
<1> DEFINE Good == {k \in Nat : k <= m => Writing(c, g[k], k)}
<1>3. Writing(c, g[0], 0)
  <2> DEFINE a == g[0]
  <2>1. /\ DOMAIN a = WriteFields /\ a.client = c /\ a.room = n /\ a.nwritten = 0
    BY <1>2 DEF WriteFields
  <2> HIDE DEF a
  <2>2. Pieces(c) + 0 <= Len(c.reply) + 1
    <3> DEFINE r == Len(c.reply)
               q == Pieces(c)
    <3>1. r \in Nat /\ (q = r \/ q = r + 1)
      BY <1>1, PiecesOfSome
    <3> HIDE DEF q, r
    <3>2. q + 0 <= r + 1
      BY <3>1
    <3> QED
      BY <3>2 DEF q, r
  <2>3. Writing(c, a, 0)
    BY <2>1, <2>2 DEF Writing
  <2> QED
    BY <2>3 DEF a
<1>4. ASSUME NEW k \in Nat, k \in Good
      PROVE  k + 1 \in Good
  <2> SUFFICES ASSUME k + 1 <= m
               PROVE  Writing(c, g[k + 1], k + 1)
    OBVIOUS
  <2>1. k + 1 \in 1..m /\ (k + 1) - 1 = k /\ k <= m
    BY <1>1
  <2>2. g[k + 1] = WriteOnce(g[k])
    BY <1>2, <2>1
  <2>3. Writing(c, g[k], k)
    BY <1>4, <2>1
  <2> DEFINE a == g[k]
  <2> HIDE DEF a
  <2>4. Writing(c, WriteOnce(a), k + 1)
    BY <2>3, WriteOnceKeeps DEF a
  <2> QED
    BY <2>2, <2>4 DEF a
<1>5. Writing(c, g[m], m)
  <2> HIDE DEF Good
  <2>1. 0 \in Good
    BY <1>3 DEF Good
  <2>2. Nat \subseteq Good
    BY <1>4, <2>1, NaturalsInSet
  <2>3. m \in Good
    BY <1>1, <2>2
  <2> QED
    BY <1>1, <2>3 DEF Good
<1>6. Writing(c, x, m)
  BY <1>2, <1>5
<1>7. ~ (m <= Len(c.reply) + 1)
  BY <1>1
<1>8. Owes(x.client) => ~ (Pieces(x.client) + m <= Len(c.reply) + 1)
  <2> SUFFICES ASSUME Owes(x.client)
               PROVE  ~ (Pieces(x.client) + m <= Len(c.reply) + 1)
    OBVIOUS
  <2>1. Len(x.client.reply) \in Nat
    BY <1>6 DEF Writing, WellKept, Kept
  <2> DEFINE r == Len(c.reply)
             q == Pieces(x.client)
  <2>2. q \in Nat /\ r \in Nat
    BY <1>1, <2>1, PiecesOfSome
  <2> HIDE DEF q, r
  <2>3. ~ (q + (r + 2) <= r + 1)
    BY <2>2
  <2> QED
    BY <2>3 DEF q, r
<1>9. /\ WellKept(x.client) /\ x.client.flags = c.flags /\ x.room \in Nat
      /\ Owes(x.client) => Owes(c)
      /\ x.nwritten = -1 \/ ~ Owes(x.client)
  <2> HIDE DEF m
  <2> QED
    BY <1>6, <1>7, <1>8 DEF Writing
<1> QED
  BY <1>9 DEF x

-----------------------------------------------------------------------------
(* Replies *)

\* What is handed to addReplyProto at once.
Piece == {s \in Seq(Unit) : Len(s) <= 2}

\* What is done for a client: it may owe more, and be due for it, and it may
\* have more flags, but for that of those to be closed.
Heeds(c, d) ==
  /\ WellKept(d) /\ c.flags \subseteq d.flags
  /\ d.flags \subseteq c.flags \cup {"PENDING_WRITE", "CLOSE_AFTER_REPLY", "BLOCKED"}
  /\ Owes(d) => Owes(c) \/ "PENDING_WRITE" \in d.flags

\* A client d is client c with more to be written, and due for it.
Replied(c, d) ==
  /\ Kept(d) /\ c.flags \subseteq d.flags
  /\ d.flags \subseteq c.flags \cup {"PENDING_WRITE"}
  /\ Owes(d) => Owes(c) \/ "PENDING_WRITE" \in d.flags
  /\ d.querybuf = c.querybuf /\ d.qb_pos = c.qb_pos
  /\ d.multibulklen = c.multibulklen /\ d.bulklen = c.bulklen /\ d.argv = c.argv

(* A block takes the longest piece. *)
LEMMA NewBlockIsOne ==
  ASSUME NEW s \in Piece
  PROVE  NewBlock(s) \in Block /\ NewBlock(s).size = BlockSize
<1> DEFINE n == Len(s)
           C == PROTO_REPLY_CHUNK_BYTES
           H == REPLY_BLOCK_HEADER
           size == IF n < C THEN C ELSE n
<1>1. n \in Nat /\ n <= 2 /\ s \in Seq(Unit)
  BY DEF Piece
<1>2. C \in Nat /\ H \in Nat /\ 2 <= C - H
  BY BufferAssumption
<1>3. NewBlock(s) = [size |-> size - H, capacity |-> size, data |-> s]
  BY DEF NewBlock
<1> HIDE DEF n, C, H
<1>4. size = C /\ n <= C - H /\ C - H \in Int
  BY <1>1, <1>2
<1> QED
  BY <1>1, <1>2, <1>3, <1>4 DEF Block, BlockSize, n, C, H

(* A piece is appended to the last block and to a new one. *)
LEMMA ListedPiece ==
  ASSUME NEW c, Kept(c), NEW s \in Piece
  PROVE  LET d == _addReplyProtoToList(c, s)
         IN /\ DOMAIN d = ClientFields
            /\ \A f \in ClientFields \ {"reply", "reply_bytes"} : d[f] = c[f]
            /\ d.reply \in Seq(Block) /\ d.reply_bytes = Len(d.reply) * BlockSize
<1> DEFINE last == Len(c.reply)
           avail == c.reply[last].size - Len(c.reply[last].data)
           copy == IF last = 0 THEN 0
                   ELSE IF avail >= Len(s) \/ avail < 0 THEN Len(s) ELSE avail
           filled == IF copy = 0 THEN c.reply
                     ELSE [c.reply EXCEPT ![last].data = @ \o SubSeq(s, 1, copy)]
           rest == SubSeq(s, copy + 1, Len(s))
           d == _addReplyProtoToList(c, s)
<1>1. d = IF rest = <<>> THEN [c EXCEPT !.reply = filled]
          ELSE [c EXCEPT !.reply = Append(filled, NewBlock(rest)),
                         !.reply_bytes = @ + NewBlock(rest).size]
  BY DEF _addReplyProtoToList
<1>2. /\ DOMAIN c = ClientFields /\ c.reply \in Seq(Block)
      /\ c.reply_bytes = last * BlockSize /\ last \in Nat
  BY DEF Kept
<1>3. s \in Seq(Unit) /\ Len(s) \in Nat /\ Len(s) <= 2
  BY DEF Piece
<1>b. BlockSize \in Nat
  BY BufferAssumption DEF BlockSize
<1> DEFINE B == c.reply[last]
<1>4. last # 0 => /\ last \in 1..last /\ B \in Block /\ DOMAIN B = {"size", "capacity", "data"}
                  /\ B.data \in Seq(Unit)
                  /\ B.size = BlockSize /\ B.capacity = PROTO_REPLY_CHUNK_BYTES
                  /\ Len(B.data) <= BlockSize /\ Len(B.data) \in Nat
  <2> SUFFICES ASSUME last # 0
               PROVE  /\ last \in 1..last /\ B \in Block
                      /\ DOMAIN B = {"size", "capacity", "data"}
                      /\ B.data \in Seq(Unit)
                      /\ B.size = BlockSize /\ B.capacity = PROTO_REPLY_CHUNK_BYTES
                      /\ Len(B.data) <= BlockSize /\ Len(B.data) \in Nat
    OBVIOUS
  <2>1. last \in 1..last
    BY <1>2
  <2>2. B \in Block
    BY <1>2, <2>1, ElementOfSeq
  <2> HIDE DEF B, last
  <2> QED
    BY <2>1, <2>2 DEF Block
<1>5. /\ copy \in Nat /\ copy <= Len(s)
      /\ copy # 0 => last # 0 /\ Len(B.data) + copy <= BlockSize
  <2>1. CASE last = 0
    BY <1>3, <2>1
  <2>2. CASE last # 0
    <3> DEFINE m == Len(B.data)
               n == Len(s)
    <3>1. m \in Nat /\ n \in Nat /\ m <= BlockSize /\ avail = BlockSize - m
      BY <1>3, <1>4, <2>2
    <3>2. copy = IF avail >= n \/ avail < 0 THEN n ELSE avail
      BY <2>2
    <3> HIDE DEF m, n, avail, copy, last, B
    <3>3. copy \in Nat /\ copy <= n /\ m + copy <= BlockSize
      BY <1>b, <3>1, <3>2
    <3> QED
      BY <2>2, <3>3 DEF m, n
  <2> QED
    BY <2>1, <2>2
<1> HIDE DEF copy
<1>6. filled \in Seq(Block) /\ Len(filled) = last
  <2>1. CASE copy = 0
    BY <1>2, <2>1
  <2>2. CASE copy # 0
    <3> DEFINE a == SubSeq(s, 1, copy)
               whole == B.data \o a
               E == [B EXCEPT !.data = whole]
    <3>1. \A i \in 1..copy : i \in 1..Len(s)
      BY <1>3, <1>5
    <3>2. \A i \in 1..copy : s[i] \in Unit
      BY <1>3, <3>1, ElementOfSeq
    <3>3. a \in Seq(Unit) /\ Len(a) = copy
      BY <1>3, <1>5, <3>2, SubSeqProperties
    <3> HIDE DEF a
    <3>4. B.data \in Seq(Unit) /\ Len(B.data) + copy <= BlockSize
      BY <1>4, <1>5, <2>2
    <3>5. whole \in Seq(Unit) /\ Len(whole) <= BlockSize
      BY <3>3, <3>4, ConcatProperties
    <3> HIDE DEF whole
    <3>6. E \in Block
      <4>1. /\ DOMAIN E = {"size", "capacity", "data"} /\ E.data = whole
            /\ E.size = B.size /\ E.capacity = B.capacity
        BY <1>4, <1>5, <2>2
      <4>2. E = [size |-> BlockSize, capacity |-> PROTO_REPLY_CHUNK_BYTES, data |-> whole]
        BY <1>4, <1>5, <2>2
      <4>3. PROTO_REPLY_CHUNK_BYTES \in Int
        BY BufferAssumption
      <4> HIDE DEF E
      <4> QED
        BY <1>b, <3>5, <4>2, <4>3 DEF Block
    <3>7. filled = [c.reply EXCEPT ![last] = E]
      BY <2>2 DEF whole, a
    <3> HIDE DEF E, filled
    <3>8. last \in 1..Len(c.reply)
      BY <1>4, <1>5, <2>2
    <3> QED
      BY <1>2, <3>6, <3>7, <3>8, ExceptSeq
  <2> QED
    BY <2>1, <2>2
<1>7. rest \in Piece
  <2>1. \A i \in copy + 1..Len(s) : i \in 1..Len(s)
    BY <1>3, <1>5
  <2>2. \A i \in copy + 1..Len(s) : s[i] \in Unit
    BY <1>3, <2>1, ElementOfSeq
  <2>3. /\ rest \in Seq(Unit)
        /\ Len(rest) = IF copy + 1 <= Len(s) THEN Len(s) - (copy + 1) + 1 ELSE 0
    BY <1>3, <1>5, <2>2, SubSeqProperties
  <2> DEFINE n == Len(s)
             r == Len(rest)
  <2>4. n \in Nat /\ n <= 2 /\ copy \in Nat
        /\ r = IF copy + 1 <= n THEN n - (copy + 1) + 1 ELSE 0
    BY <1>3, <1>5, <2>3
  <2> HIDE DEF n, r, rest
  <2>5. r <= 2
    BY <2>4
  <2> QED
    BY <2>3, <2>5 DEF Piece, r
<1> HIDE DEF rest, filled, d
<1>8. CASE rest = <<>>
  <2>1. d = [c EXCEPT !.reply = filled]
    BY <1>1, <1>8
  <2>2. /\ DOMAIN d = ClientFields /\ d.reply = filled
        /\ d.reply_bytes = c.reply_bytes
        /\ \A f \in ClientFields \ {"reply", "reply_bytes"} : d[f] = c[f]
    BY <1>2, <2>1 DEF ClientFields
  <2> QED
    BY <1>2, <1>6, <2>2 DEF d
<1>9. CASE rest # <<>>
  <2> DEFINE N == NewBlock(rest)
  <2>1. d = [c EXCEPT !.reply = Append(filled, N), !.reply_bytes = @ + N.size]
    BY <1>1, <1>9
  <2>2. N \in Block /\ N.size = BlockSize
    BY <1>7, NewBlockIsOne
  <2> HIDE DEF N
  <2>3. /\ DOMAIN d = ClientFields /\ d.reply = Append(filled, N)
        /\ d.reply_bytes = c.reply_bytes + BlockSize
        /\ \A f \in ClientFields \ {"reply", "reply_bytes"} : d[f] = c[f]
    BY <1>2, <2>1, <2>2 DEF ClientFields
  <2>4. Append(filled, N) \in Seq(Block) /\ Len(Append(filled, N)) = last + 1
    BY <1>6, <2>2, AppendProperties
  <2>5. (last + 1) * BlockSize = last * BlockSize + BlockSize
    BY <1>2, <1>b, OneBlockMore
  <2> QED
    BY <1>2, <2>3, <2>4, <2>5 DEF d
<1> QED
  BY <1>8, <1>9 DEF d

(* One piece is added. *)
LEMMA PieceAdded ==
  ASSUME NEW c, Kept(c), NEW s \in Piece
  PROVE  Replied(c, addReplyProto(c, s))
<1> DEFINE p == prepareClientToWrite(c)
           d == addReplyProto(c, s)
           w == _addReplyProtoToList(p, s)
<1>1. Replied(c, p) /\ (Owes(c) \/ "PENDING_WRITE" \in p.flags)
  <2>1. CASE Owes(c)
    <3>1. p = c
      BY <2>1 DEF prepareClientToWrite, Owes
    <3> QED
      BY <2>1, <3>1 DEF Replied
  <2>2. CASE ~ Owes(c)
    <3>1. p = Flag(c, "PENDING_WRITE")
      BY <2>2 DEF prepareClientToWrite, clientInstallWriteHandler, Owes
    <3>2. /\ DOMAIN p = ClientFields /\ p.flags = c.flags \cup {"PENDING_WRITE"}
          /\ \A f \in ClientFields \ {"flags"} : p[f] = c[f]
      BY <3>1 DEF Flag, Kept, ClientFields
    <3> HIDE DEF p
    <3>3. Kept(p)
      BY <3>2 DEF Kept, ClientFields, Flags
    <3> QED
      BY <3>2, <3>3 DEF Replied, ClientFields
  <2> QED
    BY <2>1, <2>2
<1>2. Kept(p)
  BY <1>1 DEF Replied
<1>3. d = CASE "CLOSE_AFTER_REPLY" \in p.flags -> p
            [] "CLOSE_AFTER_REPLY" \notin p.flags /\ FitsBuffer(p, s) ->
                 [p EXCEPT !.buf = @ \o s]
            [] OTHER -> w
  BY DEF addReplyProto
<1>4. /\ DOMAIN w = ClientFields
      /\ \A f \in ClientFields \ {"reply", "reply_bytes"} : w[f] = p[f]
      /\ w.reply \in Seq(Block) /\ w.reply_bytes = Len(w.reply) * BlockSize
  BY <1>2, ListedPiece
<1> HIDE DEF p, w, d
<1>5. CASE "CLOSE_AFTER_REPLY" \in p.flags
  BY <1>1, <1>3, <1>5 DEF d
<1>6. CASE "CLOSE_AFTER_REPLY" \notin p.flags /\ FitsBuffer(p, s)
  <2> DEFINE out == p.buf \o s
  <2>1. out \in Seq(Unit) /\ Len(out) <= PROTO_REPLY_CHUNK_BYTES
    <3> DEFINE m == Len(p.buf)
               n == Len(s)
    <3>1. p.buf \in Seq(Unit) /\ s \in Seq(Unit)
      BY <1>2 DEF Kept, Piece
    <3>2. out \in Seq(Unit) /\ Len(out) = m + n /\ m \in Nat /\ n \in Nat
      BY <3>1, ConcatProperties
    <3>3. n <= PROTO_REPLY_CHUNK_BYTES - m /\ PROTO_REPLY_CHUNK_BYTES \in Nat
      BY <1>6, BufferAssumption DEF FitsBuffer
    <3> HIDE DEF m, n, out
    <3>4. m + n <= PROTO_REPLY_CHUNK_BYTES
      BY <3>2, <3>3
    <3> QED
      BY <3>2, <3>4
  <2>2. d = [p EXCEPT !.buf = out]
    BY <1>3, <1>6
  <2> HIDE DEF out
  <2>3. /\ DOMAIN d = ClientFields /\ d.buf = out
        /\ \A f \in ClientFields \ {"buf"} : d[f] = p[f]
    BY <1>2, <2>2 DEF Kept, ClientFields
  <2>4. Kept(d)
    BY <1>2, <2>1, <2>3 DEF Kept, ClientFields
  <2> QED
    BY <1>1, <2>3, <2>4 DEF Replied, ClientFields, d
<1>7. CASE "CLOSE_AFTER_REPLY" \notin p.flags /\ ~ FitsBuffer(p, s)
  <2>1. d = w
    BY <1>3, <1>7
  <2>2. Kept(w)
    BY <1>2, <1>4 DEF Kept, ClientFields
  <2> QED
    BY <1>1, <1>4, <2>1, <2>2 DEF Replied, ClientFields, d
<1> QED
  BY <1>5, <1>6, <1>7

(* A reply is added to what is to be written, or dropped. *)
LEMMA ReplyAdded ==
  ASSUME NEW c, Kept(c), NEW pieces \in Seq(Piece)
  PROVE  Replied(c, AddReply(c, pieces))
<1> DEFINE n == Len(pieces)
<1>1. n \in Nat /\ DOMAIN pieces = 1..n
  OBVIOUS
<1> HIDE DEF n
<1>2. PICK g : /\ g[0] = c
               /\ \A k \in 1..n : g[k] = addReplyProto(g[k - 1], pieces[k])
               /\ AddReply(c, pieces) = g[n]
  BY <1>1, FoldReplies, SMTT(20)
<1> DEFINE Good == {k \in Nat : k <= n => Replied(c, g[k])}
<1>3. Replied(c, g[0])
  BY <1>2 DEF Replied
<1>4. ASSUME NEW k \in Nat, k \in Good
      PROVE  k + 1 \in Good
  <2> SUFFICES ASSUME k + 1 <= n
               PROVE  Replied(c, g[k + 1])
    OBVIOUS
  <2>1. k + 1 \in 1..n /\ (k + 1) - 1 = k /\ k <= n
    BY <1>1
  <2>2. g[k + 1] = addReplyProto(g[k], pieces[k + 1])
    BY <1>2, <2>1
  <2>3. pieces[k + 1] \in Piece
    BY <1>1, <2>1, ElementOfSeq DEF n
  <2> DEFINE a == g[k]
             s == pieces[k + 1]
  <2>4. Replied(c, a) /\ s \in Piece
    BY <1>4, <2>1, <2>3
  <2> HIDE DEF a, s
  <2> DEFINE b == addReplyProto(a, s)
  <2>5. Replied(a, b)
    BY <2>4, PieceAdded DEF Replied
  <2> HIDE DEF b
  <2>6. Replied(c, b)
    BY <2>4, <2>5 DEF Replied
  <2> QED
    BY <2>2, <2>6 DEF a, b, s
<1>5. n \in Good
  <2> HIDE DEF Good
  <2>1. 0 \in Good
    BY <1>3 DEF Good
  <2>2. Nat \subseteq Good
    BY <1>4, <2>1, NaturalsInSet
  <2> QED
    BY <1>1, <2>2
<1> QED
  BY <1>1, <1>2, <1>5

(* A reply leaves a client in order, and due to be written to. *)
LEMMA AddReplyHeeds ==
  ASSUME NEW c, WellKept(c), NEW pieces \in Seq(Piece)
  PROVE  /\ Heeds(c, AddReply(c, pieces))
         /\ AddReply(c, pieces).flags \subseteq c.flags \cup {"PENDING_WRITE"}
<1> DEFINE d == AddReply(c, pieces)
<1>1. Kept(c)
  BY DEF WellKept
<1>2. Replied(c, d)
  BY <1>1, ReplyAdded
<1> HIDE DEF d
<1> QED
  BY <1>2 DEF Replied, Heeds, WellKept, d

-----------------------------------------------------------------------------
(* Parsing *)

\* What is done for a client leaves it in order, but for the command it parses.
Follows(c, d) ==
  /\ Kept(d) /\ c.flags \subseteq d.flags
  /\ d.flags \subseteq c.flags \cup {"PENDING_WRITE", "CLOSE_AFTER_REPLY", "BLOCKED"}
  /\ Owes(d) => Owes(c) \/ "PENDING_WRITE" \in d.flags

(* One thing after another. *)
LEMMA FollowsOn ==
  ASSUME NEW b, NEW c, NEW d, Follows(b, c), Follows(c, d)
  PROVE  Follows(b, d)
  BY DEF Follows

(* A change of what is being parsed. *)
LEMMA ParseChanges ==
  ASSUME NEW c, Kept(c), NEW d, DOMAIN d = ClientFields, d.flags = c.flags,
         d.querybuf \in Seq(0..255), d.qb_pos \in Nat,
         d.multibulklen \in 0..MaxMultibulk, d.bulklen \in Int, d.bulklen >= -1,
         d.buf = c.buf, d.reply = c.reply, d.reply_bytes = c.reply_bytes,
         d.sentlen = c.sentlen
  PROVE  Follows(c, d)
  BY DEF Follows, Kept, Owes, clientHasPendingReplies

(* A flag is set. *)
LEMMA FlagFollows ==
  ASSUME NEW c, Kept(c), NEW f \in {"CLOSE_AFTER_REPLY", "BLOCKED"}
  PROVE  /\ Follows(c, Flag(c, f)) /\ Flag(c, f).flags = c.flags \cup {f}
         /\ Flag(c, f).argv = c.argv /\ Flag(c, f).multibulklen = c.multibulklen
<1> DEFINE d == Flag(c, f)
<1>1. /\ DOMAIN d = ClientFields /\ d.flags = c.flags \cup {f}
      /\ \A x \in ClientFields \ {"flags"} : d[x] = c[x]
  BY DEF Flag, Kept, ClientFields
<1> HIDE DEF d
<1>2. Kept(d)
  BY <1>1 DEF Kept, ClientFields, Flags
<1>3. Owes(d) <=> Owes(c)
  BY <1>1 DEF Owes, clientHasPendingReplies, ClientFields
<1> QED
  BY <1>1, <1>2, <1>3 DEF Follows, ClientFields, d

(* A reply is added. *)
LEMMA ReplyFollows ==
  ASSUME NEW c, Kept(c), NEW pieces \in Seq(Piece)
  PROVE  /\ Follows(c, AddReply(c, pieces))
         /\ AddReply(c, pieces).argv = c.argv
         /\ AddReply(c, pieces).multibulklen = c.multibulklen
<1> DEFINE d == AddReply(c, pieces)
<1>1. Replied(c, d)
  BY ReplyAdded
<1> HIDE DEF d
<1> QED
  BY <1>1 DEF Replied, Follows, d

-----------------------------------------------------------------------------
(* Wordings *)

(* A unit. *)
LEMMA UnitIs ==
  ASSUME NEW w \in Words, NEW n \in Int
  PROVE  U(w, n) \in Unit
  BY DEF U, Unit

(* Pieces of one unit. *)
LEMMA PieceOfOne ==
  ASSUME NEW u \in Unit
  PROVE  <<u>> \in Piece
  BY DEF Piece

(* Pieces of two units. *)
LEMMA PieceOfTwo ==
  ASSUME NEW u \in Unit, NEW v \in Unit
  PROVE  <<u, v>> \in Piece
  BY DEF Piece

(* Errors, statuses and numbers are made of pieces. *)
LEMMA WordingPieces ==
  /\ \A w \in Words : Error(w) \in Seq(Piece) /\ Status(w) \in Seq(Piece)
  /\ \A w \in Words, n \in Int :
       LongLong(w, n) \in Seq(Piece) /\ LongLong(w, n)[1] \in Piece
<1>1. "-ERR" \in Words /\ "+" \in Words /\ "crlf" \in Words
  BY Zenon DEF Words
<1>2. 0 \in Int
  OBVIOUS
<1>3. U("-ERR", 0) \in Unit /\ U("+", 0) \in Unit /\ CRLF \in Unit
  BY <1>1, <1>2, UnitIs DEF CRLF
<1>4. ASSUME NEW w \in Words
      PROVE  Error(w) \in Seq(Piece) /\ Status(w) \in Seq(Piece)
  <2>1. U(w, 0) \in Unit
    BY <1>2, UnitIs
  <2> DEFINE a == <<U("-ERR", 0)>>
             b == <<U("+", 0)>>
             e == <<U(w, 0)>>
             z == <<CRLF>>
  <2>2. a \in Piece /\ b \in Piece /\ e \in Piece /\ z \in Piece
    BY <1>3, <2>1, PieceOfOne
  <2>3. Error(w) = <<a, e, z>> /\ Status(w) = <<b, e, z>>
    BY DEF Error, Status
  <2> HIDE DEF a, b, e, z
  <2> QED
    BY <2>2, <2>3
<1>5. ASSUME NEW w \in Words, NEW n \in Int
      PROVE  LongLong(w, n) \in Seq(Piece) /\ LongLong(w, n)[1] \in Piece
  <2> DEFINE a == <<U(w, n), CRLF>>
  <2>1. a \in Piece
    BY <1>3, UnitIs, PieceOfTwo
  <2>2. LongLong(w, n) = <<a>>
    BY DEF LongLong
  <2> HIDE DEF a
  <2> QED
    BY <2>1, <2>2
<1> QED
  BY <1>4, <1>5

(* The reply of a command is made of pieces. *)
LEMMA LegacyPieces ==
  ASSUME NEW name \in DOMAIN Commands
  PROVE  LegacyReply(Commands[name]) \in Seq(Piece)
<1> DEFINE k == Commands[name]
           zero == LongLong(":", 0)[1]
           zeroes == [i \in 1..k.nresp |-> zero]
<1>1. k.nresp \in Nat /\ k.resp \in Nat /\ k.nresp \in Int /\ k.resp \in Int
  BY BufferAssumption
<1>2. "OK" \in Words /\ ":" \in Words /\ "*" \in Words /\ "error performing" \in Words
  BY Zenon DEF Words
<1>3. 0 \in Int
  OBVIOUS
<1>4. /\ Status("OK") \in Seq(Piece) /\ Error("error performing") \in Seq(Piece)
      /\ LongLong(":", k.resp) \in Seq(Piece) /\ LongLong("*", k.nresp) \in Seq(Piece)
      /\ zero \in Piece
  BY <1>1, <1>2, <1>3, WordingPieces
<1>5. LegacyReply(k) = CASE k.nresp = 0 -> Status("OK")
                         [] k.nresp = 1 -> LongLong(":", k.resp)
                         [] OTHER -> IF k.resp # 0 THEN Error("error performing")
                                     ELSE LongLong("*", k.nresp) \o zeroes
  BY DEF LegacyReply
<1> HIDE DEF k, zero
<1>6. zeroes \in Seq(Piece)
  <2> DEFINE n == k.nresp
  <2>1. n \in Nat /\ zero \in Piece
    BY <1>1, <1>4
  <2> HIDE DEF n
  <2>2. [i \in 1..n |-> zero] \in [1..n -> Piece]
    BY <2>1
  <2>3. [1..n -> Piece] \subseteq Seq(Piece)
    BY <2>1, SeqDef, Zenon
  <2> QED
    BY <2>2, <2>3 DEF n
<1> HIDE DEF zeroes
<1>7. LongLong("*", k.nresp) \o zeroes \in Seq(Piece)
  BY <1>4, <1>6, ConcatProperties
<1>8. CASE k.nresp = 0
  BY <1>4, <1>5, <1>8 DEF k
<1>9. CASE k.nresp = 1
  BY <1>4, <1>5, <1>9 DEF k
<1>10. CASE k.nresp # 0 /\ k.nresp # 1
  BY <1>4, <1>5, <1>7, <1>10 DEF k
<1> QED
  BY <1>8, <1>9, <1>10

-----------------------------------------------------------------------------
(* Numbers and lines *)

(* string2ll returns a number or none. *)
LEMMA NumberOrNone ==
  ASSUME NEW s \in Seq(0..255)
  PROVE  string2ll(s) # <<>> => string2ll(s)[1] \in Int
<1> DEFINE negative == s # <<>> /\ Head(s) = MINUS
           digits == IF negative THEN Tail(s) ELSE s
           v == IF digits = <<>> \/ Head(digits) \notin 49..57 THEN -1
                ELSE Digits(digits)
<1>1. digits \in Seq(0..255)
  BY HeadTailProperties
<1>2. ASSUME digits # <<>>
      PROVE  Digits(digits) \in Int
  <2> DEFINE t == Tail(digits)
             n == Len(t)
  <2> HIDE DEF digits
  <2>1. t \in Seq(0..255) /\ n \in Nat /\ DOMAIN t = 1..n /\ Head(digits) \in 0..255
    BY <1>1, <1>2, HeadTailProperties
  <2> HIDE DEF n
  <2>2. PICK g : /\ g[0] = Head(digits) - 48
                 /\ \A k \in 1..n : g[k] = NextDigit(g[k - 1], t[k])
                 /\ Digits(digits) = g[n]
    BY <2>1, FoldDigits
  <2> DEFINE Good == {k \in Nat : k <= n => g[k] \in Int}
  <2>3. 0 \in Good
    <3> DEFINE h == Head(digits)
    <3>1. h \in 0..255
      BY <2>1
    <3> HIDE DEF h
    <3>2. h - 48 \in Int
      BY <3>1
    <3>3. g[0] = h - 48
      BY <2>2 DEF h
    <3>4. g[0] \in Int
      BY <3>2, <3>3
    <3>5. 0 \in Nat
      OBVIOUS
    <3> QED
      BY <3>4, <3>5, Zenon
  <2>4. ASSUME NEW k \in Nat, k \in Good
        PROVE  k + 1 \in Good
    <3> SUFFICES ASSUME k + 1 <= n
                 PROVE  g[k + 1] \in Int
      OBVIOUS
    <3>1. k + 1 \in 1..n /\ (k + 1) - 1 = k /\ k <= n
      BY <2>1
    <3>2. g[k + 1] = NextDigit(g[k], t[k + 1])
      BY <2>2, <3>1
    <3>3. t[k + 1] \in 0..255
      BY <2>1, <3>1, ElementOfSeq DEF n
    <3> DEFINE b == t[k + 1]
               w == g[k]
    <3>b. w \in Int
      BY <2>4, <3>1, Zenon
    <3>c. b \in 0..255
      BY <3>3
    <3> HIDE DEF b, w
    <3>4. b \in Int /\ w \in Int
      BY <3>b, <3>c
    <3>5. NextDigit(w, b) \in Int
      BY <3>4 DEF NextDigit
    <3> QED
      BY <3>2, <3>5 DEF b, w
  <2> HIDE DEF Good
  <2>5. Nat \subseteq Good
    BY <2>3, <2>4, NaturalsInSet
  <2> QED
    BY <2>1, <2>2, <2>5 DEF Good
<1>3. v \in Int
  BY <1>2
<1>4. string2ll(s) = CASE s = <<48>> -> <<0>>
                       [] v = -1 -> <<>>
                       [] negative /\ v <= -LLONG_MIN -> <<-v>>
                       [] ~negative /\ v <= LLONG_MAX -> <<v>>
                       [] OTHER -> <<>>
  BY DEF string2ll
<1> HIDE DEF v, negative
<1>5. string2ll(s) \in {<<0>>, <<>>, <<-v>>, <<v>>}
  BY <1>4
<1> QED
  BY <1>3, <1>5

(* What of the query buffer is not parsed yet, and where a line ends in it. *)
LEMMA RestAndLine ==
  ASSUME NEW c, Kept(c), NEW b
  PROVE  /\ Rest(c) \in Seq(0..255) /\ Len(Rest(c)) \in Nat
         /\ Strchr(Rest(c), b) \in 0..Len(Rest(c))
<1>1. /\ c.querybuf \in Seq(0..255) /\ c.qb_pos \in Nat
      /\ Len(c.querybuf) \in Nat
  BY DEF Kept
<1> DEFINE m == c.qb_pos
           q == c.querybuf
<1> HIDE DEF m, q
<1>2. \A i \in m + 1..Len(q) : i \in 1..Len(q)
  BY <1>1 DEF m, q
<1>3. \A i \in m + 1..Len(q) : q[i] \in 0..255
  BY <1>1, <1>2, ElementOfSeq DEF m, q
<1>4. SubSeq(q, m + 1, Len(q)) \in Seq(0..255)
  BY <1>1, <1>3, SubSeqProperties DEF m, q
<1>5. Rest(c) \in Seq(0..255) /\ Len(Rest(c)) \in Nat
  BY <1>4 DEF Rest, m, q
<1> DEFINE r == Rest(c)
<1> HIDE DEF r
<1>6. Strchr(r, b) \in 0..Len(r)
  BY <1>5 DEF Strchr, r
<1> QED
  BY <1>5, <1>6 DEF r

(* The number in a line. *)
LEMMA NumberInLine ==
  ASSUME NEW r \in Seq(0..255), NEW n \in 0..Len(r)
  PROVE  string2ll(SubSeq(r, 2, n - 1)) # <<>> =>
           string2ll(SubSeq(r, 2, n - 1))[1] \in Int
<1> DEFINE s == SubSeq(r, 2, n - 1)
<1>1. \A i \in 2..n - 1 : i \in 1..Len(r)
  OBVIOUS
<1>2. \A i \in 2..n - 1 : r[i] \in 0..255
  BY <1>1, ElementOfSeq
<1>3. s \in Seq(0..255)
  BY <1>2, SubSeqProperties
<1> HIDE DEF s
<1>4. string2ll(s) # <<>> => string2ll(s)[1] \in Int
  BY <1>3, NumberOrNone
<1> QED
  BY <1>4 DEF s

\* What parsing makes of a client, and how far it gets.
Outcome(c, x) ==
  /\ x.is \in {"ready", "not yet", "more"} /\ Follows(c, x.client)
  /\ x.is = "not yet" => WellKept(x.client)

(* The results of the steps of the parser. *)
LEMMA Results ==
  ASSUME NEW c
  PROVE  /\ Ready(c).client = c /\ Ready(c).is = "ready"
         /\ NotYet(c).client = c /\ NotYet(c).is = "not yet"
         /\ More(c).client = c /\ More(c).is = "more"
  BY DEF Ready, NotYet, More

(* A client whose request is refused is closed after the reply. *)
LEMMA RefuseOutcome ==
  ASSUME NEW c, Kept(c), NEW why \in Words
  PROVE  Outcome(c, Refuse(c, why)) /\ Refuse(c, why).is = "not yet"
<1> DEFINE d == AddReply(c, Error(why))
           e == setProtocolError(d)
           x == Refuse(c, why)
<1>1. Error(why) \in Seq(Piece)
  BY WordingPieces
<1>2. Follows(c, d)
  BY <1>1, ReplyFollows
<1>x. x = NotYet(e)
  BY DEF Refuse
<1> HIDE DEF d
<1>3. Kept(d)
  BY <1>2 DEF Follows
<1>4. Follows(d, e) /\ e.flags = d.flags \cup {"CLOSE_AFTER_REPLY"}
  BY <1>3, FlagFollows DEF setProtocolError
<1> HIDE DEF e, x
<1>5. Follows(c, e)
  BY <1>2, <1>4, FollowsOn
<1>6. WellKept(e)
  BY <1>4, <1>5 DEF WellKept, Follows
<1>7. x.client = e /\ x.is = "not yet"
  BY <1>x, Results
<1> QED
  BY <1>5, <1>6, <1>7 DEF Outcome, x

(* Nothing more is parsed. *)
LEMMA NotYetOutcome ==
  ASSUME NEW c, WellKept(c)
  PROVE  Outcome(c, NotYet(c)) /\ NotYet(c).is = "not yet"
<1> DEFINE x == NotYet(c)
<1>1. x.client = c /\ x.is = "not yet"
  BY Results
<1> HIDE DEF x
<1> QED
  BY <1>1 DEF Outcome, Follows, WellKept, x

(* A line that has not come yet. *)
LEMMA NoLineOutcome ==
  ASSUME NEW c, WellKept(c)
  PROVE  Outcome(c, NoLine(c)) /\ NoLine(c).is = "not yet"
<1>1. "too big" \in Words
  BY Zenon DEF Words
<1>2. Kept(c)
  BY DEF WellKept
<1>3. Outcome(c, Refuse(c, "too big")) /\ Refuse(c, "too big").is = "not yet"
  BY <1>1, <1>2, RefuseOutcome
<1>4. Outcome(c, NotYet(c)) /\ NotYet(c).is = "not yet"
  BY NotYetOutcome
<1>5. NoLine(c) = IF Len(Rest(c)) > PROTO_INLINE_MAX_SIZE
                    THEN Refuse(c, "too big") ELSE NotYet(c)
  BY DEF NoLine
<1> QED
  BY <1>3, <1>4, <1>5

(* What is skipped is never parsed again. *)
LEMMA Skipped ==
  ASSUME NEW c, Kept(c), NEW n \in Nat
  PROVE  LET d == Skip(c, n)
         IN /\ Follows(c, d) /\ DOMAIN d = ClientFields
            /\ d.multibulklen = c.multibulklen /\ d.argv = c.argv
            /\ d.flags = c.flags
<1> DEFINE d == Skip(c, n)
<1>1. /\ DOMAIN d = ClientFields /\ d.qb_pos = c.qb_pos + n
      /\ \A f \in ClientFields \ {"qb_pos"} : d[f] = c[f]
  BY DEF Skip, Kept, ClientFields
<1> DEFINE m == c.qb_pos
<1>2. m \in Nat
  BY DEF Kept
<1> HIDE DEF m, d
<1>3. m + n \in Nat
  BY <1>2
<1>4. d.qb_pos \in Nat
  BY <1>1, <1>3 DEF m
<1>5. Follows(c, d)
  BY <1>1, <1>4, ParseChanges, SMTT(20) DEF Kept, ClientFields
<1> QED
  BY <1>1, <1>5 DEF ClientFields, d

(* The start of the query buffer is thrown away. *)
LEMMA TrimmedKept ==
  ASSUME NEW c, Kept(c)
  PROVE  LET d == Trimmed(c)
         IN /\ Follows(c, d) /\ DOMAIN d = ClientFields
            /\ d.multibulklen = c.multibulklen /\ d.argv = c.argv
            /\ d.flags = c.flags
<1> DEFINE d == Trimmed(c)
           r == Rest(c)
<1>1. r \in Seq(0..255)
  BY RestAndLine
<1> HIDE DEF r
<1>2. d = [c EXCEPT !.querybuf = r, !.qb_pos = 0]
  BY DEF Trimmed, r
<1> HIDE DEF d
<1>3. /\ DOMAIN d = ClientFields /\ d.qb_pos = 0 /\ d.querybuf = r
      /\ \A f \in ClientFields \ {"qb_pos", "querybuf"} : d[f] = c[f]
  BY <1>2 DEF Kept, ClientFields
<1>4. d.querybuf \in Seq(0..255) /\ d.qb_pos \in Nat
  <2>1. d.querybuf \in Seq(0..255)
    BY <1>1, <1>3, Zenon
  <2>2. d.qb_pos \in Nat
    BY <1>3
  <2> QED
    BY <2>1, <2>2
<1>5. /\ d.multibulklen \in 0..MaxMultibulk /\ d.bulklen \in Int /\ d.bulklen >= -1
      /\ d.buf = c.buf /\ d.reply = c.reply /\ d.reply_bytes = c.reply_bytes
      /\ d.sentlen = c.sentlen /\ d.flags = c.flags
  BY <1>3 DEF Kept, ClientFields
<1>6. Follows(c, d)
  BY <1>3, <1>4, <1>5, ParseChanges, Zenon
<1> QED
  BY <1>3, <1>6 DEF ClientFields, d

(* A command on a line of its own. *)
LEMMA InlineOutcome ==
  ASSUME NEW c, WellKept(c)
  PROVE  LET y == processInlineBuffer(c)
         IN Outcome(c, y) /\ y.is # "more"
<1> DEFINE rest == Rest(c)
           newline == Strchr(rest, LF)
           length == IF newline > 1 /\ rest[newline - 1] = CR
                       THEN newline - 2 ELSE newline - 1
           args == sdssplitargs(SubSeq(rest, 1, length))
           y == processInlineBuffer(c)
           d == Skip(c, newline)
           e == [d EXCEPT !.argv = WithoutEmpty(args[1])]
<1>k. Kept(c)
  BY DEF WellKept
<1>1. y = CASE newline = 0 -> NoLine(c)
            [] newline # 0 /\ args = <<>> -> Refuse(c, "unbalanced quotes")
            [] OTHER -> Ready(e)
  BY DEF processInlineBuffer
<1>2. newline \in 0..Len(rest) /\ Len(rest) \in Nat
  BY <1>k, RestAndLine
<1> HIDE DEF y, args, newline, rest
<1>3. newline \in Nat
  BY <1>2
<1>4. CASE newline = 0
  <2>1. y = NoLine(c)
    BY <1>1, <1>4
  <2>2. Outcome(c, NoLine(c)) /\ NoLine(c).is = "not yet"
    BY NoLineOutcome
  <2> QED
    BY <2>1, <2>2 DEF y
<1>5. CASE newline # 0 /\ args = <<>>
  <2>1. "unbalanced quotes" \in Words
    BY Zenon DEF Words
  <2>2. /\ Outcome(c, Refuse(c, "unbalanced quotes"))
        /\ Refuse(c, "unbalanced quotes").is = "not yet"
    BY <1>k, <2>1, RefuseOutcome
  <2> QED
    BY <1>1, <1>5, <2>2 DEF y
<1>6. CASE newline # 0 /\ args # <<>>
  <2>1. y = Ready(e)
    BY <1>1, <1>6
  <2>2. Follows(c, d) /\ DOMAIN d = ClientFields
    BY <1>k, <1>3, Skipped
  <2> HIDE DEF d
  <2>3. /\ DOMAIN e = ClientFields
        /\ \A f \in ClientFields \ {"argv"} : e[f] = d[f]
    BY <2>2 DEF ClientFields
  <2> HIDE DEF e
  <2>4. Kept(d)
    BY <2>2 DEF Follows
  <2>5. Follows(d, e)
    BY <2>3, <2>4, ParseChanges, ZenonT(30) DEF Kept, ClientFields
  <2>6. Follows(c, e)
    BY <2>2, <2>5, FollowsOn
  <2>7. y.is = "ready" /\ y.client = e
    BY <2>1, Results
  <2> QED
    BY <2>6, <2>7 DEF Outcome, y
<1> QED
  BY <1>4, <1>5, <1>6

(* The number of arguments. *)
LEMMA MultibulkLengthOutcome ==
  ASSUME NEW c, WellKept(c)
  PROVE  Outcome(c, MultibulkLength(c))
<1> DEFINE rest == Rest(c)
           newline == Strchr(rest, CR)
           ll == string2ll(SubSeq(rest, 2, newline - 1))
           y == MultibulkLength(c)
           d == Skip(c, newline + 1)
           e == [d EXCEPT !.multibulklen = ll[1]]
<1>k. Kept(c)
  BY DEF WellKept
<1>m. MaxMultibulk \in Nat
  BY BufferAssumption
<1>1. y = CASE newline = 0 -> NoLine(c)
            [] newline # 0 /\ newline = Len(rest) -> NotYet(c)
            [] newline \in 1..Len(rest) - 1 /\ (ll = <<>> \/ ll[1] > MaxMultibulk) ->
                 Refuse(c, "invalid multibulk length")
            [] OTHER -> IF ll[1] <= 0 THEN Ready(d) ELSE More(e)
  BY DEF MultibulkLength
<1>2. newline \in 0..Len(rest) /\ Len(rest) \in Nat /\ rest \in Seq(0..255)
  BY <1>k, RestAndLine
<1> HIDE DEF y, rest, newline
<1>3. ll # <<>> => ll[1] \in Int
  BY <1>2, NumberInLine
<1>4. newline + 1 \in Nat
  BY <1>2
<1> HIDE DEF ll
<1>5. CASE newline = 0
  <2>1. y = NoLine(c)
    BY <1>1, <1>5
  <2> QED
    BY <2>1, NoLineOutcome DEF y
<1>6. CASE newline # 0 /\ newline = Len(rest)
  <2>1. y = NotYet(c)
    <3>1. newline # 0 /\ newline = Len(rest) /\ newline \notin 1..Len(rest) - 1
      BY <1>2, <1>6
    <3> QED
      BY <1>1, <3>1, Zenon
  <2> QED
    BY <2>1, NotYetOutcome DEF y
<1>7. CASE newline \in 1..Len(rest) - 1 /\ (ll = <<>> \/ ll[1] > MaxMultibulk)
  <2>1. "invalid multibulk length" \in Words
    BY Zenon DEF Words
  <2>2. Outcome(c, Refuse(c, "invalid multibulk length"))
    BY <1>k, <2>1, RefuseOutcome
  <2>3. newline # 0 /\ newline # Len(rest)
    BY <1>2, <1>7
  <2> QED
    BY <1>1, <1>7, <2>2, <2>3 DEF y
<1>8. CASE newline \in 1..Len(rest) - 1 /\ ~ (ll = <<>> \/ ll[1] > MaxMultibulk)
  <2>1. newline # 0 /\ newline # Len(rest)
    BY <1>2, <1>8
  <2>2. y = IF ll[1] <= 0 THEN Ready(d) ELSE More(e)
    BY <1>1, <1>8, <2>1
  <2>3. Follows(c, d) /\ DOMAIN d = ClientFields
    BY <1>k, <1>4, Skipped
  <2> HIDE DEF d
  <2>4. Kept(d)
    BY <2>3 DEF Follows
  <2>5. CASE ll[1] <= 0
    <3>1. y.is = "ready" /\ y.client = d
      BY <2>2, <2>5, Results
    <3> QED
      BY <2>3, <3>1 DEF Outcome, y
  <2>6. CASE ~ (ll[1] <= 0)
    <3> DEFINE n == ll[1]
    <3>1. n \in Int /\ ~ (n <= 0) /\ ~ (n > MaxMultibulk)
      BY <1>3, <1>8, <2>6
    <3> HIDE DEF n
    <3>2. n \in 0..MaxMultibulk
      BY <1>m, <3>1
    <3>3. /\ DOMAIN e = ClientFields /\ e.multibulklen = n
          /\ \A f \in ClientFields \ {"multibulklen"} : e[f] = d[f]
      BY <2>3 DEF ClientFields, n
    <3>4. y = More(e)
      BY <2>2, <2>6
    <3> HIDE DEF e
    <3>5. Follows(d, e)
      BY <2>4, <3>2, <3>3, ParseChanges, ZenonT(30) DEF Kept, ClientFields
    <3>6. Follows(c, e)
      BY <2>3, <3>5, FollowsOn
    <3>7. y.is = "more" /\ y.client = e
      BY <3>4, Results
    <3> QED
      BY <3>6, <3>7 DEF Outcome, y
  <2> QED
    BY <2>5, <2>6
<1> QED
  BY <1>2, <1>5, <1>6, <1>7, <1>8

(* The length of an argument. *)
LEMMA BulkLengthOutcome ==
  ASSUME NEW c, Kept(c), c.multibulklen # 0
  PROVE  LET y == BulkLength(c)
         IN /\ Outcome(c, y)
            /\ y.is = "more" => y.client.multibulklen = c.multibulklen
<1> DEFINE rest == Rest(c)
           newline == Strchr(rest, CR)
           ll == string2ll(SubSeq(rest, 2, newline - 1))
           y == BulkLength(c)
           d == Skip(c, newline + 1)
           e == MakeRoom(d, ll[1])
           f == [e EXCEPT !.bulklen = ll[1]]
           some == newline \in 1..Len(rest) - 1
           none == ll = <<>> \/ ll[1] < 0 \/ ll[1] > proto_max_bulk_len
<1>k. WellKept(c)
  BY DEF WellKept
<1>1. y = CASE newline = 0 -> NoLine(c)
            [] newline # 0 /\ newline = Len(rest) -> NotYet(c)
            [] some /\ rest[1] # DOLLAR -> Refuse(c, "expected '$'")
            [] some /\ rest[1] = DOLLAR /\ none -> Refuse(c, "invalid bulk length")
            [] OTHER -> More(f)
  BY DEF BulkLength
<1>2. newline \in 0..Len(rest) /\ Len(rest) \in Nat /\ rest \in Seq(0..255)
  BY RestAndLine
<1> HIDE DEF y, rest, newline
<1>3. ll # <<>> => ll[1] \in Int
  BY <1>2, NumberInLine
<1>4. /\ newline + 1 \in Nat /\ (newline = 0 => ~ some)
      /\ (newline = Len(rest) => ~ some)
      /\ (newline # 0 /\ newline # Len(rest) => some)
  BY <1>2
<1> HIDE DEF ll, some
<1>n. ~ none => ll[1] \in Int /\ ll[1] >= 0
  BY <1>3
<1> HIDE DEF none
<1>5. CASE newline = 0
  <2>1. y = NoLine(c)
    BY <1>1, <1>4, <1>5, Zenon
  <2>2. Outcome(c, NoLine(c)) /\ NoLine(c).is = "not yet"
    BY <1>k, NoLineOutcome
  <2> QED
    BY <2>1, <2>2 DEF y
<1>6. CASE newline # 0 /\ newline = Len(rest)
  <2>1. y = NotYet(c)
    BY <1>1, <1>4, <1>6, Zenon
  <2>2. Outcome(c, NotYet(c)) /\ NotYet(c).is = "not yet"
    BY <1>k, NotYetOutcome
  <2> QED
    BY <2>1, <2>2 DEF y
<1>7. CASE newline # 0 /\ some /\ rest[1] # DOLLAR
  <2>1. "expected '$'" \in Words
    BY Zenon DEF Words
  <2>2. y = Refuse(c, "expected '$'")
    BY <1>1, <1>4, <1>7, Zenon
  <2>3. Outcome(c, Refuse(c, "expected '$'")) /\ Refuse(c, "expected '$'").is = "not yet"
    BY <2>1, RefuseOutcome
  <2> QED
    BY <2>2, <2>3 DEF y
<1>8. CASE newline # 0 /\ some /\ rest[1] = DOLLAR /\ none
  <2>1. "invalid bulk length" \in Words
    BY Zenon DEF Words
  <2>2. y = Refuse(c, "invalid bulk length")
    BY <1>1, <1>4, <1>8, Zenon
  <2>3. /\ Outcome(c, Refuse(c, "invalid bulk length"))
        /\ Refuse(c, "invalid bulk length").is = "not yet"
    BY <2>1, RefuseOutcome
  <2> QED
    BY <2>2, <2>3 DEF y
<1>9. CASE newline # 0 /\ some /\ rest[1] = DOLLAR /\ ~ none
  <2>1. y = More(f)
    BY <1>1, <1>4, <1>9, Zenon
  <2>2. /\ Follows(c, d) /\ DOMAIN d = ClientFields
        /\ d.multibulklen = c.multibulklen
    BY <1>4, Skipped
  <2> HIDE DEF d
  <2>3. Kept(d)
    BY <2>2 DEF Follows
  <2>4. /\ Follows(d, e) /\ DOMAIN e = ClientFields
        /\ e.multibulklen = d.multibulklen
    <3>1. e = Trimmed(d) \/ e = d
      BY DEF MakeRoom
    <3>2. /\ Follows(d, Trimmed(d)) /\ DOMAIN Trimmed(d) = ClientFields
          /\ Trimmed(d).multibulklen = d.multibulklen
      BY <2>3, TrimmedKept
    <3>3. Follows(d, d)
      BY <2>3 DEF Follows
    <3> HIDE DEF e
    <3> QED
      BY <2>2, <3>1, <3>2, <3>3
  <2> HIDE DEF e
  <2>5. /\ DOMAIN f = ClientFields /\ f.bulklen = ll[1]
        /\ \A g \in ClientFields \ {"bulklen"} : f[g] = e[g]
    BY <2>4 DEF ClientFields
  <2> HIDE DEF f
  <2>6. Kept(e)
    BY <2>4 DEF Follows
  <2>7. ll[1] \in Int /\ ll[1] >= 0
    BY <1>n, <1>9
  <2>8. f.bulklen \in Int /\ f.bulklen >= -1
    <3> DEFINE n == ll[1]
    <3> HIDE DEF n
    <3>1. n \in Int /\ n >= 0
      BY <2>7 DEF n
    <3>2. n >= -1
      BY <3>1
    <3> QED
      BY <2>5, <3>1, <3>2 DEF n
  <2>9. Follows(e, f)
    BY <2>5, <2>6, <2>8, ParseChanges, ZenonT(30) DEF Kept, ClientFields
  <2>10. Follows(c, f)
    BY <2>2, <2>4, <2>9, FollowsOn
  <2>11. y.is = "more" /\ y.client = f
    BY <2>1, Results
  <2>12. f.multibulklen = c.multibulklen
    BY <2>2, <2>4, <2>5 DEF ClientFields
  <2> QED
    BY <2>10, <2>11, <2>12 DEF Outcome, y
<1> QED
  BY <1>4, <1>5, <1>6, <1>7, <1>8, <1>9

(* An argument. *)
LEMMA BulkArgumentOutcome ==
  ASSUME NEW c, Kept(c), c.multibulklen # 0
  PROVE  LET y == BulkArgument(c)
         IN /\ Outcome(c, y)
            /\ y.is = "more" => y.client.multibulklen = c.multibulklen - 1
<1> DEFINE whole == /\ c.qb_pos = 0 /\ c.bulklen >= PROTO_MBULK_BIG_ARG
                    /\ Len(c.querybuf) = c.bulklen + 2
           next == [c EXCEPT !.bulklen = -1, !.multibulklen = @ - 1]
           taken == [next EXCEPT !.argv = Append(@, c.querybuf), !.querybuf = <<>>]
           past == Skip(next, c.bulklen + 2)
           copied == [past EXCEPT !.argv = Append(@, SubSeq(Rest(c), 1, c.bulklen))]
           y == BulkArgument(c)
<1>1. y = IF Len(Rest(c)) < c.bulklen + 2 THEN NotYet(c)
          ELSE IF whole THEN More(taken) ELSE More(copied)
  BY DEF BulkArgument
<1>k. WellKept(c)
  BY DEF WellKept
<1> HIDE DEF y, whole
<1>2. /\ DOMAIN next = ClientFields /\ next.bulklen = -1
      /\ next.multibulklen = c.multibulklen - 1
      /\ \A g \in ClientFields \ {"bulklen", "multibulklen"} : next[g] = c[g]
  BY DEF Kept, ClientFields
<1> HIDE DEF next
<1>3. next.multibulklen \in 0..MaxMultibulk /\ next.bulklen \in Int /\ next.bulklen >= -1
  <2> DEFINE n == c.multibulklen
  <2>1. n \in 0..MaxMultibulk /\ n # 0 /\ MaxMultibulk \in Nat
    BY BufferAssumption DEF Kept
  <2> HIDE DEF n
  <2>2. n - 1 \in 0..MaxMultibulk
    BY <2>1
  <2>3. -1 \in Int /\ -1 >= -1
    OBVIOUS
  <2> QED
    BY <1>2, <2>2, <2>3 DEF n
<1>4. Follows(c, next)
  BY <1>2, <1>3, ParseChanges, ZenonT(30) DEF Kept, ClientFields
<1>5. Kept(next)
  BY <1>4 DEF Follows
<1>6. Follows(c, taken) /\ taken.multibulklen = c.multibulklen - 1
  <2>1. /\ DOMAIN taken = ClientFields /\ taken.querybuf = <<>>
        /\ \A g \in ClientFields \ {"argv", "querybuf"} : taken[g] = next[g]
    BY <1>2 DEF ClientFields
  <2> HIDE DEF taken
  <2>2. <<>> \in Seq(0..255)
    OBVIOUS
  <2>3. Follows(next, taken)
    BY <1>5, <2>1, <2>2, ParseChanges, ZenonT(30) DEF Kept, ClientFields
  <2> QED
    BY <1>2, <1>4, <2>1, <2>3, FollowsOn DEF ClientFields
<1>7. Follows(c, copied) /\ copied.multibulklen = c.multibulklen - 1
  <2> DEFINE n == c.bulklen
  <2>1. n \in Int /\ n >= -1
    BY DEF Kept
  <2> HIDE DEF n
  <2>2. n + 2 \in Nat
    BY <2>1
  <2>3. /\ Follows(next, past) /\ DOMAIN past = ClientFields
        /\ past.multibulklen = next.multibulklen
    BY <1>5, <2>2, Skipped DEF n
  <2> HIDE DEF past
  <2>4. /\ DOMAIN copied = ClientFields
        /\ \A g \in ClientFields \ {"argv"} : copied[g] = past[g]
    BY <2>3 DEF ClientFields
  <2> HIDE DEF copied
  <2>5. Kept(past)
    BY <2>3 DEF Follows
  <2>6. Follows(past, copied)
    BY <2>4, <2>5, ParseChanges, ZenonT(30) DEF Kept, ClientFields
  <2>7. Follows(c, past)
    BY <1>4, <2>3, FollowsOn
  <2>8. Follows(c, copied)
    BY <2>6, <2>7, FollowsOn
  <2> QED
    BY <1>2, <2>3, <2>4, <2>8 DEF ClientFields
<1> HIDE DEF taken, copied
<1>8. y = NotYet(c) \/ y = More(taken) \/ y = More(copied)
  BY <1>1
<1>9. CASE y = NotYet(c)
  <2>1. Outcome(c, NotYet(c)) /\ NotYet(c).is = "not yet"
    BY <1>k, NotYetOutcome
  <2> QED
    BY <1>9, <2>1 DEF y
<1>10. CASE y = More(taken)
  <2>1. y.is = "more" /\ y.client = taken
    BY <1>10, Results
  <2> QED
    BY <1>6, <2>1 DEF Outcome, y
<1>11. CASE y = More(copied)
  <2>1. y.is = "more" /\ y.client = copied
    BY <1>11, Results
  <2> QED
    BY <1>7, <2>1 DEF Outcome, y
<1> QED
  BY <1>8, <1>9, <1>10, <1>11

-----------------------------------------------------------------------------
(* The loop over the arguments *)

\* After k rounds, no more arguments are missing than rounds are left.
Arguing(c, x, k) ==
  Outcome(c, x) /\ (x.is = "more" => x.client.multibulklen + k <= MaxMultibulk)

(* One round. *)
LEMMA NextArgumentKeeps ==
  ASSUME NEW c, NEW k \in Nat, NEW x, Arguing(c, x, k)
  PROVE  Arguing(c, NextArgument(x), k + 1)
<1> DEFINE d == x.client
           length == IF d.bulklen = -1 THEN BulkLength(d) ELSE x
           y == NextArgument(x)
<1>1. y = CASE x.is # "more" -> x
            [] x.is = "more" /\ d.multibulklen = 0 -> Ready(d)
            [] OTHER -> IF length.is = "more" THEN BulkArgument(length.client)
                        ELSE length
  BY DEF NextArgument
<1>2. Outcome(c, x) /\ Follows(c, d) /\ Kept(d)
  BY DEF Arguing, Outcome, Follows
<1> HIDE DEF y, d
<1>3. CASE x.is # "more"
  BY <1>1, <1>2, <1>3 DEF Arguing, y
<1>4. CASE x.is = "more" /\ d.multibulklen = 0
  <2>1. y.is = "ready" /\ y.client = d
    BY <1>1, <1>4, Results
  <2> QED
    BY <1>2, <2>1 DEF Arguing, Outcome, y
<1>5. CASE x.is = "more" /\ d.multibulklen # 0
  <2>1. y = IF length.is = "more" THEN BulkArgument(length.client) ELSE length
    BY <1>1, <1>5
  <2>2. Outcome(d, length) /\ (length.is = "more" => length.client.multibulklen = d.multibulklen)
    <3>1. CASE d.bulklen = -1
      <4> DEFINE z == BulkLength(d)
      <4>1. Outcome(d, z) /\ (z.is = "more" => z.client.multibulklen = d.multibulklen)
        BY <1>2, <1>5, BulkLengthOutcome
      <4> QED
        BY <3>1, <4>1
    <3>2. CASE d.bulklen # -1
      <4>1. length = x
        BY <3>2
      <4>2. Follows(d, d)
        BY <1>2 DEF Follows
      <4>3. Outcome(d, x)
        BY <1>5, <4>2 DEF Outcome, d
      <4> QED
        BY <4>1, <4>3 DEF d
    <3> QED
      BY <3>1, <3>2
  <2> HIDE DEF length
  <2> DEFINE e == length.client
             z == BulkArgument(e)
  <2>3. Follows(d, e) /\ Follows(c, e) /\ Kept(e)
    <3>1. Follows(d, e)
      BY <2>2 DEF Outcome
    <3> HIDE DEF e
    <3> QED
      BY <1>2, <3>1, FollowsOn DEF Follows
  <2>4. CASE length.is # "more"
    <3>1. y = length
      BY <2>1, <2>4
    <3>2. Outcome(c, length)
      BY <2>2, <2>3 DEF Outcome
    <3> QED
      BY <2>4, <3>1, <3>2 DEF Arguing, y
  <2>5. CASE length.is = "more"
    <3>1. y = z
      BY <2>1, <2>5
    <3>2. e.multibulklen = d.multibulklen /\ e.multibulklen # 0
      BY <1>5, <2>2, <2>5
    <3> HIDE DEF e
    <3>3. Outcome(e, z) /\ (z.is = "more" => z.client.multibulklen = e.multibulklen - 1)
      BY <2>3, <3>2, BulkArgumentOutcome
    <3> HIDE DEF z
    <3>4. Follows(c, z.client)
      <4> DEFINE f == z.client
      <4>1. Follows(e, f)
        BY <3>3 DEF Outcome
      <4> HIDE DEF f
      <4>2. Follows(c, f)
        BY <2>3, <4>1, FollowsOn
      <4> QED
        BY <4>2 DEF f
    <3>5. Outcome(c, z)
      BY <3>3, <3>4 DEF Outcome
    <3>6. z.is = "more" => z.client.multibulklen + (k + 1) <= MaxMultibulk
      <4> SUFFICES ASSUME z.is = "more"
                   PROVE  z.client.multibulklen + (k + 1) <= MaxMultibulk
        OBVIOUS
      <4> DEFINE n == d.multibulklen
      <4>1. n \in Int /\ MaxMultibulk \in Nat
        BY <1>2, BufferAssumption DEF Kept
      <4>2. n + k <= MaxMultibulk
        BY <1>5 DEF Arguing, d
      <4>3. z.client.multibulklen = n - 1
        BY <3>2, <3>3
      <4> HIDE DEF n
      <4>4. (n - 1) + (k + 1) <= MaxMultibulk
        BY <4>1, <4>2
      <4> QED
        BY <4>3, <4>4
    <3> QED
      BY <3>1, <3>5, <3>6 DEF Arguing, y
  <2> QED
    BY <2>4, <2>5
<1> QED
  BY <1>3, <1>4, <1>5

(* A command of several arguments.  The loop has rounds enough to end. *)
LEMMA MultibulkOutcome ==
  ASSUME NEW c, WellKept(c)
  PROVE  LET y == processMultibulkBuffer(c)
         IN Outcome(c, y) /\ y.is # "more"
<1> DEFINE y == processMultibulkBuffer(c)
           m == MaxMultibulk + 1
           base == IF c.multibulklen = 0 THEN MultibulkLength(c) ELSE More(c)
<1>1. m \in Nat /\ MaxMultibulk \in Nat
  BY BufferAssumption
<1>2. DOMAIN [i \in 1..m |-> i] = 1..m
  OBVIOUS
<1> HIDE DEF y
<1>3. PICK g : /\ g[0] = base
               /\ \A k \in 1..m : g[k] = NextArgument(g[k - 1])
               /\ y = g[m]
  BY <1>1, <1>2, FoldArguments DEF y
<1>k. Kept(c)
  BY DEF WellKept
<1>4. Arguing(c, base, 0)
  <2>1. Outcome(c, base)
    <3>1. CASE c.multibulklen = 0
      <4>1. Outcome(c, MultibulkLength(c))
        BY MultibulkLengthOutcome
      <4> QED
        BY <3>1, <4>1
    <3>2. CASE c.multibulklen # 0
      <4>1. base.client = c /\ base.is = "more"
        BY <3>2, Results
      <4>2. Follows(c, c)
        BY <1>k DEF Follows
      <4> HIDE DEF base
      <4> QED
        BY <4>1, <4>2 DEF Outcome
    <3> QED
      BY <3>1, <3>2
  <2> HIDE DEF base
  <2> DEFINE n == base.client.multibulklen
  <2>2. n \in 0..MaxMultibulk
    BY <2>1 DEF Outcome, Follows, Kept
  <2> HIDE DEF n
  <2>3. n + 0 <= MaxMultibulk
    BY <1>1, <2>2
  <2> QED
    BY <2>1, <2>3 DEF Arguing, n
<1> HIDE DEF base
<1> DEFINE Good == {k \in Nat : k <= m => Arguing(c, g[k], k)}
<1>5. ASSUME NEW k \in Nat, k \in Good
      PROVE  k + 1 \in Good
  <2> SUFFICES ASSUME k + 1 <= m
               PROVE  Arguing(c, g[k + 1], k + 1)
    OBVIOUS
  <2>1. k + 1 \in 1..m /\ (k + 1) - 1 = k /\ k <= m
    BY <1>1
  <2>2. g[k + 1] = NextArgument(g[k])
    BY <1>3, <2>1
  <2>3. Arguing(c, g[k], k)
    BY <1>5, <2>1
  <2> DEFINE a == g[k]
  <2> HIDE DEF a
  <2>4. Arguing(c, NextArgument(a), k + 1)
    BY <2>3, NextArgumentKeeps DEF a
  <2> QED
    BY <2>2, <2>4 DEF a
<1>6. Arguing(c, y, m)
  <2> HIDE DEF Good, m
  <2>1. 0 \in Good
    BY <1>3, <1>4 DEF Good
  <2>2. Nat \subseteq Good
    BY <1>5, <2>1, NaturalsInSet
  <2>3. m \in Good
    BY <1>1, <2>2
  <2> QED
    BY <1>1, <1>3, <2>3 DEF Good
<1>7. y.is # "more"
  <2> SUFFICES ASSUME y.is = "more"
               PROVE  FALSE
    OBVIOUS
  <2> DEFINE n == y.client.multibulklen
  <2>1. n \in 0..MaxMultibulk /\ n + m <= MaxMultibulk
    BY <1>6 DEF Arguing, Outcome, Follows, Kept
  <2> HIDE DEF n
  <2> QED
    BY <1>1, <2>1
<1> QED
  BY <1>6, <1>7 DEF Arguing, y

(* A client that is ready for its next command. *)
LEMMA ResetKept ==
  ASSUME NEW c, Kept(c)
  PROVE  Follows(c, resetClient(c)) /\ WellKept(resetClient(c))
<1> DEFINE d == resetClient(c)
<1>1. /\ DOMAIN d = ClientFields /\ d.argv = <<>> /\ d.multibulklen = 0
      /\ d.bulklen = -1
      /\ \A f \in ClientFields \ {"argv", "reqtype", "multibulklen", "bulklen"} :
           d[f] = c[f]
  BY DEF resetClient, Kept, ClientFields
<1> HIDE DEF d
<1>2. 0 \in 0..MaxMultibulk /\ -1 \in Int /\ -1 >= -1
  BY BufferAssumption
<1>3. Follows(c, d)
  BY <1>1, <1>2, ParseChanges DEF Kept, ClientFields
<1> QED
  BY <1>1, <1>3 DEF Follows, WellKept, d

(* A command is carried out, or refused, and the client gets its reply. *)
LEMMA CommandDone ==
  ASSUME NEW c, Kept(c)
  PROVE  LET d == processCommandAndResetClient(c)
         IN Follows(c, d) /\ WellKept(d)
<1> DEFINE name == lookupCommand(c.argv[1])
           quit == ToLower(c.argv[1]) = QUIT
           wrong == WrongArity(Commands[name], Len(c.argv))
           d == processCommandAndResetClient(c)
<1>1. d = CASE quit -> Quit(c)
            [] ~ quit /\ name = <<>> ->
                 resetClient(AddReply(c, Error("unknown command")))
            [] ~ quit /\ name # <<>> /\ wrong ->
                 resetClient(AddReply(c, Error("wrong number of arguments")))
            [] OTHER -> resetClient(call(c, Commands[name]))
  BY DEF processCommandAndResetClient
<1>2. name # <<>> => name \in DOMAIN Commands
  BY DEF lookupCommand
<1> HIDE DEF name, quit, wrong, d
<1>3. ASSUME NEW e, Follows(c, e)
      PROVE  Follows(c, resetClient(e)) /\ WellKept(resetClient(e))
  <2>1. Kept(e)
    BY <1>3 DEF Follows
  <2>2. Follows(e, resetClient(e)) /\ WellKept(resetClient(e))
    BY <2>1, ResetKept
  <2> QED
    BY <1>3, <2>2, FollowsOn
<1>4. CASE quit
  <2> DEFINE s == <<U("+", 0), U("OK", 0)>>
             e == addReplyProto(c, s)
             f == Flag(e, "CLOSE_AFTER_REPLY")
  <2>1. d = f
    BY <1>1, <1>4 DEF Quit
  <2>2. s \in Piece
    <3>1. "+" \in Words /\ "OK" \in Words
      BY Zenon DEF Words
    <3>2. 0 \in Int
      OBVIOUS
    <3> QED
      BY <3>1, <3>2, UnitIs, PieceOfTwo
  <2> HIDE DEF s
  <2>3. Replied(c, e)
    BY <2>2, PieceAdded
  <2> HIDE DEF e
  <2>4. Follows(c, e) /\ Kept(e)
    BY <2>3 DEF Replied, Follows
  <2>5. Follows(e, f) /\ f.flags = e.flags \cup {"CLOSE_AFTER_REPLY"}
    BY <2>4, FlagFollows
  <2> HIDE DEF f
  <2>6. Follows(c, f)
    BY <2>4, <2>5, FollowsOn
  <2> QED
    BY <2>1, <2>5, <2>6 DEF Follows, WellKept, d
<1>5. CASE ~ quit /\ name = <<>>
  <2>1. d = resetClient(AddReply(c, Error("unknown command")))
    BY <1>1, <1>5, Zenon
  <2>2. "unknown command" \in Words
    BY Zenon DEF Words
  <2>3. Follows(c, AddReply(c, Error("unknown command")))
    BY <2>2, WordingPieces, ReplyFollows
  <2> QED
    BY <1>3, <2>1, <2>3 DEF d
<1>6. CASE ~ quit /\ name # <<>> /\ wrong
  <2>1. d = resetClient(AddReply(c, Error("wrong number of arguments")))
    BY <1>1, <1>6, Zenon
  <2>2. "wrong number of arguments" \in Words
    BY Zenon DEF Words
  <2>3. Follows(c, AddReply(c, Error("wrong number of arguments")))
    BY <2>2, WordingPieces, ReplyFollows
  <2> QED
    BY <1>3, <2>1, <2>3 DEF d
<1>7. CASE ~ quit /\ name # <<>> /\ ~ wrong
  <2> DEFINE k == Commands[name]
             e == call(c, k)
  <2>1. d = resetClient(e)
    BY <1>1, <1>7, Zenon
  <2>2. name \in DOMAIN Commands
    BY <1>2, <1>7
  <2>3. LegacyReply(k) \in Seq(Piece)
    BY <2>2, LegacyPieces
  <2>4. Follows(c, e)
    <3>1. e = IF k.blocks THEN Flag(c, "BLOCKED") ELSE AddReply(c, LegacyReply(k))
      BY DEF call, blockClient
    <3>2. Follows(c, Flag(c, "BLOCKED"))
      BY FlagFollows
    <3>3. Follows(c, AddReply(c, LegacyReply(k)))
      BY <2>3, ReplyFollows
    <3> HIDE DEF e, k
    <3> QED
      BY <3>1, <3>2, <3>3
  <2> HIDE DEF e
  <2> QED
    BY <1>3, <2>1, <2>4 DEF d
<1> QED
  BY <1>4, <1>5, <1>6, <1>7 DEF d

-----------------------------------------------------------------------------
(* The loop over the commands *)

(* One round. *)
LEMMA NextCommandKeeps ==
  ASSUME NEW b, NEW x, Heeds(b, x.client)
  PROVE  Heeds(b, NextCommand(x).client)
<1> DEFINE c == x.client
           type == IF c.reqtype # "unknown" THEN c.reqtype
                   ELSE IF Head(Rest(c)) = STAR THEN "multibulk" ELSE "inline"
           typed == [c EXCEPT !.reqtype = type]
           parsed == IF type = "inline" THEN processInlineBuffer(typed)
                     ELSE processMultibulkBuffer(typed)
           done == parsed.client
           over == \/ x.is # "more" \/ c.qb_pos >= Len(c.querybuf)
                   \/ c.flags \cap {"CLOSE_AFTER_REPLY", "CLOSE_ASAP"} # {}
           y == NextCommand(x)
<1>1. y = CASE over -> NotYet(c)
            [] OTHER -> IF parsed.is # "ready" THEN NotYet(done)
                        ELSE IF done.argv = <<>> THEN More(resetClient(done))
                        ELSE More(processCommandAndResetClient(done))
  BY DEF NextCommand, Proceed
<1>2. WellKept(c) /\ Kept(c) /\ Follows(b, c)
  BY DEF Heeds, WellKept, Follows
<1> HIDE DEF y, type, over, c
<1>3. Follows(c, typed) /\ WellKept(typed)
  <2>1. /\ DOMAIN typed = ClientFields
        /\ \A f \in ClientFields \ {"reqtype"} : typed[f] = c[f]
    BY <1>2 DEF Kept, ClientFields
  <2> HIDE DEF typed
  <2>2. Follows(c, typed)
    BY <1>2, <2>1, ParseChanges, ZenonT(30) DEF Kept, ClientFields
  <2> QED
    BY <1>2, <2>1, <2>2 DEF Follows, WellKept, ClientFields
<1> HIDE DEF typed
<1>4. Outcome(typed, parsed) /\ parsed.is # "more"
  <2>1. CASE type = "inline"
    <3> DEFINE z == processInlineBuffer(typed)
    <3>1. Outcome(typed, z) /\ z.is # "more"
      BY <1>3, InlineOutcome
    <3> HIDE DEF z
    <3>2. parsed = z
      BY <2>1 DEF z
    <3> QED
      BY <3>1, <3>2
  <2>2. CASE type # "inline"
    <3> DEFINE z == processMultibulkBuffer(typed)
    <3>1. Outcome(typed, z) /\ z.is # "more"
      BY <1>3, MultibulkOutcome
    <3> HIDE DEF z
    <3>2. parsed = z
      BY <2>2 DEF z
    <3> QED
      BY <3>1, <3>2
  <2> QED
    BY <2>1, <2>2
<1> HIDE DEF parsed
<1>5. Follows(b, done)
  <2>1. Follows(typed, done)
    BY <1>4 DEF Outcome
  <2> HIDE DEF done
  <2>2. Follows(c, done)
    BY <1>3, <2>1, FollowsOn
  <2> QED
    BY <1>2, <2>2, FollowsOn
<1>6. parsed.is # "ready" => WellKept(done)
  BY <1>4 DEF Outcome
<1> HIDE DEF done
<1>7. CASE over
  <2>1. y.client = c
    BY <1>1, <1>7, Results
  <2> QED
    BY <1>2, <2>1 DEF Heeds, Follows, y
<1>8. CASE ~ over /\ parsed.is # "ready"
  <2>1. y.client = done
    BY <1>1, <1>8, Results
  <2> QED
    BY <1>5, <1>6, <1>8, <2>1 DEF Heeds, Follows, y
<1>9. CASE ~ over /\ parsed.is = "ready" /\ done.argv = <<>>
  <2> DEFINE e == resetClient(done)
  <2>1. y = More(e)
    BY <1>1, <1>9
  <2>2. Follows(done, e) /\ WellKept(e)
    BY <1>5, ResetKept DEF Follows
  <2> HIDE DEF e
  <2>3. Follows(b, e)
    BY <1>5, <2>2, FollowsOn
  <2>4. y.client = e
    BY <2>1, Results
  <2> QED
    BY <2>2, <2>3, <2>4 DEF Heeds, Follows, y
<1>10. CASE ~ over /\ parsed.is = "ready" /\ done.argv # <<>>
  <2> DEFINE e == processCommandAndResetClient(done)
  <2>1. y = More(e)
    BY <1>1, <1>10
  <2>2. Follows(done, e) /\ WellKept(e)
    BY <1>5, CommandDone DEF Follows
  <2> HIDE DEF e
  <2>3. Follows(b, e)
    BY <1>5, <2>2, FollowsOn
  <2>4. y.client = e
    BY <2>1, Results
  <2> QED
    BY <2>2, <2>3, <2>4 DEF Heeds, Follows, y
<1> QED
  BY <1>7, <1>8, <1>9, <1>10

(* Whatever a client sends, it is kept well while it is parsed. *)
LEMMA ParseHeeds ==
  ASSUME NEW c, WellKept(c)
  PROVE  Heeds(c, processInputBuffer(c))
<1> DEFINE y == processInputBuffer(c)
           n == Len(c.querybuf)
<1>k. Kept(c)
  BY DEF WellKept
<1>1. n \in Nat
  BY <1>k DEF Kept
<1> HIDE DEF y
<1>2. DOMAIN [i \in 1..n |-> i] = 1..n
  OBVIOUS
<1>3. PICK g : /\ g[0] = More(c)
               /\ \A k \in 1..n : g[k] = NextCommand(g[k - 1])
               /\ y = Trimmed(g[n].client)
  BY <1>1, <1>2, FoldCommands DEF y
<1> DEFINE Good == {k \in Nat : k <= n => Heeds(c, g[k].client)}
<1>4. Heeds(c, g[0].client)
  <2>1. g[0].client = c
    BY <1>3, Results
  <2> QED
    BY <2>1 DEF Heeds
<1>5. ASSUME NEW k \in Nat, k \in Good
      PROVE  k + 1 \in Good
  <2> SUFFICES ASSUME k + 1 <= n
               PROVE  Heeds(c, g[k + 1].client)
    OBVIOUS
  <2>1. k + 1 \in 1..n /\ (k + 1) - 1 = k /\ k <= n
    BY <1>1
  <2>2. g[k + 1] = NextCommand(g[k])
    BY <1>3, <2>1
  <2>3. Heeds(c, g[k].client)
    BY <1>5, <2>1
  <2> DEFINE a == g[k]
  <2> HIDE DEF a
  <2>4. Heeds(c, NextCommand(a).client)
    BY <2>3, NextCommandKeeps DEF a
  <2> QED
    BY <2>2, <2>4 DEF a
<1>6. Heeds(c, g[n].client)
  <2> HIDE DEF Good, n
  <2>1. 0 \in Good
    BY <1>4 DEF Good
  <2>2. Nat \subseteq Good
    BY <1>5, <2>1, NaturalsInSet
  <2>3. n \in Good
    BY <1>1, <2>2
  <2> QED
    BY <1>1, <2>3 DEF Good
<1> DEFINE d == g[n].client
<1>7. y = Trimmed(d)
  BY <1>3
<1> HIDE DEF d
<1>8. Heeds(c, d) /\ Kept(d)
  BY <1>6 DEF Heeds, WellKept, d
<1> DEFINE e == Trimmed(d)
<1>9. /\ Follows(d, e) /\ e.multibulklen = d.multibulklen /\ e.argv = d.argv
      /\ e.flags = d.flags
  BY <1>8, TrimmedKept
<1> HIDE DEF e
<1> QED
  BY <1>7, <1>8, <1>9 DEF Heeds, Follows, WellKept, y, e

-----------------------------------------------------------------------------
(* The clients together *)

\* The peers whose clients have a flag.
Flagged(s, f) == {p \in Peer : f \in s.client[p].flags}

\* What is owed is on its way, except to those in W.
Way(s, W) == \A p \in s.clients :
  Owes(s.client[p]) => p \in W \/ "CLOSE_ASAP" \in s.client[p].flags \/ s.writer[p]

\* The books are right, but for those to be written to.
Keeping(s) == /\ Core(s)
              /\ Listed(s.to_close, Flagged(s, "CLOSE_ASAP"))
              /\ Listed(s.waiting, Flagged(s, "BLOCKED"))

(* Only clients have flags. *)
LEMMA FlagsOfClients ==
  ASSUME NEW s, Core(s), NEW f
  PROVE  Flagged(s, f) \subseteq s.clients
  BY NewClientKept DEF Flagged, Core, Gone

(* A client gets more flags and is put on the lists for them. *)
LEMMA ClientChanges ==
  ASSUME NEW s, Keeping(s), NEW p \in s.clients, NEW c, WellKept(c),
         s.client[p].flags \subseteq c.flags
  PROVE  LET t == WithClient(s, p, c)
         IN /\ Keeping(t) /\ t.clients = s.clients /\ t.line = s.line
            /\ t.writer = s.writer /\ t.client = [s.client EXCEPT ![p] = c]
            /\ Listed(s.pending, Flagged(s, "PENDING_WRITE")) =>
                 Listed(t.pending, Flagged(t, "PENDING_WRITE"))
            /\ ("PENDING_WRITE" \in c.flags => "PENDING_WRITE" \in s.client[p].flags)
                 => t.pending = s.pending
<1> DEFINE t == WithClient(s, p, c)
           news(f) == f \in c.flags /\ f \notin s.client[p].flags
<1>1. p \in Peer /\ DOMAIN s = SharedFields /\ DOMAIN s.client = Peer
  BY DEF Keeping, Core, Shape
<1>2. /\ DOMAIN t = SharedFields
      /\ t.client = [s.client EXCEPT ![p] = c]
      /\ t.pending = IF news("PENDING_WRITE") THEN <<p>> \o s.pending ELSE s.pending
      /\ t.to_close = IF news("CLOSE_ASAP") THEN Append(s.to_close, p) ELSE s.to_close
      /\ t.waiting = IF news("BLOCKED") THEN Append(s.waiting, p) ELSE s.waiting
      /\ \A f \in {"loop", "fd", "conn", "clients", "writer", "room", "got", "line"} :
           t[f] = s[f]
  BY <1>1, WithClientFields
<1> HIDE DEF t
<1>3. Core(t)
  <2>1. t.room \in [Peer -> Nat]
    BY <1>2 DEF Keeping, Core, Shape
  <2> QED
    BY <1>2, <2>1, CoreAfter DEF Keeping
<1>4. ASSUME NEW f
      PROVE  /\ news(f) => Flagged(t, f) = Flagged(s, f) \cup {p} /\ p \notin Flagged(s, f)
             /\ ~ news(f) => Flagged(t, f) = Flagged(s, f)
  <2>1. \A q \in Peer : t.client[q] = IF q = p THEN c ELSE s.client[q]
    BY <1>1, <1>2
  <2> QED
    BY <1>1, <2>1 DEF Flagged
<1>5. Listed(t.to_close, Flagged(t, "CLOSE_ASAP"))
  BY <1>1, <1>2, <1>4, ListedAppend DEF Keeping
<1>6. Listed(t.waiting, Flagged(t, "BLOCKED"))
  BY <1>1, <1>2, <1>4, ListedAppend DEF Keeping
<1>7. Listed(s.pending, Flagged(s, "PENDING_WRITE")) =>
        Listed(t.pending, Flagged(t, "PENDING_WRITE"))
  BY <1>1, <1>2, <1>4, ListedFirst
<1> QED
  BY <1>2, <1>3, <1>5, <1>6, <1>7 DEF Keeping, t

(* A client is put on the list of those to be closed. *)
LEMMA CloseAsync ==
  ASSUME NEW s, Keeping(s), NEW p \in s.clients
  PROVE  LET t == freeClientAsync(s, p)
         IN /\ Keeping(t) /\ t.clients = s.clients /\ t.line = s.line
            /\ t.pending = s.pending
            /\ Flagged(t, "PENDING_WRITE") = Flagged(s, "PENDING_WRITE")
            /\ \A W : Way(s, W \cup {p}) => Way(t, W)
<1> DEFINE c == Flag(s.client[p], "CLOSE_ASAP")
           t == WithClient(s, p, c)
<1>1. p \in Peer /\ WellKept(s.client[p]) /\ DOMAIN s.client = Peer
  BY DEF Keeping, Core, Shape
<1>2. /\ WellKept(c) /\ c.flags = s.client[p].flags \cup {"CLOSE_ASAP"}
      /\ Owes(c) <=> Owes(s.client[p])
  BY <1>1, FlagKeeps DEF Flags
<1> HIDE DEF c
<1>3. /\ Keeping(t) /\ t.clients = s.clients /\ t.line = s.line
      /\ t.writer = s.writer /\ t.client = [s.client EXCEPT ![p] = c]
      /\ ("PENDING_WRITE" \in c.flags => "PENDING_WRITE" \in s.client[p].flags)
           => t.pending = s.pending
  BY <1>2, ClientChanges
<1>4. t.pending = s.pending
  BY <1>2, <1>3
<1> HIDE DEF t
<1>5. Flagged(t, "PENDING_WRITE") = Flagged(s, "PENDING_WRITE")
  BY <1>1, <1>2, <1>3 DEF Flagged
<1>6. \A W : Way(s, W \cup {p}) => Way(t, W)
  BY <1>1, <1>2, <1>3 DEF Way
<1> QED
  BY <1>3, <1>4, <1>5, <1>6 DEF freeClientAsync, t, c

(* Nobody waits for a client to be writable any more. *)
LEMMA HandlerCleared ==
  ASSUME EnoughDescriptors, NEW s, Keeping(s), NEW p \in s.clients
  PROVE  LET t == connClearWriteHandler(s, p)
         IN /\ Keeping(t) /\ t.clients = s.clients /\ t.line = s.line
            /\ t.pending = s.pending /\ t.client = s.client
            /\ \A W : Way(s, W) /\ ~ Owes(s.client[p]) => Way(t, W)
<1> DEFINE t == connClearWriteHandler(s, p)
           d == s.fd[p]
           l == aeDeleteFileEvent(s.loop, d, {AE_WRITABLE})
<1>1. /\ p \in Peer /\ d \in Ours /\ d \in Fd /\ s.loop \in Loops
      /\ AE_READABLE \in s.loop.mask[d] /\ DOMAIN s = SharedFields
      /\ s.writer \in [Peer -> BOOLEAN]
  BY DEF Keeping, Core, Shape, Apart, Heard, Ours
<1>2. CASE ~ s.writer[p]
  BY <1>2 DEF connClearWriteHandler
<1>3. CASE s.writer[p]
  <2>1. t = [s EXCEPT !.writer[p] = FALSE, !.loop = l]
    BY <1>3 DEF connClearWriteHandler
  <2>2. /\ DOMAIN t = SharedFields /\ t.writer = [s.writer EXCEPT ![p] = FALSE]
        /\ t.loop = l
        /\ \A f \in SharedFields \ {"writer", "loop"} : t[f] = s[f]
    BY <1>1, <2>1 DEF SharedFields
  <2>3. /\ l \in Loops
        /\ l.mask = [s.loop.mask EXCEPT ![d] = @ \ {AE_WRITABLE}]
        /\ l.interest = [s.loop.interest EXCEPT ![d] = s.loop.mask[d] \ {AE_WRITABLE}]
        /\ l.data = s.loop.data /\ l.watched = s.loop.watched
    <3>1. Awaits(l, s.loop, d, s.loop.mask[d] \ {AE_WRITABLE})
      BY <1>1, StopWriting
    <3> HIDE DEF l, d, t
    <3> QED
      BY <3>1 DEF Awaits
  <2> HIDE DEF t, l, d
  <2>4. /\ t.clients = s.clients /\ t.fd = s.fd /\ t.client = s.client
        /\ t.room = s.room /\ t.pending = s.pending /\ t.to_close = s.to_close
        /\ t.waiting = s.waiting /\ t.line = s.line
    BY <2>2 DEF SharedFields
  <2>5. Shape(t)
    BY <1>1, <2>2, <2>3, <2>4 DEF Keeping, Core, Shape
  <2>6. Gone(t) /\ Apart(t)
    <3>1. \A q \in Peer \ s.clients : t.writer[q] = s.writer[q]
      BY <1>1, <2>2
    <3> QED
      BY <2>4, <3>1 DEF Keeping, Core, Gone, Apart
  <2>7. Heard(t)
    <3> SUFFICES ASSUME NEW q \in s.clients
                 PROVE  /\ AE_READABLE \in l.interest[s.fd[q]]
                        /\ s.fd[q] \in l.watched
                        /\ l.interest[s.fd[q]] = l.mask[s.fd[q]]
                        /\ l.data[s.fd[q]] = q
                        /\ t.writer[q] <=> AE_WRITABLE \in l.mask[s.fd[q]]
      BY <2>2, <2>4 DEF Heard
    <3>1. s.fd[q] \in Fd /\ q \in Peer
      BY DEF Keeping, Core, Shape, Apart, Ours
    <3>2. /\ AE_READABLE \in s.loop.interest[s.fd[q]]
          /\ s.fd[q] \in s.loop.watched
          /\ s.loop.interest[s.fd[q]] = s.loop.mask[s.fd[q]]
          /\ s.loop.data[s.fd[q]] = q
          /\ s.writer[q] <=> AE_WRITABLE \in s.loop.mask[s.fd[q]]
      BY DEF Keeping, Core, Heard
    <3>3. CASE q = p
      <4>1. l.interest[d] = s.loop.mask[d] \ {AE_WRITABLE}
        BY <1>1, <2>3 DEF Loops
      <4>2. l.mask[d] = s.loop.mask[d] \ {AE_WRITABLE}
        BY <1>1, <2>3 DEF Loops
      <4>3. AE_READABLE # AE_WRITABLE
        BY DEF AE_READABLE, AE_WRITABLE
      <4>4. t.writer[q] = FALSE
        BY <1>1, <2>2, <3>3
      <4> QED
        BY <1>1, <2>3, <3>2, <3>3, <4>1, <4>2, <4>3, <4>4 DEF d
    <3>4. CASE q # p
      <4>1. s.fd[q] # d
        BY <3>4 DEF Keeping, Core, Apart, d
      <4>2. l.interest[s.fd[q]] = s.loop.interest[s.fd[q]]
        BY <2>3, <3>1, <4>1 DEF Loops
      <4>3. l.mask[s.fd[q]] = s.loop.mask[s.fd[q]]
        BY <2>3, <3>1, <4>1 DEF Loops
      <4>4. t.writer[q] = s.writer[q]
        BY <1>1, <2>2, <3>1, <3>4
      <4> QED
        BY <2>3, <3>2, <4>2, <4>3, <4>4
    <3> QED
      BY <3>3, <3>4
  <2>8. Unused(t)
    <3> SUFFICES ASSUME NEW e \in Ours, \A q \in s.clients : s.fd[q] # e
                 PROVE  l.mask[e] = {} /\ e \notin l.watched
      BY <2>2, <2>4 DEF Unused
    <3>1. e # d /\ e \in Fd
      BY DEF d, Ours
    <3>2. l.mask[e] = s.loop.mask[e]
      BY <2>3, <3>1 DEF Loops
    <3> QED
      BY <2>3, <3>2 DEF Keeping, Core, Unused
  <2>9. \A f : Flagged(t, f) = Flagged(s, f)
    BY <2>4 DEF Flagged
  <2>10. Keeping(t)
    BY <2>4, <2>5, <2>6, <2>7, <2>8, <2>9 DEF Keeping, Core
  <2>11. \A W : Way(s, W) /\ ~ Owes(s.client[p]) => Way(t, W)
    <3> SUFFICES ASSUME NEW W, Way(s, W), ~ Owes(s.client[p]), NEW q \in s.clients,
                        Owes(s.client[q])
                 PROVE  q \in W \/ "CLOSE_ASAP" \in s.client[q].flags \/ t.writer[q]
      BY <2>4 DEF Way
    <3>1. q # p /\ q \in Peer
      BY DEF Keeping, Core, Shape
    <3>2. t.writer[q] = s.writer[q]
      BY <1>1, <2>2, <3>1
    <3> QED
      BY <3>2 DEF Way
  <2> QED
    BY <2>4, <2>10, <2>11 DEF t
<1> QED
  BY <1>2, <1>3

(* A client is called when it is writable. *)
LEMMA HandlerSet ==
  ASSUME EnoughDescriptors, NEW s, Keeping(s), NEW p \in s.clients
  PROVE  LET t == connSetWriteHandler(s, p)
         IN /\ Keeping(t) /\ t.clients = s.clients /\ t.line = s.line
            /\ t.pending = s.pending /\ t.client = s.client
            /\ \A W : Way(s, W \cup {p}) => Way(t, W)
<1> DEFINE t == connSetWriteHandler(s, p)
           d == s.fd[p]
           l == aeCreateFileEvent(s.loop, d, {AE_WRITABLE}, p)
<1>1. /\ p \in Peer /\ d \in Ours /\ d \in Fd /\ s.loop \in Loops
      /\ AE_READABLE \in s.loop.mask[d] /\ d \in s.loop.watched
      /\ DOMAIN s = SharedFields /\ s.writer \in [Peer -> BOOLEAN]
      /\ s.loop.data[d] = p
  BY DEF Keeping, Core, Shape, Apart, Heard, Ours
<1>2. CASE s.writer[p]
  <2>1. t = s
    BY <1>2 DEF connSetWriteHandler
  <2>2. \A W : Way(s, W \cup {p}) => Way(s, W)
    BY <1>2 DEF Way
  <2> QED
    BY <2>1, <2>2
<1>3. CASE ~ s.writer[p]
  <2>1. t = [s EXCEPT !.writer[p] = TRUE, !.loop = l]
    BY <1>3 DEF connSetWriteHandler
  <2>2. /\ DOMAIN t = SharedFields /\ t.writer = [s.writer EXCEPT ![p] = TRUE]
        /\ t.loop = l
        /\ \A f \in SharedFields \ {"writer", "loop"} : t[f] = s[f]
    BY <1>1, <2>1 DEF SharedFields
  <2>3. /\ l \in Loops
        /\ l.mask = [s.loop.mask EXCEPT ![d] = @ \cup {AE_WRITABLE}]
        /\ l.interest = [s.loop.interest EXCEPT ![d] = s.loop.mask[d] \cup {AE_WRITABLE}]
        /\ l.data = s.loop.data /\ l.watched = s.loop.watched
    <3> DEFINE m == s.loop
    <3>1. /\ m \in Loops /\ d \in Fd /\ p \in Peer /\ AE_READABLE \in m.mask[d]
          /\ d \in m.watched /\ m.data[d] = p /\ l = aeCreateFileEvent(m, d, {AE_WRITABLE}, p)
      BY <1>1
    <3> HIDE DEF m, d, l, t
    <3>2. Awaits(l, m, d, m.mask[d] \cup {AE_WRITABLE})
      BY <3>1, AwaitWrite
    <3> QED
      BY <3>2 DEF m, Awaits
  <2> HIDE DEF t, l, d
  <2>4. /\ t.clients = s.clients /\ t.fd = s.fd /\ t.client = s.client
        /\ t.room = s.room /\ t.pending = s.pending /\ t.to_close = s.to_close
        /\ t.waiting = s.waiting /\ t.line = s.line
    BY <2>2 DEF SharedFields
  <2>5. Shape(t)
    BY <1>1, <2>2, <2>3, <2>4 DEF Keeping, Core, Shape
  <2>6. Gone(t) /\ Apart(t)
    <3>1. \A q \in Peer \ s.clients : t.writer[q] = s.writer[q]
      BY <1>1, <2>2
    <3> QED
      BY <2>4, <3>1 DEF Keeping, Core, Gone, Apart
  <2>7. Heard(t)
    <3> SUFFICES ASSUME NEW q \in s.clients
                 PROVE  /\ AE_READABLE \in l.interest[s.fd[q]]
                        /\ s.fd[q] \in l.watched
                        /\ l.interest[s.fd[q]] = l.mask[s.fd[q]]
                        /\ l.data[s.fd[q]] = q
                        /\ t.writer[q] <=> AE_WRITABLE \in l.mask[s.fd[q]]
      BY <2>2, <2>4 DEF Heard
    <3>1. s.fd[q] \in Fd /\ q \in Peer
      BY DEF Keeping, Core, Shape, Apart, Ours
    <3>2. /\ AE_READABLE \in s.loop.interest[s.fd[q]]
          /\ s.fd[q] \in s.loop.watched
          /\ s.loop.interest[s.fd[q]] = s.loop.mask[s.fd[q]]
          /\ s.loop.data[s.fd[q]] = q
          /\ s.writer[q] <=> AE_WRITABLE \in s.loop.mask[s.fd[q]]
      BY DEF Keeping, Core, Heard
    <3>3. CASE q = p
      <4>1. l.interest[d] = s.loop.mask[d] \cup {AE_WRITABLE}
        BY <1>1, <2>3 DEF Loops
      <4>2. l.mask[d] = s.loop.mask[d] \cup {AE_WRITABLE}
        BY <1>1, <2>3 DEF Loops
      <4>4. t.writer[q] = TRUE
        BY <1>1, <2>2, <3>3
      <4> QED
        BY <1>1, <2>3, <3>2, <3>3, <4>1, <4>2, <4>4 DEF d
    <3>4. CASE q # p
      <4>1. s.fd[q] # d
        BY <3>4 DEF Keeping, Core, Apart, d
      <4>2. l.interest[s.fd[q]] = s.loop.interest[s.fd[q]]
        BY <2>3, <3>1, <4>1 DEF Loops
      <4>3. l.mask[s.fd[q]] = s.loop.mask[s.fd[q]]
        BY <2>3, <3>1, <4>1 DEF Loops
      <4>4. t.writer[q] = s.writer[q]
        BY <1>1, <2>2, <3>1, <3>4
      <4> QED
        BY <2>3, <3>2, <4>2, <4>3, <4>4
    <3> QED
      BY <3>3, <3>4
  <2>8. Unused(t)
    <3> SUFFICES ASSUME NEW e \in Ours, \A q \in s.clients : s.fd[q] # e
                 PROVE  l.mask[e] = {} /\ e \notin l.watched
      BY <2>2, <2>4 DEF Unused
    <3>1. e # d /\ e \in Fd
      BY DEF d, Ours
    <3>2. l.mask[e] = s.loop.mask[e]
      BY <2>3, <3>1 DEF Loops
    <3> QED
      BY <2>3, <3>2 DEF Keeping, Core, Unused
  <2>9. \A f : Flagged(t, f) = Flagged(s, f)
    BY <2>4 DEF Flagged
  <2>10. Keeping(t)
    BY <2>4, <2>5, <2>6, <2>7, <2>8, <2>9 DEF Keeping, Core
  <2>11. \A W : Way(s, W \cup {p}) => Way(t, W)
    <3> SUFFICES ASSUME NEW W, Way(s, W \cup {p}), NEW q \in s.clients,
                        Owes(s.client[q])
                 PROVE  q \in W \/ "CLOSE_ASAP" \in s.client[q].flags \/ t.writer[q]
      BY <2>4 DEF Way
    <3>1. CASE q = p
      BY <1>1, <2>2, <3>1
    <3>2. CASE q # p
      <4>1. q \in Peer
        BY DEF Keeping, Core, Shape
      <4>2. t.writer[q] = s.writer[q]
        BY <1>1, <2>2, <3>2, <4>1
      <4> QED
        BY <3>2, <4>2 DEF Way
    <3> QED
      BY <3>1, <3>2
  <2> QED
    BY <2>4, <2>10, <2>11 DEF t
<1> QED
  BY <1>2, <1>3

-----------------------------------------------------------------------------
(* Writing to those who are due *)

(* What a socket takes is taken from what the client is owed. *)
LEMMA Written ==
  ASSUME EnoughDescriptors, NEW s, Keeping(s), NEW p \in s.clients
  PROVE  LET t == writeToClient(s, p)
         IN /\ Keeping(t) /\ t.clients = s.clients /\ t.line = s.line
            /\ t.pending = s.pending
            /\ Flagged(t, "PENDING_WRITE") = Flagged(s, "PENDING_WRITE")
            /\ \A W : Way(s, W) => Way(t, W)
<1> DEFINE c == s.client[p]
           n == IF Broken(p) THEN 0 ELSE s.room[p]
           x == WriteAll(c, n)
           state == IF x.nwritten = -1 /\ Broken(p) THEN "error" ELSE s.conn[p]
           wrote == [s EXCEPT !.client[p] = x.client, !.conn[p] = state,
                              !.room[p] = IF Broken(p) THEN @ ELSE x.room,
                              !.got[p] = @ \o x.sent]
           done == connClearWriteHandler(wrote, p)
           t == writeToClient(s, p)
<1>1. /\ p \in Peer /\ WellKept(c) /\ n \in Nat /\ DOMAIN s = SharedFields
      /\ DOMAIN s.client = Peer /\ s.room \in [Peer -> Nat]
  BY DEF Keeping, Core, Shape
<1>2. /\ WellKept(x.client) /\ x.client.flags = c.flags /\ x.room \in Nat
      /\ Owes(x.client) => Owes(c)
      /\ x.nwritten = -1 \/ ~ Owes(x.client)
  <2> HIDE DEF c, n
  <2> QED BY <1>1, WriteAllKeeps
<1>t. t = CASE x.nwritten = -1 /\ state # "connected" -> freeClientAsync(wrote, p)
            [] x.nwritten = -1 /\ state = "connected" -> wrote
            [] OTHER -> IF "CLOSE_AFTER_REPLY" \in x.client.flags
                          THEN freeClientAsync(done, p) ELSE done
  BY DEF writeToClient
<1> HIDE DEF x
<1>3. /\ DOMAIN wrote = SharedFields
      /\ wrote.client = [s.client EXCEPT ![p] = x.client]
      /\ wrote.room = [s.room EXCEPT ![p] = IF Broken(p) THEN s.room[p] ELSE x.room]
      /\ wrote.loop = s.loop /\ wrote.fd = s.fd /\ wrote.clients = s.clients
      /\ wrote.writer = s.writer /\ wrote.pending = s.pending
      /\ wrote.to_close = s.to_close /\ wrote.waiting = s.waiting
      /\ wrote.line = s.line
  BY <1>1 DEF SharedFields
<1> HIDE DEF wrote, state, done, t
<1>4. Core(wrote)
  <2>1. wrote.room \in [Peer -> Nat]
    BY <1>1, <1>2, <1>3
  <2> QED
    BY <1>2, <1>3, <2>1, CoreAfter DEF Keeping
<1>5. \A q \in Peer : /\ wrote.client[q] = IF q = p THEN x.client ELSE s.client[q]
                      /\ wrote.client[q].flags = s.client[q].flags
  BY <1>1, <1>2, <1>3
<1>6. \A f : Flagged(wrote, f) = Flagged(s, f)
  BY <1>5 DEF Flagged
<1>7. Keeping(wrote)
  BY <1>3, <1>4, <1>6 DEF Keeping
<1>8. \A W : Way(s, W) => Way(wrote, W)
  <2>1. \A q \in s.clients : q \in Peer
    BY DEF Keeping, Core, Shape
  <2> QED
    BY <1>2, <1>3, <1>5, <2>1 DEF Way
<1>w. \A W : Way(s, W) => Way(s, W \cup {p})
  BY DEF Way
<1>c. ASSUME NEW r, Keeping(r), p \in r.clients, r.clients = s.clients, r.line = s.line,
             r.pending = s.pending,
             Flagged(r, "PENDING_WRITE") = Flagged(s, "PENDING_WRITE"),
             \A W : Way(s, W) => Way(r, W), t = freeClientAsync(r, p)
      PROVE  /\ Keeping(t) /\ t.clients = s.clients /\ t.line = s.line
             /\ t.pending = s.pending
             /\ Flagged(t, "PENDING_WRITE") = Flagged(s, "PENDING_WRITE")
             /\ \A W : Way(s, W) => Way(t, W)
  <2>1. /\ Keeping(t) /\ t.clients = r.clients /\ t.line = r.line
        /\ t.pending = r.pending
        /\ Flagged(t, "PENDING_WRITE") = Flagged(r, "PENDING_WRITE")
        /\ \A W : Way(r, W \cup {p}) => Way(t, W)
    BY <1>c, CloseAsync
  <2>2. \A W : Way(r, W) => Way(r, W \cup {p})
    BY DEF Way
  <2> QED
    BY <1>c, <2>1, <2>2
<1>9. CASE x.nwritten = -1
  <2>1. CASE state # "connected"
    <3>1. t = freeClientAsync(wrote, p)
      BY <1>t, <1>9, <2>1
    <3>2. p \in wrote.clients
      BY <1>3
    <3> QED
      BY <1>c, <1>3, <1>6, <1>7, <1>8, <3>1, <3>2 DEF t
  <2>2. CASE state = "connected"
    <3>1. t = wrote
      BY <1>t, <1>9, <2>2
    <3> QED
      BY <1>3, <1>6, <1>7, <1>8, <3>1 DEF t
  <2> QED
    BY <2>1, <2>2
<1>10. CASE x.nwritten # -1
  <2>1. p \in wrote.clients /\ wrote.client[p] = x.client /\ ~ Owes(wrote.client[p])
    BY <1>1, <1>2, <1>3, <1>10
  <2>2. /\ Keeping(done) /\ done.clients = wrote.clients /\ done.line = wrote.line
        /\ done.pending = wrote.pending /\ done.client = wrote.client
        /\ \A W : Way(wrote, W) /\ ~ Owes(wrote.client[p]) => Way(done, W)
    BY <1>7, <2>1, HandlerCleared DEF done
  <2>3. Flagged(done, "PENDING_WRITE") = Flagged(s, "PENDING_WRITE")
    BY <1>6, <2>2 DEF Flagged
  <2>4. \A W : Way(s, W) => Way(done, W)
    BY <1>8, <2>1, <2>2
  <2>5. CASE "CLOSE_AFTER_REPLY" \in x.client.flags
    <3>1. t = freeClientAsync(done, p)
      BY <1>t, <1>10, <2>5
    <3>2. p \in done.clients
      BY <2>1, <2>2
    <3> QED
      BY <1>c, <1>3, <2>2, <2>3, <2>4, <3>1, <3>2 DEF t
  <2>6. CASE "CLOSE_AFTER_REPLY" \notin x.client.flags
    <3>1. t = done
      BY <1>t, <1>10, <2>6
    <3> QED
      BY <1>3, <2>2, <2>3, <2>4, <3>1 DEF t
  <2> QED
    BY <2>5, <2>6
<1> QED
  BY <1>9, <1>10

(* What a client is still owed waits for its socket. *)
LEMMA Awaited ==
  ASSUME EnoughDescriptors, NEW s, Keeping(s), NEW p \in s.clients
  PROVE  LET t == AwaitWritable(s, p)
         IN /\ Keeping(t) /\ t.clients = s.clients /\ t.line = s.line
            /\ t.pending = s.pending
            /\ Flagged(t, "PENDING_WRITE") = Flagged(s, "PENDING_WRITE")
            /\ \A W : Way(s, W \cup {p}) => Way(t, W)
<1> DEFINE t == AwaitWritable(s, p)
           r == connSetWriteHandler(s, p)
<1>1. /\ Keeping(r) /\ r.clients = s.clients /\ r.line = s.line
      /\ r.pending = s.pending /\ r.client = s.client
      /\ \A W : Way(s, W \cup {p}) => Way(r, W)
  BY HandlerSet
<1>2. Flagged(r, "PENDING_WRITE") = Flagged(s, "PENDING_WRITE")
  BY <1>1 DEF Flagged
<1>3. CASE "CLOSE_ASAP" \in s.client[p].flags \/ ~ clientHasPendingReplies(s.client[p])
  <2>1. t = s
    BY <1>3 DEF AwaitWritable
  <2>2. \A W : Way(s, W \cup {p}) => Way(s, W)
    BY <1>3 DEF Way, Owes
  <2> QED
    BY <2>1, <2>2
<1>4. CASE ~ ("CLOSE_ASAP" \in s.client[p].flags \/ ~ clientHasPendingReplies(s.client[p]))
  <2>1. CASE r.loop = s.loop /\ ~ s.writer[p]
    <3>1. t = freeClientAsync(r, p)
      BY <1>4, <2>1 DEF AwaitWritable
    <3> HIDE DEF r, t
    <3>2. p \in r.clients
      BY <1>1
    <3>3. /\ Keeping(t) /\ t.clients = r.clients /\ t.line = r.line
          /\ t.pending = r.pending
          /\ Flagged(t, "PENDING_WRITE") = Flagged(r, "PENDING_WRITE")
          /\ \A W : Way(r, W \cup {p}) => Way(t, W)
      BY <1>1, <3>1, <3>2, CloseAsync
    <3>4. \A W : Way(r, W) => Way(r, W \cup {p})
      BY DEF Way
    <3> QED
      BY <1>1, <1>2, <3>3, <3>4 DEF t
  <2>2. CASE ~ (r.loop = s.loop /\ ~ s.writer[p])
    <3>1. t = r
      BY <1>4, <2>2 DEF AwaitWritable
    <3> QED
      BY <1>1, <1>2, <3>1
  <2> QED
    BY <2>1, <2>2
<1> QED
  BY <1>3, <1>4

(* A client that was due is dealt with. *)
LEMMA Dealt ==
  ASSUME EnoughDescriptors, NEW s, Keeping(s), NEW p \in s.clients,
         NEW W, Way(s, W \cup {p})
  PROVE  LET t == HandlePendingWrite(s, p)
         IN /\ Keeping(t) /\ t.clients = s.clients /\ t.line = s.line
            /\ t.pending = s.pending
            /\ Flagged(t, "PENDING_WRITE") = Flagged(s, "PENDING_WRITE") \ {p}
            /\ Way(t, W)
<1> DEFINE c == Unflag(s.client[p], "PENDING_WRITE")
           u == [s EXCEPT !.client[p] = c]
           w == writeToClient(u, p)
           t == HandlePendingWrite(s, p)
<1>1. /\ p \in Peer /\ WellKept(s.client[p]) /\ DOMAIN s = SharedFields
      /\ DOMAIN s.client = Peer /\ s.room \in [Peer -> Nat]
  BY DEF Keeping, Core, Shape
<1>2. /\ WellKept(c) /\ c.flags = s.client[p].flags \ {"PENDING_WRITE"}
      /\ Owes(c) <=> Owes(s.client[p])
  BY <1>1, UnflagKeeps
<1>t. t = IF "CLOSE_ASAP" \in c.flags THEN u ELSE AwaitWritable(w, p)
  BY DEF HandlePendingWrite
<1>3. /\ DOMAIN u = SharedFields /\ u.client = [s.client EXCEPT ![p] = c]
      /\ u.room = s.room /\ u.loop = s.loop /\ u.fd = s.fd /\ u.clients = s.clients
      /\ u.writer = s.writer /\ u.pending = s.pending
      /\ u.to_close = s.to_close /\ u.waiting = s.waiting /\ u.line = s.line
  BY <1>1 DEF SharedFields
<1> HIDE DEF c, u, t
<1>4. Core(u)
  BY <1>1, <1>2, <1>3, CoreAfter DEF Keeping
<1>5. \A q \in Peer : u.client[q] = IF q = p THEN c ELSE s.client[q]
  BY <1>1, <1>3
<1>6. /\ Flagged(u, "PENDING_WRITE") = Flagged(s, "PENDING_WRITE") \ {p}
      /\ Flagged(u, "CLOSE_ASAP") = Flagged(s, "CLOSE_ASAP")
      /\ Flagged(u, "BLOCKED") = Flagged(s, "BLOCKED")
  BY <1>2, <1>5 DEF Flagged
<1>7. Keeping(u)
  BY <1>3, <1>4, <1>6 DEF Keeping
<1>8. Way(u, W \cup {p})
  <2>1. \A q \in s.clients : q \in Peer
    BY DEF Keeping, Core, Shape
  <2> QED
    BY <1>2, <1>3, <1>5, <2>1 DEF Way
<1>9. CASE "CLOSE_ASAP" \in c.flags
  <2>1. t = u
    BY <1>t, <1>9
  <2>2. u.client[p] = c
    BY <1>1, <1>5
  <2>3. Way(u, W)
    BY <1>8, <1>9, <2>2 DEF Way
  <2> QED
    BY <1>3, <1>6, <1>7, <2>1, <2>3 DEF t
<1>10. CASE "CLOSE_ASAP" \notin c.flags
  <2>1. t = AwaitWritable(w, p) /\ p \in u.clients
    BY <1>t, <1>3, <1>10
  <2>2. /\ Keeping(w) /\ w.clients = u.clients /\ w.line = u.line
        /\ w.pending = u.pending
        /\ Flagged(w, "PENDING_WRITE") = Flagged(u, "PENDING_WRITE")
        /\ Way(u, W \cup {p}) => Way(w, W \cup {p})
    BY <1>7, <2>1, Written
  <2> HIDE DEF w
  <2>3. p \in w.clients
    BY <2>1, <2>2
  <2>4. /\ Keeping(t) /\ t.clients = w.clients /\ t.line = w.line
        /\ t.pending = w.pending
        /\ Flagged(t, "PENDING_WRITE") = Flagged(w, "PENDING_WRITE")
        /\ Way(w, W \cup {p}) => Way(t, W)
    BY <2>1, <2>2, <2>3, Awaited
  <2> QED
    BY <1>3, <1>6, <1>8, <2>2, <2>4 DEF t
<1> QED
  BY <1>9, <1>10

(* The list of those who are due is gone through. *)
LEMMA AllDealt ==
  ASSUME EnoughDescriptors, NEW s, Keeping(s),
         Listed(s.pending, Flagged(s, "PENDING_WRITE")),
         Way(s, Flagged(s, "PENDING_WRITE"))
  PROVE  LET t == handleClientsWithPendingWrites(s)
         IN /\ Keeping(t) /\ t.clients = s.clients /\ t.line = s.line
            /\ t.pending = <<>> /\ Flagged(t, "PENDING_WRITE") = {} /\ Way(t, {})
<1> DEFINE l == s.pending
           F == Flagged(s, "PENDING_WRITE")
           u == [s EXCEPT !.pending = <<>>]
<1>1. l \in Seq(Peer) /\ Len(l) \in Nat /\ DOMAIN l = 1..Len(l)
  BY DEF Listed
<1>2. /\ Later(l, 0) = F /\ Later(l, Len(l)) = {}
      /\ \A k \in 1..Len(l) : /\ l[k] \in Later(l, k - 1) /\ l[k] \in Peer
                              /\ Later(l, k) = Later(l, k - 1) \ {l[k]}
  BY LaterThings
<1>3. /\ DOMAIN u = SharedFields /\ u.client = s.client /\ u.room = s.room
      /\ u.loop = s.loop /\ u.fd = s.fd /\ u.clients = s.clients
      /\ u.writer = s.writer /\ u.pending = <<>>
      /\ u.to_close = s.to_close /\ u.waiting = s.waiting /\ u.line = s.line
  BY DEF SharedFields, Keeping, Core, Shape
<1>4. PICK g : /\ g[0] = u
               /\ \A k \in 1..Len(l) : g[k] = HandlePendingWrite(g[k - 1], l[k])
               /\ handleClientsWithPendingWrites(s) = g[Len(l)]
  BY <1>1, FoldDue, SMTT(20)
<1> HIDE DEF u, F
<1> DEFINE Done(k) == /\ Keeping(g[k]) /\ g[k].clients = s.clients
                      /\ g[k].line = s.line /\ g[k].pending = <<>>
                      /\ Flagged(g[k], "PENDING_WRITE") = Later(l, k)
                      /\ Way(g[k], Later(l, k))
           Good == {k \in Nat : k <= Len(l) => Done(k)}
<1>5. Done(0)
  <2>1. Core(u)
    BY <1>3 DEF Keeping, Core, Shape, Gone, Apart, Heard, Unused
  <2>2. \A f : Flagged(u, f) = Flagged(s, f)
    BY <1>3 DEF Flagged
  <2>3. Way(u, F)
    BY <1>3 DEF Way, F
  <2> QED
    BY <1>2, <1>3, <1>4, <2>1, <2>2, <2>3 DEF Keeping, F
<1>6. ASSUME NEW k \in Nat, k \in Good
      PROVE  k + 1 \in Good
  <2> SUFFICES ASSUME k + 1 <= Len(l)
               PROVE  Done(k + 1)
    OBVIOUS
  <2>1. k + 1 \in 1..Len(l) /\ (k + 1) - 1 = k /\ k <= Len(l)
    BY <1>1
  <2>2. Done(k)
    BY <1>6, <2>1
  <2>3. /\ l[k + 1] \in Later(l, k) /\ l[k + 1] \in Peer
        /\ Later(l, k + 1) = Later(l, k) \ {l[k + 1]}
    BY <1>2, <2>1
  <2>4. l[k + 1] \in s.clients
    BY <2>2, <2>3, FlagsOfClients DEF Keeping
  <2>5. g[k + 1] = HandlePendingWrite(g[k], l[k + 1])
    BY <1>4, <2>1
  <2>6. Way(g[k], Later(l, k + 1) \cup {l[k + 1]})
    BY <2>2, <2>3 DEF Way
  <2> DEFINE a == g[k]
             b == g[k + 1]
             p == l[k + 1]
             W == Later(l, k + 1)
  <2>7. /\ Keeping(a) /\ p \in a.clients /\ Way(a, W \cup {p})
        /\ b = HandlePendingWrite(a, p)
    BY <2>2, <2>4, <2>5, <2>6
  <2> HIDE DEF a, b, p, W
  <2>8. /\ Keeping(b) /\ b.clients = a.clients /\ b.line = a.line
        /\ b.pending = a.pending
        /\ Flagged(b, "PENDING_WRITE") = Flagged(a, "PENDING_WRITE") \ {p}
        /\ Way(b, W)
    BY <2>7, Dealt
  <2> QED
    BY <2>2, <2>3, <2>8 DEF a, b, p, W
<1>7. Len(l) \in Good
  <2>1. 0 \in Good
    BY <1>5
  <2> HIDE DEF Good
  <2> QED
    BY <1>1, <1>6, <2>1, NaturalsInSet
<1> QED
  <2>1. Done(Len(l))
    BY <1>1, <1>7
  <2> QED
    BY <1>2, <1>4, <2>1

(* A client is freed: nothing leads to it any more, and nobody else notices. *)
LEMMA Freed ==
  ASSUME EnoughDescriptors, NEW s, Core(s), NEW p \in s.clients
  PROVE  LET t == freeClient(s, p)
         IN /\ Core(t) /\ t.clients = s.clients \ {p} /\ t.pending = s.pending
            /\ t.line = [s.line EXCEPT ![p] = "closed"]
            /\ t.waiting = RemoveFirst(s.waiting, p)
            /\ \A f : Flagged(t, f) = Flagged(s, f) \ {p}
            /\ \A W : Way(s, W) => Way(t, W)
<1> DEFINE d == s.fd[p]
           l == Close(ForgetEvents(s.loop, d), d)
           t == freeClient(s, p)
<1>1. /\ p \in Peer /\ d \in Ours /\ d \in Fd /\ s.loop \in Loops
      /\ DOMAIN s = SharedFields /\ s.writer \in [Peer -> BOOLEAN]
      /\ DOMAIN s.client = Peer /\ s.fd \in [Peer -> Fd \cup {NoFd}]
      /\ s.clients \subseteq Peer
  BY DEF Core, Shape, Apart, Ours
<1>2. /\ DOMAIN t = SharedFields /\ t.loop = l
      /\ t.client = [s.client EXCEPT ![p] = NewClient]
      /\ t.fd = [s.fd EXCEPT ![p] = NoFd] /\ t.clients = s.clients \ {p}
      /\ t.writer = [s.writer EXCEPT ![p] = FALSE] /\ t.pending = s.pending
      /\ t.waiting = RemoveFirst(s.waiting, p) /\ t.room = s.room
      /\ t.line = [s.line EXCEPT ![p] = "closed"]
  BY <1>1 DEF freeClient, connClose, SharedFields
<1>3. /\ l \in Loops /\ l.mask = [s.loop.mask EXCEPT ![d] = {}]
      /\ l.interest = [s.loop.interest EXCEPT ![d] = {}]
      /\ l.data = s.loop.data /\ l.watched = s.loop.watched \ {d}
  BY <1>1, CloseForgets
<1> HIDE DEF t, l, d
<1>4. \A q \in Peer : t.client[q] = IF q = p THEN NewClient ELSE s.client[q]
  BY <1>1, <1>2
<1>5. Shape(t)
  <2>1. \A q \in Peer : WellKept(t.client[q])
    BY <1>4, NewClientKept DEF Core, Shape
  <2>2. NoFd \in Fd \cup {NoFd}
    OBVIOUS
  <2> QED
    BY <1>1, <1>2, <1>3, <2>1, <2>2 DEF Core, Shape
<1>6. Gone(t)
  <2> SUFFICES ASSUME NEW q \in Peer, q \notin s.clients \ {p}
               PROVE  t.client[q] = NewClient /\ t.fd[q] = NoFd /\ ~ t.writer[q]
    BY <1>2 DEF Gone
  <2>1. CASE q = p
    BY <1>1, <1>2, <1>4, <2>1
  <2>2. CASE q # p
    BY <1>1, <1>2, <1>4, <2>2 DEF Core, Gone
  <2> QED
    BY <2>1, <2>2
<1>7. \A q \in s.clients \ {p} : t.fd[q] = s.fd[q] /\ t.fd[q] # d /\ q \in Peer
  BY <1>1, <1>2 DEF Core, Apart, d
<1>8. Apart(t)
  BY <1>2, <1>7 DEF Core, Apart
<1>9. Heard(t)
  <2> SUFFICES ASSUME NEW q \in s.clients \ {p}
               PROVE  /\ AE_READABLE \in l.interest[s.fd[q]]
                      /\ s.fd[q] \in l.watched
                      /\ l.interest[s.fd[q]] = l.mask[s.fd[q]]
                      /\ l.data[s.fd[q]] = q
                      /\ t.writer[q] <=> AE_WRITABLE \in l.mask[s.fd[q]]
    BY <1>2, <1>7 DEF Heard
  <2>1. /\ AE_READABLE \in s.loop.interest[s.fd[q]]
        /\ s.fd[q] \in s.loop.watched
        /\ s.loop.interest[s.fd[q]] = s.loop.mask[s.fd[q]]
        /\ s.loop.data[s.fd[q]] = q
        /\ s.writer[q] <=> AE_WRITABLE \in s.loop.mask[s.fd[q]]
    BY DEF Core, Heard
  <2>2. s.fd[q] \in Fd /\ s.fd[q] # d /\ q \in Peer
    BY <1>7 DEF Core, Apart, Ours
  <2>3. l.interest[s.fd[q]] = s.loop.interest[s.fd[q]]
    BY <1>1, <1>3, <2>2 DEF Loops
  <2>4. l.mask[s.fd[q]] = s.loop.mask[s.fd[q]]
    BY <1>1, <1>3, <2>2 DEF Loops
  <2>5. t.writer[q] = s.writer[q]
    BY <1>1, <1>2, <2>2
  <2> QED
    BY <1>3, <2>1, <2>2, <2>3, <2>4, <2>5
<1>10. Unused(t)
  <2> SUFFICES ASSUME NEW e \in Ours, \A q \in s.clients \ {p} : s.fd[q] # e
               PROVE  l.mask[e] = {} /\ e \notin l.watched
    BY <1>2, <1>7 DEF Unused
  <2>1. CASE e = d
    BY <1>1, <1>3, <2>1 DEF Loops
  <2>2. CASE e # d
    <3>1. \A q \in s.clients : s.fd[q] # e
      BY <2>2 DEF d
    <3>2. s.loop.mask[e] = {} /\ e \notin s.loop.watched
      BY <3>1 DEF Core, Unused
    <3>3. l.mask[e] = s.loop.mask[e]
      BY <1>1, <1>3, <2>2 DEF Loops, Ours
    <3> QED
      BY <1>3, <3>2, <3>3
  <2> QED
    BY <2>1, <2>2
<1>11. \A f : Flagged(t, f) = Flagged(s, f) \ {p}
  BY <1>4, NewClientKept DEF Flagged
<1>12. \A W : Way(s, W) => Way(t, W)
  <2>1. \A q \in s.clients \ {p} : /\ t.client[q] = s.client[q]
                                   /\ t.writer[q] = s.writer[q]
    BY <1>1, <1>2, <1>4
  <2> QED
    BY <1>2, <2>1 DEF Way
<1>13. Core(t)
  BY <1>5, <1>6, <1>8, <1>9, <1>10 DEF Core
<1> QED
  BY <1>2, <1>11, <1>12, <1>13 DEF t

\* What the peers know of their connections.
Lines == [Peer -> {"off", "on", "closed"}]

(* The list of those to be closed is gone through. *)
LEMMA AllFreed ==
  ASSUME EnoughDescriptors, NEW s, Keeping(s), s.pending = <<>>,
         Flagged(s, "PENDING_WRITE") = {}, Way(s, {}), s.line \in Lines
  PROVE  LET t == freeClientsInAsyncFreeQueue(s)
         IN /\ Keeping(t) /\ t.pending = <<>>
            /\ Flagged(t, "PENDING_WRITE") = {} /\ Way(t, {})
            /\ t.clients \subseteq s.clients /\ t.line \in Lines
            /\ \A q \in Peer : \/ t.line[q] = s.line[q]
                               \/ q \in s.clients /\ q \notin t.clients
<1> DEFINE l == s.to_close
           F == Flagged(s, "CLOSE_ASAP")
<1>0. Listed(l, F)
  BY DEF Keeping
<1>1. l \in Seq(Peer) /\ Len(l) \in Nat /\ DOMAIN l = 1..Len(l)
  BY <1>0 DEF Listed
<1>2. /\ Later(l, 0) = F /\ Later(l, Len(l)) = {}
      /\ \A k \in 1..Len(l) : /\ l[k] \in Later(l, k - 1) /\ l[k] \in Peer
                              /\ Later(l, k) = Later(l, k - 1) \ {l[k]}
  BY <1>0, LaterThings
<1>3. PICK g : /\ g[0] = s
               /\ \A k \in 1..Len(l) : g[k] = freeClient(g[k - 1], l[k])
               /\ freeClientsInAsyncFreeQueue(s) = NoneToClose(g[Len(l)])
  BY <1>1, FoldFree
<1> HIDE DEF F
<1> DEFINE Others(r) == \A q \in Peer : \/ r.line[q] = s.line[q]
                                        \/ q \in s.clients /\ q \notin r.clients
           Done(k) == /\ Core(g[k]) /\ g[k].pending = <<>>
                      /\ Flagged(g[k], "CLOSE_ASAP") = Later(l, k)
                      /\ Flagged(g[k], "PENDING_WRITE") = {} /\ Way(g[k], {})
                      /\ Listed(g[k].waiting, Flagged(g[k], "BLOCKED"))
                      /\ g[k].clients \subseteq s.clients
                      /\ g[k].line \in Lines /\ Others(g[k])
           Good == {k \in Nat : k <= Len(l) => Done(k)}
<1>5. Done(0)
  <2>1. Core(s) /\ Listed(s.waiting, Flagged(s, "BLOCKED")) /\ Later(l, 0) = F
    BY <1>2 DEF Keeping
  <2>2. Others(s) /\ s.clients \subseteq s.clients
    OBVIOUS
  <2> DEFINE a == g[0]
  <2>3. a = s /\ Flagged(s, "CLOSE_ASAP") = F
    BY <1>3 DEF F
  <2> HIDE DEF a, Others
  <2>4. /\ Core(a) /\ a.pending = <<>> /\ Flagged(a, "CLOSE_ASAP") = Later(l, 0)
        /\ Flagged(a, "PENDING_WRITE") = {} /\ Way(a, {})
        /\ Listed(a.waiting, Flagged(a, "BLOCKED"))
        /\ a.clients \subseteq s.clients /\ a.line \in Lines /\ Others(a)
    BY <2>1, <2>2, <2>3
  <2> QED
    BY <2>4 DEF a
<1>6. ASSUME NEW k \in Nat, k \in Good
      PROVE  k + 1 \in Good
  <2> SUFFICES ASSUME k + 1 <= Len(l)
               PROVE  Done(k + 1)
    OBVIOUS
  <2>1. k + 1 \in 1..Len(l) /\ (k + 1) - 1 = k /\ k <= Len(l)
    BY <1>1
  <2>2. Done(k)
    BY <1>6, <2>1
  <2>3. /\ l[k + 1] \in Later(l, k) /\ l[k + 1] \in Peer
        /\ Later(l, k + 1) = Later(l, k) \ {l[k + 1]}
    BY <1>2, <2>1
  <2>4. l[k + 1] \in g[k].clients
    BY <2>2, <2>3, FlagsOfClients
  <2>5. g[k + 1] = freeClient(g[k], l[k + 1])
    BY <1>3, <2>1
  <2> DEFINE a == g[k]
             b == g[k + 1]
             p == l[k + 1]
  <2>7. Core(a) /\ p \in a.clients /\ b = freeClient(a, p) /\ p \in Peer
    BY <2>2, <2>3, <2>4, <2>5
  <2>a. /\ a.pending = <<>> /\ Flagged(a, "CLOSE_ASAP") = Later(l, k)
        /\ Flagged(a, "PENDING_WRITE") = {} /\ Way(a, {})
        /\ Listed(a.waiting, Flagged(a, "BLOCKED"))
        /\ a.clients \subseteq s.clients /\ a.line \in Lines /\ Others(a)
    BY <2>2
  <2>b. Later(l, k + 1) = Later(l, k) \ {p}
    BY <2>3
  <2> HIDE DEF a, b, p, Others
  <2>8. /\ Core(b) /\ b.clients = a.clients \ {p} /\ b.pending = a.pending
        /\ b.line = [a.line EXCEPT ![p] = "closed"]
        /\ b.waiting = RemoveFirst(a.waiting, p)
        /\ \A f : Flagged(b, f) = Flagged(a, f) \ {p}
        /\ \A W : Way(a, W) => Way(b, W)
    BY <2>7, Freed
  <2>9. Listed(b.waiting, Flagged(b, "BLOCKED"))
    BY <2>a, <2>8, ListedRemove
  <2>10. b.line \in Lines
    BY <2>a, <2>8 DEF Lines
  <2>11. Others(b)
    BY <2>7, <2>8, <2>a DEF Others, Lines
  <2>12. Flagged(b, "CLOSE_ASAP") = Later(l, k + 1) /\ Flagged(b, "PENDING_WRITE") = {}
    BY <2>a, <2>b, <2>8
  <2>13. Way(b, {}) /\ b.clients \subseteq s.clients /\ b.pending = <<>>
    BY <2>a, <2>8
  <2> QED
    BY <2>8, <2>9, <2>10, <2>11, <2>12, <2>13 DEF b
<1>7. Done(Len(l))
  <2>1. 0 \in Good
    BY <1>5
  <2>2. Len(l) \in Good
    <3> HIDE DEF Good
    <3> QED
      BY <1>1, <1>6, <2>1, NaturalsInSet
  <2> QED
    BY <1>1, <2>2
<1> DEFINE a == g[Len(l)]
           t == [a EXCEPT !.to_close = <<>>]
<1>8. /\ Core(a) /\ a.pending = <<>> /\ Flagged(a, "CLOSE_ASAP") = {}
      /\ Flagged(a, "PENDING_WRITE") = {} /\ Way(a, {})
      /\ Listed(a.waiting, Flagged(a, "BLOCKED"))
      /\ a.clients \subseteq s.clients /\ a.line \in Lines /\ Others(a)
  BY <1>2, <1>7
<1> HIDE DEF a
<1>9. /\ DOMAIN t = SharedFields /\ t.client = a.client /\ t.room = a.room
      /\ t.loop = a.loop /\ t.fd = a.fd /\ t.clients = a.clients
      /\ t.writer = a.writer /\ t.pending = a.pending
      /\ t.to_close = <<>> /\ t.waiting = a.waiting /\ t.line = a.line
  BY <1>8 DEF SharedFields, Core, Shape
<1>10. freeClientsInAsyncFreeQueue(s) = t
  BY <1>3 DEF a, NoneToClose
<1> HIDE DEF t
<1>11. Core(t)
  BY <1>8, <1>9 DEF Core, Shape, Gone, Apart, Heard, Unused
<1>12. \A f : Flagged(t, f) = Flagged(a, f)
  BY <1>9 DEF Flagged
<1>13. Keeping(t)
  BY <1>8, <1>9, <1>11, <1>12, ListedEmpty DEF Keeping
<1>14. Way(t, {})
  BY <1>8, <1>9 DEF Way
<1> QED
  BY <1>8, <1>9, <1>10, <1>12, <1>13, <1>14

(* Before the loop sleeps, all that is owed is on its way, and nobody that is *)
(* to be closed is left. *)
LEMMA SleepsSoundly ==
  ASSUME EnoughDescriptors, NEW s, Keeping(s), s.line \in Lines,
         Listed(s.pending, Flagged(s, "PENDING_WRITE")),
         Way(s, Flagged(s, "PENDING_WRITE"))
  PROVE  LET t == beforeSleep(s)
         IN /\ Keeping(t) /\ t.pending = <<>>
            /\ Flagged(t, "PENDING_WRITE") = {} /\ Way(t, {})
            /\ t.clients \subseteq s.clients /\ t.line \in Lines
            /\ \A q \in Peer : \/ t.line[q] = s.line[q]
                               \/ q \in s.clients /\ q \notin t.clients
<1> DEFINE w == handleClientsWithPendingWrites(s)
           t == freeClientsInAsyncFreeQueue(w)
<1>1. /\ Keeping(w) /\ w.clients = s.clients /\ w.line = s.line
      /\ w.pending = <<>> /\ Flagged(w, "PENDING_WRITE") = {} /\ Way(w, {})
  BY AllDealt
<1> HIDE DEF w
<1>2. /\ Keeping(t) /\ t.pending = <<>>
      /\ Flagged(t, "PENDING_WRITE") = {} /\ Way(t, {})
      /\ t.clients \subseteq w.clients /\ t.line \in Lines
      /\ \A q \in Peer : \/ t.line[q] = w.line[q]
                         \/ q \in w.clients /\ q \notin t.clients
  BY <1>1, AllFreed
<1>3. beforeSleep(s) = t
  BY DEF beforeSleep, w
<1> HIDE DEF t
<1> QED
  BY <1>1, <1>2, <1>3

-----------------------------------------------------------------------------
(* Reading, and closing *)

\* The books are right, and what is owed is on its way.
Books(s) == /\ Keeping(s) /\ Listed(s.pending, Flagged(s, "PENDING_WRITE"))
            /\ Way(s, Flagged(s, "PENDING_WRITE"))

(* What a read takes are bytes. *)
LEMMA BytesRead ==
  ASSUME NEW p \in Peer, wire[p] \in Seq(0..255), NEW c, WellKept(c)
  PROVE  /\ ReadSome(p, c) \in Seq(0..255)
         /\ Len(ReadSome(p, c)) \in 0..Len(wire[p])
<1>1. ReadLength(c) \in Nat
  <2>1. PROTO_IOBUF_LEN \in Nat
    BY BufferAssumption
  <2>2. c.bulklen \in Int /\ c.querybuf \in Seq(0..255)
    BY DEF WellKept, Kept
  <2> QED
    BY <2>1, <2>2 DEF ReadLength
<1> DEFINE n == IF ReadLength(c) < Len(wire[p]) THEN ReadLength(c) ELSE Len(wire[p])
           w == wire[p]
<1>2. w \in Seq(0..255) /\ Len(w) \in Nat /\ n \in 0..Len(w)
  BY <1>1
<1>3. ReadSome(p, c) = SubSeq(w, 1, n)
  BY DEF ReadSome
<1> HIDE DEF n, w
<1>4. \A i \in 1..n : w[i] \in 0..255
  <2>1. \A i \in 1..n : i \in 1..Len(w)
    BY <1>2
  <2> QED
    BY <1>2, <2>1, ElementOfSeq
<1>5. SubSeq(w, 1, n) \in Seq(0..255) /\ Len(SubSeq(w, 1, n)) = n
  <2>1. n \in Int /\ 1 \in Int /\ 1..n = 1..n
    BY <1>2
  <2>2. /\ SubSeq(w, 1, n) \in Seq(0..255)
        /\ Len(SubSeq(w, 1, n)) = IF 1 <= n THEN n - 1 + 1 ELSE 0
    BY <1>2, <1>4, <2>1, SubSeqProperties
  <2> QED
    BY <1>2, <2>2
<1> QED
  BY <1>2, <1>3, <1>5 DEF w

(* A client with more to parse, as before in all else. *)
LEMMA ReadKept ==
  ASSUME NEW c, WellKept(c), NEW b \in Seq(0..255)
  PROVE  LET r == [c EXCEPT !.querybuf = @ \o b]
         IN WellKept(r) /\ r.flags = c.flags /\ (Owes(r) <=> Owes(c))
<1> DEFINE r == [c EXCEPT !.querybuf = @ \o b]
<1>1. /\ DOMAIN r = ClientFields /\ r.querybuf = c.querybuf \o b
      /\ \A x \in ClientFields \ {"querybuf"} : r[x] = c[x]
  BY DEF WellKept, Kept, ClientFields
<1>2. r.querybuf \in Seq(0..255)
  BY <1>1 DEF WellKept, Kept
<1> HIDE DEF r
<1>3. WellKept(r)
  BY <1>1, <1>2 DEF WellKept, Kept, ClientFields
<1>4. r.flags = c.flags /\ (Owes(r) <=> Owes(c))
  BY <1>1 DEF ClientFields, Owes, clientHasPendingReplies
<1> QED
  BY <1>3, <1>4 DEF r

(* The books are the same for a state that differs in other things. *)
LEMMA BooksAfter ==
  ASSUME NEW s, Books(s), NEW p \in s.clients, NEW c, WellKept(c),
         c.flags = s.client[p].flags, Owes(c) => Owes(s.client[p]),
         NEW t, DOMAIN t = SharedFields, t.client = [s.client EXCEPT ![p] = c],
         t.room = s.room, t.loop = s.loop, t.fd = s.fd, t.clients = s.clients,
         t.writer = s.writer, t.pending = s.pending, t.to_close = s.to_close,
         t.waiting = s.waiting
  PROVE  Books(t)
<1>1. /\ p \in Peer /\ DOMAIN s.client = Peer /\ s.room \in [Peer -> Nat]
      /\ s.clients \subseteq Peer /\ Keeping(s) /\ Core(s)
  BY DEF Books, Keeping, Core, Shape
<1>2. Core(t)
  BY <1>1, CoreAfter
<1>3. \A q \in Peer : t.client[q] = IF q = p THEN c ELSE s.client[q]
  BY <1>1
<1>4. \A f : Flagged(t, f) = Flagged(s, f)
  BY <1>1, <1>3 DEF Flagged
<1>5. Keeping(t)
  BY <1>1, <1>2, <1>4 DEF Keeping
<1>6. Way(t, Flagged(t, "PENDING_WRITE"))
  BY <1>1, <1>3, <1>4 DEF Way, Books
<1> QED
  BY <1>1, <1>4, <1>5, <1>6 DEF Books

(* Nor do they say anything of the state of a connection. *)
LEMMA BooksSame ==
  ASSUME NEW s, Books(s), NEW t, DOMAIN t = SharedFields, t.client = s.client,
         t.room = s.room, t.loop = s.loop, t.fd = s.fd, t.clients = s.clients,
         t.writer = s.writer, t.pending = s.pending, t.to_close = s.to_close,
         t.waiting = s.waiting
  PROVE  Books(t)
<1>1. Core(t)
  BY DEF Books, Keeping, Core, Shape, Gone, Apart, Heard, Unused
<1>2. \A f : Flagged(t, f) = Flagged(s, f)
  BY DEF Flagged
<1> QED
  BY <1>1, <1>2 DEF Books, Keeping, Way

(* A client is put on the list of those to be closed. *)
LEMMA BooksClose ==
  ASSUME NEW s, Books(s), NEW p \in s.clients
  PROVE  LET t == freeClientAsync(s, p)
         IN Books(t) /\ t.clients = s.clients /\ t.line = s.line
<1> DEFINE t == freeClientAsync(s, p)
           W == Flagged(s, "PENDING_WRITE")
<1>1. /\ Keeping(t) /\ t.clients = s.clients /\ t.line = s.line
      /\ t.pending = s.pending /\ Flagged(t, "PENDING_WRITE") = W
      /\ Way(s, W \cup {p}) => Way(t, W)
  BY CloseAsync DEF Books
<1> HIDE DEF t
<1>2. Way(s, W \cup {p})
  BY DEF Books, Way
<1> QED
  BY <1>1, <1>2 DEF Books, t

(* A client goes on: it has more flags, and what it owes is noted. *)
LEMMA BooksHeed ==
  ASSUME NEW s, Books(s), NEW p \in s.clients, NEW c, Heeds(s.client[p], c)
  PROVE  LET t == WithClient(s, p, c)
         IN Books(t) /\ t.clients = s.clients /\ t.line = s.line
<1> DEFINE t == WithClient(s, p, c)
<1>1. /\ p \in Peer /\ DOMAIN s.client = Peer /\ s.clients \subseteq Peer /\ Keeping(s)
      /\ WellKept(c) /\ s.client[p].flags \subseteq c.flags
  BY DEF Books, Keeping, Core, Shape, Heeds
<1>2. /\ Keeping(t) /\ t.clients = s.clients /\ t.line = s.line
      /\ t.writer = s.writer /\ t.client = [s.client EXCEPT ![p] = c]
      /\ Listed(s.pending, Flagged(s, "PENDING_WRITE")) =>
           Listed(t.pending, Flagged(t, "PENDING_WRITE"))
  BY <1>1, ClientChanges
<1> HIDE DEF t
<1>3. \A q \in Peer : t.client[q] = IF q = p THEN c ELSE s.client[q]
  BY <1>1, <1>2
<1>4. \A q \in s.clients : Owes(s.client[q]) =>
        \/ "PENDING_WRITE" \in s.client[q].flags
        \/ "CLOSE_ASAP" \in s.client[q].flags \/ s.writer[q]
  BY DEF Books, Way, Flagged
<1>5. Way(t, Flagged(t, "PENDING_WRITE"))
  <2> SUFFICES ASSUME NEW q \in s.clients, Owes(t.client[q])
               PROVE  \/ "PENDING_WRITE" \in t.client[q].flags
                      \/ "CLOSE_ASAP" \in t.client[q].flags \/ t.writer[q]
    BY <1>1, <1>2 DEF Way, Flagged
  <2>1. CASE q = p
    BY <1>1, <1>2, <1>3, <1>4, <2>1 DEF Heeds
  <2>2. CASE q # p
    BY <1>1, <1>2, <1>3, <1>4, <2>2
  <2> QED
    BY <2>1, <2>2
<1> QED
  BY <1>2, <1>5 DEF Books, t

(* A client is written to. *)
LEMMA BooksWrite ==
  ASSUME EnoughDescriptors, NEW s, Books(s), NEW p \in s.clients
  PROVE  LET t == writeToClient(s, p)
         IN Books(t) /\ t.clients = s.clients /\ t.line = s.line
<1> DEFINE t == writeToClient(s, p)
           W == Flagged(s, "PENDING_WRITE")
<1>1. /\ Keeping(t) /\ t.clients = s.clients /\ t.line = s.line
      /\ t.pending = s.pending /\ Flagged(t, "PENDING_WRITE") = W
      /\ Way(s, W) => Way(t, W)
  BY Written DEF Books
<1> HIDE DEF t
<1> QED
  BY <1>1 DEF Books, t

(* What a client has sent is read. *)
LEMMA BooksRead ==
  ASSUME NEW s, Books(s), NEW p \in s.clients, wire[p] \in Seq(0..255)
  PROVE  LET t == readQueryFromClient(s, p)
         IN Books(t) /\ t.clients = s.clients /\ t.line = s.line
<1> DEFINE c == s.client[p]
           read == [c EXCEPT !.querybuf = @ \o ReadSome(p, c)]
           t == readQueryFromClient(s, p)
<1>1. /\ p \in Peer /\ WellKept(c) /\ DOMAIN s = SharedFields
      /\ DOMAIN s.client = Peer
  BY DEF Books, Keeping, Core, Shape
<1>2. WellKept(read) /\ read.flags = c.flags /\ (Owes(read) <=> Owes(c))
  BY <1>1, BytesRead, ReadKept
<1>3. CASE wire[p] = <<>> /\ hangup[p] = "no"
  <2>1. t = s
    BY <1>3 DEF readQueryFromClient
  <2> QED
    BY <2>1
<1>4. CASE wire[p] = <<>> /\ hangup[p] # "no"
  <2> DEFINE state == IF hangup[p] = "eof" THEN "closed" ELSE "error"
             u == [s EXCEPT !.conn[p] = state]
  <2>1. t = freeClientAsync(u, p)
    BY <1>4 DEF readQueryFromClient
  <2>2. /\ DOMAIN u = SharedFields /\ u.client = s.client /\ u.room = s.room
        /\ u.loop = s.loop /\ u.fd = s.fd /\ u.clients = s.clients
        /\ u.writer = s.writer /\ u.pending = s.pending
        /\ u.to_close = s.to_close /\ u.waiting = s.waiting /\ u.line = s.line
    BY <1>1 DEF SharedFields
  <2> HIDE DEF u, t
  <2>4. Books(u)
    BY <2>2, BooksSame
  <2>5. p \in u.clients
    BY <2>2
  <2> QED
    BY <2>1, <2>2, <2>4, <2>5, BooksClose DEF t
<1>5. CASE wire[p] # <<>>
  <2> HIDE DEF t
  <2>1. CASE Len(read.querybuf) > client_max_querybuf_len
    <3> DEFINE u == [s EXCEPT !.client[p] = read]
    <3>1. t = freeClientAsync(u, p)
      BY <1>5, <2>1 DEF readQueryFromClient, t
    <3> HIDE DEF read
    <3>2. /\ DOMAIN u = SharedFields /\ u.client = [s.client EXCEPT ![p] = read]
          /\ u.room = s.room
          /\ u.loop = s.loop /\ u.fd = s.fd /\ u.clients = s.clients
          /\ u.writer = s.writer /\ u.pending = s.pending
          /\ u.to_close = s.to_close /\ u.waiting = s.waiting /\ u.line = s.line
      BY <1>1 DEF SharedFields
    <3> HIDE DEF u
    <3>3. Books(u)
      BY <1>2, <3>2, BooksAfter
    <3>4. p \in u.clients
      BY <3>2
    <3> QED
      BY <3>1, <3>2, <3>3, <3>4, BooksClose DEF t
  <2>2. CASE ~ (Len(read.querybuf) > client_max_querybuf_len)
    <3>1. t = WithClient(s, p, processInputBuffer(read))
      BY <1>5, <2>2 DEF readQueryFromClient, t
    <3> HIDE DEF read
    <3>2. Heeds(read, processInputBuffer(read))
      BY <1>2, ParseHeeds
    <3>3. Heeds(s.client[p], processInputBuffer(read))
      BY <1>2, <3>2 DEF Heeds
    <3> QED
      BY <3>1, <3>3, BooksHeed DEF t
  <2> QED
    BY <2>1, <2>2
<1> QED
  BY <1>3, <1>4, <1>5

(* The handler of a connection is called. *)
LEMMA BooksHandle ==
  ASSUME EnoughDescriptors, NEW s, Books(s), NEW p \in s.clients,
         wire[p] \in Seq(0..255), NEW mask
  PROVE  LET t == connSocketEventHandler(s, p, mask)
         IN Books(t) /\ t.clients = s.clients /\ t.line = s.line
<1> DEFINE t == connSocketEventHandler(s, p, mask)
           read == IF AE_READABLE \in mask THEN readQueryFromClient(s, p) ELSE s
<1>1. Books(read) /\ read.clients = s.clients /\ read.line = s.line
  BY BooksRead
<1>2. t = IF AE_WRITABLE \in mask /\ s.writer[p] THEN writeToClient(read, p) ELSE read
  BY DEF connSocketEventHandler
<1> HIDE DEF read, t
<1>3. p \in read.clients
  BY <1>1
<1>4. LET w == writeToClient(read, p)
      IN Books(w) /\ w.clients = read.clients /\ w.line = read.line
  BY <1>1, <1>3, BooksWrite
<1> QED
  BY <1>1, <1>2, <1>4 DEF t

-----------------------------------------------------------------------------
(* Clients that come *)

(* As long as there are fewer clients than there may be, a descriptor is free, *)
(* and the lowest of them is the next.                                         *)
LEMMA NextFdFree ==
  ASSUME EnoughDescriptors, config \in Configurations, Core(State),
         Cardinality(clients) < config.maxclients
  PROVE  NextFd \in Ours /\ \A p \in Peer : fd[p] # NextFd
<1>1. /\ fd \in [Peer -> Fd \cup {NoFd}] /\ clients \subseteq Peer
      /\ \A p \in clients : fd[p] \in Ours
      /\ \A p, q \in clients : fd[p] = fd[q] => p = q
      /\ \A p \in Peer \ clients : fd[p] = NoFd
  BY DEF Core, Shape, Apart, Gone, State
<1>2. Fd \subseteq Nat /\ setsize \in Nat /\ Ours \subseteq Fd
  BY LoopAssumption DEF Ours
<1>3. IsFiniteSet(Fd)
  BY <1>2, FS_BoundedSetOfNaturals DEF EnoughDescriptors
<1>4. IsFiniteSet(Ours) /\ Cardinality(Ours) = Cardinality(Fd) - 2
  <2>1. LISTEN \in Fd /\ CHILD \in Fd /\ LISTEN # CHILD
    BY ServerAssumption DEF LISTEN, CHILD
  <2>2. /\ IsFiniteSet(Fd \ {LISTEN})
        /\ Cardinality(Fd \ {LISTEN}) = Cardinality(Fd) - 1
    BY <1>3, <2>1, FS_RemoveElement
  <2>3. /\ IsFiniteSet((Fd \ {LISTEN}) \ {CHILD})
        /\ Cardinality((Fd \ {LISTEN}) \ {CHILD}) = Cardinality(Fd \ {LISTEN}) - 1
    BY <2>1, <2>2, FS_RemoveElement
  <2>4. (Fd \ {LISTEN}) \ {CHILD} = Ours
    BY DEF Ours
  <2>5. Cardinality(Fd) \in Nat
    BY <1>3, FS_CardinalityType
  <2> QED
    BY <2>2, <2>3, <2>4, <2>5
<1>5. \E d \in Ours : \A p \in clients : fd[p] # d
  <2> SUFFICES ASSUME \A d \in Ours : \E p \in clients : fd[p] = d
               PROVE  FALSE
    OBVIOUS
  <2> DEFINE f == [p \in clients |-> fd[p]]
  <2>1. f \in Injection(clients, Ours)
    BY <1>1 DEF Injection, IsInjective
  <2>2. f \in Surjection(clients, Ours)
    BY <1>1 DEF Surjection
  <2> HIDE DEF f
  <2>3. /\ IsFiniteSet(clients)
        /\ Cardinality(clients) = Cardinality(Ours) <=> f \in Surjection(clients, Ours)
    BY <1>4, <2>1, FS_Injection
  <2>4. Cardinality(clients) = Cardinality(Fd) - 2
    BY <1>4, <2>2, <2>3
  <2>5. Cardinality(Fd) \in Nat
    BY <1>3, FS_CardinalityType
  <2>6. config.maxclients \in Nat /\ config.maxclients + 2 <= Cardinality(Fd)
    BY DEF EnoughDescriptors
  <2> QED
    BY <2>4, <2>5, <2>6
<1>6. \A p \in Peer : p \in clients \/ fd[p] \notin Ours
  BY <1>1, <1>2 DEF NoFd
<1> DEFINE Free == {d \in Ours : \A p \in Peer : fd[p] # d}
<1>7. Free # {} /\ Free \subseteq Nat
  BY <1>2, <1>5, <1>6
<1>8. PICK d \in Free : \A e \in Free : d <= e
  BY <1>7, LeastNatural
<1>9. \E e \in Fd \ {LISTEN, CHILD} :
        /\ \A p \in Peer : fd[p] # e
        /\ \A g \in Fd \ {LISTEN, CHILD} : g < e => \E p \in Peer : fd[p] = g
  <2>1. d \in Fd \ {LISTEN, CHILD} /\ \A p \in Peer : fd[p] # d
    BY <1>8 DEF Ours
  <2>2. ASSUME NEW g \in Fd \ {LISTEN, CHILD}, g < d
        PROVE  \E p \in Peer : fd[p] = g
    <3>1. g \notin Free
      BY <1>2, <1>7, <1>8, <2>2 DEF Ours
    <3> QED
      BY <3>1 DEF Ours
  <2> QED
    BY <2>1, <2>2
<1>10. NextFd \in Fd \ {LISTEN, CHILD} /\ \A p \in Peer : fd[p] # NextFd
  BY <1>9 DEF NextFd
<1> QED
  BY <1>10 DEF Ours

(* A client has come, and is listened to. *)
LEMMA BooksCreate ==
  ASSUME EnoughDescriptors, NEW s, Books(s), NEW p \in Peer, p \notin s.clients,
         NEW d \in Ours, \A q \in s.clients : s.fd[q] # d
  PROVE  LET t == createClient(s, p, d)
         IN /\ Books(t) /\ t.clients = s.clients \cup {p} /\ t.line = s.line
            /\ \A q \in s.clients : t.fd[q] = s.fd[q]
<1> DEFINE l == aeCreateFileEvent(s.loop, d, {AE_READABLE}, p)
           t == createClient(s, p, d)
<1>1. /\ d \in Fd /\ s.loop \in Loops /\ DOMAIN s = SharedFields /\ s.clients \subseteq Peer
      /\ s.writer \in [Peer -> BOOLEAN] /\ s.fd \in [Peer -> Fd \cup {NoFd}]
      /\ DOMAIN s.client = Peer /\ s.client[p] = NewClient /\ ~ s.writer[p]
      /\ s.loop.mask[d] = {} /\ d \notin s.loop.watched
      /\ s.room \in [Peer -> Nat] /\ Core(s) /\ Keeping(s)
  BY DEF Books, Keeping, Core, Shape, Gone, Unused, Ours
<1>2. /\ DOMAIN t = SharedFields /\ t.loop = l
      /\ t.client = [s.client EXCEPT ![p] = NewClient]
      /\ t.fd = [s.fd EXCEPT ![p] = d] /\ t.clients = s.clients \cup {p}
      /\ t.writer = s.writer /\ t.pending = s.pending /\ t.to_close = s.to_close
      /\ t.waiting = s.waiting /\ t.room = s.room /\ t.line = s.line
  BY <1>1 DEF createClient, SharedFields
<1>3. /\ l \in Loops /\ l.mask = [s.loop.mask EXCEPT ![d] = {AE_READABLE}]
      /\ l.interest = [s.loop.interest EXCEPT ![d] = {AE_READABLE}]
      /\ l.data = [s.loop.data EXCEPT ![d] = p] /\ l.watched = s.loop.watched \cup {d}
  <2> DEFINE m == s.loop
  <2>1. m \in Loops /\ m.mask[d] = {} /\ d \notin m.watched /\ p \in Peer \cup {NoData}
    BY <1>1
  <2> HIDE DEF m
  <2>2. Table(aeCreateFileEvent(m, d, {AE_READABLE}, p), m, d, {AE_READABLE}, p,
              m.watched \cup {d})
    BY <1>1, <2>1, ListenFirst
  <2> HIDE DEF l
  <2>3. Table(l, m, d, {AE_READABLE}, p, m.watched \cup {d})
    BY <2>2 DEF l, m
  <2> QED
    BY <2>3 DEF m, Table
<1> HIDE DEF t, l
<1>4. \A q \in Peer : t.client[q] = s.client[q]
  BY <1>1, <1>2
<1>5. Shape(t)
  <2>1. \A q \in Peer : WellKept(t.client[q])
    BY <1>4 DEF Core, Shape, Keeping, Books
  <2> QED
    BY <1>1, <1>2, <1>3, <2>1 DEF Shape
<1>6. Gone(t)
  <2> SUFFICES ASSUME NEW q \in Peer, q \notin s.clients \cup {p}
               PROVE  t.client[q] = NewClient /\ t.fd[q] = NoFd /\ ~ t.writer[q]
    BY <1>2 DEF Gone
  <2>1. s.client[q] = NewClient /\ s.fd[q] = NoFd /\ ~ s.writer[q] /\ q # p
    BY <1>1 DEF Core, Gone
  <2> QED
    BY <1>1, <1>2, <1>4, <2>1
<1>7. \A q \in s.clients : t.fd[q] = s.fd[q] /\ q # p /\ s.fd[q] # d
  BY <1>1, <1>2
<1>8. t.fd[p] = d
  BY <1>1, <1>2
<1>9. Apart(t)
  BY <1>1, <1>2, <1>7, <1>8 DEF Core, Apart
<1>10. Heard(t)
  <2> SUFFICES ASSUME NEW q \in s.clients \cup {p}
               PROVE  /\ AE_READABLE \in l.interest[t.fd[q]]
                      /\ t.fd[q] \in l.watched
                      /\ l.interest[t.fd[q]] = l.mask[t.fd[q]]
                      /\ l.data[t.fd[q]] = q
                      /\ s.writer[q] <=> AE_WRITABLE \in l.mask[t.fd[q]]
    BY <1>2 DEF Heard
  <2>1. CASE q = p
    <3>1. l.mask[d] = {AE_READABLE} /\ l.interest[d] = {AE_READABLE} /\ d \in l.watched
      BY <1>1, <1>3 DEF Loops
    <3>2. l.data[d] = p
      BY <1>1, <1>3 DEF Loops
    <3>3. AE_READABLE # AE_WRITABLE
      BY DEF AE_READABLE, AE_WRITABLE
    <3> QED
      BY <1>1, <1>8, <2>1, <3>1, <3>2, <3>3
  <2>2. CASE q \in s.clients
    <3>1. /\ AE_READABLE \in s.loop.interest[s.fd[q]]
          /\ s.fd[q] \in s.loop.watched
          /\ s.loop.interest[s.fd[q]] = s.loop.mask[s.fd[q]]
          /\ s.loop.data[s.fd[q]] = q
          /\ s.writer[q] <=> AE_WRITABLE \in s.loop.mask[s.fd[q]]
      BY <1>1, <2>2 DEF Core, Heard
    <3>2. s.fd[q] \in Fd /\ s.fd[q] # d /\ t.fd[q] = s.fd[q]
      BY <1>1, <1>7, <2>2 DEF Core, Apart, Ours
    <3>3. l.interest[s.fd[q]] = s.loop.interest[s.fd[q]]
      BY <1>1, <1>3, <3>2 DEF Loops
    <3>4. l.mask[s.fd[q]] = s.loop.mask[s.fd[q]]
      BY <1>1, <1>3, <3>2 DEF Loops
    <3>5. l.data[s.fd[q]] = s.loop.data[s.fd[q]]
      BY <1>1, <1>3, <3>2 DEF Loops
    <3> QED
      BY <1>3, <3>1, <3>2, <3>3, <3>4, <3>5
  <2> QED
    BY <2>1, <2>2
<1>11. Unused(t)
  <2> SUFFICES ASSUME NEW e \in Ours, \A q \in s.clients \cup {p} : t.fd[q] # e
               PROVE  l.mask[e] = {} /\ e \notin l.watched
    BY <1>2 DEF Unused
  <2>1. e # d /\ e \in Fd
    BY <1>8 DEF Ours
  <2>2. \A q \in s.clients : s.fd[q] # e
    BY <1>7
  <2>3. s.loop.mask[e] = {} /\ e \notin s.loop.watched
    BY <1>1, <2>2 DEF Core, Unused
  <2>4. l.mask[e] = s.loop.mask[e]
    BY <1>1, <1>3, <2>1 DEF Loops
  <2> QED
    BY <1>3, <2>1, <2>3, <2>4
<1>12. Core(t)
  BY <1>5, <1>6, <1>9, <1>10, <1>11 DEF Core
<1>13. \A f : Flagged(t, f) = Flagged(s, f)
  BY <1>4 DEF Flagged
<1>14. Keeping(t)
  BY <1>1, <1>2, <1>12, <1>13 DEF Keeping
<1>15. Way(t, Flagged(t, "PENDING_WRITE"))
  BY <1>1, <1>2, <1>4, <1>13, NewClientKept DEF Books, Way
<1>16. Books(t)
  BY <1>2, <1>13, <1>14, <1>15 DEF Books
<1> QED
  BY <1>2, <1>7, <1>16 DEF t

(* A connection is accepted, if only to be closed again. *)
LEMMA BooksAccept ==
  ASSUME EnoughDescriptors, config \in Configurations, Books(State),
         NEW p \in Peer, p \notin clients, line \in Lines
  PROVE  LET t == acceptCommonHandler(State, p, NextFd)
         IN /\ Books(t) /\ t.line \in Lines
            /\ \A q \in Peer \ {p} : t.line[q] = line[q]
            /\ \/ t.clients = clients
               \/ t.clients = clients \cup {p} /\ t.line = line
            /\ \A q \in clients : t.fd[q] = fd[q]
<1> DEFINE s == State
           t == acceptCommonHandler(s, p, NextFd)
<1>1. /\ DOMAIN s = SharedFields /\ s.clients = clients /\ s.line = line
      /\ s.fd = fd
  BY DEF State, SharedFields
<1>2. CASE Cardinality(clients) >= config.maxclients
  <2>1. t = [s EXCEPT !.got[p] = <<U("max clients", 0)>>, !.line[p] = "closed"]
    BY <1>1, <1>2 DEF acceptCommonHandler
  <2> HIDE DEF s
  <2>2. /\ DOMAIN t = SharedFields /\ t.client = s.client /\ t.room = s.room
        /\ t.loop = s.loop /\ t.fd = s.fd /\ t.clients = s.clients
        /\ t.writer = s.writer /\ t.pending = s.pending
        /\ t.to_close = s.to_close /\ t.waiting = s.waiting
        /\ t.line = [s.line EXCEPT ![p] = "closed"]
    BY <1>1, <2>1 DEF SharedFields
  <2> HIDE DEF t
  <2>3. Books(t)
    BY <2>2, BooksSame DEF s
  <2>4. t.line \in Lines /\ \A q \in Peer \ {p} : t.line[q] = line[q]
    BY <1>1, <2>2 DEF Lines
  <2> QED
    BY <1>1, <2>2, <2>3, <2>4 DEF t, s
<1>3. CASE ~ (Cardinality(clients) >= config.maxclients)
  <2>1. t = createClient(s, p, NextFd)
    BY <1>1, <1>3 DEF acceptCommonHandler
  <2>2. Cardinality(clients) < config.maxclients
    <3>1. Core(State) /\ Fd \subseteq Nat /\ setsize \in Nat
      BY LoopAssumption DEF Books, Keeping
    <3>2. IsFiniteSet(Fd)
      BY <3>1, FS_BoundedSetOfNaturals DEF EnoughDescriptors
    <3>3. IsFiniteSet(Ours)
      BY <3>2, FS_Subset DEF Ours
    <3>4. [q \in clients |-> fd[q]] \in Injection(clients, Ours)
      BY <1>1, <3>1 DEF Injection, IsInjective, Core, Apart
    <3>5. IsFiniteSet(clients)
      BY <3>3, <3>4, FS_Injection
    <3>6. Cardinality(clients) \in Nat /\ config.maxclients \in Nat
      BY <3>5, FS_CardinalityType DEF EnoughDescriptors
    <3> QED
      BY <1>3, <3>6
  <2>3. NextFd \in Ours /\ \A q \in Peer : fd[q] # NextFd
    BY <2>2, NextFdFree DEF Books, Keeping
  <2>4. \A q \in s.clients : s.fd[q] # NextFd /\ q \in Peer
    BY <1>1, <2>3 DEF Books, Keeping, Core, Shape
  <2> HIDE DEF s
  <2>5. Books(s) /\ p \notin s.clients
    BY <1>1 DEF s
  <2> HIDE DEF t
  <2>6. /\ Books(t) /\ t.clients = s.clients \cup {p} /\ t.line = s.line
        /\ \A q \in s.clients : t.fd[q] = s.fd[q]
    BY <2>1, <2>3, <2>4, <2>5, BooksCreate
  <2> QED
    BY <1>1, <2>6 DEF t, s
<1> QED
  BY <1>2, <1>3

-----------------------------------------------------------------------------
(* Answers *)

(* A blocked client that gets its answer. *)
LEMMA Unblocked ==
  ASSUME NEW s, Books(s), s.waiting # <<>>, NEW p, p = Head(s.waiting),
         NEW c, WellKept(c), "BLOCKED" \notin c.flags,
         c.flags \subseteq s.client[p].flags \cup {"PENDING_WRITE"},
         s.client[p].flags \ {"BLOCKED"} \subseteq c.flags,
         Owes(c) => Owes(s.client[p]) \/ "PENDING_WRITE" \in c.flags,
         NEW t, DOMAIN t = SharedFields, t.client = [s.client EXCEPT ![p] = c],
         t.pending = IF "PENDING_WRITE" \in c.flags \ s.client[p].flags
                       THEN <<p>> \o s.pending ELSE s.pending,
         t.waiting = Tail(s.waiting), t.room = s.room, t.loop = s.loop,
         t.fd = s.fd, t.clients = s.clients, t.writer = s.writer,
         t.to_close = s.to_close
  PROVE  Books(t)
<1>1. /\ Core(s) /\ Keeping(s) /\ DOMAIN s = SharedFields /\ DOMAIN s.client = Peer
      /\ s.room \in [Peer -> Nat] /\ s.clients \subseteq Peer
      /\ Listed(s.waiting, Flagged(s, "BLOCKED"))
      /\ Listed(s.pending, Flagged(s, "PENDING_WRITE"))
      /\ Listed(s.to_close, Flagged(s, "CLOSE_ASAP"))
  BY DEF Books, Keeping, Core, Shape
<1>2. /\ p \in Flagged(s, "BLOCKED")
      /\ Listed(Tail(s.waiting), Flagged(s, "BLOCKED") \ {p})
  BY <1>1, ListedTail
<1>3. p \in s.clients /\ p \in Peer
  BY <1>1, <1>2, FlagsOfClients
<1>10. \A q \in Peer : t.client[q] = IF q = p THEN c ELSE s.client[q]
  BY <1>1
<1>11. Core(t)
  BY <1>1, <1>3, CoreAfter
<1>12. /\ Flagged(t, "BLOCKED") = Flagged(s, "BLOCKED") \ {p}
       /\ Flagged(t, "CLOSE_ASAP") = Flagged(s, "CLOSE_ASAP")
  BY <1>3, <1>10 DEF Flagged
<1>13. Keeping(t)
  BY <1>1, <1>2, <1>11, <1>12 DEF Keeping
<1>14. Listed(t.pending, Flagged(t, "PENDING_WRITE"))
  <2>1. CASE "PENDING_WRITE" \in c.flags \ s.client[p].flags
    <3>1. /\ Flagged(t, "PENDING_WRITE") = Flagged(s, "PENDING_WRITE") \cup {p}
          /\ p \notin Flagged(s, "PENDING_WRITE")
      BY <1>3, <1>10, <2>1 DEF Flagged
    <3>2. t.pending = <<p>> \o s.pending
      BY <2>1
    <3> QED
      BY <1>1, <1>3, <3>1, <3>2, ListedFirst, SMTT(20)
  <2>2. CASE ~ ("PENDING_WRITE" \in c.flags \ s.client[p].flags)
    <3>1. Flagged(t, "PENDING_WRITE") = Flagged(s, "PENDING_WRITE")
      BY <1>3, <1>10, <2>2 DEF Flagged
    <3> QED
      BY <1>1, <2>2, <3>1
  <2> QED
    BY <2>1, <2>2
<1>15. Way(t, Flagged(t, "PENDING_WRITE"))
  <2> SUFFICES ASSUME NEW q \in s.clients, Owes(t.client[q])
               PROVE  \/ "PENDING_WRITE" \in t.client[q].flags
                      \/ "CLOSE_ASAP" \in t.client[q].flags \/ s.writer[q]
    BY <1>1 DEF Way, Flagged
  <2>1. Owes(s.client[q]) => \/ "PENDING_WRITE" \in s.client[q].flags
                             \/ "CLOSE_ASAP" \in s.client[q].flags \/ s.writer[q]
    BY DEF Books, Way, Flagged
  <2>2. q \in Peer
    BY <1>1
  <2> QED
    BY <1>10, <2>1, <2>2
<1> QED
  BY <1>13, <1>14, <1>15 DEF Books

(* The client that has waited longest gets its answer. *)
LEMMA BooksAnswer ==
  ASSUME NEW s, Books(s), s.waiting # <<>>, NEW p, p = Head(s.waiting),
         NEW c, c = AddReply(unblockClient(s.client[p]), Status("answer"))
  PROVE  /\ p \in s.clients /\ WellKept(c) /\ "BLOCKED" \notin c.flags
         /\ c.flags \subseteq s.client[p].flags \cup {"PENDING_WRITE"}
         /\ s.client[p].flags \ {"BLOCKED"} \subseteq c.flags
         /\ Owes(c) => Owes(s.client[p]) \/ "PENDING_WRITE" \in c.flags
<1> DEFINE b == Unflag(s.client[p], "BLOCKED")
           pieces == Status("answer")
<1>1. Core(s) /\ Listed(s.waiting, Flagged(s, "BLOCKED"))
  BY DEF Books, Keeping
<1>2. p \in Flagged(s, "BLOCKED")
  BY <1>1, ListedTail
<1>3. p \in s.clients /\ p \in Peer /\ WellKept(s.client[p])
  BY <1>1, <1>2, FlagsOfClients DEF Core, Shape
<1>4. /\ WellKept(b) /\ b.flags = s.client[p].flags \ {"BLOCKED"}
      /\ Owes(b) <=> Owes(s.client[p])
  BY <1>3, UnflagKeeps
<1>5. WellKept(b) /\ pieces \in Seq(Piece) /\ c = AddReply(b, pieces)
  <2>1. "answer" \in Words
    BY DEF Words
  <2>2. c = AddReply(b, pieces)
    BY DEF unblockClient
  <2> QED
    BY <1>4, <2>1, <2>2, WordingPieces
<1> HIDE DEF b, pieces
<1>6. Heeds(b, c) /\ c.flags \subseteq b.flags \cup {"PENDING_WRITE"}
  BY <1>5, AddReplyHeeds
<1> QED
  BY <1>3, <1>4, <1>6 DEF Heeds

-----------------------------------------------------------------------------
(* The invariant *)

\* A state with the same connections.
SameFds(t, s) == DOMAIN t = SharedFields /\ t.fd = s.fd

(* What a handler does to a client does not touch the connections. *)
LEMMA ClientFds ==
  ASSUME NEW s, DOMAIN s = SharedFields, NEW p, NEW c
  PROVE  SameFds(WithClient(s, p, c), s)
  BY DEF SameFds, WithClient, SharedFields

(* Closing later does not touch the connections. *)
LEMMA AsyncFds ==
  ASSUME NEW s, DOMAIN s = SharedFields, NEW p
  PROVE  SameFds(freeClientAsync(s, p), s)
  BY ClientFds DEF freeClientAsync

(* Not waiting any more does not touch them. *)
LEMMA ClearFds ==
  ASSUME NEW s, DOMAIN s = SharedFields, NEW p
  PROVE  SameFds(connClearWriteHandler(s, p), s)
  BY DEF SameFds, connClearWriteHandler, SharedFields

(* Writing does not. *)
LEMMA WriteFds ==
  ASSUME NEW s, DOMAIN s = SharedFields, NEW p
  PROVE  SameFds(writeToClient(s, p), s)
<1> DEFINE x == WriteAll(s.client[p], IF Broken(p) THEN 0 ELSE s.room[p])
           state == IF x.nwritten = -1 /\ Broken(p) THEN "error" ELSE s.conn[p]
           wrote == [s EXCEPT !.client[p] = x.client, !.conn[p] = state,
                              !.room[p] = IF Broken(p) THEN @ ELSE x.room,
                              !.got[p] = @ \o x.sent]
           done == connClearWriteHandler(wrote, p)
           t == writeToClient(s, p)
<1>1. t = CASE x.nwritten = -1 /\ state # "connected" -> freeClientAsync(wrote, p)
            [] x.nwritten = -1 /\ state = "connected" -> wrote
            [] OTHER -> IF "CLOSE_AFTER_REPLY" \in x.client.flags
                          THEN freeClientAsync(done, p) ELSE done
  BY DEF writeToClient
<1> HIDE DEF x, state
<1>2. SameFds(wrote, s)
  BY DEF SameFds, SharedFields
<1> HIDE DEF wrote, t
<1>3. SameFds(done, s)
  BY <1>2, ClearFds DEF SameFds
<1> HIDE DEF done
<1>4. SameFds(freeClientAsync(done, p), s) /\ SameFds(freeClientAsync(wrote, p), s)
  BY <1>2, <1>3, AsyncFds DEF SameFds
<1>5. t \in {freeClientAsync(wrote, p), wrote, freeClientAsync(done, p), done}
  BY <1>1
<1>6. SameFds(t, s)
  BY <1>2, <1>3, <1>4, <1>5, Zenon
<1> QED
  BY <1>6 DEF t

(* Reading does not. *)
LEMMA ReadFds ==
  ASSUME NEW s, DOMAIN s = SharedFields, NEW p
  PROVE  SameFds(readQueryFromClient(s, p), s)
<1> DEFINE read == [s.client[p] EXCEPT !.querybuf = @ \o ReadSome(p, s.client[p])]
           gone == [s EXCEPT !.conn[p] = IF hangup[p] = "eof" THEN "closed" ELSE "error"]
           long == [s EXCEPT !.client[p] = read]
           t == readQueryFromClient(s, p)
<1>1. t \in {s, freeClientAsync(gone, p), freeClientAsync(long, p),
             WithClient(s, p, processInputBuffer(read))}
  BY DEF readQueryFromClient
<1> HIDE DEF read
<1>2. SameFds(gone, s) /\ SameFds(long, s) /\ SameFds(s, s)
  BY DEF SameFds, SharedFields
<1> HIDE DEF gone, long, t
<1>3. SameFds(freeClientAsync(gone, p), s) /\ SameFds(freeClientAsync(long, p), s)
  BY <1>2, AsyncFds DEF SameFds
<1>4. SameFds(WithClient(s, p, processInputBuffer(read)), s)
  BY ClientFds
<1>5. SameFds(t, s)
  BY <1>1, <1>2, <1>3, <1>4, Zenon
<1> QED
  BY <1>5 DEF t

(* What is done about an event does not. *)
LEMMA HandleFds ==
  ASSUME NEW s, DOMAIN s = SharedFields, NEW p, NEW mask
  PROVE  SameFds(connSocketEventHandler(s, p, mask), s)
<1> DEFINE t == connSocketEventHandler(s, p, mask)
           read == readQueryFromClient(s, p)
<1>1. t \in {s, read, writeToClient(s, p), writeToClient(read, p)}
  BY DEF connSocketEventHandler
<1> HIDE DEF t
<1>2. SameFds(s, s) /\ SameFds(read, s) /\ SameFds(writeToClient(s, p), s)
  BY ReadFds, WriteFds DEF SameFds
<1> HIDE DEF read
<1>3. SameFds(writeToClient(read, p), s)
  BY <1>2, WriteFds DEF SameFds
<1>4. SameFds(t, s)
  BY <1>1, <1>2, <1>3, Zenon
<1> QED
  BY <1>4 DEF t

(* The server's variables are the books after a handler as well. *)
LEMMA Becomes ==
  ASSUME NEW t, Books(t), Become(t)
  PROVE  Books(State')
<1>1. DOMAIN State' = SharedFields
  BY DEF State, SharedFields
<1>2. /\ State'.client = t.client /\ State'.room = t.room /\ State'.loop = t.loop
      /\ State'.fd = t.fd /\ State'.clients = t.clients /\ State'.writer = t.writer
      /\ State'.pending = t.pending /\ State'.to_close = t.to_close
      /\ State'.waiting = t.waiting
  BY DEF State, Become
<1> DEFINE u == State'
<1> HIDE DEF u
<1>3. /\ DOMAIN u = SharedFields /\ u.client = t.client /\ u.room = t.room
      /\ u.loop = t.loop /\ u.fd = t.fd /\ u.clients = t.clients
      /\ u.writer = t.writer /\ u.pending = t.pending
      /\ u.to_close = t.to_close /\ u.waiting = t.waiting
  BY <1>1, <1>2 DEF u
<1>4. Books(u)
  BY <1>3, BooksSame
<1> QED
  BY <1>4 DEF u

\* The inductive invariant: the books are right; who is in the backlog is no
\* client yet; who is a client has a connection; what has fired is of clients.
IInv ==
  /\ Books(State)
  /\ config \in Configurations /\ line \in Lines
  /\ wire \in [Peer -> Seq(0..255)] /\ sent \in [Peer -> Nat]
  /\ Listed(backlog, Elements(backlog))
  /\ \A p \in Elements(backlog) : p \notin clients /\ line[p] = "on"
  /\ \A p \in clients : line[p] # "off"
  /\ pc \in {"before sleep", "poll", "dispatch", "accept"}
  /\ pc \in {"before sleep", "poll"} => DOMAIN fired = {}
  /\ \A d \in DOMAIN fired \ {LISTEN, CHILD} : \E p \in clients : fd[p] = d

-----------------------------------------------------------------------------
(* The initial state *)

(* At first only the two descriptors of the server are watched. *)
LEMMA FirstLoop ==
  ASSUME EnoughDescriptors, Init
  PROVE  /\ loop \in Loops
         /\ \A d \in Ours : loop.mask[d] = {} /\ d \notin loop.watched
<1> DEFINE e == aeCreateEventLoop
           a == aeCreateFileEvent(e, LISTEN, {AE_READABLE}, NoData)
           b == aeCreateFileEvent(a, CHILD, {AE_READABLE}, NoData)
<1>1. LISTEN \in Fd /\ CHILD \in Fd /\ LISTEN # CHILD
  BY ServerAssumption DEF LISTEN, CHILD
<1>2. /\ e \in Loops /\ e.watched = {} /\ \A d \in Fd : e.mask[d] = {}
  BY DEF aeCreateEventLoop, Loops, Mask
<1> HIDE DEF e
<1>3. Table(a, e, LISTEN, {AE_READABLE}, NoData, e.watched \cup {LISTEN})
  BY <1>1, <1>2, ListenFirst
<1> HIDE DEF a
<1>4. /\ a \in Loops /\ a.watched = {LISTEN}
      /\ a.mask = [e.mask EXCEPT ![LISTEN] = {AE_READABLE}]
  BY <1>2, <1>3 DEF Table
<1>5. e.mask \in [Fd -> Mask] /\ a.mask \in [Fd -> Mask]
  BY <1>2, <1>4 DEF Loops
<1>6. \A d \in Fd \ {LISTEN} : a.mask[d] = {}
  BY <1>2, <1>4, <1>5
<1>7. a.mask[CHILD] = {} /\ CHILD \notin a.watched
  BY <1>1, <1>4, <1>6
<1>8. Table(b, a, CHILD, {AE_READABLE}, NoData, a.watched \cup {CHILD})
  BY <1>1, <1>4, <1>7, ListenFirst
<1> HIDE DEF b
<1>9. /\ b \in Loops /\ b.watched = {LISTEN, CHILD}
      /\ b.mask = [a.mask EXCEPT ![CHILD] = {AE_READABLE}]
  BY <1>4, <1>8 DEF Table
<1>10. \A d \in Ours : b.mask[d] = {} /\ d \notin b.watched
  BY <1>5, <1>6, <1>9 DEF Ours
<1>11. loop = b
  BY DEF Init, e, a, b
<1> QED
  BY <1>9, <1>10, <1>11

(* The books are right at first. *)
LEMMA InitKeeps ==
  ASSUME EnoughDescriptors, BytesAreSent, Init
  PROVE  IInv
<1> DEFINE s == State
<1>1. /\ DOMAIN s = SharedFields /\ s.loop = loop /\ s.clients = {}
      /\ s.client = [p \in Peer |-> NewClient] /\ s.fd = [p \in Peer |-> NoFd]
      /\ s.writer = [p \in Peer |-> FALSE] /\ s.pending = <<>>
      /\ s.to_close = <<>> /\ s.waiting = <<>>
      /\ s.room = [p \in Peer |-> SocketRoom]
  BY DEF State, Init, SharedFields
<1> HIDE DEF s
<1>2. SocketRoom \in Nat
  BY ServerAssumption
<1>3. Shape(s)
  <2>1. \A p \in Peer : WellKept(s.client[p])
    BY <1>1, NewClientKept
  <2>2. loop \in Loops
    BY FirstLoop
  <2> QED
    BY <1>1, <1>2, <2>1, <2>2 DEF Shape
<1>4. Gone(s) /\ Apart(s) /\ Heard(s)
  BY <1>1 DEF Gone, Apart, Heard
<1>5. Unused(s)
  BY <1>1, FirstLoop DEF Unused
<1>6. \A f : Flagged(s, f) = {}
  BY <1>1, NewClientKept DEF Flagged
<1>7. Books(s)
  BY <1>1, <1>3, <1>4, <1>5, <1>6, ListedEmpty DEF Books, Keeping, Core, Way
<1>8. /\ line \in Lines /\ wire \in [Peer -> Seq(0..255)]
      /\ sent \in [Peer -> Nat] /\ config \in Configurations
  <2>1. /\ sent = [p \in Peer |-> 0]
        /\ line = [p \in Peer |-> "off"] /\ wire = [p \in Peer |-> <<>>]
        /\ config \in Configurations
    BY DEF Init
  <2>2. <<>> \in Seq(0..255)
    OBVIOUS
  <2> QED
    BY <2>1, <2>2 DEF Lines
<1>9. backlog = <<>> /\ clients = {}
  BY DEF Init
<1>e. Elements(<<>>) = {}
  BY ListedEmpty DEF Listed
<1>10. pc = "before sleep" /\ DOMAIN fired = {}
  BY DEF Init
<1> QED
  BY <1>7, <1>8, <1>9, <1>e, <1>10, ListedEmpty DEF IInv, s

(* beforeSleep. *)
LEMMA BeforeSleepKeeps ==
  ASSUME EnoughDescriptors, IInv, BeforeSleep
  PROVE  IInv'
<1> DEFINE t == beforeSleep(State)
<1>1. /\ Keeping(t) /\ t.pending = <<>>
      /\ Flagged(t, "PENDING_WRITE") = {} /\ Way(t, {})
      /\ t.clients \subseteq State.clients /\ t.line \in Lines
      /\ \A q \in Peer : \/ t.line[q] = State.line[q]
                         \/ q \in State.clients /\ q \notin t.clients
  <2> DEFINE s == State
  <2>1. /\ Keeping(s) /\ Listed(s.pending, Flagged(s, "PENDING_WRITE"))
        /\ Way(s, Flagged(s, "PENDING_WRITE"))
    BY DEF IInv, Books
  <2>2. s.line \in Lines
    BY DEF IInv, State
  <2> HIDE DEF s
  <2>3. LET r == beforeSleep(s)
        IN /\ Keeping(r) /\ r.pending = <<>>
           /\ Flagged(r, "PENDING_WRITE") = {} /\ Way(r, {})
           /\ r.clients \subseteq s.clients /\ r.line \in Lines
           /\ \A q \in Peer : \/ r.line[q] = s.line[q]
                              \/ q \in s.clients /\ q \notin r.clients
    BY <2>1, <2>2, SleepsSoundly
  <2> QED
    BY <2>3 DEF s
<1> HIDE DEF t
<1>2. State.clients = clients /\ State.line = line /\ clients \subseteq Peer
  BY DEF State, IInv, Books, Keeping, Core, Shape
<1>3. Become(t) /\ pc = "before sleep" /\ pc' = "poll"
      /\ config' = config /\ fired' = fired /\ backlog' = backlog
      /\ wire' = wire /\ sent' = sent
  BY DEF BeforeSleep, t
<1>4. Books(t)
  BY <1>1, ListedEmpty DEF Books
<1>5. Books(State')
  BY <1>3, <1>4, Becomes
<1>6. clients' = t.clients /\ line' = t.line
  BY <1>3 DEF Become
<1>7. DOMAIN fired = {} /\ DOMAIN fired' = {}
  BY <1>3 DEF IInv
<1>8. Elements(backlog') = Elements(backlog) /\ Elements(backlog) \subseteq Peer
  <2>1. backlog \in Seq(Peer)
    BY DEF IInv, Listed
  <2>2. \A i \in DOMAIN backlog : backlog[i] \in Peer
    BY <2>1
  <2> QED
    BY <1>3, <2>2 DEF Elements
<1>9. \A p \in Elements(backlog) : p \notin clients' /\ line'[p] = "on"
  BY <1>1, <1>2, <1>6, <1>8 DEF IInv
<1>10. \A p \in clients' : line'[p] # "off"
  BY <1>1, <1>2, <1>6 DEF IInv
<1>11. /\ config' \in Configurations /\ wire' \in [Peer -> Seq(0..255)]
       /\ sent' \in [Peer -> Nat]
       /\ line' \in Lines /\ Listed(backlog', Elements(backlog'))
  BY <1>1, <1>3, <1>6 DEF IInv
<1> QED
  BY <1>3, <1>5, <1>7, <1>8, <1>9, <1>10, <1>11 DEF IInv

-----------------------------------------------------------------------------
(* The steps of the server *)

\* The variables that the books are about stay as they are.
BooksStay ==
  /\ loop' = loop /\ client' = client /\ fd' = fd /\ clients' = clients
  /\ write_handler' = write_handler
  /\ clients_pending_write' = clients_pending_write
  /\ clients_to_close' = clients_to_close /\ waiting' = waiting

(* The books are right after a step that leaves their variables alone. *)
LEMMA StayingKeeps ==
  ASSUME Books(State), BooksStay, room' = room
  PROVE  Books(State')
<1> DEFINE s == State
           u == State'
<1>1. /\ DOMAIN u = SharedFields /\ u.client = s.client /\ u.room = s.room
      /\ u.loop = s.loop /\ u.fd = s.fd /\ u.clients = s.clients
      /\ u.writer = s.writer /\ u.pending = s.pending
      /\ u.to_close = s.to_close /\ u.waiting = s.waiting
  BY DEF State, BooksStay, SharedFields
<1> HIDE DEF s, u
<1>2. Books(s)
  BY DEF s
<1>3. Books(u)
  BY <1>1, <1>2, BooksSame
<1> QED
  BY <1>3 DEF u

(* Nor is anything else of the server touched. *)
LEMMA OthersStay ==
  ASSUME IInv, BooksStay, room' = room, config' = config, line' = line,
         wire' = wire, sent' = sent, backlog' = backlog
  PROVE  /\ Books(State') /\ config' \in Configurations /\ line' \in Lines
         /\ wire' \in [Peer -> Seq(0..255)] /\ sent' \in [Peer -> Nat]
         /\ Listed(backlog', Elements(backlog'))
         /\ \A p \in Elements(backlog') : p \notin clients' /\ line'[p] = "on"
         /\ \A p \in clients' : line'[p] # "off"
<1>1. Books(State')
  BY StayingKeeps DEF IInv
<1>2. clients' = clients
  BY DEF BooksStay
<1>3. Elements(backlog') = Elements(backlog)
  BY DEF Elements
<1> QED
  BY <1>1, <1>2, <1>3 DEF IInv

(* What is watched is the server's own, or a client's. *)
LEMMA PollKeeps ==
  ASSUME IInv, Poll
  PROVE  IInv'
<1>1. /\ BooksStay /\ room' = room /\ config' = config /\ line' = line
      /\ wire' = wire /\ sent' = sent /\ backlog' = backlog /\ pc' = "dispatch"
      /\ DOMAIN fired' \subseteq loop.watched
  BY DEF Poll, BooksStay, network
<1>2. \A d \in loop.watched \ {LISTEN, CHILD} : \E p \in clients : fd[p] = d
  BY DEF IInv, Books, Keeping, Core, Unused, State, Ours, Shape, Loops
<1>3. \A d \in DOMAIN fired' \ {LISTEN, CHILD} : \E p \in clients' : fd'[p] = d
  BY <1>1, <1>2 DEF BooksStay
<1> QED
  BY <1>1, <1>3, OthersStay DEF IInv

(* A connection has come in: they will be accepted. *)
LEMMA HandleListenKeeps ==
  ASSUME IInv, HandleListen
  PROVE  IInv'
<1>1. /\ BooksStay /\ room' = room /\ config' = config /\ line' = line
      /\ wire' = wire /\ sent' = sent /\ backlog' = backlog /\ pc' = "accept"
      /\ DOMAIN fired' \subseteq DOMAIN fired
  BY DEF HandleListen, Handled, BooksStay, network
<1>2. \A d \in DOMAIN fired' \ {LISTEN, CHILD} : \E p \in clients' : fd'[p] = d
  BY <1>1 DEF BooksStay, IInv
<1> QED
  BY <1>1, <1>2, OthersStay DEF IInv

(* Enough are accepted. *)
LEMMA AcceptReturnsKeeps ==
  ASSUME IInv, AcceptReturns
  PROVE  IInv'
<1>1. /\ BooksStay /\ room' = room /\ config' = config /\ line' = line
      /\ wire' = wire /\ sent' = sent /\ backlog' = backlog /\ pc' = "dispatch" /\ fired' = fired
  BY DEF AcceptReturns, BooksStay, network
<1>2. \A d \in DOMAIN fired' \ {LISTEN, CHILD} : \E p \in clients' : fd'[p] = d
  BY <1>1 DEF BooksStay, IInv
<1> QED
  BY <1>1, <1>2, OthersStay DEF IInv

(* All events of the turn have been dealt with. *)
LEMMA NextTurnKeeps ==
  ASSUME IInv, NextTurn
  PROVE  IInv'
<1>1. /\ BooksStay /\ room' = room /\ config' = config /\ line' = line
      /\ wire' = wire /\ sent' = sent /\ backlog' = backlog /\ pc' = "before sleep"
      /\ fired' = fired /\ DOMAIN fired = {}
  BY DEF NextTurn, BooksStay, network
<1>2. \A d \in DOMAIN fired' \ {LISTEN, CHILD} : \E p \in clients' : fd'[p] = d
  BY <1>1 DEF BooksStay, IInv
<1>3. DOMAIN fired' = {}
  BY <1>1
<1> QED
  BY <1>1, <1>2, <1>3, OthersStay DEF IInv

(* A handler is called for a client that is there. *)
LEMMA HandleConnectionKeeps ==
  ASSUME EnoughDescriptors, IInv, NEW d \in Fd, HandleConnection(d)
  PROVE  IInv'
<1> DEFINE p == loop.data[d]
           t == connSocketEventHandler(State, p, fired[d])
<1>1. /\ d \in Ours /\ d \in DOMAIN fired /\ pc = "dispatch"
      /\ DOMAIN fired' \subseteq DOMAIN fired
      /\ config' = config /\ pc' = pc /\ backlog' = backlog /\ sent' = sent
  BY DEF HandleConnection, Handled, Ours
<1>2. p \in clients /\ p \in Peer /\ fd[p] = d
  <2>1. PICK q \in clients : fd[q] = d
    BY <1>1 DEF IInv, Ours
  <2>2. loop.data[d] = q /\ q \in Peer
    BY <2>1 DEF IInv, Books, Keeping, Core, Shape, Heard, State
  <2> QED
    BY <2>1, <2>2
<1>3. /\ Books(State) /\ DOMAIN State = SharedFields /\ State.clients = clients
      /\ State.line = line /\ State.fd = fd /\ wire[p] \in Seq(0..255)
      /\ wire \in [Peer -> Seq(0..255)]
  BY <1>2 DEF IInv, State, SharedFields
<1>4. CASE loop.mask[d] \cap fired[d] = {}
  <2>1. BooksStay /\ room' = room /\ line' = line /\ wire' = wire
    BY <1>4 DEF HandleConnection, BooksStay
  <2>2. \A e \in DOMAIN fired' \ {LISTEN, CHILD} : \E q \in clients' : fd'[q] = e
    BY <1>1, <2>1 DEF BooksStay, IInv
  <2> QED
    BY <1>1, <2>1, <2>2, OthersStay DEF IInv
<1>5. CASE ~ (loop.mask[d] \cap fired[d] = {})
  <2>1. /\ Become(t)
        /\ wire' = [wire EXCEPT ![p] =
             IF AE_READABLE \in fired[d]
               THEN SubSeq(@, Len(ReadSome(p, client[p])) + 1, Len(@))
               ELSE @]
    BY <1>5 DEF HandleConnection
  <2>2. Books(t) /\ t.clients = clients /\ t.line = line
    <3> DEFINE s == State
               m == fired[d]
    <3>1. Books(s) /\ p \in s.clients /\ s.clients = clients /\ s.line = line
      BY <1>2, <1>3
    <3> HIDE DEF s, p, m
    <3>2. LET r == connSocketEventHandler(s, p, m)
          IN Books(r) /\ r.clients = s.clients /\ r.line = s.line
      BY <1>2, <1>3, <3>1, BooksHandle
    <3> QED
      BY <3>1, <3>2 DEF s, p, m
  <2>3. t.fd = fd
    BY <1>3, HandleFds DEF SameFds
  <2> HIDE DEF t
  <2>4. Books(State')
    BY <2>1, <2>2, Becomes
  <2>5. clients' = clients /\ line' = line /\ fd' = fd
    BY <2>1, <2>2, <2>3 DEF Become
  <2>6. wire' \in [Peer -> Seq(0..255)]
    <3> DEFINE w == wire[p]
               n == Len(ReadSome(p, client[p]))
    <3>1. w \in Seq(0..255) /\ Len(w) \in Nat /\ n \in 0..Len(w)
      <4>1. WellKept(client[p])
        BY <1>2 DEF IInv, Books, Keeping, Core, Shape, State
      <4> QED
        BY <1>2, <1>3, <4>1, BytesRead
    <3> HIDE DEF w, n
    <3>2. SubSeq(w, n + 1, Len(w)) \in Seq(0..255)
      <4>1. \A i \in n + 1..Len(w) : w[i] \in 0..255
        <5>1. \A i \in n + 1..Len(w) : i \in 1..Len(w)
          BY <3>1
        <5> QED
          BY <3>1, <5>1, ElementOfSeq
      <4> QED
        BY <3>1, <4>1, SubSeqProperties
    <3>3. \/ wire' = [wire EXCEPT ![p] = SubSeq(w, n + 1, Len(w))]
          \/ wire' = [wire EXCEPT ![p] = w]
      BY <2>1 DEF w, n
    <3> QED
      BY <1>2, <1>3, <3>1, <3>2, <3>3, ZenonT(30)
  <2>7. \A e \in DOMAIN fired' \ {LISTEN, CHILD} : \E q \in clients' : fd'[q] = e
    BY <1>1, <2>5 DEF IInv
  <2>8. Elements(backlog') = Elements(backlog)
    BY <1>1 DEF Elements
  <2> QED
    BY <1>1, <2>4, <2>5, <2>6, <2>7, <2>8 DEF IInv
<1> QED
  BY <1>4, <1>5

-----------------------------------------------------------------------------
(* The steps that change connections, and the environment *)

(* The answer of the other program is given to the client that has waited longest. *)
LEMMA HandleAnswerKeeps ==
  ASSUME IInv, HandleAnswer
  PROVE  IInv'
<1>1. /\ config' = config /\ pc' = pc /\ pc = "dispatch" /\ backlog' = backlog
      /\ wire' = wire /\ sent' = sent /\ line' = line /\ room' = room /\ fd' = fd
      /\ clients' = clients /\ loop' = loop /\ write_handler' = write_handler
      /\ clients_to_close' = clients_to_close
      /\ DOMAIN fired' \subseteq DOMAIN fired
  BY DEF HandleAnswer, Handled
<1>2. \A d \in DOMAIN fired' \ {LISTEN, CHILD} : \E p \in clients' : fd'[p] = d
  BY <1>1 DEF IInv
<1>3. CASE waiting = <<>>
  <2>1. BooksStay
    BY <1>1, <1>3 DEF HandleAnswer, BooksStay
  <2> QED
    BY <1>1, <1>2, <2>1, OthersStay DEF IInv
<1>4. CASE waiting # <<>>
  <2> DEFINE s == State
             u == State'
             p == Head(s.waiting)
             c == AddReply(unblockClient(s.client[p]), Status("answer"))
             z == [s EXCEPT !.waiting = Tail(@)]
             v == WithClient(z, p, c)
  <2>1. /\ Books(s) /\ DOMAIN s = SharedFields /\ DOMAIN u = SharedFields
        /\ s.waiting = waiting /\ s.client = client /\ s.pending = clients_pending_write
    BY DEF IInv, State, SharedFields
  <2>2. client' = v.client /\ clients_pending_write' = v.pending /\ waiting' = v.waiting
    <3>1. /\ p = Head(waiting) /\ c = AddReply(unblockClient(client[p]), Status("answer"))
          /\ z = [State EXCEPT !.waiting = Tail(@)]
      BY <2>1
    <3> HIDE DEF v, p, c, z, s
    <3>2. v = WithClient(z, p, c)
      BY DEF v
    <3> QED
      BY <1>4, <3>1, <3>2, Zenon DEF HandleAnswer
  <2>3. /\ u.client = v.client /\ u.pending = v.pending /\ u.waiting = v.waiting
        /\ u.room = s.room /\ u.loop = s.loop /\ u.fd = s.fd
        /\ u.clients = s.clients /\ u.writer = s.writer /\ u.to_close = s.to_close
    <3> HIDE DEF v
    <3> QED
      BY <1>1, <2>2 DEF State
  <2> HIDE DEF s, u, v
  <2>4. /\ p \in s.clients /\ WellKept(c) /\ "BLOCKED" \notin c.flags
        /\ c.flags \subseteq s.client[p].flags \cup {"PENDING_WRITE"}
        /\ s.client[p].flags \ {"BLOCKED"} \subseteq c.flags
        /\ Owes(c) => Owes(s.client[p]) \/ "PENDING_WRITE" \in c.flags
    <3> DEFINE q == p
               b == c
    <3>1. q = Head(s.waiting) /\ b = AddReply(unblockClient(s.client[q]), Status("answer"))
      OBVIOUS
    <3> HIDE DEF q, b
    <3>2. /\ q \in s.clients /\ WellKept(b) /\ "BLOCKED" \notin b.flags
          /\ b.flags \subseteq s.client[q].flags \cup {"PENDING_WRITE"}
          /\ s.client[q].flags \ {"BLOCKED"} \subseteq b.flags
          /\ Owes(b) => Owes(s.client[q]) \/ "PENDING_WRITE" \in b.flags
      BY <1>4, <2>1, <3>1, BooksAnswer
    <3> QED
      BY <3>2 DEF q, b
  <2>5. /\ DOMAIN z = SharedFields /\ z.client = s.client /\ z.pending = s.pending
        /\ z.waiting = Tail(s.waiting) /\ DOMAIN s.client = Peer /\ p \in Peer
    BY <2>1, <2>4 DEF SharedFields, Books, Keeping, Core, Shape
  <2> HIDE DEF p, c, z
  <2>6. /\ v.client = [s.client EXCEPT ![p] = c]
        /\ v.pending = IF "PENDING_WRITE" \in c.flags \ s.client[p].flags
                         THEN <<p>> \o s.pending ELSE s.pending
        /\ v.waiting = Tail(s.waiting)
    <3>2. /\ v.client = [z.client EXCEPT ![p] = c]
          /\ v.pending = IF "PENDING_WRITE" \in c.flags /\ "PENDING_WRITE" \notin z.client[p].flags
                           THEN <<p>> \o z.pending ELSE z.pending
          /\ v.waiting = IF "BLOCKED" \in c.flags /\ "BLOCKED" \notin z.client[p].flags
                           THEN Append(z.waiting, p) ELSE z.waiting
      BY <2>5 DEF WithClient, SharedFields, v
    <3> QED
      BY <2>4, <2>5, <3>2
  <2>7. Books(u)
    <3>1. p = Head(s.waiting) /\ s.waiting # <<>>
      BY <1>4, <2>1 DEF p
    <3>2. /\ u.client = [s.client EXCEPT ![p] = c]
          /\ u.pending = IF "PENDING_WRITE" \in c.flags \ s.client[p].flags
                           THEN <<p>> \o s.pending ELSE s.pending
          /\ u.waiting = Tail(s.waiting) /\ u.room = s.room
          /\ u.loop = s.loop /\ u.fd = s.fd /\ u.clients = s.clients
          /\ u.writer = s.writer /\ u.to_close = s.to_close
      BY <2>3, <2>6
    <3>3. /\ Books(s) /\ DOMAIN u = SharedFields
          /\ WellKept(c) /\ "BLOCKED" \notin c.flags
          /\ c.flags \subseteq s.client[p].flags \cup {"PENDING_WRITE"}
          /\ s.client[p].flags \ {"BLOCKED"} \subseteq c.flags
          /\ (Owes(c) => Owes(s.client[p]) \/ "PENDING_WRITE" \in c.flags)
      BY <2>1, <2>4
    <3> QED
      BY <3>1, <3>2, <3>3, Unblocked
  <2>8. Elements(backlog') = Elements(backlog)
    BY <1>1 DEF Elements
  <2> QED
    BY <1>1, <1>2, <2>7, <2>8 DEF IInv, u
<1> QED
  BY <1>3, <1>4

(* A connection is accepted, or turned away. *)
LEMMA AcceptKeeps ==
  ASSUME EnoughDescriptors, IInv, Accept
  PROVE  IInv'
<1> DEFINE p == Head(backlog)
           t == acceptCommonHandler(State, p, NextFd)
<1>1. /\ Become(t) /\ backlog # <<>> /\ backlog' = Tail(backlog) /\ pc = "accept"
      /\ pc' = pc /\ config' = config /\ fired' = fired /\ wire' = wire
      /\ sent' = sent
  BY DEF Accept
<1>2. Listed(backlog, Elements(backlog))
  BY DEF IInv
<1>3. /\ p \in Elements(backlog)
      /\ Listed(Tail(backlog), Elements(backlog) \ {p})
  BY <1>1, <1>2, ListedTail
<1>4. Elements(backlog) \subseteq Peer
  BY <1>2 DEF Listed, Elements
<1>5. p \in Peer /\ p \notin clients /\ line[p] = "on" /\ line \in Lines
  BY <1>3, <1>4 DEF IInv
<1>6. /\ Books(t) /\ t.line \in Lines
      /\ \A q \in Peer \ {p} : t.line[q] = line[q]
      /\ \/ t.clients = clients
         \/ t.clients = clients \cup {p} /\ t.line = line
      /\ \A q \in clients : t.fd[q] = fd[q]
  <2> HIDE DEF p
  <2> QED
    BY <1>5, BooksAccept DEF IInv
<1> HIDE DEF t, p
<1>7. Books(State')
  BY <1>1, <1>6, Becomes
<1>8. line' = t.line /\ clients' = t.clients /\ fd' = t.fd
  BY <1>1 DEF Become
<1>9. Listed(backlog', Elements(backlog')) /\ Elements(backlog') = Elements(backlog) \ {p}
  BY <1>1, <1>3 DEF Listed
<1>10. \A q \in Elements(backlog') : q \notin clients' /\ line'[q] = "on"
  BY <1>4, <1>6, <1>8, <1>9 DEF IInv
<1>11. \A q \in clients' : line'[q] # "off"
  <2>1. \A q \in clients : q \in Peer /\ q # p
    BY <1>5 DEF IInv, Books, Keeping, Core, Shape, State
  <2> QED
    BY <1>5, <1>6, <1>8, <2>1 DEF IInv
<1>12. \A d \in DOMAIN fired' \ {LISTEN, CHILD} : \E q \in clients' : fd'[q] = d
  BY <1>1, <1>6, <1>8 DEF IInv
<1> QED
  BY <1>1, <1>6, <1>7, <1>8, <1>9, <1>10, <1>11, <1>12 DEF IInv

-----------------------------------------------------------------------------
(* What the others do. *)

(* A peer connects once. *)
LEMMA ConnectKeeps ==
  ASSUME IInv, NEW p \in Peer, Connect(p)
  PROVE  IInv'
<1>1. /\ BooksStay /\ room' = room /\ config' = config /\ wire' = wire
      /\ sent' = sent
      /\ pc' = pc /\ fired' = fired /\ line[p] = "off"
      /\ line' = [line EXCEPT ![p] = "on"] /\ backlog' = Append(backlog, p)
  BY DEF Connect, server, BooksStay
<1>2. Books(State')
  BY <1>1, StayingKeeps DEF IInv
<1>3. Listed(backlog, Elements(backlog)) /\ line \in Lines
  BY DEF IInv
<1>4. p \notin Elements(backlog) /\ p \notin clients
  BY <1>1 DEF IInv
<1>5. Listed(backlog', Elements(backlog) \cup {p})
  BY <1>1, <1>3, <1>4, ListedAppend
<1>6. Elements(backlog') = Elements(backlog) \cup {p}
  BY <1>5 DEF Listed
<1>7. Elements(backlog) \subseteq Peer
  BY <1>3 DEF Listed, Elements
<1>8. line' \in Lines /\ line'[p] = "on" /\ \A q \in Peer \ {p} : line'[q] = line[q]
  BY <1>1, <1>3 DEF Lines
<1>9. clients' = clients /\ clients \subseteq Peer /\ fd' = fd
  BY <1>1 DEF BooksStay, IInv, Books, Keeping, Core, Shape, State
<1>10. \A q \in Elements(backlog') : q \notin clients' /\ line'[q] = "on"
  BY <1>4, <1>6, <1>7, <1>8, <1>9 DEF IInv
<1>11. \A q \in clients' : line'[q] # "off"
  BY <1>8, <1>9 DEF IInv
<1> QED
  BY <1>1, <1>2, <1>5, <1>6, <1>8, <1>9, <1>10, <1>11 DEF IInv

(* The network delivers some of what a peer sends. *)
LEMMA SendKeeps ==
  ASSUME BytesAreSent, IInv, NEW p \in Peer, Send(p)
  PROVE  IInv'
<1> DEFINE b == Bytes(p)
           m == sent[p]
           w == wire[p]
<1>1. /\ BooksStay /\ room' = room /\ config' = config /\ line' = line
      /\ pc' = pc /\ fired' = fired /\ backlog' = backlog
  BY DEF Send, server, BooksStay
<1>2. b \in Seq(0..255) /\ m \in Nat /\ w \in Seq(0..255)
      /\ wire \in [Peer -> Seq(0..255)] /\ sent \in [Peer -> Nat]
  BY DEF IInv, BytesAreSent, Bytes, Script
<1>3. PICK n \in m + 1..Len(b) :
        /\ wire' = [wire EXCEPT ![p] = w \o SubSeq(b, m + 1, n)]
        /\ sent' = [sent EXCEPT ![p] = n]
  BY DEF Send
<1> HIDE DEF b, m, w
<1>4. SubSeq(b, m + 1, n) \in Seq(0..255)
  <2>1. Len(b) \in Nat /\ n \in Nat /\ m + 1 \in Nat
    BY <1>2
  <2>2. \A i \in m + 1..n : i \in 1..Len(b)
    BY <1>2, <2>1
  <2>3. \A i \in m + 1..n : b[i] \in 0..255
    BY <1>2, <2>2, ElementOfSeq
  <2> QED
    BY <1>2, <2>1, <2>3, SubSeqProperties
<1>5. w \o SubSeq(b, m + 1, n) \in Seq(0..255) /\ n \in Nat
  BY <1>2, <1>4
<1>6. wire' \in [Peer -> Seq(0..255)] /\ sent' \in [Peer -> Nat]
  BY <1>2, <1>3, <1>5
<1>7. Books(State')
  BY <1>1, StayingKeeps DEF IInv
<1>8. clients' = clients /\ fd' = fd /\ Elements(backlog') = Elements(backlog)
  BY <1>1 DEF BooksStay, Elements
<1> QED
  BY <1>1, <1>6, <1>7, <1>8 DEF IInv

(* A peer reads: there is room for replies again. *)
LEMMA ReceiveKeeps ==
  ASSUME IInv, NEW p \in Peer, Receive(p)
  PROVE  IInv'
<1>1. /\ BooksStay /\ config' = config /\ line' = line /\ wire' = wire
      /\ sent' = sent /\ pc' = pc /\ fired' = fired /\ backlog' = backlog
      /\ room' = [room EXCEPT ![p] = SocketRoom]
  BY DEF Receive, server, BooksStay
<1> DEFINE s == State
           u == State'
<1>2. /\ DOMAIN u = SharedFields /\ u.client = s.client /\ u.room = room'
      /\ u.loop = s.loop /\ u.fd = s.fd /\ u.clients = s.clients
      /\ u.writer = s.writer /\ u.pending = s.pending
      /\ u.to_close = s.to_close /\ u.waiting = s.waiting /\ s.room = room
  BY <1>1 DEF State, BooksStay, SharedFields
<1> HIDE DEF s, u
<1>3. Books(s)
  BY DEF IInv, s
<1>4. room' \in [Peer -> Nat]
  <2>1. SocketRoom \in Nat
    BY ServerAssumption
  <2>2. room \in [Peer -> Nat]
    BY <1>2, <1>3 DEF Books, Keeping, Core, Shape
  <2> QED
    BY <1>1, <2>1, <2>2
<1>5. Core(u)
  BY <1>2, <1>3, <1>4 DEF Books, Keeping, Core, Shape, Gone, Apart, Heard, Unused
<1>6. \A f : Flagged(u, f) = Flagged(s, f)
  BY <1>2 DEF Flagged
<1>7. Books(State')
  BY <1>2, <1>3, <1>5, <1>6 DEF Books, Keeping, Way, u
<1>8. clients' = clients /\ fd' = fd /\ Elements(backlog') = Elements(backlog)
  BY <1>1 DEF BooksStay, Elements
<1> QED
  BY <1>1, <1>7, <1>8 DEF IInv

(* A peer hangs up, and what it has sent may be lost. *)
LEMMA HangUpKeeps ==
  ASSUME IInv, NEW p \in Peer, HangUp(p)
  PROVE  IInv'
<1>1. /\ BooksStay /\ config' = config /\ line' = line /\ room' = room
      /\ sent' = sent /\ pc' = pc /\ fired' = fired /\ backlog' = backlog
      /\ wire' \in {wire, [wire EXCEPT ![p] = <<>>]}
  BY DEF HangUp, server, BooksStay
<1>2. Books(State')
  BY <1>1, StayingKeeps DEF IInv
<1>3. wire' \in [Peer -> Seq(0..255)]
  <2>1. wire \in [Peer -> Seq(0..255)]
    BY DEF IInv
  <2>2. <<>> \in Seq(0..255)
    OBVIOUS
  <2> QED
    BY <1>1, <2>1, <2>2
<1>4. clients' = clients /\ fd' = fd /\ Elements(backlog') = Elements(backlog)
  BY <1>1 DEF BooksStay, Elements
<1> QED
  BY <1>1, <1>2, <1>3, <1>4 DEF IInv

(* The other program answers, or nothing happens. *)
LEMMA AnswerKeeps ==
  ASSUME IInv, Answer \/ UNCHANGED vars
  PROVE  IInv'
<1>1. /\ BooksStay /\ room' = room /\ config' = config /\ line' = line
      /\ wire' = wire /\ sent' = sent /\ backlog' = backlog
      /\ pc' = pc /\ fired' = fired
  BY DEF Answer, vars, server, network, BooksStay
<1>2. clients' = clients /\ fd' = fd
  BY <1>1 DEF BooksStay
<1> QED
  BY <1>1, <1>2, OthersStay DEF IInv

-----------------------------------------------------------------------------
(* What follows *)

(* The invariant is kept by every step, of the server, of the peers and of the
   other program. *)
THEOREM ServerKeepsBooks ==
  ASSUME EnoughDescriptors, BytesAreSent
  PROVE  Spec => []IInv
<1>1. Init => IInv
  BY InitKeeps
<1>2. IInv /\ [Next]_vars => IInv'
  <2> SUFFICES ASSUME IInv, [Next]_vars
               PROVE  IInv'
    OBVIOUS
  <2>1. CASE BeforeSleep
    BY <2>1, BeforeSleepKeeps
  <2>2. CASE Poll
    BY <2>2, PollKeeps
  <2>3. CASE HandleAnswer
    BY <2>3, HandleAnswerKeeps
  <2>4. CASE HandleListen
    BY <2>4, HandleListenKeeps
  <2>5. CASE Accept
    BY <2>5, AcceptKeeps
  <2>6. CASE AcceptReturns
    BY <2>6, AcceptReturnsKeeps
  <2>7. CASE NextTurn
    BY <2>7, NextTurnKeeps
  <2>8. ASSUME NEW d \in Fd, HandleConnection(d)
        PROVE  IInv'
    BY <2>8, HandleConnectionKeeps
  <2>9. CASE Answer \/ UNCHANGED vars
    BY <2>9, AnswerKeeps
  <2>10. ASSUME NEW p \in Peer, Connect(p) \/ Send(p) \/ Receive(p) \/ HangUp(p)
         PROVE  IInv'
    BY <2>10, ConnectKeeps, SendKeeps, ReceiveKeeps, HangUpKeeps
  <2> QED
    BY <2>1, <2>2, <2>3, <2>4, <2>5, <2>6, <2>7, <2>8, <2>9, <2>10
       DEF Next, ServerStep, Environment
<1> QED
  BY <1>1, <1>2, PTL DEF Spec

(* No list and no event leads to a client that was freed, and no client is on a
   list twice (freeClient, freeClientsInAsyncFreeQueue, aeProcessEvents). *)
THEOREM NothingDangles ==
  ASSUME EnoughDescriptors, BytesAreSent
  PROVE  Spec => []NoDangling
<1>1. IInv => NoDangling
  <2> SUFFICES ASSUME IInv
               PROVE  NoDangling
    OBVIOUS
  <2> DEFINE s == State
  <2>1. /\ Core(s) /\ Listed(s.pending, Flagged(s, "PENDING_WRITE"))
        /\ Listed(s.to_close, Flagged(s, "CLOSE_ASAP"))
        /\ Listed(s.waiting, Flagged(s, "BLOCKED"))
    BY DEF IInv, Books, Keeping
  <2>2. /\ s.clients = clients /\ s.pending = clients_pending_write
        /\ s.to_close = clients_to_close /\ s.waiting = waiting
        /\ s.loop = loop /\ s.fd = fd
    BY DEF State
  <2> HIDE DEF s
  <2>3. ASSUME NEW f, NEW list, Listed(list, Flagged(s, f))
        PROVE  Elements(list) \subseteq clients /\ Cardinality(Elements(list)) = Len(list)
    BY <2>1, <2>2, <2>3, FlagsOfClients, ListedLength DEF Listed
  <2>4. \A list \in {clients_pending_write, clients_to_close, waiting} :
          Elements(list) \subseteq clients /\ Cardinality(Elements(list)) = Len(list)
    BY <2>1, <2>2, <2>3
  <2>5. ASSUME NEW d \in (loop.watched \cup DOMAIN fired) \ {LISTEN, CHILD}
        PROVE  loop.data[d] \in clients /\ fd[loop.data[d]] = d
    <3>1. d \in DOMAIN fired => \E p \in clients : fd[p] = d
      BY DEF IInv
    <3>2. d \in loop.watched => \E p \in clients : fd[p] = d
      BY <2>1, <2>2 DEF Core, Shape, Loops, Ours, Unused
    <3>3. \E p \in clients : fd[p] = d
      BY <3>1, <3>2
    <3> QED
      BY <2>1, <2>2, <3>3 DEF Core, Heard
  <2> QED
    BY <2>4, <2>5 DEF NoDangling
<1> QED
  BY <1>1, ServerKeepsBooks, PTL

(* Every client is listened to, and for what the table says (acceptTcpHandler,
   aeCreateFileEvent, connSetWriteHandler). *)
THEOREM AllAreHeard ==
  ASSUME EnoughDescriptors, BytesAreSent
  PROVE  Spec => []EveryoneIsHeard
<1>1. IInv => EveryoneIsHeard
  BY DEF IInv, Books, Keeping, Core, Heard, State, EveryoneIsHeard
<1> QED
  BY <1>1, ServerKeepsBooks, PTL

(* What a client is owed is on its way, and the lists are what the flags say
   (prepareClientToWrite, handleClientsWithPendingWrites, writeToClient). *)
THEOREM RepliesWillBeWritten ==
  ASSUME EnoughDescriptors, BytesAreSent
  PROVE  Spec => []RepliesAreOnTheirWay
<1>1. IInv => RepliesAreOnTheirWay
  <2> SUFFICES ASSUME IInv
               PROVE  RepliesAreOnTheirWay
    OBVIOUS
  <2> DEFINE s == State
  <2>1. /\ Core(s) /\ Listed(s.pending, Flagged(s, "PENDING_WRITE"))
        /\ Listed(s.to_close, Flagged(s, "CLOSE_ASAP"))
        /\ Listed(s.waiting, Flagged(s, "BLOCKED"))
        /\ Way(s, Flagged(s, "PENDING_WRITE"))
    BY DEF IInv, Books, Keeping
  <2>2. /\ s.clients = clients /\ s.pending = clients_pending_write
        /\ s.to_close = clients_to_close /\ s.waiting = waiting
        /\ s.loop = loop /\ s.fd = fd /\ s.client = client
        /\ s.writer = write_handler
    BY DEF State
  <2> HIDE DEF s
  <2>3. clients \subseteq Peer
    BY <2>1, <2>2 DEF Core, Shape
  <2>4. /\ Elements(clients_pending_write) = Flagged(s, "PENDING_WRITE")
        /\ Elements(clients_to_close) = Flagged(s, "CLOSE_ASAP")
        /\ Elements(waiting) = Flagged(s, "BLOCKED")
    BY <2>1, <2>2 DEF Listed
  <2>5. \A p \in clients :
          /\ "PENDING_WRITE" \in client[p].flags <=> p \in Elements(clients_pending_write)
          /\ "CLOSE_ASAP" \in client[p].flags <=> p \in Elements(clients_to_close)
          /\ "BLOCKED" \in client[p].flags <=> p \in Elements(waiting)
    BY <2>2, <2>3, <2>4 DEF Flagged
  <2>6. \A p \in clients : write_handler[p] => AE_WRITABLE \in loop.interest[fd[p]]
    BY <2>1, <2>2 DEF Core, Heard
  <2>7. \A p \in clients :
          clientHasPendingReplies(client[p]) =>
            \/ p \in Elements(clients_pending_write)
            \/ p \in Elements(clients_to_close)
            \/ write_handler[p] /\ AE_WRITABLE \in loop.interest[fd[p]]
    BY <2>1, <2>2, <2>4, <2>5, <2>6 DEF Way, Owes
  <2> QED
    BY <2>5, <2>7 DEF RepliesAreOnTheirWay
<1> QED
  BY <1>1, ServerKeepsBooks, PTL

(* Replies stay in their buffers, and the assertions of the code hold
   (addReplyProto, writeToClient, processMultibulkBuffer). *)
THEOREM BuffersStaySound ==
  ASSUME EnoughDescriptors, BytesAreSent
  PROVE  Spec => []BuffersAreSound
<1>1. IInv => BuffersAreSound
  <2> SUFFICES ASSUME IInv, NEW p \in Peer
               PROVE  LET c == client[p]
                      IN /\ Len(c.buf) <= PROTO_REPLY_CHUNK_BYTES
                         /\ \A i \in DOMAIN c.reply : Len(c.reply[i].data) <= c.reply[i].capacity
                         /\ c.reply = <<>> => c.reply_bytes = 0
                         /\ \/ c.multibulklen # 0 \/ c.argv = <<>>
                            \/ "CLOSE_AFTER_REPLY" \in c.flags
    BY DEF BuffersAreSound
  <2> DEFINE c == client[p]
  <2>1. WellKept(c)
    BY DEF IInv, Books, Keeping, Core, Shape, State
  <2> HIDE DEF c
  <2>2. PROTO_REPLY_CHUNK_BYTES \in Nat /\ REPLY_BLOCK_HEADER \in Nat
    BY BufferAssumption
  <2>3. \A i \in DOMAIN c.reply : Len(c.reply[i].data) <= c.reply[i].capacity
    <3> SUFFICES ASSUME NEW i \in DOMAIN c.reply
                 PROVE  Len(c.reply[i].data) <= c.reply[i].capacity
      OBVIOUS
    <3> DEFINE b == c.reply[i]
    <3>1. b \in Block
      BY <2>1 DEF WellKept, Kept
    <3> HIDE DEF b
    <3>2. /\ Len(b.data) <= PROTO_REPLY_CHUNK_BYTES - REPLY_BLOCK_HEADER
          /\ b.capacity = PROTO_REPLY_CHUNK_BYTES /\ Len(b.data) \in Nat
      BY <3>1 DEF Block, BlockSize
    <3> QED
      BY <2>2, <3>2 DEF b
  <2>4. c.reply = <<>> => c.reply_bytes = 0
    <3> SUFFICES ASSUME c.reply = <<>>
                 PROVE  c.reply_bytes = 0
      OBVIOUS
    <3>1. c.reply_bytes = 0 * BlockSize
      BY <2>1 DEF WellKept, Kept
    <3> QED
      BY <2>2, <3>1 DEF BlockSize
  <2>5. /\ Len(c.buf) <= PROTO_REPLY_CHUNK_BYTES
        /\ c.multibulklen # 0 \/ c.argv = <<>> \/ "CLOSE_AFTER_REPLY" \in c.flags
    BY <2>1 DEF WellKept, Kept
  <2> QED
    BY <2>3, <2>4, <2>5 DEF c
<1> QED
  BY <1>1, ServerKeepsBooks, PTL

=============================================================================
