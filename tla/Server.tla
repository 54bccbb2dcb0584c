------------------------------- MODULE Server -------------------------------
(***************************************************************************)
(* The command server that the board servers and zookeeper are built on:   *)
(* one thread with an event loop (ae.c, server.c), connections             *)
(* (connection.c), and clients (networking.c, blocked.c).                  *)
(*                                                                         *)
(* A turn of the loop is: before it sleeps, write what clients are owed    *)
(* and free those to be closed; poll; call the handlers of what fired, in  *)
(* any order.  The peers connect, send their requests in pieces, read the  *)
(* replies or not, and hang up.                                            *)
(***************************************************************************)
EXTENDS ClientBuffers, EventLoop

CONSTANTS
  Peer,                 \* programs that connect, each once
  Rude,                 \* those that may hang up at any time
  SocketRoom,           \* units of a reply that a socket holds
  MAX_ACCEPTS_PER_CALL,
  Configurations        \* what each peer sends, and how many clients may be

LISTEN == 0             \* the descriptor that is listened at
CHILD == 1              \* and one that another program answers at

ASSUME ServerAssumption ==
  /\ Rude \subseteq Peer /\ SocketRoom \in Nat \ {0}
  /\ MAX_ACCEPTS_PER_CALL \in Nat \ {0} /\ {LISTEN, CHILD} \subseteq Fd
  /\ NoData \notin Peer

VARIABLES
  config,               \* one of Configurations
  pc,                   \* where the event loop is
  fired,                \* what fired, and has not been handled yet
  loop,                 \* the table of events
  accepts,              \* connections accepted by this call
  clients,              \* server.clients, by peer
  client,               \* the client of a peer
  fd, conn,             \* its connection: the descriptor and the state
  write_handler,        \* and whether it is to be called when writable
  clients_pending_write, clients_to_close,
  waiting,              \* clients blocked until the other program answers
  answered,             \* it has
  backlog,              \* connections not accepted yet
  sent, wire,           \* what a peer has sent, and what of it is not read
  hangup,               \* "no", "eof" (it sends no more), "broken"
  room, got,            \* the room for replies, and those a peer has got
  line                  \* "off", "on", or "closed" by the server

server == <<pc, fired, loop, accepts, clients, client, fd, conn, write_handler,
            clients_pending_write, clients_to_close, waiting>>
network == <<answered, backlog, sent, wire, hangup, room, got, line>>
vars == <<config, server, network>>

\* The state that the handlers share, which they pass on as a record.
State == [loop |-> loop, client |-> client, fd |-> fd, conn |-> conn,
          clients |-> clients, writer |-> write_handler,
          pending |-> clients_pending_write, to_close |-> clients_to_close,
          waiting |-> waiting, room |-> room, got |-> got, line |-> line]

Become(s) ==
  /\ loop' = s.loop /\ client' = s.client /\ fd' = s.fd /\ conn' = s.conn
  /\ clients' = s.clients /\ write_handler' = s.writer
  /\ clients_pending_write' = s.pending /\ clients_to_close' = s.to_close
  /\ waiting' = s.waiting
  /\ room' = s.room /\ got' = s.got /\ line' = s.line

NoFd == -1

Init ==
  /\ config \in Configurations
  /\ pc = "before sleep" /\ fired = [d \in {} |-> {}]
  /\ loop = aeCreateFileEvent(
              aeCreateFileEvent(aeCreateEventLoop, LISTEN, {AE_READABLE}, NoData),
              CHILD, {AE_READABLE}, NoData)
  /\ accepts = 0 /\ clients = {}
  /\ client = [p \in Peer |-> NewClient]
  /\ fd = [p \in Peer |-> NoFd] /\ conn = [p \in Peer |-> "none"]
  /\ write_handler = [p \in Peer |-> FALSE]
  /\ clients_pending_write = <<>> /\ clients_to_close = <<>>
  /\ waiting = <<>> /\ answered = FALSE /\ backlog = <<>>
  /\ sent = [p \in Peer |-> 0] /\ wire = [p \in Peer |-> <<>>]
  /\ hangup = [p \in Peer |-> "no"]
  /\ room = [p \in Peer |-> SocketRoom] /\ got = [p \in Peer |-> <<>>]
  /\ line = [p \in Peer |-> "off"]

-----------------------------------------------------------------------------
(* Clients and their connections.                                          *)

\* A client was changed: it is put on the lists that its flags are for.
WithClient(s, p, c) ==
  LET news(f) == f \in c.flags /\ f \notin s.client[p].flags
  IN [s EXCEPT !.client[p] = c,
               !.pending = IF news("PENDING_WRITE") THEN <<p>> \o @ ELSE @,
               !.to_close = IF news("CLOSE_ASAP") THEN Append(@, p) ELSE @,
               !.waiting = IF news("BLOCKED") THEN Append(@, p) ELSE @]

freeClientAsync(s, p) == WithClient(s, p, Flag(s.client[p], "CLOSE_ASAP"))

connSetWriteHandler(s, p) ==
  IF s.writer[p] THEN s
  ELSE [s EXCEPT !.writer[p] = TRUE,
                 !.loop = aeCreateFileEvent(@, s.fd[p], {AE_WRITABLE}, p)]

connClearWriteHandler(s, p) ==
  IF ~s.writer[p] THEN s
  ELSE [s EXCEPT !.writer[p] = FALSE,
                 !.loop = aeDeleteFileEvent(@, s.fd[p], {AE_WRITABLE})]

\* Mutant: the event for writing is left in the table.
ForgetReadable(l, d) == aeDeleteFileEvent(l, d, {AE_READABLE})

\* connSocketClose
ForgetEvents(l, d) ==
  aeDeleteFileEvent(aeDeleteFileEvent(l, d, {AE_READABLE}), d, {AE_WRITABLE})

connClose(s, p) ==
  [s EXCEPT !.loop = Close(ForgetEvents(@, s.fd[p]), s.fd[p]),
            !.fd[p] = NoFd, !.conn[p] = "none", !.writer[p] = FALSE,
            !.line[p] = "closed"]

\* Mutant: bfree is not called, and the client stays in the other's queue.
FreeUnasked(s, p) ==
  [connClose(s, p) EXCEPT !.clients = @ \ {p}, !.client[p] = NewClient]

\* The record of a freed client is reset so that equal states are equal.
freeClient(s, p) ==
  LET unblocked == [s EXCEPT !.waiting = RemoveFirst(@, p)]
  IN [connClose(unblocked, p) EXCEPT
        !.clients = @ \ {p}, !.client[p] = NewClient]

freeClientsInAsyncFreeQueue(s) ==
  [FoldLeft(freeClient, s, s.to_close) EXCEPT !.to_close = <<>>]

-----------------------------------------------------------------------------
(* Writing.                                                                *)

Broken(p) == hangup[p] = "broken"

\* Mutant: nobody closes the connection after the last reply.
writeAndStay(s, p) ==
  LET x     == WriteAll(s.client[p], IF Broken(p) THEN 0 ELSE s.room[p])
      state == IF x.nwritten = -1 /\ Broken(p) THEN "error" ELSE s.conn[p]
      wrote == [s EXCEPT !.client[p] = x.client, !.conn[p] = state,
                         !.room[p] = IF Broken(p) THEN @ ELSE x.room,
                         !.got[p] = @ \o x.sent]
  IN CASE x.nwritten = -1 /\ state # "connected" -> freeClientAsync(wrote, p)
       [] x.nwritten = -1 /\ state = "connected" -> wrote
       [] OTHER ->
            connClearWriteHandler(wrote, p)

writeToClient(s, p) ==
  LET x     == WriteAll(s.client[p], IF Broken(p) THEN 0 ELSE s.room[p])
      state == IF x.nwritten = -1 /\ Broken(p) THEN "error" ELSE s.conn[p]
      wrote == [s EXCEPT !.client[p] = x.client, !.conn[p] = state,
                         !.room[p] = IF Broken(p) THEN @ ELSE x.room,
                         !.got[p] = @ \o x.sent]
  IN CASE x.nwritten = -1 /\ state # "connected" -> freeClientAsync(wrote, p)
       [] x.nwritten = -1 /\ state = "connected" -> wrote
       [] OTHER ->
            LET done == connClearWriteHandler(wrote, p)
            IN IF "CLOSE_AFTER_REPLY" \in x.client.flags
                 THEN freeClientAsync(done, p) ELSE done

\* Mutant: what the socket does not take is forgotten.
HandleOnce(s, p) ==
  LET c == Unflag(s.client[p], "PENDING_WRITE")
      unlisted == [s EXCEPT !.client[p] = c]
  IN IF "CLOSE_ASAP" \in c.flags THEN unlisted ELSE writeToClient(unlisted, p)

\* What is still owed after a write waits until the socket is writable; a
\* client for which that cannot be arranged is given up.
AwaitWritable(s, p) ==
  LET waits == connSetWriteHandler(s, p)
  IN IF \/ "CLOSE_ASAP" \in s.client[p].flags
        \/ ~clientHasPendingReplies(s.client[p]) THEN s
     ELSE IF waits.loop = s.loop /\ ~s.writer[p]
       THEN freeClientAsync(waits, p) ELSE waits

\* One client that is due; one that is to be closed is not written to.
HandlePendingWrite(s, p) ==
  LET c == Unflag(s.client[p], "PENDING_WRITE")
      unlisted == [s EXCEPT !.client[p] = c]
  IN IF "CLOSE_ASAP" \in c.flags THEN unlisted
     ELSE AwaitWritable(writeToClient(unlisted, p), p)

handleClientsWithPendingWrites(s) ==
  FoldLeft(HandlePendingWrite, [s EXCEPT !.pending = <<>>], s.pending)

\* No client is ever put on the list of the unblocked ones (blocked.c), so
\* blockedBeforeSleep has nothing to do.
beforeSleep(s) == freeClientsInAsyncFreeQueue(handleClientsWithPendingWrites(s))

-----------------------------------------------------------------------------
(* Reading.                                                                *)

\* What there is to read, in what a peer has sent.
Readable(p) == wire[p] # <<>> \/ hangup[p] # "no"

ReadSome(p, c) ==
  SubSeq(wire[p], 1, IF ReadLength(c) < Len(wire[p]) THEN ReadLength(c)
                     ELSE Len(wire[p]))

\* Mutant: an end of file is taken for nothing to read.
ReadPatiently(s, p) ==
  IF wire[p] = <<>> THEN s
  ELSE WithClient(s, p, processInputBuffer(
         [s.client[p] EXCEPT !.querybuf = @ \o ReadSome(p, s.client[p])]))

readQueryFromClient(s, p) ==
  LET read == [s.client[p] EXCEPT !.querybuf = @ \o ReadSome(p, s.client[p])]
  IN CASE wire[p] = <<>> /\ hangup[p] = "no" -> s
       [] wire[p] = <<>> /\ hangup[p] # "no" ->
            freeClientAsync([s EXCEPT !.conn[p] =
              IF hangup[p] = "eof" THEN "closed" ELSE "error"], p)
       [] OTHER ->
            IF Len(read.querybuf) > client_max_querybuf_len
              THEN freeClientAsync([s EXCEPT !.client[p] = read], p)
              ELSE WithClient(s, p, processInputBuffer(read))

-----------------------------------------------------------------------------
(* The event loop.                                                         *)

BeforeSleep ==
  /\ pc = "before sleep"
  /\ pc' = "poll"
  /\ Become(beforeSleep(State))
  /\ UNCHANGED <<config, fired, accepts, answered, backlog, sent, wire, hangup>>

\* The events of a descriptor that have happened.
Happened(d) ==
  IF d = LISTEN THEN Fires(loop, d, backlog # <<>>, FALSE, FALSE)
  ELSE IF d = CHILD THEN Fires(loop, d, answered, FALSE, FALSE)
  ELSE LET p == loop.data[d]
       IN IF p = NoData THEN {}
          ELSE Fires(loop, d, Readable(p), room[p] > 0, Broken(p))

\* aeApiPoll.  Time events change nothing that is modelled.
Poll ==
  /\ pc = "poll"
  /\ LET ready == {d \in loop.watched : Happened(d) # {}}
     IN /\ ready # {}
        /\ fired' = [d \in ready |-> Happened(d)]
  /\ pc' = "dispatch"
  /\ UNCHANGED <<config, loop, accepts, clients, client, fd, conn, write_handler,
                 clients_pending_write, clients_to_close, waiting, network>>

Handled(d) ==
  /\ pc = "dispatch" /\ d \in DOMAIN fired
  /\ fired' = [e \in DOMAIN fired \ {d} |-> fired[e]]

\* A connection's one handler is called for both events; it reads first.
connSocketEventHandler(s, p, mask) ==
  LET call_write == AE_WRITABLE \in mask /\ s.writer[p]
      read == IF AE_READABLE \in mask THEN readQueryFromClient(s, p) ELSE s
  IN IF call_write THEN writeToClient(read, p) ELSE read

HandleConnection(d) ==
  LET p == loop.data[d]
  IN /\ d \notin {LISTEN, CHILD}
     /\ Handled(d)
     /\ IF loop.mask[d] \cap fired[d] = {}
          THEN UNCHANGED <<loop, client, fd, conn, clients, write_handler,
                           clients_pending_write, clients_to_close, waiting,
                           room, got, line, wire>>
          ELSE /\ Become(connSocketEventHandler(State, p, fired[d]))
               /\ wire' = [wire EXCEPT ![p] =
                    IF AE_READABLE \in fired[d]
                      THEN SubSeq(@, Len(ReadSome(p, client[p])) + 1, Len(@))
                      ELSE @]
     /\ UNCHANGED <<config, pc, accepts, answered, backlog, sent, hangup>>

\* The answer for the client that has waited longest; as zookeeper does it.
HandleAnswer ==
  /\ Handled(CHILD)
  /\ answered' = FALSE
  /\ IF waiting = <<>> THEN UNCHANGED <<client, clients_pending_write, waiting>>
     ELSE LET p == Head(waiting)
              c == AddReply(unblockClient(client[p]), Status("answer"))
              s == WithClient([State EXCEPT !.waiting = Tail(@)], p, c)
          IN /\ client' = s.client
             /\ clients_pending_write' = s.pending
             /\ waiting' = s.waiting
  /\ UNCHANGED <<config, pc, loop, accepts, clients, fd, conn, write_handler,
                 clients_to_close, backlog, sent, wire, hangup, room, got, line>>

HandleListen ==
  /\ Handled(LISTEN)
  /\ pc' = "accept" /\ accepts' = 0
  /\ UNCHANGED <<config, loop, clients, client, fd, conn, write_handler,
                 clients_pending_write, clients_to_close, waiting, network>>

\* The lowest descriptor that is free, as the kernel gives them out.
NextFd == CHOOSE d \in Fd \ {LISTEN, CHILD} :
            /\ \A p \in Peer : fd[p] # d
            /\ \A e \in Fd \ {LISTEN, CHILD} :
                 e < d => \E p \in Peer : fd[p] = e

\* createClient: a failure to register the connection is not noticed.
createClient(s, p, d) ==
  [s EXCEPT !.fd[p] = d, !.conn[p] = "connected", !.client[p] = NewClient,
            !.clients = @ \cup {p},
            !.loop = aeCreateFileEvent(@, d, {AE_READABLE}, p)]

acceptCommonHandler(s, p, d) ==
  IF Cardinality(s.clients) >= config.maxclients
    THEN [s EXCEPT !.got[p] = <<U("max clients", 0)>>, !.line[p] = "closed"]
    ELSE createClient(s, p, d)

Accept ==
  /\ pc = "accept" /\ backlog # <<>> /\ accepts < MAX_ACCEPTS_PER_CALL
  /\ Become(acceptCommonHandler(State, Head(backlog), NextFd))
  /\ backlog' = Tail(backlog) /\ accepts' = accepts + 1
  /\ UNCHANGED <<config, pc, fired, answered, sent, wire, hangup>>

AcceptReturns ==
  /\ pc = "accept" /\ (backlog = <<>> \/ accepts = MAX_ACCEPTS_PER_CALL)
  /\ pc' = "dispatch"
  /\ UNCHANGED <<config, fired, loop, accepts, clients, client, fd, conn,
                 write_handler, clients_pending_write, clients_to_close, waiting,
                 network>>

\* aeMain
NextTurn ==
  /\ pc = "dispatch" /\ DOMAIN fired = {}
  /\ pc' = "before sleep"
  /\ UNCHANGED <<config, fired, loop, accepts, clients, client, fd, conn,
                 write_handler, clients_pending_write, clients_to_close, waiting,
                 network>>

ServerStep ==
  \/ BeforeSleep \/ Poll \/ HandleAnswer \/ HandleListen \/ Accept
  \/ AcceptReturns \/ NextTurn
  \/ \E d \in Fd : HandleConnection(d)

-----------------------------------------------------------------------------
(* The peers and the network.                                              *)

BytesOf(script) == FlattenSeq([i \in DOMAIN script |-> script[i].bytes])
Script(p) == config.script[p]
Bytes(p) == BytesOf(Script(p))

Connect(p) ==
  /\ line[p] = "off"
  /\ line' = [line EXCEPT ![p] = "on"] /\ backlog' = Append(backlog, p)
  /\ UNCHANGED <<config, server, answered, sent, wire, hangup, room, got>>

\* The network cuts what a peer sends anywhere.
Send(p) ==
  /\ line[p] = "on" /\ hangup[p] = "no"
  /\ \E n \in sent[p] + 1..Len(Bytes(p)) :
       /\ sent' = [sent EXCEPT ![p] = n]
       /\ wire' = [wire EXCEPT ![p] = @ \o SubSeq(Bytes(p), sent[p] + 1, n)]
  /\ UNCHANGED <<config, server, answered, backlog, hangup, room, got, line>>

Receive(p) ==
  /\ line[p] = "on" /\ ~Broken(p) /\ room[p] < SocketRoom
  /\ room' = [room EXCEPT ![p] = SocketRoom]
  /\ UNCHANGED <<config, server, answered, backlog, sent, wire, hangup, got, line>>

\* What has arrived of a broken connection may be lost.
HangUp(p) ==
  /\ p \in Rude /\ line[p] = "on" /\ ~Broken(p)
  /\ \/ hangup[p] = "no" /\ hangup' = [hangup EXCEPT ![p] = "eof"]
        /\ UNCHANGED wire
     \/ /\ hangup' = [hangup EXCEPT ![p] = "broken"]
        /\ wire' \in {wire, [wire EXCEPT ![p] = <<>>]}
  /\ UNCHANGED <<config, server, answered, backlog, sent, room, got, line>>

\* The other program answers when it is asked.
Answer ==
  /\ waiting # <<>> /\ ~answered
  /\ answered' = TRUE
  /\ UNCHANGED <<config, server, backlog, sent, wire, hangup, room, got, line>>

Environment ==
  Answer \/ \E p \in Peer : Connect(p) \/ Send(p) \/ Receive(p) \/ HangUp(p)

Next == ServerStep \/ Environment

Spec == Init /\ [][Next]_vars

\* The thread of the server runs: weak fairness of ServerStep, written out (its
\* steps are those that change `server', and only Poll ever has to wait).
ServerRuns ==
  \/ []<>(pc = "poll" /\ \A d \in loop.watched : Happened(d) = {})
  \/ []<><<TRUE>>_server

\* Besides, the other program answers, and the peers connect, send all they
\* have, and read; but nobody has to hang up.
FairSpec ==
  /\ Spec /\ ServerRuns /\ WF_vars(Answer)
  /\ \A p \in Peer : WF_vars(Connect(p)) /\ WF_vars(Send(p)) /\ WF_vars(Receive(p))

-----------------------------------------------------------------------------
(* Properties.                                                             *)

\* What the proofs need of an instance: the table of events and the kernel
\* have room for as many clients as there may be (the loop is created with
\* maxclients and CONFIG_FDSET_INCR), and the peers send bytes.
EnoughDescriptors ==
  /\ \A d \in Fd : d < setsize
  /\ \A c \in Configurations :
       c.maxclients \in Nat /\ c.maxclients + 2 <= Cardinality(Fd)
BytesAreSent ==
  \A c \in Configurations, p \in Peer : BytesOf(c.script[p]) \in Seq(0..255)

Flags == {"PENDING_WRITE", "CLOSE_ASAP", "CLOSE_AFTER_REPLY", "BLOCKED"}

\* Every variable has a value of its kind: the lists are of clients, the
\* counters of the parser are in range, and descriptors are descriptors.
TypeOK ==
  /\ config \in Configurations
  /\ pc \in {"before sleep", "poll", "dispatch", "accept"}
  /\ DOMAIN fired \subseteq Fd /\ \A d \in DOMAIN fired : fired[d] \in Mask
  /\ loop.mask \in [Fd -> Mask] /\ loop.interest \in [Fd -> Mask]
  /\ loop.data \in [Fd -> Peer \cup {NoData}] /\ loop.watched \subseteq Fd
  /\ accepts \in 0..MAX_ACCEPTS_PER_CALL /\ clients \subseteq Peer
  /\ \A p \in Peer :
       LET c == client[p]
       IN /\ c.flags \subseteq Flags /\ c.querybuf \in Seq(0..255)
          /\ c.qb_pos \in 0..Len(c.querybuf)
          /\ c.reqtype \in {"unknown", "inline", "multibulk"}
          /\ c.multibulklen \in 0..MaxMultibulk
          /\ c.bulklen \in -1..proto_max_bulk_len
          /\ c.reply_bytes \in Nat
          /\ c.sentlen \in 0..PROTO_REPLY_CHUNK_BYTES
  /\ fd \in [Peer -> Fd \cup {NoFd}]
  /\ conn \in [Peer -> {"none", "connected", "closed", "error"}]
  /\ write_handler \in [Peer -> BOOLEAN]
  /\ clients_pending_write \in Seq(Peer) /\ clients_to_close \in Seq(Peer)
  /\ waiting \in Seq(Peer) /\ answered \in BOOLEAN /\ backlog \in Seq(Peer)
  /\ hangup \in [Peer -> {"no", "eof", "broken"}]
  /\ room \in [Peer -> 0..SocketRoom] /\ line \in [Peer -> {"off", "on", "closed"}]

\* What a client is owed, in the order in which it will be written.
Owed(p) ==
  LET c == client[p]
      all == c.buf \o FlattenSeq([i \in DOMAIN c.reply |-> c.reply[i].data])
  IN SubSeq(all, c.sentlen + 1, Len(all))

\* The replies to what a peer sends, up to a request that ends the connection.
Replies(p) ==
  LET ends == {i \in DOMAIN Script(p) : Script(p)[i].ends}
      last == IF ends = {} THEN Len(Script(p))
              ELSE CHOOSE i \in ends : \A j \in ends : i <= j
  IN FlattenSeq([i \in 1..last |-> Script(p)[i].replies])

TurnedAway(p) == got[p] = <<U("max clients", 0)>>

\* However the network cuts the requests, and however the replies are spread
\* over the buffer, the list and the socket, what a client is sent is a
\* beginning of the replies to its requests: each command runs once, in order
\* and with its arguments, and nothing of a reply is lost, doubled or mixed
\* (processInputBuffer, addReplyProto, writeToClient).
RepliesInOrder ==
  \A p \in Peer : TurnedAway(p) \/ IsPrefix(got[p] \o Owed(p), Replies(p))

Elements(s) == {s[i] : i \in DOMAIN s}

\* A client that is owed something will be seen to: it is on the list of
\* those to be written to, or is called when its socket is writable, or is on
\* the list of those to be closed; and the lists are what the flags say
\* (prepareClientToWrite skips clients that already have replies).
RepliesAreOnTheirWay ==
  /\ \A p \in clients :
       clientHasPendingReplies(client[p]) =>
         \/ p \in Elements(clients_pending_write)
         \/ p \in Elements(clients_to_close)
         \/ write_handler[p] /\ AE_WRITABLE \in loop.interest[fd[p]]
  /\ \A p \in clients :
       /\ "PENDING_WRITE" \in client[p].flags <=> p \in Elements(clients_pending_write)
       /\ "CLOSE_ASAP" \in client[p].flags <=> p \in Elements(clients_to_close)
       /\ "BLOCKED" \in client[p].flags <=> p \in Elements(waiting)

\* No list, no event that is watched for and none that has fired leads to a
\* client that was freed, and no client is on a list twice (freeClient does
\* not look for it in clients_pending_write).
NoDangling ==
  /\ \A list \in {clients_pending_write, clients_to_close, waiting} :
       Elements(list) \subseteq clients /\ Cardinality(Elements(list)) = Len(list)
  /\ \A d \in (loop.watched \cup DOMAIN fired) \ {LISTEN, CHILD} :
       loop.data[d] \in clients /\ fd[loop.data[d]] = d

\* Every client that is not to be closed is listened to, and for what the
\* table says: a descriptor that was in use before it came is no obstacle.
EveryoneIsHeard ==
  \A p \in clients :
    /\ AE_READABLE \in loop.interest[fd[p]]
    /\ loop.interest[fd[p]] = loop.mask[fd[p]] /\ loop.data[fd[p]] = p
    /\ write_handler[p] <=> AE_WRITABLE \in loop.mask[fd[p]]

\* Replies stay inside their buffers, and the assertions of the code hold:
\* no bytes are counted when the list is empty (writeToClient), and a command
\* starts without arguments (processMultibulkBuffer).
BuffersAreSound ==
  \A p \in Peer :
    LET c == client[p]
    IN /\ Len(c.buf) <= PROTO_REPLY_CHUNK_BYTES
       /\ \A i \in DOMAIN c.reply : Len(c.reply[i].data) <= c.reply[i].capacity
       /\ c.reply = <<>> => c.reply_bytes = 0
       /\ \/ c.multibulklen # 0 \/ c.argv = <<>>
          \/ "CLOSE_AFTER_REPLY" \in c.flags

\* A peer that keeps its connection and reads is sent every reply, and its
\* connection is closed if its requests ask for it, or contain an error.
EveryoneIsAnswered ==
  \A p \in Peer \ Rude :
    <>(\/ TurnedAway(p)
       \/ /\ got[p] = Replies(p)
          /\ (\E i \in DOMAIN Script(p) : Script(p)[i].ends) => line[p] = "closed")

\* A client that has hung up is freed, whatever it was in the middle of.
TheGoneAreFreed ==
  \A p \in Rude : hangup[p] # "no" ~> p \notin clients

\* A blocked client's requests wait until it is unblocked.
BlockedClientsWait ==
  [][\A p \in Peer :
       "BLOCKED" \in client[p].flags /\ "BLOCKED" \in client'[p].flags
         => got'[p] \o Owed(p)' = got[p] \o Owed(p)]_vars

=============================================================================
