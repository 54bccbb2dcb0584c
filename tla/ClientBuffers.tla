--------------------------- MODULE ClientBuffers ---------------------------
(***************************************************************************)
(* What the command servers keep for a client (networking.c): the bytes    *)
(* read and not yet parsed, the command being parsed, and the replies not  *)
(* yet written.  Everything here is an operator from a client to a client; *)
(* module Server is the event loop that calls them.                        *)
(*                                                                         *)
(* Requests are real bytes.  A reply is a sequence of pieces (the calls of *)
(* addReplyProto), and a piece a sequence of units: a unit stands for some *)
(* bytes of fixed wording.  The sizes of the buffers are in units.         *)
(***************************************************************************)
EXTENDS Text

CONSTANTS
  PROTO_REPLY_CHUNK_BYTES,  \* size of client.buf and of a block of replies
  REPLY_BLOCK_HEADER,       \* sizeof(clientReplyBlock)
  PROTO_IOBUF_LEN,          \* most bytes of one read
  PROTO_INLINE_MAX_SIZE,    \* most bytes of a line
  PROTO_MBULK_BIG_ARG,      \* an argument as long as this is not copied
  MaxMultibulk,             \* most arguments of a command (1024 * 1024)
  proto_max_bulk_len,       \* longest argument
  client_max_querybuf_len,  \* most bytes not yet parsed
  Commands                  \* name |-> nargs, nresp, resp, whether it blocks

ASSUME BufferAssumption ==
  /\ PROTO_REPLY_CHUNK_BYTES \in Nat /\ REPLY_BLOCK_HEADER \in Nat
  /\ 2 <= PROTO_REPLY_CHUNK_BYTES - REPLY_BLOCK_HEADER  \* the longest piece
  /\ {PROTO_IOBUF_LEN, PROTO_INLINE_MAX_SIZE, PROTO_MBULK_BIG_ARG, MaxMultibulk,
      proto_max_bulk_len, client_max_querybuf_len} \subseteq Nat \ {0}
  /\ \A name \in DOMAIN Commands :
       /\ Commands[name].nargs \in Int /\ Commands[name].nresp \in Nat
       /\ Commands[name].resp \in Nat /\ Commands[name].blocks \in BOOLEAN

STAR == 42
DOLLAR == 36

\* createClient
NewClient ==
  [flags |-> {}, querybuf |-> <<>>, qb_pos |-> 0, reqtype |-> "unknown",
   multibulklen |-> 0, bulklen |-> -1, argv |-> <<>>,
   buf |-> <<>>, reply |-> <<>>, reply_bytes |-> 0, sentlen |-> 0]

Flag(c, f) == [c EXCEPT !.flags = @ \cup {f}]
Unflag(c, f) == [c EXCEPT !.flags = @ \ {f}]

-----------------------------------------------------------------------------
(* Replies, on their way to the client.                                    *)

clientHasPendingReplies(c) == c.buf # <<>> \/ c.reply # <<>>

\* The client is due for handleClientsWithPendingWrites.
clientInstallWriteHandler(c) == Flag(c, "PENDING_WRITE")

prepareClientToWrite(c) ==
  IF clientHasPendingReplies(c) THEN c ELSE clientInstallWriteHandler(c)

\* Mutants: the static buffer is used although replies are listed behind it, or
\* although it is full.
FitsBufferAnyway(c, s) == Len(s) <= PROTO_REPLY_CHUNK_BYTES - Len(c.buf)
FitsBufferFull(c, s) == c.reply = <<>> /\ Len(c.buf) < PROTO_REPLY_CHUNK_BYTES

FitsBuffer(c, s) ==
  c.reply = <<>> /\ Len(s) <= PROTO_REPLY_CHUNK_BYTES - Len(c.buf)

\* A block takes over the allocation's `internal fragmentation': its size is
\* less than its capacity, and more may be used of it than its size.
NewBlock(s) ==
  LET size == IF Len(s) < PROTO_REPLY_CHUNK_BYTES
                THEN PROTO_REPLY_CHUNK_BYTES ELSE Len(s)
  IN [size |-> size - REPLY_BLOCK_HEADER, capacity |-> size, data |-> s]

_addReplyProtoToList(c, s) ==
  LET last  == Len(c.reply)
      avail == c.reply[last].size - Len(c.reply[last].data)
      copy  == IF last = 0 THEN 0
               ELSE IF avail >= Len(s) \/ avail < 0 THEN Len(s) ELSE avail
      filled == IF copy = 0 THEN c.reply
                ELSE [c.reply EXCEPT ![last].data = @ \o SubSeq(s, 1, copy)]
      rest  == SubSeq(s, copy + 1, Len(s))
  IN IF rest = <<>> THEN [c EXCEPT !.reply = filled]
     ELSE [c EXCEPT !.reply = Append(filled, NewBlock(rest)),
                    !.reply_bytes = @ + NewBlock(rest).size]

addReplyProto(c, s) ==
  LET p == prepareClientToWrite(c)
  IN CASE "CLOSE_AFTER_REPLY" \in p.flags -> p
       [] "CLOSE_AFTER_REPLY" \notin p.flags /\ FitsBuffer(p, s) ->
            [p EXCEPT !.buf = @ \o s]
       [] OTHER -> _addReplyProtoToList(p, s)

AddReply(c, pieces) == FoldLeft(addReplyProto, c, pieces)

U(what, n) == <<what, n>>
CRLF == U("crlf", 0)

\* addReplyError, addReplyStatus, addReplyLongLongWithPrefix.
Error(what) == << <<U("-ERR", 0)>>, <<U(what, 0)>>, <<CRLF>> >>
Status(what) == << <<U("+", 0)>>, <<U(what, 0)>>, <<CRLF>> >>
LongLong(prefix, n) == << <<U(prefix, n), CRLF>> >>

\* One connWrite of what is first in line, into a socket with room for x.room
\* units or that is broken; x.nwritten is -1 when nothing could be written.
WriteOnce(x) ==
  LET c      == x.client
      first  == IF c.buf # <<>> THEN c.buf ELSE Head(c.reply).data
      unsent == SubSeq(first, c.sentlen + 1, Len(first))
      n      == IF Len(unsent) < x.room THEN Len(unsent) ELSE x.room
      whole  == c.sentlen + n = Len(first)
      after  == CASE ~whole -> [c EXCEPT !.sentlen = @ + n]
                  [] whole /\ c.buf # <<>> ->
                       [c EXCEPT !.buf = <<>>, !.sentlen = 0]
                  [] OTHER ->
                       [c EXCEPT !.reply = Tail(@), !.sentlen = 0,
                                 !.reply_bytes = @ - Head(c.reply).size]
  IN IF x.nwritten = -1 \/ ~clientHasPendingReplies(c) THEN x
     ELSE IF n = 0 THEN [x EXCEPT !.nwritten = -1]
     ELSE [x EXCEPT !.nwritten = n, !.room = @ - n,
                    !.sent = @ \o SubSeq(unsent, 1, n), !.client = after]

WriteAll(c, room) ==
  FoldLeft(LAMBDA x, i : WriteOnce(x),
           [client |-> c, room |-> room, sent |-> <<>>, nwritten |-> 0],
           [i \in 1..Len(c.reply) + 2 |-> i])

-----------------------------------------------------------------------------
(* Requests, as they are parsed.                                           *)

Rest(c) == SubSeq(c.querybuf, c.qb_pos + 1, Len(c.querybuf))
Skip(c, n) == [c EXCEPT !.qb_pos = @ + n]

\* strchr(s, b): the position of b, before a NUL, or 0.
Strchr(s, b) ==
  LET here == {i \in 1..Len(s) : /\ s[i] = b
                                 /\ \A j \in 1..i - 1 : s[j] \notin {b, NUL}}
  IN IF here = {} THEN 0 ELSE CHOOSE i \in here : TRUE

\* A client, and whether its command is ready, not yet, or (the two loops'
\* own) in the making.
Ready(c) == [client |-> c, is |-> "ready"]
NotYet(c) == [client |-> c, is |-> "not yet"]
More(c) == [client |-> c, is |-> "more"]

setProtocolError(c) == Flag(c, "CLOSE_AFTER_REPLY")
Refuse(c, why) == NotYet(setProtocolError(AddReply(c, Error(why))))

\* Without a whole line there is nothing to do, unless the line is too long.
NoLine(c) ==
  IF Len(Rest(c)) > PROTO_INLINE_MAX_SIZE THEN Refuse(c, "too big") ELSE NotYet(c)

WithoutEmpty(args) == SelectSeq(args, LAMBDA a : a # <<>>)

processInlineBuffer(c) ==
  LET rest    == Rest(c)
      newline == Strchr(rest, LF)
      length  == IF newline > 1 /\ rest[newline - 1] = CR
                   THEN newline - 2 ELSE newline - 1
      args    == sdssplitargs(SubSeq(rest, 1, length))
  IN CASE newline = 0 -> NoLine(c)
       [] newline # 0 /\ args = <<>> -> Refuse(c, "unbalanced quotes")
       [] OTHER ->
            Ready([Skip(c, newline) EXCEPT !.argv = WithoutEmpty(args[1])])

\* The line "*<n>".
MultibulkLength(c) ==
  LET rest    == Rest(c)
      newline == Strchr(rest, CR)
      ll      == string2ll(SubSeq(rest, 2, newline - 1))
  IN CASE newline = 0 -> NoLine(c)
       [] newline # 0 /\ newline = Len(rest) -> NotYet(c)
       [] newline \in 1..Len(rest) - 1 /\ (ll = <<>> \/ ll[1] > MaxMultibulk) ->
            Refuse(c, "invalid multibulk length")
       [] OTHER ->
            IF ll[1] <= 0 THEN Ready(Skip(c, newline + 1))
            ELSE More([Skip(c, newline + 1) EXCEPT !.multibulklen = ll[1]])

\* To read a large argument it is moved to the start of the query buffer.
Trimmed(c) == [c EXCEPT !.querybuf = Rest(c), !.qb_pos = 0]
MakeRoom(c, ll) ==
  IF ll >= PROTO_MBULK_BIG_ARG /\ Len(Rest(c)) <= ll + 2 THEN Trimmed(c) ELSE c

\* The line "$<n>".
BulkLength(c) ==
  LET rest    == Rest(c)
      newline == Strchr(rest, CR)
      ll      == string2ll(SubSeq(rest, 2, newline - 1))
  IN CASE newline = 0 -> NoLine(c)
       [] newline # 0 /\ newline = Len(rest) -> NotYet(c)
       [] newline \in 1..Len(rest) - 1 /\ rest[1] # DOLLAR ->
            Refuse(c, "expected '$'")
       [] newline \in 1..Len(rest) - 1 /\ rest[1] = DOLLAR
            /\ (ll = <<>> \/ ll[1] < 0 \/ ll[1] > proto_max_bulk_len) ->
            Refuse(c, "invalid bulk length")
       [] OTHER ->
            More([MakeRoom(Skip(c, newline + 1), ll[1]) EXCEPT !.bulklen = ll[1]])

\* The argument itself.  A large one that is all there is in the query buffer
\* is taken with the line end after it.
BulkArgument(c) ==
  LET whole == /\ c.qb_pos = 0 /\ c.bulklen >= PROTO_MBULK_BIG_ARG
               /\ Len(c.querybuf) = c.bulklen + 2
      next  == [c EXCEPT !.bulklen = -1, !.multibulklen = @ - 1]
  IN IF Len(Rest(c)) < c.bulklen + 2 THEN NotYet(c)
     ELSE IF whole
       THEN More([next EXCEPT !.argv = Append(@, c.querybuf), !.querybuf = <<>>])
       ELSE More([Skip(next, c.bulklen + 2) EXCEPT
                    !.argv = Append(@, SubSeq(Rest(c), 1, c.bulklen))])

\* One round of the loop over the arguments.
NextArgument(x) ==
  LET c      == x.client
      length == IF c.bulklen = -1 THEN BulkLength(c) ELSE x
  IN CASE x.is # "more" -> x
       [] x.is = "more" /\ c.multibulklen = 0 -> Ready(c)
       [] OTHER -> IF length.is = "more" THEN BulkArgument(length.client)
                   ELSE length

processMultibulkBuffer(c) ==
  FoldLeft(LAMBDA x, i : NextArgument(x),
           IF c.multibulklen = 0 THEN MultibulkLength(c) ELSE More(c),
           [i \in 1..MaxMultibulk + 1 |-> i])

-----------------------------------------------------------------------------
(* Commands.                                                               *)

ToLower(s) == [i \in 1..Len(s) |-> IF s[i] \in 65..90 THEN s[i] + 32 ELSE s[i]]

QUIT == <<113, 117, 105, 116>>

\* NULL, which no command is named, or the name in the table.
lookupCommand(name) ==
  IF ToLower(name) \in DOMAIN Commands THEN ToLower(name) ELSE <<>>

WrongArity(command, argc) ==
  \/ command.nargs > 0 /\ command.nargs # argc
  \/ argc < -command.nargs

\* What the routine of a command returns is turned into the reply.
LegacyReply(command) ==
  CASE command.nresp = 0 -> Status("OK")
    [] command.nresp = 1 -> LongLong(":", command.resp)
    [] OTHER -> IF command.resp # 0 THEN Error("error performing")
                ELSE LongLong("*", command.nresp)
                       \o [i \in 1..command.nresp |-> LongLong(":", 0)[1]]

blockClient(c) == Flag(c, "BLOCKED")
unblockClient(c) == Unflag(c, "BLOCKED")

call(c, command) ==
  IF command.blocks THEN blockClient(c) ELSE AddReply(c, LegacyReply(command))

resetClient(c) ==
  [c EXCEPT !.argv = <<>>, !.reqtype = "unknown", !.multibulklen = 0,
            !.bulklen = -1]

\* "+OK" without an end of line; the client is not reset.
Quit(c) == Flag(addReplyProto(c, <<U("+", 0), U("OK", 0)>>), "CLOSE_AFTER_REPLY")

processCommandAndResetClient(c) ==
  LET name == lookupCommand(c.argv[1])
  IN CASE ToLower(c.argv[1]) = QUIT -> Quit(c)
       [] ToLower(c.argv[1]) # QUIT /\ name = <<>> ->
            resetClient(AddReply(c, Error("unknown command")))
       [] /\ ToLower(c.argv[1]) # QUIT /\ name # <<>>
          /\ WrongArity(Commands[name], Len(c.argv)) ->
            resetClient(AddReply(c, Error("wrong number of arguments")))
       [] OTHER -> resetClient(call(c, Commands[name]))

\* A command that is whole is run; one without arguments is skipped.
Proceed(parsed) ==
  IF parsed.is # "ready" THEN NotYet(parsed.client)
  ELSE IF parsed.client.argv = <<>> THEN More(resetClient(parsed.client))
  ELSE More(processCommandAndResetClient(parsed.client))

\* One round of the loop over what has been read; a client that waits for the
\* answer of another program is not left alone.
NextCommand(x) ==
  LET c     == x.client
      type  == IF c.reqtype # "unknown" THEN c.reqtype
               ELSE IF Head(Rest(c)) = STAR THEN "multibulk" ELSE "inline"
      typed == [c EXCEPT !.reqtype = type]
  IN CASE \/ x.is # "more" \/ c.qb_pos >= Len(c.querybuf)
          \/ c.flags \cap {"CLOSE_AFTER_REPLY", "CLOSE_ASAP"} # {} -> NotYet(c)
       [] OTHER -> Proceed(IF type = "inline" THEN processInlineBuffer(typed)
                           ELSE processMultibulkBuffer(typed))

processInputBuffer(c) ==
  LET rounds == [i \in 1..Len(c.querybuf) |-> i]
      done   == FoldLeft(LAMBDA x, i : NextCommand(x), More(c), rounds)
  IN Trimmed(done.client)

\* Not more than is missing of a large argument is read at once.
ReadLength(c) ==
  LET remaining == c.bulklen + 2 - Len(c.querybuf)
  IN IF /\ c.reqtype = "multibulk" /\ c.multibulklen # 0
        /\ c.bulklen >= PROTO_MBULK_BIG_ARG
        /\ remaining \in 1..PROTO_IOBUF_LEN - 1
       THEN remaining ELSE PROTO_IOBUF_LEN

=============================================================================
