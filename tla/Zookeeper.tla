------------------------------ MODULE Zookeeper ------------------------------
(***************************************************************************)
(* zookeeper.c: a command server that starts data builders, each a process *)
(* of its own, and passes commands to them over a pair of pipes.  Clients  *)
(* wait, blocked, for the answers.                                         *)
(*                                                                         *)
(* Module Server has the server in detail: here a request is read and a    *)
(* reply is sent whole, and a client sends no command before it has the    *)
(* reply to the last one.  What is kept is who is waiting for what: the    *)
(* queues of commands lead to the structures of clients, and the memory of *)
(* one that was freed is given to the next.                                *)
(*                                                                         *)
(* A builder is forked from the middle of a turn of the event loop, and    *)
(* the copy goes through the rest of that turn's events before it becomes  *)
(* a builder; the descriptors it reads them from are shared.               *)
(***************************************************************************)
EXTENDS Integers, Sequences

CONSTANTS
  Device,               \* boards that there may be a builder for
  Peer,                 \* programs that connect, each once
  Nobody,               \* not one of them
  Addr,                 \* memory for the structures of clients
  MaxDeaths,            \* how many builders die by themselves
  Configurations        \* [script, rude, after, running, interrupt]

MAX_NUM_BUILDERS == 32
NULL == 0

PassedOn == {"reset", "display", "numbuilt", "reeling"}
Commands == PassedOn \cup {"start", "stop", "pid", "active"}

\* A device is a number, whatever the argument was (strtoul).
Command == [name : Commands,
            device : Device \cup {d \in Nat : d >= MAX_NUM_BUILDERS}]

ASSUME ZookeeperAssumption ==
  /\ Device \subseteq 0..MAX_NUM_BUILDERS - 1 /\ Addr \subseteq Nat \ {NULL}
  /\ Device \cap Peer = {} /\ Nobody \notin Peer /\ MaxDeaths \in Nat
  /\ \A c \in Configurations :
       /\ \A p \in Peer : c.script[p] \in Seq(Command)
       /\ c.running \subseteq Device

VARIABLES
  config,
  pc,                   \* "loop", "free", "dispatch", "waits", "exited", "crashed"
  fired,                \* events of this turn that are still to be handled
  stop,                 \* server.el->stop
  waits,                \* what the server waits in: [device, peer]
  child_pid, cmd_list,  \* of pipes[], by device
  address,              \* where the client of a peer is, if it has one
  blocked, to_close,    \* clients (addresses) with these flags
  p2c_pipe, c2p_pipe,   \* what is in the pipes
  builder,              \* the process of a device
  forks, deaths,        \* how many there have been
  asked, wire, got,     \* what a peer has sent, what of it is not read; replies
  line                  \* "off", "on", "gone" (hung up), "closed"

clients == <<address, blocked, to_close>>
pipes == <<child_pid, cmd_list, p2c_pipe, c2p_pipe>>
peers == <<asked, wire, line>>
vars == <<config, pc, fired, stop, waits, clients, pipes, builder, forks, deaths,
          peers, got>>

\* What the handlers change.
State == [pc |-> pc, waits |-> waits, child_pid |-> child_pid,
          cmd_list |-> cmd_list, address |-> address, blocked |-> blocked,
          p2c |-> p2c_pipe, c2p |-> c2p_pipe, builder |-> builder, got |-> got,
          forks |-> forks]

Become(s) ==
  /\ pc' = s.pc /\ waits' = s.waits /\ child_pid' = s.child_pid
  /\ cmd_list' = s.cmd_list /\ address' = s.address /\ blocked' = s.blocked
  /\ p2c_pipe' = s.p2c /\ c2p_pipe' = s.c2p /\ builder' = s.builder
  /\ got' = s.got /\ forks' = s.forks

NoWait == [device |-> -1, peer |-> Nobody]
NoBuilder == [phase |-> "none", pid |-> 0, term |-> FALSE, fired |-> {},
              child_pid |-> [d \in Device |-> 0],
              cmd_list |-> [d \in Device |-> <<>>]]
Alive(b) == b.phase \notin {"none", "dead"}

\* Builders that were started earlier run already.
Init ==
  /\ config \in Configurations
  /\ pc = "loop" /\ fired = {} /\ stop = FALSE /\ waits = NoWait
  /\ child_pid = [d \in Device |-> IF d \in config.running THEN d + 1 ELSE 0]
  /\ cmd_list = [d \in Device |-> <<>>]
  /\ address = [p \in Peer |-> NULL] /\ blocked = {} /\ to_close = {}
  /\ p2c_pipe = [d \in Device |-> <<>>] /\ c2p_pipe = [d \in Device |-> <<>>]
  /\ builder = [d \in Device |->
       IF d \in config.running
         THEN [NoBuilder EXCEPT !.phase = "built", !.pid = d + 1] ELSE NoBuilder]
  /\ forks = MAX_NUM_BUILDERS /\ deaths = 0
  /\ asked = [p \in Peer |-> 0] /\ wire = [p \in Peer |-> <<>>]
  /\ got = [p \in Peer |-> <<>>] /\ line = [p \in Peer |-> "off"]

-----------------------------------------------------------------------------
(* Replies.  Each is marked with the request that it answers: [peer, n].   *)

Owner(s, a) == {p \in Peer : a # NULL /\ s.address[p] = a}

ReplyTo(s, a, request, what) ==
  [s EXCEPT !.got = [p \in Peer |->
     IF p \in Owner(s, a) THEN Append(@[p], [to |-> request, what |-> what])
     ELSE @[p]]]

Request(p) == [peer |-> p, n |-> asked[p]]
Reply(s, p, what) == ReplyTo(s, s.address[p], Request(p), what)

unblockClient(s, a) == [s EXCEPT !.blocked = @ \ {a}]

-----------------------------------------------------------------------------
(* The queues of commands.                                                 *)

\* A write to a builder that has died fails, which nobody looks at.
send_manager_command_now(s, d, cmd) ==
  IF Alive(s.builder[d]) THEN [s EXCEPT !.p2c[d] = Append(@, cmd)] ELSE s

\* Mutant: the command is sent without waiting for its turn.
SendAtOnce(s, d, entry) ==
  send_manager_command_now([s EXCEPT !.cmd_list[d] = Append(@, entry)], d, entry.io_cmd)

\* Only the first command of the list has been sent.
send_manager_command_async(s, d, entry) ==
  LET queued == [s EXCEPT !.cmd_list[d] = Append(@, entry)]
  IN IF s.cmd_list[d] = <<>>
       THEN send_manager_command_now(queued, d, entry.io_cmd) ELSE queued

\* Mutant: those who wait are told nothing.
DropCommands(s, d) ==
  [s EXCEPT !.child_pid[d] = 0, !.cmd_list[d] = <<>>,
            !.p2c[d] = <<>>, !.c2p[d] = <<>>,
            !.blocked = @ \ {s.cmd_list[d][i].client : i \in DOMAIN s.cmd_list[d]}]

\* What a peer is told when the commands of a list are given up in order.
Stopped(s, list, p) ==
  LET told[i \in 0..Len(list)] ==
        IF i = 0 THEN <<>>
        ELSE IF p \in Owner(s, list[i].client)
          THEN Append(told[i - 1],
                      [to |-> list[i].io_cmd.request, what |-> "stopped"])
          ELSE told[i - 1]
  IN told[Len(list)]

\* Everyone who waits for this builder is told that it was stopped.
clean_up_child_process_pipes(s, d) ==
  [s EXCEPT !.child_pid[d] = 0, !.cmd_list[d] = <<>>,
            !.p2c[d] = <<>>, !.c2p[d] = <<>>,
            !.blocked = @ \ {s.cmd_list[d][i].client : i \in DOMAIN s.cmd_list[d]},
            !.got = [p \in Peer |-> @[p] \o Stopped(s, s.cmd_list[d], p)]]

\* waitpid, after which the process is no more.
Reaped(s, d) == [s EXCEPT !.builder[d] = NoBuilder]
HasEnded(s, d) == s.builder[d].phase = "dead"
Readable(s, d) == s.c2p[d] # <<>> \/ HasEnded(s, d)

\* An answer, which is for the first of the list, or the end of the builder.
\* Without a command this_cmd is NULL, and is used.
child_read_proc(s, d) ==
  LET list     == s.cmd_list[d]
      this_cmd == Head(list)
      recv_cmd == Head(s.c2p[d])
      read     == [s EXCEPT !.c2p[d] = Tail(@)]
      told     == unblockClient(ReplyTo(read, this_cmd.client, recv_cmd.request,
                                        recv_cmd.arg), this_cmd.client)
      popped   == [told EXCEPT !.cmd_list[d] = Tail(@)]
  IN CASE s.c2p[d] = <<>> -> clean_up_child_process_pipes(Reaped(s, d), d)
       [] s.c2p[d] # <<>> /\ list = <<>> -> [read EXCEPT !.pc = "crashed"]
       [] OTHER ->
            IF Tail(list) = <<>> THEN popped
            ELSE send_manager_command_now(popped, d, list[2].io_cmd)

\* Mutant: the commands of a client that has gone are taken off the list.
ForgetCommands(s, a) ==
  [s EXCEPT !.cmd_list = [d \in Device |->
     SelectSeq(@[d], LAMBDA e : e.client # a)]]

\* The loop goes along the list, but looks at its first command every time,
\* which after it was dealt with has no client to look at.
clean_up_disconnected_client(s, a) ==
  LET busy == {d \in Device : s.child_pid[d] # 0 /\ s.cmd_list[d] # <<>>}
      first(d) == s.cmd_list[d][1].client
      null == \E d \in busy :
                \/ first(d) = NULL
                \/ first(d) = a /\ Len(s.cmd_list[d]) > 1
  IN [s EXCEPT !.pc = IF null THEN "crashed" ELSE @,
               !.cmd_list = [d \in Device |->
                 IF d \in busy /\ first(d) = a
                   THEN [@[d] EXCEPT ![1].client = NULL] ELSE @[d]]]

\* Mutant: bfree is not called.
FreeUnasked(s, p) ==
  [unblockClient(s, s.address[p]) EXCEPT !.address[p] = NULL]

freeClient(s, p) ==
  LET a == s.address[p]
      asks == IF a \in s.blocked
                THEN unblockClient(clean_up_disconnected_client(s, a), a) ELSE s
  IN [asks EXCEPT !.address[p] = NULL]

-----------------------------------------------------------------------------
(* The commands.                                                           *)

\* The child has the descriptors and a copy of the rest; it is in the middle
\* of the same turn.
start_builder_command(s, p, d, rest) ==
  LET pid == s.forks + 1
      known == [s.child_pid EXCEPT ![d] = pid]
      twin == [phase |-> "forked", pid |-> pid, term |-> FALSE, fired |-> rest,
               child_pid |-> known, cmd_list |-> s.cmd_list]
  IN IF s.child_pid[d] # 0 THEN Reply(s, p, -1)
     ELSE Reply([s EXCEPT !.child_pid = known, !.builder[d] = twin, !.forks = pid,
                          !.p2c[d] = <<>>, !.c2p[d] = <<>>], p, "OK")

Kill(s, d, pid) ==
  IF s.builder[d].pid = pid /\ Alive(s.builder[d])
    THEN [s EXCEPT !.builder[d].term = TRUE] ELSE s

\* SIGTERM, and then the server waits for the process to end.
stop_builder_command(s, p, d) ==
  IF s.child_pid[d] = 0 THEN Reply(s, p, -1)
  ELSE [Kill(s, d, s.child_pid[d]) EXCEPT !.pc = "waits",
          !.waits = [device |-> d, peer |-> p]]

get_active_builders_command(s, p) ==
  Reply(s, p, {d \in Device : s.child_pid[d] # 0})

get_builder_pid_command(s, p, d) ==
  Reply(s, p, IF s.child_pid[d] = 0 THEN "not running" ELSE s.child_pid[d])

\* reset_builder_connection, set_display_headers, get_num_built and
\* is_builder_reeling differ in the command that is passed on.
builder_send_command_generic(s, p, d, name) ==
  LET entry == [io_cmd |-> [name |-> name, request |-> Request(p)],
                client |-> s.address[p]]
  IN IF s.child_pid[d] = 0 THEN Reply(s, p, "not running")
     ELSE [send_manager_command_async(s, d, entry) EXCEPT
             !.blocked = @ \cup {s.address[p]}]

commandTable(s, p, command, rest) ==
  LET d == command.device
  IN CASE command.name = "active" -> get_active_builders_command(s, p)
       [] command.name # "active" /\ d >= MAX_NUM_BUILDERS -> Reply(s, p, "not valid")
       [] OTHER ->
            CASE command.name = "start" -> start_builder_command(s, p, d, rest)
              [] command.name = "stop" -> stop_builder_command(s, p, d)
              [] command.name = "pid" -> get_builder_pid_command(s, p, d)
              [] command.name \in PassedOn ->
                   builder_send_command_generic(s, p, d, command.name)

-----------------------------------------------------------------------------
(* The event loop of the server.                                           *)

\* The clients that are to be freed, and what there is to be handled.
Closing == {p \in Peer : address[p] \in to_close}
Ready ==
  {p \in Peer : address[p] # NULL /\ (wire[p] # <<>> \/ line[p] = "gone")}
    \cup {d \in Device : child_pid[d] # 0 /\ Readable(State, d)}

\* Before the loop polls, the clients that hung up are freed, one by one; a
\* turn begins only while nobody has asked the loop to stop.
FreeClient(p) ==
  /\ \/ pc = "free"
     \/ pc = "loop" /\ ~stop
  /\ p \in Closing
  /\ Become([freeClient(State, p) EXCEPT !.pc =
               IF @ = "crashed" THEN "crashed" ELSE "free"])
  /\ to_close' = to_close \ {address[p]}
  /\ line' = [line EXCEPT ![p] = "closed"]
  /\ wire' = [wire EXCEPT ![p] = <<>>]
  /\ UNCHANGED <<config, fired, stop, deaths, asked>>

Poll ==
  /\ \/ pc = "free"
     \/ pc = "loop" /\ ~stop /\ Ready # {}
  /\ Closing = {}
  /\ fired' = Ready
  /\ pc' = IF Ready = {} THEN "loop" ELSE "dispatch"
  /\ UNCHANGED <<config, stop, waits, clients, pipes, builder, forks, deaths,
                 peers, got>>

NextTurn ==
  /\ pc = "dispatch" /\ fired = {}
  /\ pc' = "loop"
  /\ UNCHANGED <<config, fired, stop, waits, clients, pipes, builder, forks, deaths,
                 peers, got>>

\* A command is run, or the client is to be closed; or the bytes have been read
\* by somebody else.
HandleClient(p) ==
  /\ pc = "dispatch" /\ p \in fired
  /\ fired' = fired \ {p}
  /\ IF wire[p] # <<>>
       THEN Become(commandTable(State, p, Head(wire[p]), fired \ {p}))
       ELSE Become(State)
  /\ wire' = [wire EXCEPT ![p] = <<>>]
  /\ to_close' = IF wire[p] = <<>> /\ line[p] = "gone"
                   THEN to_close \cup {address[p]} ELSE to_close
  /\ UNCHANGED <<config, stop, deaths, asked, line>>

\* A descriptor whose event was deleted is skipped.  Otherwise it is read,
\* and if there is nothing to read any more, the server waits for something.
HandlePipe(d) ==
  /\ pc = "dispatch" /\ d \in fired
  /\ fired' = fired \ {d}
  /\ Become(IF child_pid[d] = 0 THEN State
            ELSE IF Readable(State, d) THEN child_read_proc(State, d)
            ELSE [State EXCEPT !.pc = "waits",
                               !.waits = [device |-> d, peer |-> Nobody]])
  /\ UNCHANGED <<config, stop, to_close, deaths, peers>>

\* waitpid in stop_builder_command, or read in child_read_proc, returns.
Wakes == IF waits.peer = Nobody THEN Readable(State, waits.device)
         ELSE HasEnded(State, waits.device)

Returns ==
  LET d == waits.device
      p == waits.peer
      back == [State EXCEPT !.pc = "dispatch", !.waits = NoWait]
  IN /\ pc = "waits"
     /\ Wakes
     /\ Become(IF p = Nobody THEN child_read_proc(back, d)
               ELSE Reply(clean_up_child_process_pipes(Reaped(back, d), d), p, "OK"))
     /\ UNCHANGED <<config, fired, stop, to_close, deaths, peers>>

\* Mutant: the last entry of pipes[] is not looked at.
ShutdownButLast ==
  /\ pc = "loop" /\ stop
  /\ pc' = "exited"
  /\ builder' = [d \in Device |-> IF child_pid[d] # 0 /\ d < MAX_NUM_BUILDERS - 1
                                   THEN NoBuilder ELSE builder[d]]
  /\ line' = [p \in Peer |-> IF line[p] = "on" THEN "closed" ELSE line[p]]
  /\ UNCHANGED <<config, fired, stop, waits, clients, pipes, forks, deaths, asked,
                 wire, got>>

\* main: the builders are killed and waited for.
Shutdown ==
  /\ pc = "loop" /\ stop
  /\ pc' = "exited"
  /\ builder' = [d \in Device |-> IF child_pid[d] # 0 THEN NoBuilder ELSE builder[d]]
  /\ line' = [p \in Peer |-> IF line[p] = "on" THEN "closed" ELSE line[p]]
  /\ UNCHANGED <<config, fired, stop, waits, clients, pipes, forks, deaths, asked,
                 wire, got>>

ServerStep ==
  \/ Poll \/ NextTurn \/ Returns \/ Shutdown
  \/ \E p \in Peer : FreeClient(p) \/ HandleClient(p)
  \/ \E d \in Device : HandlePipe(d)

-----------------------------------------------------------------------------
(* The builders.                                                           *)

Obeys(d) == ~builder[d].term \/ builder[d].phase = "built"

\* The builder of a device is the one that the copy knows.
Knows(d, e) == builder[d].child_pid[e] # 0 /\ builder[d].child_pid[e] = builder[e].pid

\* What the copy does with a command that it reads in place of the server:
\* its lists are its own, but the pipes and the processes are not.  A builder
\* that it starts in turn, which the server knows nothing of, is left out.
TwinRuns(s, d, p, command) ==
  LET e == command.device
      mine == [s EXCEPT !.child_pid = builder[d].child_pid,
                        !.cmd_list = builder[d].cmd_list]
      sent == builder_send_command_generic(mine, p, e, command.name)
  IN IF e \notin Device \/ ~Knows(d, e) THEN s
     ELSE IF command.name = "stop"
       THEN [Kill(s, e, builder[d].child_pid[e]) EXCEPT
               !.builder[d].child_pid[e] = 0, !.builder[d].cmd_list[e] = <<>>]
     ELSE IF command.name \in PassedOn
       THEN [s EXCEPT !.p2c = sent.p2c, !.builder[d].cmd_list = sent.cmd_list]
     ELSE s

\* Likewise an answer that it reads in place of the server.
TwinReads(s, d, e) ==
  LET list == builder[d].cmd_list[e]
      read == [s EXCEPT !.c2p[e] = Tail(@)]
      popped == [read EXCEPT !.builder[d].cmd_list[e] = Tail(@)]
  IN IF ~Knows(d, e) \/ s.c2p[e] = <<>>
       THEN [s EXCEPT !.builder[d].child_pid[e] = 0, !.builder[d].cmd_list[e] = <<>>]
     ELSE IF list = <<>> THEN [read EXCEPT !.builder[d].phase = "dead"]
     ELSE IF Tail(list) = <<>> THEN popped
     ELSE send_manager_command_now(popped, e, list[2].io_cmd)

\* The forked copy goes on with the events of the turn.
Twin(d) ==
  /\ builder[d].phase = "forked" /\ Obeys(d)
  /\ \E x \in builder[d].fired :
       LET s == [State EXCEPT !.builder[d].fired = @ \ {x}]
       IN IF x \in Peer
            THEN /\ Become(IF wire[x] = <<>> THEN s
                           ELSE TwinRuns(s, d, x, Head(wire[x])))
                 /\ wire' = [wire EXCEPT ![x] = <<>>]
            ELSE /\ Knows(d, x) => Readable(State, x)
                 /\ Become(TwinReads(s, d, x))
                 /\ UNCHANGED wire
  /\ UNCHANGED <<config, fired, stop, to_close, deaths, asked, line>>

Phase(d, from, to) ==
  /\ builder[d].phase = from /\ Obeys(d)
  /\ builder' = [builder EXCEPT ![d].phase = to]
  /\ UNCHANGED <<config, pc, fired, stop, waits, clients, pipes, forks, deaths, peers,
                 got>>

\* data_builder_main is called; its board is found (fnet_client); the board's
\* connection is made.
BecomeBuilder(d) == builder[d].fired = {} /\ Phase(d, "forked", "finding")
FindBoard(d) == Phase(d, "finding", "connecting")
ConnectToBoard(d) == Phase(d, "connecting", "built")

\* receive_manager_io and respond_to_manager_io: in the main loop, and while
\* the board is being found, with zero for an answer; not while it connects.
Answer(d) ==
  /\ builder[d].phase \in {"finding", "built"} /\ Obeys(d)
  /\ p2c_pipe[d] # <<>>
  /\ p2c_pipe' = [p2c_pipe EXCEPT ![d] = Tail(@)]
  /\ c2p_pipe' = [c2p_pipe EXCEPT ![d] = Append(@,
       [request |-> Head(p2c_pipe[d]).request,
        arg |-> IF builder[d].phase = "built" THEN Head(p2c_pipe[d]).name ELSE "zero"])]
  /\ UNCHANGED <<config, pc, fired, stop, waits, clients, child_pid, cmd_list, builder,
                 forks, deaths, peers, got>>

Ends(d) ==
  /\ builder' = [builder EXCEPT ![d] = 
       [NoBuilder EXCEPT !.phase = "dead", !.pid = builder[d].pid]]
  /\ UNCHANGED <<config, pc, fired, stop, waits, clients, pipes, forks, peers, got>>

Obey(d) == Alive(builder[d]) /\ builder[d].term /\ Ends(d) /\ UNCHANGED deaths
Die(d) == /\ Alive(builder[d]) /\ deaths < MaxDeaths /\ deaths' = deaths + 1
          /\ Ends(d)

BuilderStep ==
  \E d \in Device : \/ Twin(d) \/ BecomeBuilder(d) \/ FindBoard(d)
                    \/ ConnectToBoard(d) \/ Answer(d) \/ Obey(d) \/ Die(d)

-----------------------------------------------------------------------------
(* The peers.                                                              *)

\* What malloc finds: memory that was freed, or more of it.
InUse == {address[q] : q \in Peer}
Found ==
  LET lowest(a) == \A b \in Addr : b < a => b \in InUse
      next(a) == a - 1 \in InUse /\ \A b \in Addr : b > a => b \notin InUse
  IN {a \in Addr \ InUse : lowest(a) \/ next(a)}

\* The server's listener is called, and finds memory for the client.  A peer
\* may be one that comes back: it comes when it has been closed.
Connect(p) ==
  /\ pc = "loop" /\ ~stop /\ line[p] = "off"
  /\ config.script[p] # <<>> \/ p \in config.rude
  /\ \A q \in config.after[p] : line[q] = "closed"
  /\ \E a \in Found : address' = [address EXCEPT ![p] = a]
  /\ line' = [line EXCEPT ![p] = "on"]
  /\ UNCHANGED <<config, pc, fired, stop, waits, blocked, to_close, pipes, builder,
                 forks, deaths, asked, wire, got>>

\* One command at a time.
Send(p) ==
  /\ line[p] = "on" /\ asked[p] = Len(got[p]) /\ asked[p] < Len(config.script[p])
  /\ asked' = [asked EXCEPT ![p] = @ + 1]
  /\ wire' = [wire EXCEPT ![p] = Append(@, config.script[p][asked[p] + 1])]
  /\ UNCHANGED <<config, pc, fired, stop, waits, clients, pipes, builder, forks, deaths,
                 line, got>>

HangUp(p) ==
  /\ p \in config.rude /\ line[p] = "on"
  /\ line' = [line EXCEPT ![p] = "gone"]
  /\ UNCHANGED <<config, pc, fired, stop, waits, clients, pipes, builder, forks, deaths,
                 asked, wire, got>>

\* sig_handler, for the first SIGINT.
Interrupt ==
  /\ config.interrupt /\ ~stop /\ pc \notin {"exited", "crashed"}
  /\ stop' = TRUE
  /\ UNCHANGED <<config, pc, fired, waits, clients, pipes, builder, forks, deaths, peers,
                 got>>

PeerStep == Interrupt \/ \E p \in Peer : Connect(p) \/ Send(p) \/ HangUp(p)

Next == ServerStep \/ BuilderStep \/ PeerStep

Spec == Init /\ [][Next]_vars

\* The server's thread runs: weak fairness of ServerStep, written out (these
\* variables are changed by each of its steps, and by no other).
Idle ==
  \/ pc \in {"exited", "crashed"}
  \/ pc = "waits" /\ ~Wakes
  \/ pc = "loop" /\ ~stop /\ Ready \cup Closing = {}
ServerRuns == []<>Idle \/ []<><<TRUE>>_<<pc, fired, waits, to_close>>

\* Besides, a process that was signalled, has a command to
\* answer or is to become a builder does so; the peers ask all they have to.
\* A board need never be found, but one that was found accepts the connection.
FairSpec ==
  /\ Spec /\ ServerRuns
  /\ \A d \in Device : /\ WF_vars(Twin(d)) /\ WF_vars(BecomeBuilder(d))
                       /\ WF_vars(ConnectToBoard(d)) /\ WF_vars(Answer(d))
                       /\ WF_vars(Obey(d))
  /\ \A p \in Peer : WF_vars(Connect(p)) /\ WF_vars(Send(p))

-----------------------------------------------------------------------------
(* Properties.                                                             *)

Requests == [peer : Peer, n : Nat \ {0}]
IoCmds == [name : PassedOn, request : Requests]
Entries == [io_cmd : IoCmds, client : Addr \cup {NULL}]
Answers == [request : Requests, arg : PassedOn \cup {"zero"}]
Builders == [phase : {"none", "forked", "finding", "connecting", "built", "dead"},
             pid : Nat, term : BOOLEAN, fired : SUBSET (Peer \cup Device),
             child_pid : [Device -> Nat], cmd_list : [Device -> Seq(Entries)]]

\* Every variable has a value of its kind.
TypeOK ==
  /\ config \in Configurations
  /\ pc \in {"loop", "free", "dispatch", "waits", "exited", "crashed"}
  /\ fired \subseteq Peer \cup Device /\ stop \in BOOLEAN
  /\ IF pc = "waits" THEN waits \in [device : Device, peer : Peer \cup {Nobody}]
     ELSE waits = NoWait
  /\ child_pid \in [Device -> Nat] /\ cmd_list \in [Device -> Seq(Entries)]
  /\ address \in [Peer -> Addr \cup {NULL}]
  /\ blocked \subseteq Addr /\ to_close \subseteq Addr
  /\ p2c_pipe \in [Device -> Seq(IoCmds)] /\ c2p_pipe \in [Device -> Seq(Answers)]
  /\ builder \in [Device -> Builders] /\ forks \in Nat
  /\ asked \in [Peer -> Nat] /\ wire \in [Peer -> Seq(Command)]
  /\ DOMAIN got = Peer
  /\ \A p \in Peer : \A i \in DOMAIN got[p] : got[p][i].to \in Requests
  /\ line \in [Peer -> {"off", "on", "gone", "closed"}] /\ deaths \in 0..MaxDeaths

\* The i-th reply that a client gets is to its i-th request: an answer is given
\* to the client that asked although nothing in it says what it is an answer
\* to, and although clients leave and builders die (child_read_proc trusts the
\* order of the list).
AnswersAreOnesOwn ==
  \A p \in Peer : \A i \in DOMAIN got[p] : got[p][i].to = [peer |-> p, n |-> i]

\* What a builder that lives has been sent and has not been heard about is the
\* first command of its list, and nothing if there is none: that is why the
\* first entry is kept when its client leaves.
FirstIsUnderway ==
  \A d \in Device :
    child_pid[d] # 0 /\ Alive(builder[d]) =>
      LET underway == [i \in DOMAIN p2c_pipe[d] |-> p2c_pipe[d][i].request]
                        \o [i \in DOMAIN c2p_pipe[d] |-> c2p_pipe[d][i].request]
      IN underway = IF cmd_list[d] = <<>> THEN <<>>
                    ELSE << cmd_list[d][1].io_cmd.request >>

\* The clients in the lists are those that are blocked, each is there once, and
\* it is the client of the peer that asked: none was freed, and none is another
\* that got its memory. So the server never uses a command or a client that is
\* not there (child_read_proc, unblockClient), nor the NULL that
\* clean_up_disconnected_client may leave.
NoDangling ==
  LET Waiting == UNION {{d} \X {i \in DOMAIN cmd_list[d] :
                                  cmd_list[d][i].client # NULL} : d \in Device}
      entry(w) == cmd_list[w[1]][w[2]]
  IN /\ pc # "crashed"
     /\ \A w \in Waiting : address[entry(w).io_cmd.request.peer] = entry(w).client
     /\ blocked = {entry(w).client : w \in Waiting}
     /\ \A v, w \in Waiting : entry(v).client = entry(w).client => v = w

\* Every builder that runs is one that the server knows, so that it can be
\* stopped, is counted as active and is killed in the end.
BuildersAreKnown ==
  \A d \in Device :
    /\ Alive(builder[d]) => child_pid[d] = builder[d].pid
    /\ child_pid[d] # 0 /\ pc # "exited" => builder[d].phase # "none"

\* What the server keeps about its builders is what they are: the two together.
BooksAreRight == FirstIsUnderway /\ BuildersAreKnown

\* A client that stays gets a reply to everything it asks, even if the builder
\* dies, is stopped by another client, or cannot find its board.
EveryoneIsAnswered ==
  \A p \in Peer :
    line[p] = "on" ~> Len(got[p]) = Len(config.script[p]) \/ stop \/ line[p] # "on"

\* After SIGINT the program ends, and no builder outlives it.
ShutdownEndsBuilders ==
  stop ~> pc = "exited" /\ \A d \in Device : ~Alive(builder[d])

=============================================================================
