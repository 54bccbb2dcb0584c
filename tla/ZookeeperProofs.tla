--------------------------- MODULE ZookeeperProofs ---------------------------
(***************************************************************************)
(* Proofs about Zookeeper, for any number of boards, clients and builders  *)
(* that die: what the server keeps about its builders and who waits for    *)
(* them is right, and everyone is told what he asked for, unless one of    *)
(* two things happens that the code does not deal with: the copy that is   *)
(* forked finds something to read in the turn it goes on with, or a client *)
(* that waits leaves while somebody else waits in the same queue, or after *)
(* another that left.                                                      *)
(***************************************************************************)
EXTENDS Zookeeper, Induction, SequenceTheorems

-----------------------------------------------------------------------------
(* What those who wait are told *)

(* A peer that has one command in the list is told of that one. *)
LEMMA StoppedMatches ==
  ASSUME NEW s, NEW list \in Seq(Entries), NEW p, NEW K \in SUBSET (1 .. Len(list)),
         \A i \in 1 .. Len(list) : p \in Owner(s, list[i].client) <=> i \in K,
         \A i, j \in K : i = j
  PROVE  /\ \A k \in K : Stopped(s, list, p)
              = << [to |-> list[k].io_cmd.request, what |-> "stopped"] >>
         /\ K = {} => Stopped(s, list, p) = <<>>
<1> DEFINE N == Len(list)
           reply(k) == [to |-> list[k].io_cmd.request, what |-> "stopped"]
           own(i) == p \in Owner(s, list[i].client)
           told[i \in 0 .. Len(list)] ==
             IF i = 0 THEN <<>>
             ELSE IF p \in Owner(s, list[i].client)
               THEN Append(told[i - 1],
                      [to |-> list[i].io_cmd.request, what |-> "stopped"])
             ELSE told[i - 1]
           body(f) == [i \in 0 .. N |-> IF i = 0 THEN <<>>
                                        ELSE IF own(i) THEN Append(f[i - 1], reply(i))
                                        ELSE f[i - 1]]
           g == [i \in 0 .. N |-> IF \E k \in K : k <= i
                                  THEN << reply(CHOOSE k \in K : TRUE) >>
                                  ELSE <<>>]
<1>1. Stopped(s, list, p) = told[N]
  BY DEF Stopped
<1>2. told = CHOOSE f : f = body(f)
  OBVIOUS
<1> HIDE DEF told
<1>n. N \in Nat
  OBVIOUS
<1>3. g = body(g)
  <2>1. ASSUME NEW i \in 0 .. N
        PROVE  g[i] = body(g)[i]
    <3>1. CASE i = 0
      BY <3>1
    <3>2. CASE i # 0 /\ own(i)
      <4>1. i \in K /\ \A k \in K : k = i
        BY <3>2
      <4>2. g[i - 1] = <<>> /\ g[i] = << reply(i) >>
        BY <4>1, <1>n
      <4>3. body(g)[i] = Append(g[i-1], reply(i))
        BY <3>2
      <4>4. Append(<<>>, reply(i)) = << reply(i) >>
        OBVIOUS
      <4> QED
        BY <4>2, <4>3, <4>4
    <3>3. CASE i # 0 /\ ~own(i)
      <4>1. \A k \in K : k <= i => k <= i - 1
        BY <3>3
      <4>2. \A k \in K : k <= i - 1 => k <= i
        BY <3>3
      <4>3. g[i] = g[i - 1]
        BY <4>1, <4>2, <3>3, <1>n
      <4> HIDE DEF g
      <4> QED
        BY <3>3, <4>3
    <3> QED
      BY <3>1, <3>2, <3>3
  <2>2. DOMAIN g = 0 .. N /\ DOMAIN body(g) = 0 .. N
    OBVIOUS
  <2>3. g = [i \in 0 .. N |-> g[i]] /\ body(g) = [i \in 0 .. N |-> body(g)[i]]
    OBVIOUS
  <2> HIDE DEF g, body
  <2> QED
    BY <2>1, <2>3
<1>4. told = body(told)
  BY <1>2, <1>3
<1>5. \A i \in 0 .. N : told[i] = g[i]
  <2> DEFINE S == {n \in Nat : n <= N => told[n] = g[n]}
  <2>1. 0 \in S
    <3>1. told[0] = <<>>
      BY <1>4
    <3> QED
      BY <3>1
  <2>2. ASSUME NEW n \in Nat, n \in S
        PROVE  n + 1 \in S
    <3>1. CASE n + 1 <= N
      <4>1. told[n] = g[n] /\ n + 1 \in 0 .. N /\ n + 1 # 0 /\ n + 1 - 1 = n
        BY <2>2, <3>1
      <4>2. \A f : f = body(f) =>
              f[n + 1] = IF own(n + 1) THEN Append(f[n], reply(n + 1)) ELSE f[n]
        <5> TAKE f
        <5>1. body(f)[n + 1] = IF own(n + 1) THEN Append(f[n + 1 - 1], reply(n + 1))
                               ELSE f[n + 1 - 1]
          BY <4>1
        <5> HIDE DEF body, own, reply
        <5> QED
          BY <4>1, <5>1
      <4> HIDE DEF body, own, reply, g
      <4>3. told[n + 1] = g[n + 1]
        BY <1>3, <1>4, <4>1, <4>2
      <4> QED
        BY <4>3
    <3>2. CASE ~ (n + 1 <= N)
      BY <3>2
    <3> QED
      BY <3>1, <3>2
  <2> HIDE DEF g
  <2>3. Nat \subseteq S
    <3> HIDE DEF S
    <3> QED
      BY <2>1, <2>2, NaturalsInSet
  <2>4. \A n \in Nat : n <= N => told[n] = g[n]
    BY <2>3
  <2> QED
    BY <2>4, <1>n
<1>6. Stopped(s, list, p) = g[N]
  <2> HIDE DEF g, N
  <2> QED
    BY <1>1, <1>5, <1>n
<1>7. ASSUME NEW k \in K
      PROVE  g[N] = << reply(k) >>
  <2>1. k = CHOOSE l \in K : TRUE
    OBVIOUS
  <2>2. k <= N
    OBVIOUS
  <2> QED
    BY <2>1, <2>2
<1>8. K = {} => g[N] = <<>>
  OBVIOUS
<1> HIDE DEF g
<1> QED
  BY <1>6, <1>7, <1>8
-----------------------------------------------------------------------------
(* The invariant *)

(* No copy of the server finds anything to read in place of the server. *)
TwinsFindNothing ==
  \A d \in Device :
    builder[d].phase = "forked" =>
      \A x \in builder[d].fired :
        /\ x \in Peer => wire[x] = <<>>
        /\ x \in Device /\ Knows(d, x) => c2p_pipe[x] = <<>>

(* A client that hung up while it waits is the only one that waits for its *)
(* builder, and no other has left before its answer came.                  *)
LeavesAlone ==
  \A a \in to_close \cap blocked : \A d \in Device :
    /\ cmd_list[d] # <<>> => cmd_list[d][1].client # NULL
    /\ \A i \in DOMAIN cmd_list[d] :
         cmd_list[d][i].client = a => Len(cmd_list[d]) = 1

(* The structures of clients that are connected are there and are their    *)
(* own; those to be closed are structures of clients.                      *)
Lines ==
  /\ \A p, q \in Peer : address[p] = address[q] /\ address[p] # NULL => p = q
  /\ \A p \in Peer :
       /\ line[p] \in {"on", "gone"} /\ pc # "exited" => address[p] # NULL
       /\ wire[p] # <<>> => address[p] # NULL
       /\ line[p] = "off" => asked[p] = 0 /\ address[p] = NULL
       /\ waits.peer = p => address[p] # NULL
  /\ \A a \in to_close : \E p \in Peer : address[p] = a
  /\ pc = "exited" => \A p \in Peer : line[p] # "on"

(* A peer has asked one more than it was told, or nothing more. *)
Asking ==
  \A p \in Peer :
    /\ \E S : got[p] \in Seq(S)
    /\ asked[p] \in {Len(got[p]), Len(got[p]) + 1}
    /\ Len(wire[p]) <= 1
    /\ wire[p] # <<>> => asked[p] = Len(got[p]) + 1 /\ waits.peer # p
    /\ waits.peer = p => asked[p] = Len(got[p]) + 1

(* Each command in a list is the last request of a peer, which it has not  *)
(* been told about, which is nowhere else, and leads to that peer's client *)
(* or, if it has none any more, nowhere; and these clients are blocked.    *)
Waiting ==
  /\ \A d \in Device : \A i \in DOMAIN cmd_list[d] :
       LET r == cmd_list[d][i].io_cmd.request
       IN /\ r.n = asked[r.peer] /\ asked[r.peer] = Len(got[r.peer]) + 1
          /\ wire[r.peer] = <<>> /\ waits.peer # r.peer
          /\ cmd_list[d][i].client = address[r.peer]
  /\ \A d, e \in Device :
       \A i \in DOMAIN cmd_list[d] : \A j \in DOMAIN cmd_list[e] :
         cmd_list[d][i].io_cmd.request.peer = cmd_list[e][j].io_cmd.request.peer
           => d = e /\ i = j
  /\ \A a \in Addr :
       a \in blocked <=>
         \E d \in Device : \E i \in DOMAIN cmd_list[d] : cmd_list[d][i].client = a

(* The books about the builder of a device, and what is under way to it    *)
(* and from it.                                                            *)
Books(d) ==
  /\ builder[d].phase # "none" => builder[d].pid # 0
  /\ Alive(builder[d]) => child_pid[d] = builder[d].pid
  /\ child_pid[d] # 0 /\ pc # "exited" => builder[d].phase # "none"
  /\ child_pid[d] = 0 => cmd_list[d] = <<>>
  /\ c2p_pipe[d] # <<>> =>
       /\ Len(c2p_pipe[d]) = 1 /\ cmd_list[d] # <<>>
       /\ c2p_pipe[d][1].request = cmd_list[d][1].io_cmd.request
  /\ Alive(builder[d]) =>
       /\ cmd_list[d] = <<>> => p2c_pipe[d] = <<>>
       /\ cmd_list[d] # <<>> /\ c2p_pipe[d] # <<>> => p2c_pipe[d] = <<>>
       /\ cmd_list[d] # <<>> /\ c2p_pipe[d] = <<>> =>
            /\ Len(p2c_pipe[d]) = 1
            /\ p2c_pipe[d][1].request = cmd_list[d][1].io_cmd.request

IInv ==
  /\ TypeOK /\ Lines /\ Asking /\ Waiting
  /\ \A d \in Device : Books(d)
  /\ AnswersAreOnesOwn
  /\ pc # "crashed"

-----------------------------------------------------------------------------
(* What the handlers do, as a change of the variables *)

(* Each of these peers is told something about its last request. *)
Told(P) ==
  /\ DOMAIN got' = Peer
  /\ \A p \in Peer \ P : got'[p] = got[p]
  /\ \A p \in P : \E what :
       got'[p] = Append(got[p], [to |-> Request(p), what |-> what])

Replies(p) ==
  Told({p}) /\ UNCHANGED <<pc, waits, pipes, address, blocked, builder, forks>>

Starts(p, d) ==
  /\ child_pid[d] = 0
  /\ Told({p})
  /\ forks' = forks + 1
  /\ child_pid' = [child_pid EXCEPT ![d] = forks + 1]
  /\ builder' = [builder EXCEPT ![d] =
       [phase |-> "forked", pid |-> forks + 1, term |-> FALSE,
        fired |-> fired \ {p}, child_pid |-> [child_pid EXCEPT ![d] = forks + 1],
        cmd_list |-> cmd_list]]
  /\ p2c_pipe' = [p2c_pipe EXCEPT ![d] = <<>>]
  /\ c2p_pipe' = [c2p_pipe EXCEPT ![d] = <<>>]
  /\ UNCHANGED <<pc, waits, cmd_list, address, blocked>>

Stops(p, d) ==
  /\ pc' = "waits" /\ waits' = [device |-> d, peer |-> p]
  /\ \/ builder' = builder
     \/ builder' = [builder EXCEPT ![d].term = TRUE]
  /\ UNCHANGED <<pipes, address, blocked, forks, got>>

Queues(p, d) ==
  /\ child_pid[d] # 0
  /\ \E name \in PassedOn :
       LET cmd == [name |-> name, request |-> Request(p)]
       IN /\ cmd_list' = [cmd_list EXCEPT ![d] =
                            Append(@, [io_cmd |-> cmd, client |-> address[p]])]
          /\ p2c_pipe' = IF cmd_list[d] = <<>> /\ Alive(builder[d])
                         THEN [p2c_pipe EXCEPT ![d] = Append(@, cmd)]
                         ELSE p2c_pipe
  /\ blocked' = blocked \cup {address[p]}
  /\ UNCHANGED <<pc, waits, child_pid, c2p_pipe, address, builder, forks, got>>

(* A command that is run does one of these. *)
LEMMA ClientRuns ==
  ASSUME IInv, NEW p \in Peer, HandleClient(p), wire[p] # <<>>
  PROVE  Replies(p) \/ \E d \in Device : Starts(p, d) \/ Stops(p, d) \/ Queues(p, d)
<1> DEFINE command == Head(wire[p])
           d == command.device
<1>1. /\ command \in Command /\ address[p] # NULL /\ pc = "dispatch"
      /\ Become(commandTable(State, p, command, fired \ {p}))
  BY DEF HandleClient, IInv, TypeOK, Lines
<1>2. command.name \in Commands /\ (d \in Device \/ (d \notin Device /\ d >= MAX_NUM_BUILDERS))
  <2> DEFINE D == Device \cup {e \in Nat : e >= MAX_NUM_BUILDERS}
  <2>1. command \in [name : Commands, device : D]
    BY <1>1 DEF Command
  <2> HIDE DEF D
  <2>2. command.name \in Commands /\ d \in D
    BY <2>1
  <2>3. \A x \in D : x \in Device \/ x >= MAX_NUM_BUILDERS
    BY Zenon DEF D
  <2> HIDE DEF d
  <2> QED
    BY <2>2, <2>3
<1>3. Owner(State, address[p]) = {p}
  BY <1>1 DEF Owner, State, IInv, Lines
<1>4. \A what : Become(Reply(State, p, what)) => Replies(p)
  <2> TAKE what
  <2> SUFFICES ASSUME Become(Reply(State, p, what))
               PROVE  Replies(p)
    OBVIOUS
  <2>1. Reply(State, p, what) =
          [State EXCEPT !.got = [q \in Peer |->
             IF q = p THEN Append(State.got[q], [to |-> Request(p), what |-> what])
             ELSE State.got[q]]]
    BY <1>3 DEF Reply, ReplyTo, State
  <2>2. got' = [q \in Peer |->
             IF q = p THEN Append(got[q], [to |-> Request(p), what |-> what])
             ELSE got[q]]
    <3>1. State.got = got
      BY DEF State
    <3> DEFINE told == [q \in Peer |->
                 IF q = p THEN Append(State.got[q], [to |-> Request(p), what |-> what])
                 ELSE State.got[q]]
    <3>2. [State EXCEPT !.got = told].got = told
      <4> HIDE DEF told
      <4> QED
        BY DEF State
    <3>3. got' = Reply(State, p, what).got
      BY DEF Become
    <3>4. got' = told
      <4>1. Reply(State, p, what) = [State EXCEPT !.got = told]
        BY <2>1
      <4> HIDE DEF told
      <4> QED
        BY <3>2, <3>3, <4>1
    <3> QED
      BY <3>1, <3>4
  <2>3. Told({p})
    BY <2>2 DEF Told, IInv, TypeOK
  <2> QED
    BY <2>1, <2>3 DEF Replies, Become, State, pipes
<1> DEFINE rest == fired \ {p}
           done == commandTable(State, p, command, rest)
<1>5. \/ \E what : done = Reply(State, p, what)
      \/ d \in Device /\ done = start_builder_command(State, p, d, rest)
      \/ d \in Device /\ done = stop_builder_command(State, p, d)
      \/ d \in Device /\ done = get_builder_pid_command(State, p, d)
      \/ d \in Device /\ command.name \in PassedOn
           /\ done = builder_send_command_generic(State, p, d, command.name)
  <2>1. CASE command.name = "active"
    BY <2>1 DEF commandTable, get_active_builders_command
  <2>2. CASE command.name # "active" /\ d >= MAX_NUM_BUILDERS
    <3>1. done = Reply(State, p, "not valid")
      BY <2>2 DEF commandTable
    <3> QED
      BY <3>1
  <2>3. CASE command.name # "active" /\ ~ (d >= MAX_NUM_BUILDERS)
    <3>1. d \in Device
      BY <1>2, <2>3
    <3>2. command.name \in {"start", "stop", "pid"} \cup PassedOn
      BY <1>2, <2>3 DEF Commands
    <3>3. /\ command.name = "start" => done = start_builder_command(State, p, d, rest)
          /\ command.name = "stop" => done = stop_builder_command(State, p, d)
          /\ command.name = "pid" => done = get_builder_pid_command(State, p, d)
          /\ command.name \in PassedOn
               => done = builder_send_command_generic(State, p, d, command.name)
      BY <2>3, <3>2 DEF commandTable, PassedOn
    <3> QED
      BY <3>1, <3>2, <3>3
  <2> QED
    BY <2>1, <2>2, <2>3
<1>6. Become(done)
  BY <1>1
<1> HIDE DEF done, command
<1>7. ASSUME d \in Device, done = start_builder_command(State, p, d, rest)
      PROVE  Replies(p) \/ Starts(p, d)
  <2>1. CASE child_pid[d] # 0
    BY <1>4, <1>6, <1>7, <2>1 DEF start_builder_command, State
  <2>2. CASE child_pid[d] = 0
    <3> DEFINE known == [child_pid EXCEPT ![d] = forks + 1]
               twin == [phase |-> "forked", pid |-> forks + 1, term |-> FALSE,
                        fired |-> rest, child_pid |-> known, cmd_list |-> cmd_list]
               s == [State EXCEPT !.child_pid = known,
                       !.builder = [builder EXCEPT ![d] = twin], !.forks = forks + 1,
                       !.p2c = [p2c_pipe EXCEPT ![d] = <<>>],
                       !.c2p = [c2p_pipe EXCEPT ![d] = <<>>]]
    <3>1. done = Reply(s, p, "OK")
      BY <1>7, <2>2 DEF start_builder_command, State
    <3>2. Owner(s, address[p]) = {p} /\ s.address[p] = address[p]
      BY <1>3 DEF Owner, State
    <3>3. done = [s EXCEPT !.got = [q \in Peer |->
             IF q = p THEN Append(got[q], [to |-> Request(p), what |-> "OK"])
             ELSE got[q]]]
      BY <3>1, <3>2 DEF Reply, ReplyTo, State
    <3>4. got' = [q \in Peer |->
             IF q = p THEN Append(got[q], [to |-> Request(p), what |-> "OK"])
             ELSE got[q]]
      BY <3>3, <1>6 DEF Become, State
    <3>5. Told({p})
      BY <3>4 DEF Told, IInv, TypeOK
    <3> QED
      BY <1>6, <2>2, <3>3, <3>5 DEF Starts, Become, State
  <2> QED
    BY <2>1, <2>2
<1>8. ASSUME d \in Device, done = stop_builder_command(State, p, d)
      PROVE  Replies(p) \/ Stops(p, d)
  <2>1. CASE child_pid[d] = 0
    BY <1>4, <1>6, <1>8, <2>1 DEF stop_builder_command, State
  <2>2. CASE child_pid[d] # 0
    BY <1>6, <1>8, <2>2 DEF stop_builder_command, State, Kill, Become, Stops, pipes
  <2> QED
    BY <2>1, <2>2
<1>9. ASSUME d \in Device, done = get_builder_pid_command(State, p, d)
      PROVE  Replies(p)
  BY <1>4, <1>6, <1>9 DEF get_builder_pid_command
<1>10. ASSUME d \in Device, command.name \in PassedOn,
              done = builder_send_command_generic(State, p, d, command.name)
       PROVE  Replies(p) \/ Queues(p, d)
  <2>1. CASE child_pid[d] = 0
    BY <1>4, <1>6, <1>10, <2>1 DEF builder_send_command_generic, State
  <2>2. CASE child_pid[d] # 0
    BY <1>6, <1>10, <2>2 DEF builder_send_command_generic, State, Become, Queues,
       send_manager_command_async, send_manager_command_now
  <2> QED
    BY <2>1, <2>2
<1> QED
  BY <1>4, <1>5, <1>6, <1>7, <1>8, <1>9, <1>10
(* Those who wait for the builder of a device and are still there. *)
Owed(d) ==
  {r \in Peer : \E i \in DOMAIN cmd_list[d] :
     cmd_list[d][i].client # NULL /\ cmd_list[d][i].io_cmd.request.peer = r}

Pops(d) ==
  /\ cmd_list[d] # <<>> /\ c2p_pipe[d] # <<>>
  /\ Told(IF cmd_list[d][1].client = NULL THEN {}
          ELSE {cmd_list[d][1].io_cmd.request.peer})
  /\ cmd_list' = [cmd_list EXCEPT ![d] = Tail(@)]
  /\ c2p_pipe' = [c2p_pipe EXCEPT ![d] = Tail(@)]
  /\ p2c_pipe' = IF Tail(cmd_list[d]) # <<>> /\ Alive(builder[d])
                 THEN [p2c_pipe EXCEPT ![d] = Append(@, cmd_list[d][2].io_cmd)]
                 ELSE p2c_pipe
  /\ blocked' = blocked \ {cmd_list[d][1].client}
  /\ pc' = "dispatch" /\ waits' = NoWait
  /\ UNCHANGED <<child_pid, address, builder, forks>>

Loses(d) ==
  /\ Told(Owed(d) \cup ({waits.peer} \cap Peer))
  /\ child_pid' = [child_pid EXCEPT ![d] = 0]
  /\ cmd_list' = [cmd_list EXCEPT ![d] = <<>>]
  /\ p2c_pipe' = [p2c_pipe EXCEPT ![d] = <<>>]
  /\ c2p_pipe' = [c2p_pipe EXCEPT ![d] = <<>>]
  /\ blocked' = blocked \ {cmd_list[d][i].client : i \in DOMAIN cmd_list[d]}
  /\ builder' = [builder EXCEPT ![d] = NoBuilder]
  /\ pc' = "dispatch" /\ waits' = NoWait
  /\ UNCHANGED <<address, forks>>

LEMMA AppendIsOne ==
  ASSUME NEW S, NEW q \in Seq(S), NEW e
  PROVE  q \o << e >> = Append(q, e)
<1> DEFINE T == S \cup {e}
<1>1. q \in Seq(T) /\ e \in T
  BY SeqMonotonic
<1> HIDE DEF T
<1> QED
  BY <1>1, AppendIsConcat

(* When a list is given up each of those is told once. *)
LEMMA StoppedTells ==
  ASSUME IInv, NEW d \in Device, NEW s, s.address = address, NEW p \in Peer
  PROVE  /\ p \in Owed(d) => Stopped(s, cmd_list[d], p)
              = << [to |-> Request(p), what |-> "stopped"] >>
         /\ p \notin Owed(d) => Stopped(s, cmd_list[d], p) = <<>>
<1> DEFINE list == cmd_list[d]
           K == {i \in 1 .. Len(list) : list[i].client # NULL
                                          /\ list[i].io_cmd.request.peer = p}
<1>1. list \in Seq(Entries)
  BY DEF IInv, TypeOK
<1>2. ASSUME NEW i \in 1 .. Len(list)
      PROVE  /\ list[i].io_cmd.request.peer \in Peer
             /\ list[i].client = address[list[i].io_cmd.request.peer]
             /\ list[i].io_cmd.request = [peer |-> list[i].io_cmd.request.peer,
                                          n |-> asked[list[i].io_cmd.request.peer]]
  <2>1. list[i] \in Entries
    BY <1>1, ElementOfSeq
  <2>2. list[i].io_cmd.request \in Requests
    BY <2>1 DEF Entries, IoCmds
  <2>3. i \in DOMAIN list
    BY <1>1
  <2>4. /\ list[i].client = address[list[i].io_cmd.request.peer]
        /\ list[i].io_cmd.request.n = asked[list[i].io_cmd.request.peer]
    BY <2>3 DEF IInv, Waiting
  <2> HIDE DEF list
  <2> QED
    BY <2>2, <2>4 DEF Requests
<1>3. \A i \in 1 .. Len(list) : p \in Owner(s, list[i].client) <=> i \in K
  <2> TAKE i \in 1 .. Len(list)
  <2>1. \A q \in Peer : address[p] = address[q] /\ address[p] # NULL => p = q
    BY DEF IInv, Lines
  <2> HIDE DEF list
  <2> QED
    BY <1>2, <2>1 DEF Owner
<1>4. \A i, j \in K : i = j
  <2>1. \A i, j \in DOMAIN list :
          list[i].io_cmd.request.peer = list[j].io_cmd.request.peer => i = j
    BY DEF IInv, Waiting
  <2>2. DOMAIN list = 1 .. Len(list)
    BY <1>1
  <2> HIDE DEF list
  <2> QED
    BY <2>1, <2>2
<1>5. DOMAIN list = 1 .. Len(list)
  BY <1>1
<1>6. /\ \A k \in K : Stopped(s, list, p)
              = << [to |-> list[k].io_cmd.request, what |-> "stopped"] >>
      /\ K = {} => Stopped(s, list, p) = <<>>
  <2>1. K \in SUBSET (1 .. Len(list))
    OBVIOUS
  <2> HIDE DEF K, list
  <2> QED
    BY <1>1, <1>3, <1>4, <2>1, StoppedMatches
<1>7. \A k \in K : list[k].io_cmd.request = Request(p)
  BY <1>2 DEF Request
<1>8. p \in Owed(d) <=> K # {}
  BY <1>5 DEF Owed
<1> HIDE DEF K, list
<1>9. Stopped(s, cmd_list[d], p) = Stopped(s, list, p)
  BY DEF list
<1> QED
  BY <1>6, <1>7, <1>8, <1>9

(* What is left of a builder that has ended. *)
GivenUp(c, d) ==
  /\ DOMAIN c = {"pc", "waits", "child_pid", "cmd_list", "address", "blocked",
                 "p2c", "c2p", "builder", "got", "forks"}
  /\ c.child_pid = [child_pid EXCEPT ![d] = 0]
  /\ c.cmd_list = [cmd_list EXCEPT ![d] = <<>>]
  /\ c.p2c = [p2c_pipe EXCEPT ![d] = <<>>]
  /\ c.c2p = [c2p_pipe EXCEPT ![d] = <<>>]
  /\ c.blocked = blocked \ {cmd_list[d][i].client : i \in DOMAIN cmd_list[d]}
  /\ c.pc = "dispatch" /\ c.waits = NoWait /\ c.address = address
  /\ c.forks = forks /\ c.builder = [builder EXCEPT ![d] = NoBuilder]
  /\ DOMAIN c.got = Peer
  /\ \A p \in Owed(d) :
       c.got[p] = Append(got[p], [to |-> Request(p), what |-> "stopped"])
  /\ \A p \in Peer \ Owed(d) : c.got[p] = got[p]

(* clean_up_child_process_pipes, after waitpid. *)
LEMMA CleansUp ==
  ASSUME IInv, NEW d \in Device, NEW s,
         s = [State EXCEPT !.pc = "dispatch", !.waits = NoWait]
  PROVE  GivenUp(clean_up_child_process_pipes(Reaped(s, d), d), d)
<1> DEFINE Fields ==
           {"pc", "waits", "child_pid", "cmd_list", "address", "blocked",
            "p2c", "c2p", "builder", "got", "forks"}
           r == [s EXCEPT !.builder[d] = NoBuilder]
<1>1. /\ DOMAIN s = Fields
      /\ s.pc = "dispatch" /\ s.waits = NoWait /\ s.child_pid = child_pid
      /\ s.cmd_list = cmd_list /\ s.address = address /\ s.blocked = blocked
      /\ s.p2c = p2c_pipe /\ s.c2p = c2p_pipe /\ s.builder = builder
      /\ s.got = got /\ s.forks = forks
  BY DEF State
<1>2. /\ DOMAIN r = Fields
      /\ r.pc = "dispatch" /\ r.waits = NoWait /\ r.child_pid = child_pid
      /\ r.cmd_list = cmd_list /\ r.address = address /\ r.blocked = blocked
      /\ r.p2c = p2c_pipe /\ r.c2p = c2p_pipe /\ r.got = got /\ r.forks = forks
      /\ r.builder = [builder EXCEPT ![d] = NoBuilder]
  BY <1>1
<1> DEFINE c == clean_up_child_process_pipes(r, d)
<1> HIDE DEF r
<1>3. /\ DOMAIN c = Fields
      /\ c.child_pid = [child_pid EXCEPT ![d] = 0]
      /\ c.cmd_list = [cmd_list EXCEPT ![d] = <<>>]
      /\ c.p2c = [p2c_pipe EXCEPT ![d] = <<>>]
      /\ c.c2p = [c2p_pipe EXCEPT ![d] = <<>>]
      /\ c.blocked = blocked \ {cmd_list[d][i].client : i \in DOMAIN cmd_list[d]}
      /\ c.pc = "dispatch" /\ c.waits = NoWait /\ c.address = address
      /\ c.forks = forks /\ c.builder = [builder EXCEPT ![d] = NoBuilder]
  BY <1>2 DEF clean_up_child_process_pipes
<1>4. c.got = [p \in Peer |-> got[p] \o Stopped(r, cmd_list[d], p)]
  BY <1>2 DEF clean_up_child_process_pipes
<1> HIDE DEF c
<1>6. \A p \in Peer : \E S : got[p] \in Seq(S)
  BY DEF IInv, Asking
<1>7. ASSUME NEW p \in Owed(d)
      PROVE  c.got[p] = Append(got[p], [to |-> Request(p), what |-> "stopped"])
  <2>1. p \in Peer
    BY DEF Owed
  <2>2. Stopped(r, cmd_list[d], p) = << [to |-> Request(p), what |-> "stopped"] >>
    BY <1>2, <2>1, StoppedTells
  <2>3. PICK S : got[p] \in Seq(S)
    BY <1>6, <2>1
  <2> QED
    BY <1>4, <2>1, <2>2, <2>3, AppendIsOne
<1>8. ASSUME NEW p \in Peer \ Owed(d)
      PROVE  c.got[p] = got[p]
  <2>1. p \in Peer /\ p \notin Owed(d) /\ r.address = address
    BY <1>2
  <2>2. Stopped(r, cmd_list[d], p) = <<>>
    BY <2>1, StoppedTells
  <2>3. PICK S : got[p] \in Seq(S)
    BY <1>6
  <2> QED
    BY <1>4, <2>2, <2>3, ConcatEmptySeq
<1>9. GivenUp(c, d)
  BY <1>3, <1>4, <1>7, <1>8 DEF GivenUp
<1> QED
  BY <1>9 DEF c, r, Reaped

(* An answer is handed on, or a builder that has ended is forgotten. *)
LEMMA PipeReads ==
  ASSUME IInv, NEW d \in Device, Readable(State, d), pc # "exited",
         waits.peer \notin Peer,
         Become(child_read_proc([State EXCEPT !.pc = "dispatch", !.waits = NoWait], d))
  PROVE  Pops(d) \/ Loses(d)
<1> DEFINE s == [State EXCEPT !.pc = "dispatch", !.waits = NoWait]
           list == cmd_list[d]
<1> DEFINE Fields == {"pc", "waits", "child_pid", "cmd_list", "address", "blocked",
            "p2c", "c2p", "builder", "got", "forks"}
<1>1. /\ DOMAIN s = Fields
      /\ s.pc = "dispatch" /\ s.waits = NoWait /\ s.child_pid = child_pid
      /\ s.cmd_list = cmd_list /\ s.address = address /\ s.blocked = blocked
      /\ s.p2c = p2c_pipe /\ s.c2p = c2p_pipe /\ s.builder = builder
      /\ s.got = got /\ s.forks = forks
  BY DEF State
<1>2. Become(child_read_proc(s, d))
  OBVIOUS
<1> HIDE DEF s
<1>3. CASE c2p_pipe[d] = <<>>
  <2> DEFINE c == clean_up_child_process_pipes(Reaped(s, d), d)
  <2>1. Become(c)
    BY <1>1, <1>2, <1>3 DEF child_read_proc
  <2>2. GivenUp(c, d)
    <3>1. s = [State EXCEPT !.pc = "dispatch", !.waits = NoWait]
      BY DEF s
    <3> QED
      BY <3>1, CleansUp
  <2> HIDE DEF c
  <2>3. Told(Owed(d) \cup ({waits.peer} \cap Peer))
    <3>1. Owed(d) \cup ({waits.peer} \cap Peer) = Owed(d) /\ got' = c.got
      BY <2>1 DEF Become
    <3> QED
      BY <2>2, <3>1 DEF Told, GivenUp
  <2> QED
    BY <2>1, <2>2, <2>3 DEF Loses, Become, GivenUp
<1>4. CASE c2p_pipe[d] # <<>>
  <2>1. list # <<>> /\ c2p_pipe[d][1].request = list[1].io_cmd.request
        /\ c2p_pipe[d] \in Seq(Answers) /\ list \in Seq(Entries)
    BY <1>4 DEF IInv, Books, TypeOK
  <2>2. Head(list) = list[1] /\ Head(c2p_pipe[d]) = c2p_pipe[d][1]
    BY <1>4, <2>1
  <2> DEFINE a == list[1].client
             p == list[1].io_cmd.request.peer
             e == [to |-> c2p_pipe[d][1].request, what |-> c2p_pipe[d][1].arg]
             told == [q \in Peer |-> IF q \in Owner(s, a) THEN Append(got[q], e)
                                     ELSE got[q]]
             r == [s EXCEPT !.c2p = [c2p_pipe EXCEPT ![d] = Tail(@)], !.got = told,
                            !.blocked = blocked \ {a},
                            !.cmd_list = [cmd_list EXCEPT ![d] = Tail(@)]]
  <2>3. child_read_proc(s, d) =
          IF Tail(list) = <<>> THEN r
          ELSE send_manager_command_now(r, d, list[2].io_cmd)
    <3>1. Owner([s EXCEPT !.c2p[d] = Tail(@)], a) = Owner(s, a)
      BY <1>1 DEF Owner
    <3> QED
      BY <1>1, <1>4, <2>1, <2>2, <3>1
         DEF child_read_proc, ReplyTo, unblockClient
  <2>4. /\ DOMAIN r = Fields
        /\ r.pc = "dispatch" /\ r.waits = NoWait /\ r.child_pid = child_pid
        /\ r.address = address /\ r.p2c = p2c_pipe /\ r.builder = builder
        /\ r.forks = forks /\ r.got = told /\ r.blocked = blocked \ {a}
        /\ r.cmd_list = [cmd_list EXCEPT ![d] = Tail(@)]
        /\ r.c2p = [c2p_pipe EXCEPT ![d] = Tail(@)]
    BY <1>1
  <2> HIDE DEF r, told, e, a, p
  <2>5. got' = told
    BY <1>2, <2>3, <2>4 DEF Become, send_manager_command_now
  <2>6. Told(IF a = NULL THEN {} ELSE {p})
    <3>1. 1 \in DOMAIN cmd_list[d]
      BY <2>1
    <3>2. p \in Peer
      <4>1. list[1] \in Entries
        BY <2>1
      <4> QED
        BY <4>1 DEF Entries, IoCmds, Requests, p
    <3>3. a = address[p] /\ list[1].io_cmd.request = Request(p)
      <4>1. list[1].io_cmd.request \in Requests
        <5>1. list[1] \in Entries
          BY <2>1
        <5> QED
          BY <5>1 DEF Entries, IoCmds
      <4>2. list[1].io_cmd.request.n = asked[p] /\ a = address[p]
        BY <3>1, SMTT(30) DEF IInv, Waiting, a, p
      <4> HIDE DEF list
      <4> QED
        BY <4>1, <4>2 DEF Request, Requests, p
    <3>4. Owner(s, a) = IF a = NULL THEN {} ELSE {p}
      <4>1. \A q \in Peer : address[p] = address[q] /\ address[p] # NULL => p = q
        BY <3>2 DEF IInv, Lines
      <4>2. s.address = address
        BY <1>1
      <4> QED
        BY <3>2, <3>3, <4>1, <4>2 DEF Owner
    <3>5. e = [to |-> Request(p), what |-> c2p_pipe[d][1].arg]
      BY <2>1, <3>3 DEF e
    <3>6. \A q \in Peer : got'[q] = IF q \in Owner(s, a) THEN Append(got[q], e)
                                    ELSE got[q]
      BY <2>5 DEF told
    <3>7. DOMAIN got' = Peer
      BY <2>5 DEF told
    <3> HIDE DEF list
    <3> QED
      BY <3>2, <3>4, <3>5, <3>6, <3>7 DEF Told
  <2>7. /\ cmd_list' = [cmd_list EXCEPT ![d] = Tail(@)]
        /\ c2p_pipe' = [c2p_pipe EXCEPT ![d] = Tail(@)]
        /\ p2c_pipe' = IF Tail(cmd_list[d]) # <<>> /\ Alive(builder[d])
                       THEN [p2c_pipe EXCEPT ![d] = Append(@, cmd_list[d][2].io_cmd)]
                       ELSE p2c_pipe
        /\ blocked' = blocked \ {a}
        /\ pc' = "dispatch" /\ waits' = NoWait
        /\ UNCHANGED <<child_pid, address, builder, forks>>
    BY <1>2, <2>3, <2>4, ZenonT(60) DEF Become, send_manager_command_now
  <2> QED
    BY <1>4, <2>1, <2>6, <2>7 DEF Pops, a, p
<1> QED
  BY <1>3, <1>4

(* stop_builder_command goes on when the builder has ended. *)
LEMMA StopReturns ==
  ASSUME IInv, Returns, waits.peer # Nobody
  PROVE  waits.device \in Device /\ waits.peer \in Peer /\ Loses(waits.device)
<1> DEFINE d == waits.device
           p == waits.peer
           s == [State EXCEPT !.pc = "dispatch", !.waits = NoWait]
           c == clean_up_child_process_pipes(Reaped(s, d), d)
<1>1. Become(Reply(c, p, "OK")) /\ pc = "waits"
  BY DEF Returns
<1>2. d \in Device /\ p \in Peer /\ address[p] # NULL
  BY <1>1 DEF IInv, TypeOK, Lines
<1>3. p \notin Owed(d)
  BY <1>2 DEF IInv, Waiting, Owed
<1> HIDE DEF s, c, d, p
<1>4. GivenUp(c, d)
  <2>1. s = [State EXCEPT !.pc = "dispatch", !.waits = NoWait]
    BY DEF s
  <2> QED
    BY <1>2, <2>1, CleansUp DEF c
<1>5. /\ DOMAIN c = {"pc", "waits", "child_pid", "cmd_list", "address", "blocked",
                     "p2c", "c2p", "builder", "got", "forks"}
      /\ c.address = address /\ DOMAIN c.got = Peer
  BY <1>4 DEF GivenUp
<1>6. /\ \A q \in Owed(d) :
            c.got[q] = Append(got[q], [to |-> Request(q), what |-> "stopped"])
      /\ \A q \in Peer \ Owed(d) : c.got[q] = got[q]
  BY <1>4 DEF GivenUp
<1>7. Owner(c, c.address[p]) = {p}
  <2>1. \A q \in Peer : address[p] = address[q] /\ address[p] # NULL => p = q
    BY <1>2 DEF IInv, Lines
  <2> QED
    BY <1>2, <1>5, <2>1 DEF Owner
<1> DEFINE told == [q \in Peer |->
             IF q = p THEN Append(c.got[q], [to |-> Request(p), what |-> "OK"])
             ELSE c.got[q]]
<1>8. Reply(c, p, "OK") = [c EXCEPT !.got = told]
  BY <1>5, <1>7 DEF Reply, ReplyTo
<1>9. got' = told
  BY <1>1, <1>5, <1>8 DEF Become
<1>10. Told(Owed(d) \cup ({waits.peer} \cap Peer))
  <2>1. {waits.peer} \cap Peer = {p}
    BY <1>2 DEF p
  <2>2. got'[p] = Append(got[p], [to |-> Request(p), what |-> "OK"])
    BY <1>2, <1>3, <1>6, <1>9
  <2>3. \A q \in Owed(d) :
          got'[q] = Append(got[q], [to |-> Request(q), what |-> "stopped"])
    BY <1>3, <1>6, <1>9 DEF Owed
  <2>4. \A q \in Peer \ (Owed(d) \cup {p}) : got'[q] = got[q]
    BY <1>6, <1>9
  <2>5. DOMAIN got' = Peer
    BY <1>9
  <2> QED
    BY <2>1, <2>2, <2>3, <2>4, <2>5 DEF Told
<1>11. /\ child_pid' = c.child_pid /\ cmd_list' = c.cmd_list /\ p2c_pipe' = c.p2c
       /\ c2p_pipe' = c.c2p /\ blocked' = c.blocked /\ pc' = c.pc
       /\ waits' = c.waits /\ address' = c.address /\ forks' = c.forks
       /\ builder' = c.builder
  BY <1>1, <1>5, <1>8 DEF Become
<1>12. Loses(d)
  BY <1>4, <1>10, <1>11 DEF Loses, GivenUp
<1> QED
  BY <1>2, <1>12 DEF d, p

(* freeClient, for a client that waits alone or does not wait. *)
Frees(p) ==
  /\ pc' = "free"
  /\ address' = [address EXCEPT ![p] = NULL]
  /\ blocked' = blocked \ {address[p]}
  /\ \A d \in Device : \A i \in DOMAIN cmd_list[d] :
       cmd_list[d][i].client = address[p] => Len(cmd_list[d]) = 1
  /\ cmd_list' = [d \in Device |-> cmd_list'[d]]
  /\ \A d \in Device : cmd_list'[d] =
       IF cmd_list[d] # <<>> /\ cmd_list[d][1].client = address[p]
         THEN [cmd_list[d] EXCEPT ![1] = [@ EXCEPT !.client = NULL]] ELSE cmd_list[d]
  /\ UNCHANGED <<waits, child_pid, p2c_pipe, c2p_pipe, builder, forks, got>>

LEMMA FreeClientRuns ==
  ASSUME IInv, LeavesAlone, NEW p \in Peer, FreeClient(p)
  PROVE  Frees(p)
<1> DEFINE a == address[p]
           s == freeClient(State, p)
           first(d) == cmd_list[d][1].client
           busy == {d \in Device : child_pid[d] # 0 /\ cmd_list[d] # <<>>}
<1>1. /\ Become([s EXCEPT !.pc = IF @ = "crashed" THEN "crashed" ELSE "free"])
      /\ a \in to_close /\ pc \in {"loop", "free"}
  BY DEF FreeClient, Closing
<1>2. a \in Addr /\ a # NULL
  BY <1>1, ZookeeperAssumption DEF IInv, TypeOK
<1>3. \A d \in Device : cmd_list[d] # <<>> => child_pid[d] # 0
  BY DEF IInv, Books
<1>4. \A d \in Device : cmd_list[d] \in Seq(Entries)
  BY DEF IInv, TypeOK
<1>5. a \notin blocked =>
        \A d \in Device : \A i \in DOMAIN cmd_list[d] : cmd_list[d][i].client # a
  BY <1>2 DEF IInv, Waiting
<1>6. a \in blocked =>
        \A d \in Device :
          /\ cmd_list[d] # <<>> => first(d) # NULL
          /\ \A i \in DOMAIN cmd_list[d] :
               cmd_list[d][i].client = a => Len(cmd_list[d]) = 1
  BY <1>1 DEF LeavesAlone
<1>7. \A d \in Device : cmd_list[d] # <<>> => 1 \in DOMAIN cmd_list[d]
  BY <1>4
<1> DEFINE list == [d \in Device |->
             IF d \in busy /\ first(d) = a
               THEN [cmd_list[d] EXCEPT ![1].client = NULL] ELSE cmd_list[d]]
<1>8. /\ s.pc # "crashed"
      /\ s.waits = waits /\ s.child_pid = child_pid
      /\ s.address = [address EXCEPT ![p] = NULL] /\ s.blocked = blocked \ {a}
      /\ s.p2c = p2c_pipe /\ s.c2p = c2p_pipe /\ s.builder = builder
      /\ s.got = got /\ s.forks = forks /\ s.cmd_list = list
      /\ DOMAIN s = {"pc", "waits", "child_pid", "cmd_list", "address", "blocked",
                     "p2c", "c2p", "builder", "got", "forks"}
  <2>1. CASE a \notin blocked
    <3>1. list = cmd_list
      <4>1. cmd_list = [d \in Device |-> cmd_list[d]]
        BY DEF IInv, TypeOK
      <4>2. \A d \in Device : list[d] = cmd_list[d]
        BY <1>5, <1>7, <2>1
      <4>3. list = [d \in Device |-> list[d]]
        OBVIOUS
      <4> HIDE DEF list
      <4> QED
        BY <4>1, <4>2, <4>3
    <3>2. s = [State EXCEPT !.address[p] = NULL]
      BY <2>1 DEF freeClient, State
    <3>3. blocked \ {a} = blocked
      BY <2>1
    <3> HIDE DEF list, s
    <3> QED
      BY <1>1, <3>1, <3>2, <3>3 DEF State
  <2>2. CASE a \in blocked
    <3> DEFINE r == clean_up_disconnected_client(State, a)
    <3>1. ~ \E d \in busy : \/ first(d) = NULL
                            \/ first(d) = a /\ Len(cmd_list[d]) > 1
      <4>1. ASSUME NEW d \in Device, cmd_list[d] # <<>>
            PROVE  first(d) # NULL /\ (first(d) = a => ~ (Len(cmd_list[d]) > 1))
        <5>1. 1 \in DOMAIN cmd_list[d]
          BY <1>7, <4>1
        <5>2. first(d) # NULL /\ (first(d) = a => Len(cmd_list[d]) = 1)
          BY <1>6, <2>2, <4>1, <5>1
        <5>3. ~ (1 > 1)
          OBVIOUS
        <5> HIDE DEF first, a
        <5> QED
          BY <5>2, <5>3
      <4> QED
        BY <4>1
    <3>2. r = [State EXCEPT !.pc = pc, !.cmd_list = list]
      BY <3>1 DEF clean_up_disconnected_client, State
    <3>3. /\ DOMAIN r = DOMAIN State
          /\ r.pc = pc /\ r.waits = waits /\ r.child_pid = child_pid
          /\ r.address = address /\ r.blocked = blocked
          /\ r.p2c = p2c_pipe /\ r.c2p = c2p_pipe /\ r.builder = builder
          /\ r.got = got /\ r.forks = forks /\ r.cmd_list = list
      <4> HIDE DEF list, r
      <4> QED
        BY <3>2 DEF State
    <3>4. s = [[r EXCEPT !.blocked = @ \ {a}] EXCEPT !.address[p] = NULL]
      <4>1. State.blocked = blocked /\ State.address = address
        BY DEF State
      <4> QED
        BY <2>2, <4>1 DEF freeClient, unblockClient
    <3> HIDE DEF list, r, s
    <3> QED
      BY <1>1, <3>3, <3>4 DEF State
  <2> QED
    BY <2>1, <2>2
<1> HIDE DEF s
<1>9. cmd_list' = list
  BY <1>1, <1>8 DEF Become
<1>10. ASSUME NEW d \in Device
       PROVE  cmd_list'[d] =
         IF cmd_list[d] # <<>> /\ cmd_list[d][1].client = address[p]
           THEN [cmd_list[d] EXCEPT ![1] = [@ EXCEPT !.client = NULL]] ELSE cmd_list[d]
  BY <1>3, <1>9
<1>11. \A d \in Device : \A i \in DOMAIN cmd_list[d] :
         cmd_list[d][i].client = a => Len(cmd_list[d]) = 1
  BY <1>5, <1>6
<1>12. /\ pc' = "free" /\ address' = [address EXCEPT ![p] = NULL]
       /\ blocked' = blocked \ {a}
       /\ UNCHANGED <<waits, child_pid, p2c_pipe, c2p_pipe, builder, forks, got>>
  <2> HIDE DEF list
  <2> QED
    BY <1>1, <1>8 DEF Become
<1>13. cmd_list' = [d \in Device |-> cmd_list'[d]]
  BY <1>9
<1> HIDE DEF list
<1> QED
  BY <1>10, <1>11, <1>12, <1>13 DEF Frees

(* The copy looks at what there is to read, and there is nothing. *)
Passes(d) ==
  /\ builder[d].phase = "forked"
  /\ \E b \in Builders :
       /\ b.phase = "forked" /\ b.pid = builder[d].pid /\ b.term = builder[d].term
       /\ builder' = [builder EXCEPT ![d] = b]
  /\ UNCHANGED <<config, pc, fired, stop, waits, clients, pipes, forks, deaths,
                 peers, got>>

LEMMA TwinRunsOn ==
  ASSUME IInv, TwinsFindNothing, NEW d \in Device, Twin(d)
  PROVE  Passes(d)
<1>1. PICK x \in builder[d].fired :
        LET s == [State EXCEPT !.builder[d].fired = @ \ {x}]
        IN IF x \in Peer
             THEN /\ Become(IF wire[x] = <<>> THEN s
                            ELSE TwinRuns(s, d, x, Head(wire[x])))
                  /\ wire' = [wire EXCEPT ![x] = <<>>]
             ELSE /\ Knows(d, x) => Readable(State, x)
                  /\ Become(TwinReads(s, d, x))
                  /\ UNCHANGED wire
  BY DEF Twin
<1>2. /\ builder[d].phase = "forked"
      /\ UNCHANGED <<config, fired, stop, to_close, deaths, asked, line>>
  BY DEF Twin
<1>3. /\ builder \in [Device -> Builders] /\ builder[d] \in Builders
      /\ x \in Peer \cup Device
  <2>1. builder \in [Device -> Builders]
    BY DEF IInv, TypeOK
  <2>2. builder[d].fired \subseteq Peer \cup Device
    BY <2>1 DEF Builders
  <2> QED
    BY <2>1, <2>2
<1> DEFINE s == [State EXCEPT !.builder[d].fired = @ \ {x}]
           b == [builder[d] EXCEPT !.fired = @ \ {x}]
           c == [b EXCEPT !.child_pid[x] = 0, !.cmd_list[x] = <<>>]
<1>4. b \in Builders /\ b.phase = "forked" /\ b.pid = builder[d].pid
      /\ b.term = builder[d].term
  BY <1>2, <1>3 DEF Builders
<1>5. s = [State EXCEPT !.builder = [builder EXCEPT ![d] = b]]
  BY DEF State
<1>6. CASE x \in Peer
  <2>1. wire[x] = <<>>
    BY <1>2, <1>6 DEF TwinsFindNothing
  <2>2. Become(s) /\ wire' = [wire EXCEPT ![x] = <<>>]
    BY <1>1, <1>6, <2>1
  <2>3. wire' = wire
    BY <2>1, <2>2 DEF IInv, TypeOK
  <2>4. /\ builder' = [builder EXCEPT ![d] = b]
        /\ UNCHANGED <<pc, waits, child_pid, cmd_list, address, blocked, p2c_pipe,
                       c2p_pipe, got, forks>>
    <3> HIDE DEF b, s
    <3> QED
      BY <1>5, <2>2 DEF Become, State
  <2> HIDE DEF b, s
  <2> QED
    BY <1>2, <1>4, <2>3, <2>4 DEF Passes, clients, pipes, peers
<1>7. CASE x \notin Peer
  <2>1. x \in Device
    BY <1>3, <1>7
  <2>2. Knows(d, x) => c2p_pipe[x] = <<>>
    BY <1>2, <2>1 DEF TwinsFindNothing
  <2>3. Become(TwinReads(s, d, x)) /\ UNCHANGED wire
    BY <1>1, <1>7
  <2>4. TwinReads(s, d, x) =
          [s EXCEPT !.builder[d].child_pid[x] = 0, !.builder[d].cmd_list[x] = <<>>]
    <3>1. s.c2p = c2p_pipe
      BY DEF State
    <3> HIDE DEF s
    <3> QED
      BY <2>2, <3>1 DEF TwinReads
  <2>5. c \in Builders /\ c.phase = "forked" /\ c.pid = builder[d].pid
        /\ c.term = builder[d].term
    <3>1. b.child_pid \in [Device -> Nat] /\ b.cmd_list \in [Device -> Seq(Entries)]
      BY <1>4 DEF Builders
    <3>2. /\ [b.child_pid EXCEPT ![x] = 0] \in [Device -> Nat]
          /\ [b.cmd_list EXCEPT ![x] = <<>>] \in [Device -> Seq(Entries)]
      BY SMTT(30), <2>1, <3>1
    <3> HIDE DEF b
    <3> QED
      BY <1>4, <3>2 DEF Builders
  <2>6. TwinReads(s, d, x) = [State EXCEPT !.builder = [builder EXCEPT ![d] = c]]
    <3> HIDE DEF b, s
    <3>1. s.builder = [builder EXCEPT ![d] = b] /\ s.builder[d] = b
      BY <1>3, <1>5 DEF State
    <3>2. [s.builder EXCEPT ![d].child_pid[x] = 0, ![d].cmd_list[x] = <<>>]
            = [builder EXCEPT ![d] = c]
      <4>1. builder = [e \in Device |-> builder[e]]
        BY <1>3
      <4>2. [builder EXCEPT ![d] = b]
              = [e \in Device |-> IF e = d THEN b ELSE builder[e]]
        BY <4>1
      <4> DEFINE B == [e \in Device |-> IF e = d THEN b ELSE builder[e]]
                 C == [B EXCEPT ![d].child_pid[x] = 0]
                 b1 == [b EXCEPT !.child_pid[x] = 0]
      <4>3. C = [e \in Device |-> IF e = d THEN b1 ELSE builder[e]]
        OBVIOUS
      <4>4. [C EXCEPT ![d].cmd_list[x] = <<>>]
              = [e \in Device |-> IF e = d THEN c ELSE builder[e]]
        <5>1. c = [b1 EXCEPT !.cmd_list[x] = <<>>]
          OBVIOUS
        <5> HIDE DEF b1, C, c
        <5> QED
          BY <4>3, <5>1
      <4>5. [builder EXCEPT ![d] = c]
              = [e \in Device |-> IF e = d THEN c ELSE builder[e]]
        <5> HIDE DEF c
        <5> QED
          BY <4>1
      <4> HIDE DEF c
      <4> QED
        BY <3>1, <4>2, <4>4, <4>5
    <3>3. [s EXCEPT !.builder[d].child_pid[x] = 0, !.builder[d].cmd_list[x] = <<>>]
            = [s EXCEPT !.builder =
                 [s.builder EXCEPT ![d].child_pid[x] = 0, ![d].cmd_list[x] = <<>>]]
      <4> DEFINE u == [s.builder EXCEPT ![d].child_pid[x] = 0]
                 s1 == [s EXCEPT !.builder[d].child_pid[x] = 0]
                 v == [u EXCEPT ![d].cmd_list[x] = <<>>]
                 s2 == [s1 EXCEPT !.builder[d].cmd_list[x] = <<>>]
      <4>1. s1 = [s EXCEPT !.builder = u] /\ "builder" \in DOMAIN s
        BY <1>5 DEF State
      <4> HIDE DEF u
      <4>2. s1.builder = u
        BY <4>1
      <4> HIDE DEF s1
      <4>3. s2 = [s1 EXCEPT !.builder = v]
        BY <4>2
      <4> HIDE DEF v
      <4>4. s2 = [s EXCEPT !.builder = v]
        BY <4>1, <4>3
      <4> QED
        BY <4>4 DEF s1, s2, u, v
    <3> HIDE DEF c
    <3> QED
      BY <1>5, <2>4, <3>2, <3>3, ZenonT(60) DEF State
  <2>7. /\ builder' = [builder EXCEPT ![d] = c]
        /\ UNCHANGED <<pc, waits, child_pid, cmd_list, address, blocked, p2c_pipe,
                       c2p_pipe, got, forks>>
    <3> HIDE DEF c, s
    <3> QED
      BY <2>3, <2>6 DEF Become, State
  <2> HIDE DEF b, s, c
  <2> QED
    BY <1>2, <2>3, <2>5, <2>7 DEF Passes, clients, pipes, peers
<1> QED
  BY <1>6, <1>7
-----------------------------------------------------------------------------
(* Every step keeps the invariant *)

LEMMA OneMore ==
  ASSUME NEW S, NEW q \in Seq(S), NEW e
  PROVE  /\ \E T : Append(q, e) \in Seq(T)
         /\ Len(Append(q, e)) = Len(q) + 1
         /\ DOMAIN Append(q, e) = 1 .. Len(q) + 1
         /\ \A i \in 1 .. Len(q) : Append(q, e)[i] = q[i]
         /\ Append(q, e)[Len(q) + 1] = e
<1> DEFINE T == S \cup {e}
<1>1. q \in Seq(T) /\ e \in T
  BY SeqMonotonic
<1> HIDE DEF T
<1>2. Append(q, e) \in Seq(T)
  BY <1>1
<1>3. /\ Len(Append(q, e)) = Len(q) + 1
      /\ DOMAIN Append(q, e) = 1 .. Len(q) + 1
      /\ \A i \in 1 .. Len(q) : Append(q, e)[i] = q[i]
      /\ Append(q, e)[Len(q) + 1] = e
  BY <1>1
<1> QED
  BY <1>2, <1>3

(* The kind of what peers were told. *)
Replied ==
  /\ DOMAIN got = Peer
  /\ \A p \in Peer : \A i \in DOMAIN got[p] : got[p][i].to \in Requests

(* What peers are told, in a step in which none of them asks. *)
LEMMA TellingIsRight ==
  ASSUME IInv, NEW P \in SUBSET Peer, Told(P), asked' = asked,
         \A p \in P : asked[p] = Len(got[p]) + 1 /\ wire'[p] = <<>> /\ waits'.peer # p,
         \A p \in Peer : wire'[p] = wire[p] \/ wire'[p] = <<>>,
         \A p \in Peer : waits'.peer = p =>
           /\ waits.peer = p \/ asked[p] = Len(got[p]) + 1
           /\ wire'[p] = <<>>
  PROVE  Asking' /\ AnswersAreOnesOwn' /\ Replied'
<1>1. ASSUME NEW p \in Peer
      PROVE  /\ \E S : got'[p] \in Seq(S)
             /\ asked'[p] \in {Len(got'[p]), Len(got'[p]) + 1}
             /\ Len(wire'[p]) <= 1
             /\ wire'[p] # <<>> => asked'[p] = Len(got'[p]) + 1 /\ waits'.peer # p
             /\ waits'.peer = p => asked'[p] = Len(got'[p]) + 1
             /\ \A i \in DOMAIN got'[p] :
                  got'[p][i].to = [peer |-> p, n |-> i] /\ got'[p][i].to \in Requests
  <2>1. /\ asked[p] \in {Len(got[p]), Len(got[p]) + 1}
        /\ Len(wire[p]) <= 1
        /\ wire[p] # <<>> => asked[p] = Len(got[p]) + 1 /\ waits.peer # p
        /\ waits.peer = p => asked[p] = Len(got[p]) + 1
        /\ \A i \in DOMAIN got[p] : got[p][i].to = [peer |-> p, n |-> i]
        /\ \A i \in DOMAIN got[p] : got[p][i].to \in Requests
    BY DEF IInv, Asking, AnswersAreOnesOwn, TypeOK
  <2>2. PICK S : got[p] \in Seq(S)
    BY DEF IInv, Asking
  <2>3. Len(wire'[p]) <= 1
    BY <2>1
  <2>4. CASE p \notin P
    <3>1. got'[p] = got[p]
      BY <2>4 DEF Told
    <3> QED
      BY <2>1, <2>2, <2>3, <3>1
  <2>5. CASE p \in P
    <3>1. PICK what :
            got'[p] = Append(got[p], [to |-> Request(p), what |-> what])
      BY <2>5 DEF Told
    <3> DEFINE e == [to |-> Request(p), what |-> what]
    <3>2. /\ \E T : got'[p] \in Seq(T)
          /\ Len(got'[p]) = Len(got[p]) + 1
          /\ DOMAIN got'[p] = 1 .. Len(got[p]) + 1
          /\ \A i \in 1 .. Len(got[p]) : got'[p][i] = got[p][i]
          /\ got'[p][Len(got[p]) + 1] = e
      <4> HIDE DEF e
      <4>1. got'[p] = Append(got[p], e)
        BY <3>1 DEF e
      <4> DEFINE q == got[p]
      <4>2. q \in Seq(S)
        BY <2>2
      <4> HIDE DEF q
      <4>3. /\ \E T : Append(q, e) \in Seq(T)
            /\ Len(Append(q, e)) = Len(q) + 1
            /\ DOMAIN Append(q, e) = 1 .. Len(q) + 1
            /\ \A i \in 1 .. Len(q) : Append(q, e)[i] = q[i]
            /\ Append(q, e)[Len(q) + 1] = e
        BY <4>2, OneMore, Zenon
      <4> QED
        BY <4>1, <4>3, Zenon DEF q
    <3>3. asked[p] = Len(got[p]) + 1 /\ Len(got[p]) \in Nat
          /\ DOMAIN got[p] = 1 .. Len(got[p])
      BY <2>2, <2>5
    <3>4. e.to = [peer |-> p, n |-> Len(got[p]) + 1] /\ e.to \in Requests
      BY <3>3 DEF Request, Requests
    <3> HIDE DEF e
    <3>5. ASSUME NEW i \in DOMAIN got'[p]
          PROVE  got'[p][i].to = [peer |-> p, n |-> i] /\ got'[p][i].to \in Requests
      <4>1. CASE i = Len(got[p]) + 1
        BY <3>2, <3>4, <4>1
      <4>2. CASE i # Len(got[p]) + 1
        <5>1. i \in DOMAIN got[p] /\ got'[p][i] = got[p][i]
          BY <3>2, <3>3, <4>2
        <5> QED
          BY <2>1, <5>1
      <4> QED
        BY <4>1, <4>2
    <3> QED
      BY <2>3, <2>5, <3>2, <3>3, <3>5
  <2> QED
    BY <2>4, <2>5
<1>2. DOMAIN got' = Peer
  BY DEF Told
<1>3. AnswersAreOnesOwn'
  BY <1>1 DEF AnswersAreOnesOwn
<1>4. Replied'
  BY <1>1, <1>2 DEF Replied
<1>5. Asking'
  BY <1>1 DEF Asking
<1> QED
  BY <1>3, <1>4, <1>5

(* What is known about the entry of a list. *)
LEMMA OfAnEntry ==
  ASSUME IInv, NEW d \in Device, NEW i \in DOMAIN cmd_list[d]
  PROVE  LET r == cmd_list[d][i].io_cmd.request
         IN /\ cmd_list[d][i] \in Entries
            /\ r \in Requests /\ r.peer \in Peer /\ r = Request(r.peer)
            /\ asked[r.peer] = Len(got[r.peer]) + 1
            /\ wire[r.peer] = <<>> /\ waits.peer # r.peer
            /\ cmd_list[d][i].client = address[r.peer]
<1>1. cmd_list[d] \in Seq(Entries)
  BY DEF IInv, TypeOK
<1>2. cmd_list[d][i] \in Entries
  BY <1>1, ElementOfSeq
<1>3. cmd_list[d][i].io_cmd.request \in Requests
  BY <1>2 DEF Entries, IoCmds
<1> DEFINE r == cmd_list[d][i].io_cmd.request
<1>4. /\ r.n = asked[r.peer] /\ asked[r.peer] = Len(got[r.peer]) + 1
      /\ wire[r.peer] = <<>> /\ waits.peer # r.peer
      /\ cmd_list[d][i].client = address[r.peer]
  BY DEF IInv, Waiting
<1> HIDE DEF r
<1>5. r \in Requests
  BY <1>3 DEF r
<1>6. r.peer \in Peer /\ r = Request(r.peer)
  BY <1>4, <1>5 DEF Request, Requests
<1> QED
  BY <1>2, <1>4, <1>5, <1>6 DEF r

(* Entries that lead to one client are one. *)
LEMMA OneEntryEach ==
  ASSUME IInv, NEW d \in Device, NEW e \in Device,
         NEW i \in DOMAIN cmd_list[d], NEW j \in DOMAIN cmd_list[e],
         \/ cmd_list[d][i].client # NULL /\ cmd_list[d][i].client = cmd_list[e][j].client
         \/ cmd_list[d][i].io_cmd.request.peer = cmd_list[e][j].io_cmd.request.peer
  PROVE  d = e /\ i = j
<1>1. /\ cmd_list[d][i].io_cmd.request.peer \in Peer
      /\ cmd_list[e][j].io_cmd.request.peer \in Peer
      /\ cmd_list[d][i].client = address[cmd_list[d][i].io_cmd.request.peer]
      /\ cmd_list[e][j].client = address[cmd_list[e][j].io_cmd.request.peer]
  BY OfAnEntry
<1>2. cmd_list[d][i].io_cmd.request.peer = cmd_list[e][j].io_cmd.request.peer
  BY <1>1 DEF IInv, Lines
<1> QED
  BY <1>2 DEF IInv, Waiting

(* The first k entries of a list are dealt with. *)
LEMMA ListShrinks ==
  ASSUME IInv, NEW d \in Device, NEW k \in Nat, k <= Len(cmd_list[d]),
         \A e \in Device : e # d => cmd_list'[e] = cmd_list[e],
         DOMAIN cmd_list'[d] = 1 .. Len(cmd_list[d]) - k,
         \A i \in 1 .. Len(cmd_list[d]) - k : cmd_list'[d][i] = cmd_list[d][i + k],
         blocked' = blocked \ {cmd_list[d][i].client : i \in 1 .. k},
         address' = address, asked' = asked,
         \A p \in Peer : wire'[p] = wire[p] \/ wire'[p] = <<>>,
         waits'.peer \notin Peer,
         NEW P \in SUBSET Peer, Told(P),
         \A p \in P : \/ p = waits.peer
                      \/ \E i \in 1 .. k : cmd_list[d][i].io_cmd.request.peer = p
  PROVE  Waiting'
<1> DEFINE From(e, i) == IF e = d THEN i + k ELSE i
<1>0. DOMAIN cmd_list[d] = 1 .. Len(cmd_list[d]) /\ Len(cmd_list[d]) \in Nat
  BY DEF IInv, TypeOK
<1>1. ASSUME NEW e \in Device, NEW i \in DOMAIN cmd_list'[e]
      PROVE  /\ From(e, i) \in DOMAIN cmd_list[e]
             /\ cmd_list'[e][i] = cmd_list[e][From(e, i)]
             /\ e = d => From(e, i) > k
  <2>1. CASE e = d
    <3>1. i \in 1 .. Len(cmd_list[d]) - k
      BY <2>1
    <3>2. i + k \in 1 .. Len(cmd_list[d]) /\ i + k > k
      BY <1>0, <3>1
    <3>3. cmd_list'[d][i] = cmd_list[d][i + k]
      BY <3>1
    <3> QED
      BY <1>0, <2>1, <3>2, <3>3
  <2>2. CASE e # d
    BY <2>2
  <2> QED
    BY <2>1, <2>2
<1>2. ASSUME NEW e \in Device, NEW i \in DOMAIN cmd_list'[e]
      PROVE  LET r == cmd_list'[e][i].io_cmd.request
             IN /\ r.n = asked'[r.peer] /\ asked'[r.peer] = Len(got'[r.peer]) + 1
                /\ wire'[r.peer] = <<>> /\ waits'.peer # r.peer
                /\ cmd_list'[e][i].client = address'[r.peer]
  <2> DEFINE j == From(e, i)
             r == cmd_list[e][j].io_cmd.request
  <2>1. j \in DOMAIN cmd_list[e] /\ cmd_list'[e][i] = cmd_list[e][j]
        /\ (e = d => j > k)
    BY <1>1
  <2> HIDE DEF j
  <2>2. /\ r.peer \in Peer /\ r = Request(r.peer)
        /\ asked[r.peer] = Len(got[r.peer]) + 1
        /\ wire[r.peer] = <<>> /\ waits.peer # r.peer
        /\ cmd_list[e][j].client = address[r.peer]
    BY <2>1, OfAnEntry
  <2>3. r.peer \notin P
    <3> SUFFICES ASSUME NEW l \in 1 .. k,
                        cmd_list[d][l].io_cmd.request.peer = r.peer
                 PROVE  FALSE
      BY <2>2
    <3>1. l \in DOMAIN cmd_list[d]
      BY <1>0
    <3>2. d = e /\ l = j
      BY <2>1, <3>1, OneEntryEach
    <3> QED
      BY <2>1, <3>2
  <2>4. got'[r.peer] = got[r.peer]
    BY <2>2, <2>3 DEF Told
  <2>5. r.n = asked[r.peer]
    BY <2>2 DEF Request
  <2> QED
    BY <2>1, <2>2, <2>4, <2>5
<1>3. ASSUME NEW e \in Device, NEW f \in Device,
             NEW i \in DOMAIN cmd_list'[e], NEW j \in DOMAIN cmd_list'[f],
             cmd_list'[e][i].io_cmd.request.peer = cmd_list'[f][j].io_cmd.request.peer
      PROVE  e = f /\ i = j
  <2>1. e = f /\ From(e, i) = From(f, j)
    <3> HIDE DEF From
    <3>1. /\ From(e, i) \in DOMAIN cmd_list[e]
          /\ cmd_list'[e][i] = cmd_list[e][From(e, i)]
          /\ From(f, j) \in DOMAIN cmd_list[f]
          /\ cmd_list'[f][j] = cmd_list[f][From(f, j)]
      BY <1>1
    <3> QED
      BY <1>3, <3>1, OneEntryEach
  <2>2. e = d => i \in Int /\ j \in Int
    BY <2>1
  <2> QED
    BY <2>1, <2>2
<1>4. ASSUME NEW a \in Addr
      PROVE  a \in blocked' <=>
               \E e \in Device : \E i \in DOMAIN cmd_list'[e] : cmd_list'[e][i].client = a
  <2>1. ASSUME a \in blocked'
        PROVE  \E e \in Device : \E i \in DOMAIN cmd_list'[e] : cmd_list'[e][i].client = a
    <3>e. PICK e \in Device : \E i \in DOMAIN cmd_list[e] : cmd_list[e][i].client = a
      BY <2>1 DEF IInv, Waiting
    <3>1. PICK i \in DOMAIN cmd_list[e] : cmd_list[e][i].client = a
      BY <3>e
    <3>2. CASE e # d
      BY <3>1, <3>2
    <3>3. CASE e = d
      <4>1. i \in 1 .. Len(cmd_list[d]) /\ i \notin 1 .. k
        BY <1>0, <2>1, <3>1, <3>3
      <4>2. i - k \in 1 .. Len(cmd_list[d]) - k /\ (i - k) + k = i
        BY <1>0, <4>1
      <4>3. i - k \in DOMAIN cmd_list'[d] /\ cmd_list'[d][i - k] = cmd_list[d][i]
        BY <4>2
      <4> QED
        BY <3>1, <3>3, <4>3
    <3> QED
      BY <3>2, <3>3
  <2>2. ASSUME NEW e \in Device, NEW i \in DOMAIN cmd_list'[e],
               cmd_list'[e][i].client = a
        PROVE  a \in blocked'
    <3> DEFINE j == From(e, i)
    <3>1. j \in DOMAIN cmd_list[e] /\ cmd_list'[e][i] = cmd_list[e][j]
          /\ (e = d => j > k)
      BY <1>1
    <3> HIDE DEF j
    <3>2. a \in blocked
      BY <2>2, <3>1 DEF IInv, Waiting
    <3>3. ASSUME NEW l \in 1 .. k, cmd_list[d][l].client = a
          PROVE  FALSE
      <4>1. l \in DOMAIN cmd_list[d] /\ a # NULL
        BY <1>0, ZookeeperAssumption
      <4>2. d = e /\ l = j
        BY <2>2, <3>1, <3>3, <4>1, OneEntryEach
      <4> QED
        BY <3>1, <4>2
    <3> QED
      BY <3>2, <3>3
  <2> QED
    BY <2>1, <2>2
<1> QED
  BY <1>2, <1>3, <1>4 DEF Waiting

(* An answer or the end of a builder is dealt with. *)
Untouched == UNCHANGED <<config, stop, to_close, deaths, peers>> /\ fired' \subseteq fired

LEMMA BooksElsewhere ==
  ASSUME NEW e, Books(e), builder'[e] = builder[e], child_pid'[e] = child_pid[e],
         cmd_list'[e] = cmd_list[e], c2p_pipe'[e] = c2p_pipe[e],
         p2c_pipe'[e] = p2c_pipe[e], pc' # "exited" => pc # "exited"
  PROVE  Books(e)'
BY DEF Books, Alive

LEMMA OfATail ==
  ASSUME NEW S, NEW q \in Seq(S), q # <<>>
  PROVE  /\ Len(q) \in Nat /\ Len(q) >= 1 /\ DOMAIN q = 1 .. Len(q)
         /\ Tail(q) \in Seq(S) /\ Len(Tail(q)) = Len(q) - 1
         /\ DOMAIN Tail(q) = 1 .. Len(q) - 1
         /\ \A i \in 1 .. Len(q) - 1 : Tail(q)[i] = q[i + 1]
         /\ Tail(q) = <<>> <=> Len(q) = 1
<1>1. /\ Len(q) \in Nat /\ Len(q) >= 1 /\ DOMAIN q = 1 .. Len(q)
      /\ Tail(q) \in Seq(S) /\ Len(Tail(q)) = Len(q) - 1
  OBVIOUS
<1>2. /\ DOMAIN Tail(q) = 1 .. Len(q) - 1
      /\ \A i \in 1 .. Len(q) - 1 : Tail(q)[i] = q[i + 1]
  BY <1>1
<1>3. Tail(q) = <<>> <=> Len(Tail(q)) = 0
  BY <1>1, EmptySeq
<1> QED
  BY <1>1, <1>2, <1>3

LEMMA PopsKeeps ==
  ASSUME IInv, NEW d \in Device, Pops(d), Untouched, waits.peer \notin Peer,
         pc # "exited"
  PROVE  IInv'
<1> DEFINE list == cmd_list[d]
           P == IF list[1].client = NULL THEN {} ELSE {list[1].io_cmd.request.peer}
<1>1. /\ list # <<>> /\ c2p_pipe[d] # <<>> /\ Told(P)
      /\ cmd_list' = [cmd_list EXCEPT ![d] = Tail(@)]
      /\ c2p_pipe' = [c2p_pipe EXCEPT ![d] = Tail(@)]
      /\ p2c_pipe' = IF Tail(list) # <<>> /\ Alive(builder[d])
                     THEN [p2c_pipe EXCEPT ![d] = Append(@, list[2].io_cmd)]
                     ELSE p2c_pipe
      /\ blocked' = blocked \ {list[1].client}
      /\ pc' = "dispatch" /\ waits' = NoWait
      /\ UNCHANGED <<child_pid, address, builder, forks>>
  BY DEF Pops
<1>2. /\ list \in Seq(Entries) /\ cmd_list \in [Device -> Seq(Entries)]
      /\ c2p_pipe \in [Device -> Seq(Answers)] /\ p2c_pipe \in [Device -> Seq(IoCmds)]
  BY DEF IInv, TypeOK
<1>3. /\ Len(list) \in Nat /\ Len(list) >= 1 /\ DOMAIN list = 1 .. Len(list)
      /\ Tail(list) \in Seq(Entries) /\ Len(Tail(list)) = Len(list) - 1
      /\ DOMAIN Tail(list) = 1 .. Len(list) - 1
      /\ \A i \in 1 .. Len(list) - 1 : Tail(list)[i] = list[i + 1]
      /\ Tail(list) = <<>> <=> Len(list) = 1
  BY <1>1, <1>2, OfATail
<1>4. waits'.peer \notin Peer
  BY <1>1, ZookeeperAssumption DEF NoWait
<1>5. cmd_list'[d] = Tail(list) /\ \A e \in Device : e # d => cmd_list'[e] = cmd_list[e]
  BY <1>1, <1>2
<1>6. UNCHANGED <<config, stop, to_close, deaths, asked, wire, line>> /\ fired' \subseteq fired
  BY DEF Untouched, peers
<1>7. P \in SUBSET Peer /\ \A p \in P : p = list[1].io_cmd.request.peer
  <2>1. list[1].io_cmd.request.peer \in Peer
    BY <1>3, OfAnEntry
  <2> QED
    BY <2>1
<1> HIDE DEF P, list
<1>8. Asking' /\ AnswersAreOnesOwn' /\ Replied'
  <2>1. ASSUME NEW p \in P
        PROVE  asked[p] = Len(got[p]) + 1 /\ wire'[p] = <<>>
    <3>1. 1 \in DOMAIN cmd_list[d] /\ p = cmd_list[d][1].io_cmd.request.peer
      BY <1>3, <1>7 DEF list
    <3> QED
      BY <1>6, <3>1, OfAnEntry
  <2> QED
    BY <1>1, <1>4, <1>6, <1>7, <2>1, TellingIsRight
<1>9. Waiting'
  <2>1. blocked' = blocked \ {cmd_list[d][i].client : i \in 1 .. 1}
    BY <1>1 DEF list
  <2>2. 1 \in Nat /\ 1 <= Len(cmd_list[d])
    BY <1>3 DEF list
  <2>3. DOMAIN cmd_list'[d] = 1 .. Len(cmd_list[d]) - 1
        /\ \A i \in 1 .. Len(cmd_list[d]) - 1 : cmd_list'[d][i] = cmd_list[d][i + 1]
    BY <1>3, <1>5 DEF list
  <2>4. \A p \in P : \/ p = waits.peer
                     \/ \E i \in 1 .. 1 : cmd_list[d][i].io_cmd.request.peer = p
    BY <1>7 DEF list
  <2>5. address' = address /\ asked' = asked /\ wire' = wire
    BY <1>1, <1>6
  <2> QED
    BY <1>1, <1>4, <1>5, <1>7, <2>1, <2>2, <2>3, <2>4, <2>5, ListShrinks
<1>10. Books(d)'
  <2>1. /\ Len(c2p_pipe[d]) = 1
        /\ Alive(builder[d]) => p2c_pipe[d] = <<>> /\ child_pid[d] = builder[d].pid
        /\ builder[d].phase # "none" => builder[d].pid # 0
        /\ child_pid[d] # 0 => builder[d].phase # "none"
        /\ child_pid[d] # 0
    BY <1>1 DEF IInv, Books, list
  <2>2. c2p_pipe'[d] = <<>>
    <3>1. c2p_pipe'[d] = Tail(c2p_pipe[d]) /\ c2p_pipe[d] \in Seq(Answers)
      BY <1>1, <1>2
    <3> QED
      BY <1>1, <2>1, <3>1, OfATail
  <2>3. UNCHANGED <<child_pid, builder>>
    BY <1>1
  <2>4. Alive(builder[d]) =>
          p2c_pipe'[d] = IF Tail(list) = <<>> THEN <<>> ELSE << list[2].io_cmd >>
    BY <1>1, <1>2, <2>1
  <2>5. Alive(builder[d]) =>
          /\ cmd_list'[d] = <<>> => p2c_pipe'[d] = <<>>
          /\ cmd_list'[d] # <<>> =>
               /\ Len(p2c_pipe'[d]) = 1
               /\ p2c_pipe'[d][1].request = cmd_list'[d][1].io_cmd.request
    <3>1. CASE Tail(list) = <<>>
      BY <1>5, <2>4, <3>1
    <3>2. CASE Tail(list) # <<>>
      <4>1. Tail(list)[1] = list[2]
        BY <1>3, <3>2
      <4>2. ASSUME Alive(builder[d])
            PROVE  p2c_pipe'[d] = << list[2].io_cmd >>
        BY <2>4, <3>2, <4>2
      <4>3. Alive(builder[d]) =>
              /\ Len(p2c_pipe'[d]) = 1
              /\ p2c_pipe'[d][1] = list[2].io_cmd
        BY <4>2
      <4> QED
        BY <1>5, <3>2, <4>1, <4>3
    <3> QED
      BY <3>1, <3>2
  <2> QED
    BY <2>1, <2>2, <2>3, <2>5 DEF Books, Alive
<1>11. ASSUME NEW e \in Device
       PROVE  Books(e)'
  <2>1. CASE e # d
    <3>1. p2c_pipe'[e] = p2c_pipe[e] /\ c2p_pipe'[e] = c2p_pipe[e]
      BY <1>1, <1>2, <2>1
    <3> QED
      BY <1>1, <1>5, <2>1, <3>1, BooksElsewhere DEF IInv
  <2> QED
    BY <1>10, <2>1
<1>12. Lines'
  <2>1. UNCHANGED <<address, to_close, line, wire, asked>> /\ pc' # "exited"
    BY <1>1, <1>6
  <2> QED
    BY <1>4, <2>1 DEF IInv, Lines
<1>13. TypeOK'
  <2>1. cmd_list' \in [Device -> Seq(Entries)] /\ c2p_pipe' \in [Device -> Seq(Answers)]
    <3>1. c2p_pipe[d] \in Seq(Answers) /\ c2p_pipe[d] # <<>>
      BY <1>1, <1>2
    <3>2. Tail(c2p_pipe[d]) \in Seq(Answers)
      BY <3>1, OfATail
    <3>3. c2p_pipe' \in [Device -> Seq(Answers)]
      BY <1>1, <1>2, <3>2
    <3>4. cmd_list' \in [Device -> Seq(Entries)]
      BY <1>1, <1>2, <1>3 DEF list
    <3> QED
      BY <3>3, <3>4
  <2>2. p2c_pipe' \in [Device -> Seq(IoCmds)]
    <3>1. Tail(list) # <<>> => list[2].io_cmd \in IoCmds
      <4>1. Tail(list) # <<>> => list[2] \in Entries
        BY <1>2, <1>3 DEF list
      <4> QED
        BY <4>1 DEF Entries
    <3> QED
      BY SMTT(30), <1>1, <1>2, <3>1
  <2>3. blocked' \subseteq Addr
    BY <1>1 DEF IInv, TypeOK
  <2>4. pc' = "dispatch" /\ waits' = NoWait
    BY <1>1
  <2> QED
    BY <1>1, <1>6, <1>8, <2>1, <2>2, <2>3, <2>4 DEF IInv, TypeOK, Replied
<1> QED
  BY <1>1, <1>8, <1>9, <1>11, <1>12, <1>13 DEF IInv

LEMMA LosesKeeps ==
  ASSUME IInv, NEW d \in Device, Loses(d), Untouched, pc # "exited"
  PROVE  IInv'
<1> DEFINE list == cmd_list[d]
           P == Owed(d) \cup ({waits.peer} \cap Peer)
<1>1. /\ Told(P)
      /\ child_pid' = [child_pid EXCEPT ![d] = 0]
      /\ cmd_list' = [cmd_list EXCEPT ![d] = <<>>]
      /\ p2c_pipe' = [p2c_pipe EXCEPT ![d] = <<>>]
      /\ c2p_pipe' = [c2p_pipe EXCEPT ![d] = <<>>]
      /\ blocked' = blocked \ {list[i].client : i \in DOMAIN list}
      /\ builder' = [builder EXCEPT ![d] = NoBuilder]
      /\ pc' = "dispatch" /\ waits' = NoWait
      /\ UNCHANGED <<address, forks>>
  BY DEF Loses
<1>2. /\ list \in Seq(Entries) /\ cmd_list \in [Device -> Seq(Entries)]
      /\ c2p_pipe \in [Device -> Seq(Answers)] /\ p2c_pipe \in [Device -> Seq(IoCmds)]
      /\ child_pid \in [Device -> Nat] /\ builder \in [Device -> Builders]
  BY DEF IInv, TypeOK
<1>3. Len(list) \in Nat /\ DOMAIN list = 1 .. Len(list)
  BY <1>2
<1>4. waits'.peer \notin Peer
  BY <1>1, ZookeeperAssumption DEF NoWait
<1>5. cmd_list'[d] = <<>> /\ \A e \in Device : e # d => cmd_list'[e] = cmd_list[e]
  BY <1>1, <1>2
<1>6. UNCHANGED <<config, stop, to_close, deaths, asked, wire, line>> /\ fired' \subseteq fired
  BY DEF Untouched, peers
<1>7. P \in SUBSET Peer
      /\ \A p \in P : \/ p = waits.peer
                      \/ \E i \in DOMAIN list : list[i].io_cmd.request.peer = p
  BY DEF Owed
<1> HIDE DEF P, list
<1>8. Asking' /\ AnswersAreOnesOwn' /\ Replied'
  <2>1. ASSUME NEW p \in P
        PROVE  asked[p] = Len(got[p]) + 1 /\ wire'[p] = <<>>
    <3>1. CASE p = waits.peer
      BY <1>6, <1>7, <3>1 DEF IInv, Asking
    <3>2. ASSUME NEW i \in DOMAIN list, list[i].io_cmd.request.peer = p
          PROVE  asked[p] = Len(got[p]) + 1 /\ wire'[p] = <<>>
      BY <1>6, <3>2, OfAnEntry DEF list
    <3> QED
      BY <1>7, <3>1, <3>2
  <2> QED
    BY <1>1, <1>4, <1>6, <1>7, <2>1, TellingIsRight
<1>9. Waiting'
  <2> DEFINE k == Len(cmd_list[d])
  <2>1. blocked' = blocked \ {cmd_list[d][i].client : i \in 1 .. k}
    BY <1>1, <1>3 DEF list
  <2>2. k \in Nat /\ k <= Len(cmd_list[d])
    BY <1>3 DEF list
  <2>3. DOMAIN cmd_list'[d] = 1 .. Len(cmd_list[d]) - k
        /\ \A i \in 1 .. Len(cmd_list[d]) - k : cmd_list'[d][i] = cmd_list[d][i + k]
    BY <1>3, <1>5 DEF list
  <2>4. \A p \in P : \/ p = waits.peer
                     \/ \E i \in 1 .. k : cmd_list[d][i].io_cmd.request.peer = p
    BY <1>3, <1>7 DEF list
  <2>5. address' = address /\ asked' = asked /\ wire' = wire
    BY <1>1, <1>6
  <2> HIDE DEF k
  <2> QED
    BY SMTT(30), <1>1, <1>4, <1>5, <1>7, <2>1, <2>2, <2>3, <2>4, <2>5, ListShrinks
<1>10. Books(d)'
  <2>1. /\ child_pid'[d] = 0 /\ cmd_list'[d] = <<>> /\ p2c_pipe'[d] = <<>>
        /\ c2p_pipe'[d] = <<>> /\ builder'[d] = NoBuilder
    BY <1>1, <1>2
  <2>2. NoBuilder.phase = "none"
    BY DEF NoBuilder
  <2> QED
    BY <2>1, <2>2 DEF Books, Alive
<1>11. ASSUME NEW e \in Device
       PROVE  Books(e)'
  <2>1. CASE e # d
    <3>1. /\ p2c_pipe'[e] = p2c_pipe[e] /\ c2p_pipe'[e] = c2p_pipe[e]
          /\ child_pid'[e] = child_pid[e] /\ builder'[e] = builder[e]
      BY <1>1, <1>2, <2>1
    <3> QED
      BY <1>1, <1>5, <2>1, <3>1, BooksElsewhere DEF IInv
  <2> QED
    BY <1>10, <2>1
<1>12. Lines'
  <2>1. UNCHANGED <<address, to_close, line, wire, asked>> /\ pc' # "exited"
    BY <1>1, <1>6
  <2> QED
    BY <1>4, <2>1 DEF IInv, Lines
<1>13. TypeOK'
  <2>1. /\ cmd_list' \in [Device -> Seq(Entries)] /\ c2p_pipe' \in [Device -> Seq(Answers)]
        /\ p2c_pipe' \in [Device -> Seq(IoCmds)] /\ child_pid' \in [Device -> Nat]
    BY <1>1, <1>2
  <2>2. builder' \in [Device -> Builders]
    <3>1. NoBuilder \in Builders
      BY DEF NoBuilder, Builders
    <3> QED
      BY <1>1, <1>2, <3>1
  <2>3. blocked' \subseteq Addr
    BY <1>1 DEF IInv, TypeOK
  <2>4. pc' = "dispatch" /\ waits' = NoWait
    BY <1>1
  <2> QED
    BY <1>1, <1>6, <1>8, <2>1, <2>2, <2>3, <2>4 DEF IInv, TypeOK, Replied
<1> QED
  BY <1>1, <1>8, <1>9, <1>11, <1>12, <1>13 DEF IInv

(* Nothing changes for those who wait when others connect or ask. *)
LEMMA WaitingElsewhere ==
  ASSUME IInv, UNCHANGED <<cmd_list, blocked, got>>,
         \A d \in Device : \A i \in DOMAIN cmd_list[d] :
           LET q == cmd_list[d][i].io_cmd.request.peer
           IN /\ address'[q] = address[q] /\ asked'[q] = asked[q] /\ wire'[q] = wire[q]
              /\ waits'.peer = q => waits.peer = q
  PROVE  Waiting'
<1> DEFINE Placed(e) ==
             LET r == e.io_cmd.request
             IN /\ r.n = asked'[r.peer] /\ asked'[r.peer] = Len(got'[r.peer]) + 1
                /\ wire'[r.peer] = <<>> /\ waits'.peer # r.peer
                /\ e.client = address'[r.peer]
<1>0. \A d \in Device : \A i \in DOMAIN cmd_list[d] :
        LET r == cmd_list[d][i].io_cmd.request
        IN /\ r.n = asked[r.peer] /\ asked[r.peer] = Len(got[r.peer]) + 1
           /\ wire[r.peer] = <<>> /\ waits.peer # r.peer
           /\ cmd_list[d][i].client = address[r.peer]
  BY DEF IInv, Waiting
<1>1. ASSUME NEW d \in Device, NEW i \in DOMAIN cmd_list[d]
      PROVE  Placed(cmd_list[d][i])
  <2> DEFINE r == cmd_list[d][i].io_cmd.request
  <2>1. /\ r.n = asked[r.peer] /\ asked[r.peer] = Len(got[r.peer]) + 1
        /\ wire[r.peer] = <<>> /\ waits.peer # r.peer
        /\ cmd_list[d][i].client = address[r.peer]
    BY <1>0
  <2>2. /\ address'[r.peer] = address[r.peer] /\ asked'[r.peer] = asked[r.peer]
        /\ wire'[r.peer] = wire[r.peer] /\ waits'.peer # r.peer
    BY <2>1
  <2> HIDE DEF r
  <2>3. /\ r.n = asked'[r.peer] /\ asked'[r.peer] = Len(got'[r.peer]) + 1
        /\ wire'[r.peer] = <<>> /\ waits'.peer # r.peer
        /\ cmd_list[d][i].client = address'[r.peer]
    BY <2>1, <2>2
  <2> QED
    BY <2>3 DEF r
<1>2. \A d, e \in Device : \A i \in DOMAIN cmd_list[d] : \A j \in DOMAIN cmd_list[e] :
        cmd_list[d][i].io_cmd.request.peer = cmd_list[e][j].io_cmd.request.peer
          => d = e /\ i = j
  BY DEF IInv, Waiting
<1>3. \A a \in Addr :
        a \in blocked <=>
          \E d \in Device : \E i \in DOMAIN cmd_list[d] : cmd_list[d][i].client = a
  BY DEF IInv, Waiting
<1>4. cmd_list' = cmd_list /\ blocked' = blocked
  OBVIOUS
<1>5. \A d \in Device : \A i \in DOMAIN cmd_list'[d] : Placed(cmd_list'[d][i])
  <2> HIDE DEF Placed
  <2> QED
    BY <1>1, <1>4
<1>6. \A d, e \in Device :
        \A i \in DOMAIN cmd_list'[d] : \A j \in DOMAIN cmd_list'[e] :
          cmd_list'[d][i].io_cmd.request.peer = cmd_list'[e][j].io_cmd.request.peer
            => d = e /\ i = j
  BY <1>2, <1>4
<1>7. \A a \in Addr :
        a \in blocked' <=>
          \E d \in Device : \E i \in DOMAIN cmd_list'[d] : cmd_list'[d][i].client = a
  BY <1>3, <1>4
<1> QED
  BY <1>5, <1>6, <1>7, Zenon DEF Waiting

LEMMA WaitingStays ==
  ASSUME IInv, cmd_list' = cmd_list, address' = address, blocked' = blocked,
         asked' = asked, \A p \in Peer : wire'[p] = wire[p] \/ wire'[p] = <<>>,
         NEW P \in SUBSET Peer, Told(P),
         \A d \in Device : \A i \in DOMAIN cmd_list[d] :
           /\ cmd_list[d][i].io_cmd.request.peer \notin P
           /\ cmd_list[d][i].io_cmd.request.peer # waits'.peer
  PROVE  Waiting'
<1>1. ASSUME NEW d \in Device, NEW i \in DOMAIN cmd_list[d]
      PROVE  LET r == cmd_list[d][i].io_cmd.request
             IN /\ r.n = asked'[r.peer] /\ asked'[r.peer] = Len(got'[r.peer]) + 1
                /\ wire'[r.peer] = <<>> /\ waits'.peer # r.peer
                /\ cmd_list[d][i].client = address'[r.peer]
  <2> DEFINE r == cmd_list[d][i].io_cmd.request
  <2>1. /\ r.peer \in Peer /\ r = Request(r.peer)
        /\ asked[r.peer] = Len(got[r.peer]) + 1
        /\ wire[r.peer] = <<>> /\ cmd_list[d][i].client = address[r.peer]
    BY OfAnEntry
  <2>2. got'[r.peer] = got[r.peer]
    BY <2>1 DEF Told
  <2>3. r.n = asked[r.peer]
    BY <2>1 DEF Request
  <2> QED
    BY <2>1, <2>2, <2>3
<1>2. \A d, e \in Device : \A i \in DOMAIN cmd_list[d] : \A j \in DOMAIN cmd_list[e] :
        cmd_list[d][i].io_cmd.request.peer = cmd_list[e][j].io_cmd.request.peer
          => d = e /\ i = j
  BY DEF IInv, Waiting
<1>3. \A a \in Addr :
        a \in blocked <=>
          \E d \in Device : \E i \in DOMAIN cmd_list[d] : cmd_list[d][i].client = a
  BY DEF IInv, Waiting
<1> QED
  BY <1>1, <1>2, <1>3, SMTT(30) DEF Waiting

(* A command is read. *)
Reads(p) ==
  /\ pc = "dispatch" /\ wire[p] # <<>>
  /\ wire' = [wire EXCEPT ![p] = <<>>]
  /\ UNCHANGED <<config, stop, to_close, deaths, asked, line>> /\ fired' \subseteq fired

LEMMA OfTheReader ==
  ASSUME IInv, NEW p \in Peer, Reads(p)
  PROVE  /\ asked[p] = Len(got[p]) + 1 /\ address[p] # NULL /\ waits = NoWait
         /\ wire'[p] = <<>> /\ wire' \in [Peer -> Seq(Command)]
         /\ \A q \in Peer : wire'[q] = wire[q] \/ wire'[q] = <<>>
         /\ \A q \in Peer : wire'[q] # <<>> => wire[q] # <<>>
         /\ NoWait.peer \notin Peer
         /\ \A d \in Device : \A i \in DOMAIN cmd_list[d] :
              cmd_list[d][i].io_cmd.request.peer # p
<1>1. asked[p] = Len(got[p]) + 1 /\ address[p] # NULL
  BY DEF Reads, IInv, Asking, Lines
<1>2. waits = NoWait /\ wire \in [Peer -> Seq(Command)]
  BY DEF Reads, IInv, TypeOK
<1>3. wire'[p] = <<>> /\ wire' \in [Peer -> Seq(Command)]
  BY <1>2 DEF Reads
<1>4. \A q \in Peer : q # p => wire'[q] = wire[q]
  BY <1>2 DEF Reads
<1>5. NoWait.peer \notin Peer
  BY ZookeeperAssumption DEF NoWait
<1>6. \A d \in Device : \A i \in DOMAIN cmd_list[d] :
        cmd_list[d][i].io_cmd.request.peer # p
  BY DEF IInv, Waiting, Reads
<1> QED
  BY <1>1, <1>2, <1>3, <1>4, <1>5, <1>6

LEMMA RepliesKeeps ==
  ASSUME IInv, NEW p \in Peer, Reads(p), Replies(p)
  PROVE  IInv'
<1>1. /\ Told({p})
      /\ UNCHANGED <<pc, waits, child_pid, cmd_list, p2c_pipe, c2p_pipe, address,
                     blocked, builder, forks>>
  BY DEF Replies, pipes
<1>2. UNCHANGED <<config, stop, to_close, deaths, asked, line>> /\ fired' \subseteq fired
      /\ pc = "dispatch"
  BY DEF Reads
<1>3. /\ asked[p] = Len(got[p]) + 1 /\ waits = NoWait
      /\ wire'[p] = <<>> /\ wire' \in [Peer -> Seq(Command)]
      /\ \A q \in Peer : wire'[q] = wire[q] \/ wire'[q] = <<>>
      /\ \A q \in Peer : wire'[q] # <<>> => wire[q] # <<>>
      /\ NoWait.peer \notin Peer
      /\ \A d \in Device : \A i \in DOMAIN cmd_list[d] :
           cmd_list[d][i].io_cmd.request.peer # p
  BY OfTheReader
<1>4. {p} \in SUBSET Peer /\ waits'.peer \notin Peer
  BY <1>1, <1>3
<1>5. Asking' /\ AnswersAreOnesOwn' /\ Replied'
  BY <1>1, <1>2, <1>3, <1>4, TellingIsRight
<1>6. Waiting'
  <2>1. \A d \in Device : \A i \in DOMAIN cmd_list[d] :
          /\ cmd_list[d][i].io_cmd.request.peer \notin {p}
          /\ cmd_list[d][i].io_cmd.request.peer # waits'.peer
    BY <1>3, <1>4, OfAnEntry
  <2> QED
    BY <1>1, <1>2, <1>3, <1>4, <2>1, WaitingStays
<1>7. \A e \in Device : Books(e)'
  BY <1>1, BooksElsewhere DEF IInv
<1>8. Lines'
  BY <1>1, <1>2, <1>3, <1>4 DEF IInv, Lines
<1>9. TypeOK'
  BY <1>1, <1>2, <1>3, <1>5 DEF IInv, TypeOK, Replied
<1> QED
  BY <1>1, <1>2, <1>5, <1>6, <1>7, <1>8, <1>9 DEF IInv

LEMMA StartsKeeps ==
  ASSUME IInv, NEW p \in Peer, NEW d \in Device, Reads(p), Starts(p, d)
  PROVE  IInv'
<1> DEFINE known == [child_pid EXCEPT ![d] = forks + 1]
           twin == [phase |-> "forked", pid |-> forks + 1, term |-> FALSE,
                    fired |-> fired \ {p}, child_pid |-> known, cmd_list |-> cmd_list]
<1>1. /\ child_pid[d] = 0 /\ Told({p})
      /\ forks' = forks + 1 /\ child_pid' = known
      /\ builder' = [builder EXCEPT ![d] = twin]
      /\ p2c_pipe' = [p2c_pipe EXCEPT ![d] = <<>>]
      /\ c2p_pipe' = [c2p_pipe EXCEPT ![d] = <<>>]
      /\ UNCHANGED <<pc, waits, cmd_list, address, blocked>>
  BY DEF Starts
<1>2. UNCHANGED <<config, stop, to_close, deaths, asked, line>> /\ fired' \subseteq fired
      /\ pc = "dispatch"
  BY DEF Reads
<1>3. /\ asked[p] = Len(got[p]) + 1 /\ waits = NoWait
      /\ wire'[p] = <<>> /\ wire' \in [Peer -> Seq(Command)]
      /\ \A q \in Peer : wire'[q] = wire[q] \/ wire'[q] = <<>>
      /\ \A q \in Peer : wire'[q] # <<>> => wire[q] # <<>>
      /\ NoWait.peer \notin Peer
      /\ \A e \in Device : \A i \in DOMAIN cmd_list[e] :
           cmd_list[e][i].io_cmd.request.peer # p
  BY OfTheReader
<1>4. {p} \in SUBSET Peer /\ waits'.peer \notin Peer
  BY <1>1, <1>3
<1>t. /\ child_pid \in [Device -> Nat] /\ forks \in Nat
      /\ cmd_list \in [Device -> Seq(Entries)] /\ fired \subseteq Peer \cup Device
      /\ c2p_pipe \in [Device -> Seq(Answers)] /\ p2c_pipe \in [Device -> Seq(IoCmds)]
      /\ builder \in [Device -> Builders]
  BY DEF IInv, TypeOK
<1>5. Asking' /\ AnswersAreOnesOwn' /\ Replied'
  BY <1>1, <1>2, <1>3, <1>4, TellingIsRight
<1>6. Waiting'
  <2>1. \A e \in Device : \A i \in DOMAIN cmd_list[e] :
          /\ cmd_list[e][i].io_cmd.request.peer \notin {p}
          /\ cmd_list[e][i].io_cmd.request.peer # waits'.peer
    BY <1>3, <1>4, OfAnEntry
  <2> QED
    BY <1>1, <1>2, <1>3, <1>4, <2>1, WaitingStays
<1>7. Books(d)'
  <2>1. /\ child_pid'[d] = forks + 1 /\ forks + 1 # 0
        /\ cmd_list'[d] = <<>> /\ p2c_pipe'[d] = <<>> /\ c2p_pipe'[d] = <<>>
        /\ builder'[d].phase = "forked" /\ builder'[d].pid = forks + 1
    <3>1. cmd_list[d] = <<>>
      BY <1>1 DEF IInv, Books
    <3>2. builder'[d] = twin
      BY <1>1, <1>t
    <3> QED
      BY <1>1, <1>t, <3>1, <3>2
  <2> QED
    BY <2>1 DEF Books, Alive
<1>8. ASSUME NEW e \in Device
      PROVE  Books(e)'
  <2>1. CASE e # d
    <3>1. /\ p2c_pipe'[e] = p2c_pipe[e] /\ c2p_pipe'[e] = c2p_pipe[e]
          /\ child_pid'[e] = child_pid[e] /\ builder'[e] = builder[e]
          /\ cmd_list'[e] = cmd_list[e] /\ pc' = pc
      BY <1>1, <1>t, <2>1
    <3> QED
      BY <3>1, BooksElsewhere DEF IInv
  <2> QED
    BY <1>7, <2>1
<1>9. Lines'
  BY <1>1, <1>2, <1>3, <1>4 DEF IInv, Lines
<1>10. TypeOK'
  <2>1. known \in [Device -> Nat]
    BY <1>t
  <2> HIDE DEF known
  <2>2. twin \in Builders
    BY <1>t, <2>1 DEF Builders
  <2> HIDE DEF twin
  <2>3. /\ builder' \in [Device -> Builders] /\ child_pid' \in [Device -> Nat]
        /\ p2c_pipe' \in [Device -> Seq(IoCmds)] /\ c2p_pipe' \in [Device -> Seq(Answers)]
        /\ forks' \in Nat
    BY <1>1, <1>t, <2>1, <2>2
  <2> QED
    BY <1>1, <1>2, <1>3, <1>5, <2>3 DEF IInv, TypeOK, Replied
<1> QED
  BY <1>1, <1>2, <1>5, <1>6, <1>8, <1>9, <1>10 DEF IInv

LEMMA StopsKeeps ==
  ASSUME IInv, NEW p \in Peer, NEW d \in Device, Reads(p), Stops(p, d)
  PROVE  IInv'
<1>1. /\ pc' = "waits" /\ waits' = [device |-> d, peer |-> p]
      /\ \/ builder' = builder
         \/ builder' = [builder EXCEPT ![d].term = TRUE]
      /\ UNCHANGED <<child_pid, cmd_list, p2c_pipe, c2p_pipe, address, blocked, forks,
                     got>>
  BY DEF Stops, pipes
<1>2. UNCHANGED <<config, stop, to_close, deaths, asked, line>> /\ fired' \subseteq fired
      /\ pc = "dispatch"
  BY DEF Reads
<1>3. /\ asked[p] = Len(got[p]) + 1 /\ waits = NoWait /\ address[p] # NULL
      /\ wire'[p] = <<>> /\ wire' \in [Peer -> Seq(Command)]
      /\ \A q \in Peer : wire'[q] = wire[q] \/ wire'[q] = <<>>
      /\ \A q \in Peer : wire'[q] # <<>> => wire[q] # <<>>
      /\ \A e \in Device : \A i \in DOMAIN cmd_list[e] :
           cmd_list[e][i].io_cmd.request.peer # p
  BY OfTheReader
<1>4. {} \in SUBSET Peer /\ waits'.peer = p
  BY <1>1
<1>t. Told({}) /\ builder \in [Device -> Builders]
  BY <1>1 DEF Told, IInv, TypeOK
<1>5. Asking' /\ AnswersAreOnesOwn' /\ Replied'
  <2>1. \A q \in Peer : waits'.peer = q =>
          /\ waits.peer = q \/ asked[q] = Len(got[q]) + 1
          /\ wire'[q] = <<>>
    BY <1>3, <1>4
  <2> QED
    BY <1>1, <1>2, <1>3, <1>4, <1>t, <2>1, TellingIsRight
<1>6. Waiting'
  <2>1. \A e \in Device : \A i \in DOMAIN cmd_list[e] :
          /\ cmd_list[e][i].io_cmd.request.peer \notin {}
          /\ cmd_list[e][i].io_cmd.request.peer # waits'.peer
    BY <1>3, <1>4
  <2> QED
    BY <1>1, <1>2, <1>3, <1>4, <1>t, <2>1, WaitingStays
<1>b. /\ builder' \in [Device -> Builders]
      /\ \A e \in Device : builder'[e].phase = builder[e].phase
                             /\ builder'[e].pid = builder[e].pid
  <2>1. ASSUME builder' = [builder EXCEPT ![d].term = TRUE]
        PROVE  /\ builder' \in [Device -> Builders]
               /\ \A e \in Device : builder'[e].phase = builder[e].phase
                                      /\ builder'[e].pid = builder[e].pid
    <3>1. [builder[d] EXCEPT !.term = TRUE] \in Builders
      <4> DEFINE b == builder[d]
      <4>1. b \in Builders
        BY <1>t
      <4> HIDE DEF b
      <4> QED
        BY <4>1, Zenon DEF Builders, b
    <3>2. builder' = [builder EXCEPT ![d] = [builder[d] EXCEPT !.term = TRUE]]
      BY <2>1
    <3>3. /\ [builder[d] EXCEPT !.term = TRUE].phase = builder[d].phase
          /\ [builder[d] EXCEPT !.term = TRUE].pid = builder[d].pid
      BY <1>t DEF Builders
    <3> QED
      BY <1>t, <3>1, <3>2, <3>3
  <2> QED
    BY <1>1, <1>t, <2>1
<1>7. \A e \in Device : Books(e)'
  BY <1>1, <1>2, <1>b DEF IInv, Books, Alive
<1>8. Lines'
  BY <1>1, <1>2, <1>3, <1>4 DEF IInv, Lines
<1>9. TypeOK'
  <2>1. waits' \in [device : Device, peer : Peer \cup {Nobody}]
    BY <1>1
  <2> QED
    BY <1>1, <1>2, <1>3, <1>5, <1>b, <2>1 DEF IInv, TypeOK, Replied
<1> QED
  BY <1>1, <1>5, <1>6, <1>7, <1>8, <1>9 DEF IInv

(* The entry that a list gets is the only one for its peer. *)
LEMMA ListGrows ==
  ASSUME IInv, NEW p \in Peer, NEW d \in Device, NEW entry,
         entry.io_cmd.request = Request(p), entry.client = address[p],
         cmd_list' = [cmd_list EXCEPT ![d] = Append(@, entry)],
         blocked' = blocked \cup {address[p]}, got' = got, address' = address,
         asked' = asked, asked[p] = Len(got[p]) + 1, wire'[p] = <<>>,
         \A q \in Peer : wire'[q] = wire[q] \/ wire'[q] = <<>>,
         waits'.peer \notin Peer,
         \A e \in Device : \A i \in DOMAIN cmd_list[e] :
           cmd_list[e][i].io_cmd.request.peer # p
  PROVE  Waiting'
<1> DEFINE last == Len(cmd_list[d]) + 1
<1>1. /\ cmd_list \in [Device -> Seq(Entries)] /\ cmd_list[d] \in Seq(Entries)
  BY DEF IInv, TypeOK
<1>2. /\ DOMAIN cmd_list[d] = 1 .. Len(cmd_list[d]) /\ Len(cmd_list[d]) \in Nat
      /\ cmd_list'[d] = Append(cmd_list[d], entry)
      /\ \A e \in Device : e # d => cmd_list'[e] = cmd_list[e]
  BY <1>1
<1>3. /\ DOMAIN cmd_list'[d] = 1 .. last
      /\ \A i \in 1 .. Len(cmd_list[d]) : cmd_list'[d][i] = cmd_list[d][i]
      /\ cmd_list'[d][last] = entry
  BY <1>1, <1>2, OneMore
<1>4. ASSUME NEW e \in Device, NEW i \in DOMAIN cmd_list'[e]
      PROVE  \/ e = d /\ i = last /\ cmd_list'[e][i] = entry
             \/ i \in DOMAIN cmd_list[e] /\ cmd_list'[e][i] = cmd_list[e][i]
  <2>1. CASE e # d
    BY <1>2, <2>1
  <2>2. CASE e = d /\ i = last
    BY <1>3, <2>2
  <2>3. CASE e = d /\ i # last
    <3>1. i \in 1 .. Len(cmd_list[d])
      BY <1>2, <1>3, <2>3
    <3> QED
      BY <1>2, <1>3, <2>3, <3>1
  <2> QED
    BY <2>1, <2>2, <2>3
<1>5. ASSUME NEW e \in Device, NEW i \in DOMAIN cmd_list[e]
      PROVE  i \in DOMAIN cmd_list'[e] /\ cmd_list'[e][i] = cmd_list[e][i]
  <2>1. CASE e # d
    BY <1>2, <2>1
  <2>2. CASE e = d
    <3>1. i \in 1 .. Len(cmd_list[d]) /\ i \in 1 .. last
      BY <1>2, <2>2
    <3> QED
      BY <1>3, <2>2, <3>1
  <2> QED
    BY <2>1, <2>2
<1>6. last \in DOMAIN cmd_list'[d]
  BY <1>2, <1>3
<1> HIDE DEF last
<1>7. ASSUME NEW e \in Device, NEW i \in DOMAIN cmd_list'[e]
      PROVE  LET r == cmd_list'[e][i].io_cmd.request
             IN /\ r.n = asked'[r.peer] /\ asked'[r.peer] = Len(got'[r.peer]) + 1
                /\ wire'[r.peer] = <<>> /\ waits'.peer # r.peer
                /\ cmd_list'[e][i].client = address'[r.peer]
  <2>1. CASE cmd_list'[e][i] = entry
    <3> DEFINE r == cmd_list'[e][i].io_cmd.request
    <3>1. r = Request(p) /\ cmd_list'[e][i].client = address[p]
      BY <2>1
    <3>2. Request(p).peer = p /\ Request(p).n = asked[p]
      BY DEF Request
    <3>3. p # waits'.peer
      OBVIOUS
    <3> HIDE DEF r
    <3>4. /\ r.n = asked'[r.peer] /\ asked'[r.peer] = Len(got'[r.peer]) + 1
          /\ wire'[r.peer] = <<>> /\ waits'.peer # r.peer
          /\ cmd_list'[e][i].client = address'[r.peer]
      BY <3>1, <3>2, <3>3
    <3> QED
      BY <3>4 DEF r
  <2>2. CASE i \in DOMAIN cmd_list[e] /\ cmd_list'[e][i] = cmd_list[e][i]
    <3> DEFINE r == cmd_list[e][i].io_cmd.request
    <3>1. /\ r.peer \in Peer /\ r = Request(r.peer)
          /\ asked[r.peer] = Len(got[r.peer]) + 1
          /\ wire[r.peer] = <<>> /\ cmd_list[e][i].client = address[r.peer]
      BY <2>2, OfAnEntry
    <3>2. r.n = asked[r.peer]
      BY <3>1 DEF Request
    <3>3. /\ cmd_list'[e][i].io_cmd.request = r
          /\ cmd_list'[e][i].client = cmd_list[e][i].client
      BY <2>2
    <3> HIDE DEF r
    <3>4. waits'.peer # r.peer /\ wire'[r.peer] = <<>>
      BY <3>1
    <3> QED
      BY <3>1, <3>2, <3>3, <3>4
  <2> QED
    BY <1>4, <2>1, <2>2
<1>8. ASSUME NEW e \in Device, NEW f \in Device,
             NEW i \in DOMAIN cmd_list'[e], NEW j \in DOMAIN cmd_list'[f],
             cmd_list'[e][i].io_cmd.request.peer = cmd_list'[f][j].io_cmd.request.peer
      PROVE  e = f /\ i = j
  <2>1. entry.io_cmd.request.peer = p
    BY DEF Request
  <2>2. ASSUME i \in DOMAIN cmd_list[e], cmd_list'[e][i] = cmd_list[e][i],
               j \in DOMAIN cmd_list[f], cmd_list'[f][j] = cmd_list[f][j]
        PROVE  e = f /\ i = j
    BY <1>8, <2>2, OneEntryEach
  <2> QED
    BY <1>4, <1>8, <2>1, <2>2
<1>9. ASSUME NEW a \in Addr
      PROVE  a \in blocked' <=>
               \E e \in Device : \E i \in DOMAIN cmd_list'[e] : cmd_list'[e][i].client = a
  <2>1. a \in blocked <=>
          \E e \in Device : \E i \in DOMAIN cmd_list[e] : cmd_list[e][i].client = a
    BY DEF IInv, Waiting
  <2>2. ASSUME a \in blocked
        PROVE  \E e \in Device : \E i \in DOMAIN cmd_list'[e] : cmd_list'[e][i].client = a
    BY <1>5, <2>1, <2>2
  <2>3. ASSUME a = address[p]
        PROVE  \E e \in Device : \E i \in DOMAIN cmd_list'[e] : cmd_list'[e][i].client = a
    BY <1>3, <1>6, <2>3
  <2>4. ASSUME NEW e \in Device, NEW i \in DOMAIN cmd_list'[e], cmd_list'[e][i].client = a
        PROVE  a \in blocked'
    BY <1>4, <2>1, <2>4
  <2> QED
    BY <2>2, <2>3, <2>4
<1> QED
  BY <1>7, <1>8, <1>9 DEF Waiting

LEMMA QueuesKeeps ==
  ASSUME IInv, NEW p \in Peer, NEW d \in Device, Reads(p), Queues(p, d)
  PROVE  IInv'
<1>1. PICK name \in PassedOn :
        LET cmd == [name |-> name, request |-> Request(p)]
        IN /\ cmd_list' = [cmd_list EXCEPT ![d] =
                             Append(@, [io_cmd |-> cmd, client |-> address[p]])]
           /\ p2c_pipe' = IF cmd_list[d] = <<>> /\ Alive(builder[d])
                          THEN [p2c_pipe EXCEPT ![d] = Append(@, cmd)]
                          ELSE p2c_pipe
  BY DEF Queues
<1> DEFINE cmd == [name |-> name, request |-> Request(p)]
           entry == [io_cmd |-> cmd, client |-> address[p]]
<1>2. /\ blocked' = blocked \cup {address[p]} /\ child_pid[d] # 0
      /\ UNCHANGED <<pc, waits, child_pid, c2p_pipe, address, builder, forks, got>>
  BY DEF Queues
<1>3. UNCHANGED <<config, stop, to_close, deaths, asked, line>> /\ fired' \subseteq fired
      /\ pc = "dispatch"
  BY DEF Reads
<1>4. /\ asked[p] = Len(got[p]) + 1 /\ waits = NoWait /\ address[p] # NULL
      /\ wire'[p] = <<>> /\ wire' \in [Peer -> Seq(Command)]
      /\ \A q \in Peer : wire'[q] = wire[q] \/ wire'[q] = <<>>
      /\ \A q \in Peer : wire'[q] # <<>> => wire[q] # <<>>
      /\ NoWait.peer \notin Peer
      /\ \A e \in Device : \A i \in DOMAIN cmd_list[e] :
           cmd_list[e][i].io_cmd.request.peer # p
  BY OfTheReader
<1>5. /\ cmd_list \in [Device -> Seq(Entries)] /\ p2c_pipe \in [Device -> Seq(IoCmds)]
      /\ c2p_pipe \in [Device -> Seq(Answers)] /\ address \in [Peer -> Addr \cup {NULL}]
      /\ asked \in [Peer -> Nat] /\ Told({}) /\ {} \in SUBSET Peer
  BY <1>2 DEF IInv, TypeOK, Told
<1>6. cmd \in IoCmds /\ entry \in Entries /\ address[p] \in Addr
  <2>1. asked[p] \in Nat /\ asked[p] # 0
    <3>1. PICK S : got[p] \in Seq(S)
      BY DEF IInv, Asking
    <3> QED
      BY <1>4, <3>1
  <2>2. Request(p) \in Requests
    BY <2>1 DEF Request, Requests
  <2> QED
    BY <1>4, <1>5, <2>2 DEF IoCmds, Entries
<1>7. entry.io_cmd = cmd /\ cmd.request = Request(p) /\ entry.client = address[p]
  OBVIOUS
<1>8. /\ cmd_list' = [cmd_list EXCEPT ![d] = Append(@, entry)]
      /\ p2c_pipe' = IF cmd_list[d] = <<>> /\ Alive(builder[d])
                     THEN [p2c_pipe EXCEPT ![d] = Append(@, cmd)]
                     ELSE p2c_pipe
  BY <1>1
<1> HIDE DEF cmd, entry
<1>9. Asking' /\ AnswersAreOnesOwn' /\ Replied'
  BY <1>2, <1>3, <1>4, <1>5, TellingIsRight
<1>10. Waiting'
  <2>1. entry.io_cmd.request = Request(p) /\ waits'.peer \notin Peer
    BY <1>2, <1>4, <1>7
  <2> QED
    BY <1>2, <1>3, <1>4, <1>7, <1>8, <2>1, ListGrows
<1>11. Books(d)'
  <2>1. cmd_list'[d] = Append(cmd_list[d], entry) /\ cmd_list[d] \in Seq(Entries)
        /\ p2c_pipe[d] \in Seq(IoCmds)
    BY <1>5, <1>8
  <2>2. cmd_list'[d] # <<>>
    BY <1>6, <2>1
  <2>3. CASE cmd_list[d] = <<>>
    <3>1. cmd_list'[d][1] = entry
      BY <1>6, <2>1, <2>3
    <3>2. c2p_pipe'[d] = <<>>
      BY <1>2, <2>3 DEF IInv, Books
    <3>3. Alive(builder[d]) => p2c_pipe'[d] = << cmd >>
      <4>1. Alive(builder[d]) => p2c_pipe[d] = <<>>
        BY <2>3 DEF IInv, Books
      <4> QED
        BY <1>5, <1>8, <2>3, <4>1
    <3>4. Alive(builder[d]) => Len(p2c_pipe'[d]) = 1 /\ p2c_pipe'[d][1] = cmd
      BY <3>3
    <3> QED
      BY <1>2, <1>7, <2>2, <3>1, <3>2, <3>4 DEF IInv, Books, Alive
  <2>4. CASE cmd_list[d] # <<>>
    <3>1. cmd_list'[d][1] = cmd_list[d][1]
      BY <1>6, <2>1, <2>4
    <3>2. p2c_pipe' = p2c_pipe
      BY <1>8, <2>4
    <3> QED
      BY <1>2, <2>2, <2>4, <3>1, <3>2 DEF IInv, Books, Alive
  <2> QED
    BY <2>3, <2>4
<1>12. ASSUME NEW e \in Device
       PROVE  Books(e)'
  <2>1. CASE e # d
    <3>1. p2c_pipe'[e] = p2c_pipe[e] /\ cmd_list'[e] = cmd_list[e]
      BY <1>5, <1>8, <2>1
    <3> QED
      BY <1>2, <3>1, BooksElsewhere DEF IInv
  <2> QED
    BY <1>11, <2>1
<1>13. Lines'
  BY <1>2, <1>3, <1>4 DEF IInv, Lines
<1>14. TypeOK'
  <2>1. cmd_list' \in [Device -> Seq(Entries)] /\ p2c_pipe' \in [Device -> Seq(IoCmds)]
    BY <1>5, <1>6, <1>8
  <2>2. blocked' \subseteq Addr
    BY <1>2, <1>6 DEF IInv, TypeOK
  <2> QED
    BY <1>2, <1>3, <1>4, <1>9, <2>1, <2>2 DEF IInv, TypeOK, Replied
<1> QED
  BY <1>2, <1>9, <1>10, <1>12, <1>13, <1>14 DEF IInv

LEMMA FreesKeeps ==
  ASSUME IInv, NEW p \in Peer, FreeClient(p), Frees(p)
  PROVE  IInv'
<1> DEFINE a == address[p]
<1>1. /\ pc' = "free"
      /\ address' = [address EXCEPT ![p] = NULL] /\ blocked' = blocked \ {a}
      /\ cmd_list' = [d \in Device |-> cmd_list'[d]]
      /\ UNCHANGED <<waits, child_pid, p2c_pipe, c2p_pipe, builder, forks, got>>
  BY DEF Frees
<1>2. /\ a \in to_close /\ to_close' = to_close \ {a} /\ pc \in {"loop", "free"}
      /\ line' = [line EXCEPT ![p] = "closed"] /\ wire' = [wire EXCEPT ![p] = <<>>]
      /\ UNCHANGED <<config, fired, stop, deaths, asked>>
  BY DEF FreeClient, Closing
<1>3. /\ a \in Addr /\ a # NULL /\ waits = NoWait /\ NoWait.peer \notin Peer
      /\ address \in [Peer -> Addr \cup {NULL}] /\ wire \in [Peer -> Seq(Command)]
      /\ line \in [Peer -> {"off", "on", "gone", "closed"}]
  BY <1>2, ZookeeperAssumption DEF IInv, TypeOK, NoWait
<1>4. /\ address'[p] = NULL /\ \A q \in Peer : q # p => address'[q] = address[q]
      /\ wire'[p] = <<>> /\ \A q \in Peer : q # p => wire'[q] = wire[q]
      /\ line'[p] = "closed" /\ \A q \in Peer : q # p => line'[q] = line[q]
  BY <1>1, <1>2, <1>3
<1> HIDE DEF a
<1>5. ASSUME NEW d \in Device
      PROVE  /\ DOMAIN cmd_list'[d] = DOMAIN cmd_list[d]
             /\ \A i \in DOMAIN cmd_list[d] :
                  /\ cmd_list'[d][i].io_cmd = cmd_list[d][i].io_cmd
                  /\ cmd_list'[d][i].client = IF cmd_list[d][i].client = a THEN NULL
                                              ELSE cmd_list[d][i].client
             /\ cmd_list'[d] \in Seq(Entries)
             /\ cmd_list'[d] = <<>> <=> cmd_list[d] = <<>>
  <2> DEFINE list == cmd_list[d]
  <2>1. list \in Seq(Entries)
    BY DEF IInv, TypeOK
  <2>2. \A i \in DOMAIN list : list[i].client = a => Len(list) = 1
    BY DEF Frees, a
  <2>3. cmd_list'[d] = IF list # <<>> /\ list[1].client = a
                       THEN [list EXCEPT ![1] = [@ EXCEPT !.client = NULL]] ELSE list
    BY DEF Frees, a
  <2> HIDE DEF list
  <2>4. CASE list # <<>> /\ list[1].client = a
    <3> DEFINE first == [list[1] EXCEPT !.client = NULL]
    <3>1. 1 \in DOMAIN list /\ list[1] \in Entries
      BY <2>1, <2>4
    <3>2. Len(list) = 1 /\ DOMAIN list = 1 .. 1
      BY <2>1, <2>2, <2>4, <3>1
    <3>3. first \in Entries /\ first.io_cmd = list[1].io_cmd /\ first.client = NULL
      BY <3>1 DEF Entries
    <3> HIDE DEF first
    <3>4. cmd_list'[d] = [list EXCEPT ![1] = first]
      BY <2>3, <2>4 DEF first
    <3>5. /\ DOMAIN cmd_list'[d] = 1 .. 1 /\ cmd_list'[d][1] = first
          /\ cmd_list'[d] \in Seq(Entries)
      BY <2>1, <3>1, <3>2, <3>3, <3>4
    <3>6. cmd_list'[d] # <<>>
      BY <3>5
    <3>7. \A i \in DOMAIN list : i = 1
      BY <3>2
    <3> QED
      BY <2>4, <3>2, <3>3, <3>5, <3>6, <3>7 DEF list
  <2>5. CASE ~ (list # <<>> /\ list[1].client = a)
    <3>1. cmd_list'[d] = list
      BY <2>3, <2>5
    <3>2. \A i \in DOMAIN list : list[i].client # a
      <4> SUFFICES ASSUME NEW i \in DOMAIN list, list[i].client = a
                   PROVE  FALSE
        OBVIOUS
      <4>1. Len(list) = 1
        BY <2>2
      <4>2. list # <<>>
        BY <4>1, EmptySeq
      <4>3. i = 1
        BY <2>1, <4>1
      <4> QED
        BY <2>5, <4>2, <4>3
    <3> QED
      BY <2>1, <3>1, <3>2 DEF list
  <2> QED
    BY <2>4, <2>5
<1>6. Told({}) /\ {} \in SUBSET Peer
  BY <1>1 DEF Told, IInv, TypeOK
<1>7. Asking' /\ AnswersAreOnesOwn' /\ Replied'
  <2>1. waits'.peer \notin Peer /\ asked' = asked
    BY <1>1, <1>2, <1>3
  <2>2. \A q \in Peer : wire'[q] = wire[q] \/ wire'[q] = <<>>
    BY <1>4
  <2> QED
    BY <1>6, <2>1, <2>2, TellingIsRight
<1>8. ASSUME NEW d \in Device, NEW i \in DOMAIN cmd_list'[d]
      PROVE  LET r == cmd_list'[d][i].io_cmd.request
             IN /\ r.n = asked'[r.peer] /\ asked'[r.peer] = Len(got'[r.peer]) + 1
                /\ wire'[r.peer] = <<>> /\ waits'.peer # r.peer
                /\ cmd_list'[d][i].client = address'[r.peer]
  <2> DEFINE r == cmd_list[d][i].io_cmd.request
  <2>1. i \in DOMAIN cmd_list[d] /\ cmd_list'[d][i].io_cmd.request = r
    BY <1>5
  <2>2. /\ r.peer \in Peer /\ r = Request(r.peer)
        /\ asked[r.peer] = Len(got[r.peer]) + 1
        /\ wire[r.peer] = <<>> /\ cmd_list[d][i].client = address[r.peer]
    BY <2>1, OfAnEntry
  <2>3. r.n = asked[r.peer]
    BY <2>2 DEF Request
  <2>4. cmd_list'[d][i].client = address'[r.peer]
    <3>1. cmd_list'[d][i].client = IF address[r.peer] = a THEN NULL ELSE address[r.peer]
      BY <1>5, <2>1, <2>2
    <3>2. address[r.peer] = a <=> r.peer = p
      BY <1>3, <2>2 DEF a, IInv, Lines
    <3> HIDE DEF r
    <3> QED
      BY <1>4, <2>2, <3>1, <3>2
  <2>5. wire'[r.peer] = <<>> /\ asked' = asked /\ got' = got /\ waits'.peer # r.peer
    BY <1>1, <1>2, <1>3, <1>4, <2>2
  <2> HIDE DEF r
  <2> QED
    BY <2>1, <2>2, <2>3, <2>4, <2>5
<1>9. ASSUME NEW d \in Device, NEW e \in Device,
             NEW i \in DOMAIN cmd_list'[d], NEW j \in DOMAIN cmd_list'[e],
             cmd_list'[d][i].io_cmd.request.peer = cmd_list'[e][j].io_cmd.request.peer
      PROVE  d = e /\ i = j
  <2>1. /\ i \in DOMAIN cmd_list[d] /\ j \in DOMAIN cmd_list[e]
        /\ cmd_list'[d][i].io_cmd = cmd_list[d][i].io_cmd
        /\ cmd_list'[e][j].io_cmd = cmd_list[e][j].io_cmd
    BY <1>5
  <2> QED
    BY <1>9, <2>1, OneEntryEach
<1>10. ASSUME NEW b \in Addr
       PROVE  b \in blocked' <=>
                \E d \in Device : \E i \in DOMAIN cmd_list'[d] : cmd_list'[d][i].client = b
  <2>1. b \in blocked <=>
          \E d \in Device : \E i \in DOMAIN cmd_list[d] : cmd_list[d][i].client = b
    BY DEF IInv, Waiting
  <2>2. b # NULL
    BY ZookeeperAssumption
  <2>3. ASSUME b \in blocked'
        PROVE  \E d \in Device : \E i \in DOMAIN cmd_list'[d] : cmd_list'[d][i].client = b
    <3>1. b \in blocked /\ b # a
      BY <1>1, <2>3 DEF a
    <3> QED
      BY <1>5, <2>1, <3>1
  <2>4. ASSUME NEW d \in Device, NEW i \in DOMAIN cmd_list'[d], cmd_list'[d][i].client = b
        PROVE  b \in blocked'
    <3>1. i \in DOMAIN cmd_list[d] /\ cmd_list[d][i].client = b /\ b # a
      BY <1>5, <2>2, <2>4
    <3> QED
      BY <1>1, <2>1, <3>1 DEF a
  <2> QED
    BY <2>3, <2>4
<1>11. Waiting'
  BY <1>8, <1>9, <1>10 DEF Waiting
<1>12. ASSUME NEW d \in Device
       PROVE  Books(d)'
  <2>1. /\ cmd_list'[d] = <<>> <=> cmd_list[d] = <<>>
        /\ cmd_list[d] # <<>> => cmd_list'[d][1].io_cmd = cmd_list[d][1].io_cmd
    <3>1. cmd_list[d] # <<>> => 1 \in DOMAIN cmd_list[d]
      <4>1. cmd_list[d] \in Seq(Entries)
        BY DEF IInv, TypeOK
      <4> QED
        BY <4>1
    <3> QED
      BY <1>5, <3>1
  <2> QED
    BY <1>1, <1>2, <2>1 DEF IInv, Books, Alive
<1>13. Lines'
  <2>1. \A q, r \in Peer : address'[q] = address'[r] /\ address'[q] # NULL => q = r
    BY <1>4 DEF IInv, Lines
  <2>2. \A q \in Peer :
          /\ line'[q] \in {"on", "gone"} => address'[q] # NULL
          /\ wire'[q] # <<>> => address'[q] # NULL
          /\ line'[q] = "off" => asked'[q] = 0 /\ address'[q] = NULL
          /\ waits'.peer # q
    BY <1>1, <1>2, <1>3, <1>4 DEF IInv, Lines
  <2>3. \A b \in to_close' : \E q \in Peer : address'[q] = b
    BY <1>2, <1>4 DEF IInv, Lines, a
  <2> QED
    BY <1>1, <2>1, <2>2, <2>3 DEF Lines
<1>14. TypeOK'
  <2>1. cmd_list' \in [Device -> Seq(Entries)]
    BY <1>1, <1>5
  <2>2. /\ address' \in [Peer -> Addr \cup {NULL}] /\ wire' \in [Peer -> Seq(Command)]
        /\ line' \in [Peer -> {"off", "on", "gone", "closed"}]
        /\ blocked' \subseteq Addr /\ to_close' \subseteq Addr
    BY <1>1, <1>2, <1>3 DEF IInv, TypeOK
  <2> QED
    BY <1>1, <1>2, <1>3, <1>7, <2>1, <2>2 DEF IInv, TypeOK, Replied
<1> QED
  BY <1>1, <1>7, <1>11, <1>12, <1>13, <1>14 DEF IInv

(* A step in which nobody asks or is told anything. *)
LEMMA QuietStep ==
  ASSUME IInv, UNCHANGED <<cmd_list, address, blocked, asked, got, wire>>,
         waits' = waits \/ waits'.peer \notin Peer
  PROVE  Asking' /\ AnswersAreOnesOwn' /\ Replied' /\ Waiting'
<1>1. \A p \in Peer : waits'.peer = p => waits.peer = p
  OBVIOUS
<1>2. Asking'
  BY <1>1 DEF IInv, Asking
<1>3. AnswersAreOnesOwn'
  BY DEF IInv, AnswersAreOnesOwn
<1>4. Replied'
  BY DEF IInv, TypeOK, Replied
<1>5. \A d \in Device : \A i \in DOMAIN cmd_list[d] :
        cmd_list[d][i].io_cmd.request.peer \in Peer
  BY OfAnEntry
<1>6. Waiting'
  BY <1>1, <1>5, WaitingElsewhere
<1> QED
  BY <1>2, <1>3, <1>4, <1>6

(* Steps of the server in which nothing is read. *)
LEMMA ServerTurns ==
  ASSUME IInv, pc # "exited", pc' \in {"loop", "free", "dispatch", "waits"},
         fired' \subseteq Peer \cup Device,
         UNCHANGED <<config, stop, child_pid, cmd_list, p2c_pipe, c2p_pipe, address,
                     blocked, builder, forks, deaths, asked, wire, line, got>>,
         \/ pc' = pc /\ waits' = waits
         \/ pc' # "waits" /\ waits' = NoWait
         \/ /\ pc' = "waits" /\ waits'.peer = Nobody
            /\ waits' \in [device : Device, peer : Peer \cup {Nobody}],
         \/ to_close' = to_close
         \/ \E p \in Peer : address[p] # NULL /\ to_close' = to_close \cup {address[p]}
  PROVE  IInv'
<1>1. waits' = waits \/ waits'.peer \notin Peer
  BY ZookeeperAssumption DEF NoWait
<1>2. Asking' /\ AnswersAreOnesOwn' /\ Replied' /\ Waiting'
  BY <1>1, QuietStep
<1>3. \A d \in Device : Books(d)'
  BY BooksElsewhere DEF IInv
<1>4. Lines'
  BY <1>1 DEF IInv, Lines
<1>5. TypeOK'
  <2>1. to_close' \subseteq Addr
    BY DEF IInv, TypeOK
  <2>2. IF pc' = "waits" THEN waits' \in [device : Device, peer : Peer \cup {Nobody}]
        ELSE waits' = NoWait
    BY DEF IInv, TypeOK
  <2> QED
    BY <2>1, <2>2, <1>2 DEF IInv, TypeOK, Replied
<1> QED
  BY <1>2, <1>3, <1>4, <1>5 DEF IInv

(* Steps in which processes change, without what the server knows of them. *)
LEMMA BuildersMove ==
  ASSUME IInv,
         UNCHANGED <<config, pc, fired, stop, waits, child_pid, cmd_list, p2c_pipe,
                     c2p_pipe, address, blocked, to_close, forks, asked, wire, line,
                     got>>,
         deaths' \in 0 .. MaxDeaths, NEW d \in Device, NEW b \in Builders,
         builder' = [builder EXCEPT ![d] = b],
         b.pid = builder[d].pid, builder[d].phase # "none", b.phase # "none",
         Alive(builder[d])
  PROVE  IInv'
<1>1. Asking' /\ AnswersAreOnesOwn' /\ Replied' /\ Waiting'
  BY QuietStep
<1>2. builder \in [Device -> Builders]
  BY DEF IInv, TypeOK
<1>3. builder'[d] = b /\ \A e \in Device : e # d => builder'[e] = builder[e]
  BY <1>2
<1>4. Books(d)'
  BY <1>3 DEF IInv, Books, Alive
<1>5. ASSUME NEW e \in Device
      PROVE  Books(e)'
  <2>1. CASE e # d
    BY <1>3, <2>1, BooksElsewhere DEF IInv
  <2> QED
    BY <1>4, <2>1
<1>6. Lines'
  BY DEF IInv, Lines
<1>7. TypeOK'
  <2>1. builder' \in [Device -> Builders]
    BY <1>2
  <2> QED
    BY <1>1, <2>1 DEF IInv, TypeOK, Replied
<1> QED
  BY <1>1, <1>5, <1>6, <1>7 DEF IInv

LEMMA AnswerKeeps ==
  ASSUME IInv, NEW d \in Device, Answer(d)
  PROVE  IInv'
<1> DEFINE cmd == Head(p2c_pipe[d])
           answer == [request |-> cmd.request,
                      arg |-> IF builder[d].phase = "built" THEN cmd.name ELSE "zero"]
<1>1. /\ builder[d].phase \in {"finding", "built"} /\ p2c_pipe[d] # <<>>
      /\ p2c_pipe' = [p2c_pipe EXCEPT ![d] = Tail(@)]
      /\ c2p_pipe' = [c2p_pipe EXCEPT ![d] = Append(@, answer)]
      /\ UNCHANGED <<config, pc, fired, stop, waits, child_pid, cmd_list, address,
                     blocked, to_close, builder, forks, deaths, asked, wire, line, got>>
  BY DEF Answer, clients, peers
<1>2. /\ p2c_pipe \in [Device -> Seq(IoCmds)] /\ c2p_pipe \in [Device -> Seq(Answers)]
  BY DEF IInv, TypeOK
<1>3. cmd = p2c_pipe[d][1] /\ cmd \in IoCmds
  <2>1. p2c_pipe[d] \in Seq(IoCmds)
    BY <1>2
  <2> QED
    BY <1>1, <2>1
<1> HIDE DEF cmd
<1>4. answer \in Answers /\ answer.request = cmd.request
  BY <1>3 DEF IoCmds, Answers
<1> HIDE DEF answer
<1>5. Alive(builder[d])
  BY <1>1 DEF Alive
<1>6. /\ cmd_list[d] # <<>> /\ c2p_pipe[d] = <<>> /\ Len(p2c_pipe[d]) = 1
      /\ p2c_pipe[d][1].request = cmd_list[d][1].io_cmd.request
  BY <1>1, <1>5 DEF IInv, Books
<1>7. p2c_pipe'[d] = <<>> /\ c2p_pipe'[d] = << answer >>
  <2>1. p2c_pipe[d] \in Seq(IoCmds) /\ p2c_pipe'[d] = Tail(p2c_pipe[d])
    BY <1>1, <1>2
  <2>2. Tail(p2c_pipe[d]) = <<>>
    BY <1>1, <1>6, <2>1, OfATail
  <2> QED
    BY <1>1, <1>2, <1>6, <2>1, <2>2
<1>8. Len(c2p_pipe'[d]) = 1 /\ c2p_pipe'[d][1] = answer /\ c2p_pipe'[d] # <<>>
  BY <1>7
<1>9. Books(d)'
  <2>1. /\ Len(c2p_pipe'[d]) = 1 /\ c2p_pipe'[d] # <<>> /\ p2c_pipe'[d] = <<>>
        /\ c2p_pipe'[d][1].request = cmd_list[d][1].io_cmd.request
    BY <1>3, <1>4, <1>6, <1>7, <1>8
  <2> QED
    BY <1>1, <1>6, <2>1 DEF IInv, Books, Alive
<1>10. ASSUME NEW e \in Device
       PROVE  Books(e)'
  <2>1. CASE e # d
    <3>1. p2c_pipe'[e] = p2c_pipe[e] /\ c2p_pipe'[e] = c2p_pipe[e]
      BY <1>1, <1>2, <2>1
    <3> QED
      BY <1>1, <3>1, BooksElsewhere DEF IInv
  <2> QED
    BY <1>9, <2>1
<1>11. Asking' /\ AnswersAreOnesOwn' /\ Replied' /\ Waiting'
  BY <1>1, QuietStep
<1>12. Lines'
  BY <1>1 DEF IInv, Lines
<1>13. TypeOK'
  <2>1. /\ p2c_pipe' \in [Device -> Seq(IoCmds)] /\ c2p_pipe' \in [Device -> Seq(Answers)]
    <3>1. Append(c2p_pipe[d], answer) \in Seq(Answers)
      BY <1>2, <1>4
    <3>2. Tail(p2c_pipe[d]) \in Seq(IoCmds)
      BY <1>1, <1>2, OfATail
    <3> QED
      BY <1>1, <1>2, <3>1, <3>2
  <2> QED
    BY <1>1, <1>11, <2>1 DEF IInv, TypeOK, Replied
<1> QED
  BY <1>1, <1>10, <1>11, <1>12, <1>13 DEF IInv

LEMMA ShutdownKeeps ==
  ASSUME IInv, Shutdown
  PROVE  IInv'
<1>1. /\ pc = "loop" /\ pc' = "exited"
      /\ builder' = [d \in Device |-> IF child_pid[d] # 0 THEN NoBuilder ELSE builder[d]]
      /\ line' = [p \in Peer |-> IF line[p] = "on" THEN "closed" ELSE line[p]]
      /\ UNCHANGED <<config, fired, stop, waits, child_pid, cmd_list, p2c_pipe, c2p_pipe,
                     address, blocked, to_close, forks, deaths, asked, wire, got>>
  BY DEF Shutdown, clients, pipes
<1>2. Asking' /\ AnswersAreOnesOwn' /\ Replied' /\ Waiting'
  BY <1>1, QuietStep
<1>3. NoBuilder.phase = "none"
  BY DEF NoBuilder
<1>4. ASSUME NEW d \in Device
      PROVE  Books(d)'
  <2>1. Books(d)
    BY DEF IInv
  <2>2. builder'[d] = IF child_pid[d] # 0 THEN NoBuilder ELSE builder[d]
    BY <1>1
  <2> QED
    BY <1>1, <1>3, <2>1, <2>2 DEF Books, Alive
<1>5. Lines'
  BY <1>1 DEF IInv, Lines
<1>6. TypeOK'
  <2>1. NoBuilder \in Builders
    BY DEF NoBuilder, Builders
  <2>2. builder' \in [Device -> Builders]
    BY <1>1, <2>1 DEF IInv, TypeOK
  <2>3. line' \in [Peer -> {"off", "on", "gone", "closed"}]
    BY <1>1 DEF IInv, TypeOK
  <2> QED
    BY <1>1, <1>2, <2>2, <2>3 DEF IInv, TypeOK, Replied
<1> QED
  BY <1>1, <1>2, <1>4, <1>5, <1>6 DEF IInv

LEMMA ConnectKeeps ==
  ASSUME IInv, NEW p \in Peer, Connect(p)
  PROVE  IInv'
<1>1. /\ pc = "loop" /\ line[p] = "off" /\ line' = [line EXCEPT ![p] = "on"]
      /\ UNCHANGED <<config, pc, fired, stop, waits, blocked, to_close, child_pid,
                     cmd_list, p2c_pipe, c2p_pipe, builder, forks, deaths, asked, wire,
                     got>>
  BY DEF Connect, pipes
<1>2. PICK a \in Found : address' = [address EXCEPT ![p] = a]
  BY DEF Connect
<1>3. a \in Addr /\ a # NULL /\ \A q \in Peer : address[q] # a
  BY ZookeeperAssumption DEF Found, InUse
<1>4. /\ address \in [Peer -> Addr \cup {NULL}]
      /\ line \in [Peer -> {"off", "on", "gone", "closed"}]
  BY DEF IInv, TypeOK
<1>5. /\ address'[p] = a /\ \A q \in Peer : q # p => address'[q] = address[q]
      /\ line'[p] = "on" /\ \A q \in Peer : q # p => line'[q] = line[q]
  BY <1>1, <1>2, <1>4
<1>6. asked[p] = 0 /\ address[p] = NULL
  BY <1>1 DEF IInv, Lines
<1>7. Asking' /\ AnswersAreOnesOwn' /\ Replied'
  <2>1. Asking'
    BY <1>1 DEF IInv, Asking
  <2>2. AnswersAreOnesOwn'
    BY <1>1 DEF IInv, AnswersAreOnesOwn
  <2>3. Replied'
    BY <1>1 DEF IInv, TypeOK, Replied
  <2> QED
    BY <2>1, <2>2, <2>3
<1>8. \A d \in Device : \A i \in DOMAIN cmd_list[d] :
        /\ cmd_list[d][i].io_cmd.request.peer \in Peer
        /\ cmd_list[d][i].io_cmd.request.peer # p
  <2> SUFFICES ASSUME NEW d \in Device, NEW i \in DOMAIN cmd_list[d]
               PROVE  /\ cmd_list[d][i].io_cmd.request.peer \in Peer
                      /\ cmd_list[d][i].io_cmd.request.peer # p
    OBVIOUS
  <2> DEFINE r == cmd_list[d][i].io_cmd.request
  <2>1. r.peer \in Peer /\ asked[r.peer] = Len(got[r.peer]) + 1
    BY OfAnEntry
  <2> HIDE DEF r
  <2>2. PICK S : got[r.peer] \in Seq(S)
    BY <2>1 DEF IInv, Asking
  <2>3. asked[r.peer] # 0
    BY <2>1, <2>2
  <2> QED
    BY <1>6, <2>1, <2>3 DEF r
<1>9. Waiting'
  <2>1. \A d \in Device : \A i \in DOMAIN cmd_list[d] :
          address'[cmd_list[d][i].io_cmd.request.peer]
            = address[cmd_list[d][i].io_cmd.request.peer]
    BY <1>5, <1>8
  <2> QED
    BY <1>1, <2>1, WaitingElsewhere
<1>10. \A d \in Device : Books(d)'
  BY <1>1, BooksElsewhere DEF IInv
<1>11. Lines'
  <2>1. \A q, r \in Peer : address'[q] = address'[r] /\ address'[q] # NULL => q = r
    BY <1>3, <1>5 DEF IInv, Lines
  <2>2. \A q \in Peer :
          /\ line'[q] \in {"on", "gone"} /\ pc' # "exited" => address'[q] # NULL
          /\ wire'[q] # <<>> => address'[q] # NULL
          /\ line'[q] = "off" => asked'[q] = 0 /\ address'[q] = NULL
          /\ waits'.peer = q => address'[q] # NULL
    BY <1>1, <1>3, <1>5 DEF IInv, Lines
  <2>3. \A b \in to_close' : \E q \in Peer : address'[q] = b
    <3>1. \A b \in to_close : b # NULL
      BY ZookeeperAssumption DEF IInv, TypeOK
    <3> QED
      BY <1>1, <1>5, <1>6, <3>1 DEF IInv, Lines
  <2> QED
    BY <1>1, <2>1, <2>2, <2>3 DEF Lines
<1>12. TypeOK'
  <2>1. /\ address' \in [Peer -> Addr \cup {NULL}]
        /\ line' \in [Peer -> {"off", "on", "gone", "closed"}]
    BY <1>1, <1>2, <1>3, <1>4
  <2> QED
    BY <1>1, <1>7, <2>1 DEF IInv, TypeOK, Replied
<1> QED
  BY <1>1, <1>7, <1>9, <1>10, <1>11, <1>12 DEF IInv

LEMMA SendKeeps ==
  ASSUME IInv, NEW p \in Peer, Send(p)
  PROVE  IInv'
<1> DEFINE command == config.script[p][asked[p] + 1]
<1>1. /\ line[p] = "on" /\ asked[p] = Len(got[p]) /\ asked[p] < Len(config.script[p])
      /\ asked' = [asked EXCEPT ![p] = @ + 1]
      /\ wire' = [wire EXCEPT ![p] = Append(@, command)]
      /\ UNCHANGED <<config, pc, fired, stop, waits, address, blocked, to_close,
                     child_pid, cmd_list, p2c_pipe, c2p_pipe, builder, forks, deaths,
                     line, got>>
  BY DEF Send, clients, pipes
<1>2. asked \in [Peer -> Nat] /\ wire \in [Peer -> Seq(Command)]
  BY DEF IInv, TypeOK
<1>3. command \in Command
  <2>1. config.script[p] \in Seq(Command)
    BY ZookeeperAssumption DEF IInv, TypeOK
  <2>2. asked[p] + 1 \in 1 .. Len(config.script[p])
    BY <1>1, <1>2, <2>1
  <2> QED
    BY <2>1, <2>2
<1> HIDE DEF command
<1>4. PICK S : got[p] \in Seq(S)
  BY DEF IInv, Asking
<1>5. wire[p] = <<>> /\ waits.peer # p
  BY <1>1, <1>4 DEF IInv, Asking
<1>6. address[p] # NULL
  BY <1>1 DEF IInv, Lines
<1>7. /\ asked'[p] = Len(got[p]) + 1 /\ wire'[p] = << command >>
      /\ \A q \in Peer : q # p => asked'[q] = asked[q] /\ wire'[q] = wire[q]
  BY <1>1, <1>2, <1>5
<1>8. Asking'
  <2>1. Len(wire'[p]) <= 1
    BY <1>7
  <2>2. ASSUME NEW q \in Peer
        PROVE  /\ \E T : got'[q] \in Seq(T)
               /\ asked'[q] \in {Len(got'[q]), Len(got'[q]) + 1}
               /\ Len(wire'[q]) <= 1
               /\ wire'[q] # <<>> => asked'[q] = Len(got'[q]) + 1 /\ waits'.peer # q
               /\ waits'.peer = q => asked'[q] = Len(got'[q]) + 1
    <3>1. CASE q = p
      BY <1>1, <1>4, <1>5, <1>7, <2>1, <3>1
    <3>2. CASE q # p
      BY <1>1, <1>7, <3>2 DEF IInv, Asking
    <3> QED
      BY <3>1, <3>2
  <2> QED
    BY <2>2 DEF Asking
<1>9. AnswersAreOnesOwn' /\ Replied'
  <2>1. AnswersAreOnesOwn'
    BY <1>1 DEF IInv, AnswersAreOnesOwn
  <2>2. Replied'
    BY <1>1 DEF IInv, TypeOK, Replied
  <2> QED
    BY <2>1, <2>2
<1>10. \A d \in Device : \A i \in DOMAIN cmd_list[d] :
        /\ cmd_list[d][i].io_cmd.request.peer \in Peer
        /\ cmd_list[d][i].io_cmd.request.peer # p
  <2> SUFFICES ASSUME NEW d \in Device, NEW i \in DOMAIN cmd_list[d]
               PROVE  /\ cmd_list[d][i].io_cmd.request.peer \in Peer
                      /\ cmd_list[d][i].io_cmd.request.peer # p
    OBVIOUS
  <2> DEFINE r == cmd_list[d][i].io_cmd.request
  <2>1. r.peer \in Peer /\ asked[r.peer] = Len(got[r.peer]) + 1
    BY OfAnEntry
  <2> HIDE DEF r
  <2>2. r.peer # p
    BY <1>1, <1>4, <2>1
  <2> QED
    BY <2>1, <2>2 DEF r
<1>11. Waiting'
  <2>1. \A d \in Device : \A i \in DOMAIN cmd_list[d] :
          LET q == cmd_list[d][i].io_cmd.request.peer
          IN asked'[q] = asked[q] /\ wire'[q] = wire[q]
    BY <1>7, <1>10
  <2> QED
    BY <1>1, <2>1, WaitingElsewhere
<1>12. \A d \in Device : Books(d)'
  BY <1>1, BooksElsewhere DEF IInv
<1>13. Lines'
  <2>1. \A q \in Peer :
          /\ wire'[q] # <<>> => address[q] # NULL
          /\ line[q] = "off" => asked'[q] = 0
    BY <1>1, <1>6, <1>7 DEF IInv, Lines
  <2> QED
    BY <1>1, <2>1 DEF IInv, Lines
<1>14. TypeOK'
  <2>1. asked' \in [Peer -> Nat] /\ wire' \in [Peer -> Seq(Command)]
    BY <1>1, <1>2, <1>3
  <2> QED
    BY <1>1, <1>9, <2>1 DEF IInv, TypeOK, Replied
<1> QED
  BY <1>1, <1>8, <1>9, <1>11, <1>12, <1>13, <1>14 DEF IInv

LEMMA HangUpKeeps ==
  ASSUME IInv, NEW p \in Peer, HangUp(p)
  PROVE  IInv'
<1>1. /\ line[p] = "on" /\ line' = [line EXCEPT ![p] = "gone"]
      /\ UNCHANGED <<config, pc, fired, stop, waits, address, blocked, to_close,
                     child_pid, cmd_list, p2c_pipe, c2p_pipe, builder, forks, deaths,
                     asked, wire, got>>
  BY DEF HangUp, clients, pipes
<1>2. line \in [Peer -> {"off", "on", "gone", "closed"}]
  BY DEF IInv, TypeOK
<1>3. Asking' /\ AnswersAreOnesOwn' /\ Replied' /\ Waiting'
  BY <1>1, QuietStep
<1>4. \A d \in Device : Books(d)'
  BY <1>1, BooksElsewhere DEF IInv
<1>5. Lines'
  BY <1>1, <1>2 DEF IInv, Lines
<1>6. TypeOK'
  BY <1>1, <1>2, <1>3 DEF IInv, TypeOK, Replied
<1> QED
  BY <1>1, <1>3, <1>4, <1>5, <1>6 DEF IInv

LEMMA InterruptKeeps ==
  ASSUME IInv, Interrupt \/ UNCHANGED vars
  PROVE  IInv'
<1>1. /\ stop' \in BOOLEAN
      /\ UNCHANGED <<config, pc, fired, waits, address, blocked, to_close,
                     child_pid, cmd_list, p2c_pipe, c2p_pipe, builder, forks, deaths,
                     asked, wire, line, got>>
  BY DEF Interrupt, vars, clients, pipes, peers, IInv, TypeOK
<1>2. Asking' /\ AnswersAreOnesOwn' /\ Replied' /\ Waiting'
  BY <1>1, QuietStep
<1>3. \A d \in Device : Books(d)'
  BY <1>1, BooksElsewhere DEF IInv
<1>4. Lines'
  BY <1>1 DEF IInv, Lines
<1>5. TypeOK'
  BY <1>1, <1>2 DEF IInv, TypeOK, Replied
<1> QED
  BY <1>1, <1>2, <1>3, <1>4, <1>5 DEF IInv

LEMMA HandleClientKeeps ==
  ASSUME IInv, NEW p \in Peer, HandleClient(p)
  PROVE  IInv'
<1>1. /\ pc = "dispatch" /\ p \in fired /\ fired' = fired \ {p}
      /\ wire' = [wire EXCEPT ![p] = <<>>]
      /\ UNCHANGED <<config, stop, deaths, asked, line>>
      /\ to_close' = IF wire[p] = <<>> /\ line[p] = "gone"
                       THEN to_close \cup {address[p]} ELSE to_close
  BY DEF HandleClient
<1>2. CASE wire[p] # <<>>
  <2>1. Reads(p)
    BY <1>1, <1>2 DEF Reads
  <2> QED
    BY <1>2, <2>1, ClientRuns, RepliesKeeps, StartsKeeps, StopsKeeps, QueuesKeeps
<1>3. CASE wire[p] = <<>>
  <2>1. UNCHANGED <<pc, waits, child_pid, cmd_list, address, blocked, p2c_pipe, c2p_pipe,
                    builder, got, forks>>
    BY <1>3 DEF HandleClient, Become, State
  <2>2. wire' = wire
    BY <1>1, <1>3 DEF IInv, TypeOK
  <2>3. line[p] = "gone" => address[p] # NULL
    BY <1>1 DEF IInv, Lines
  <2>4. fired' \subseteq Peer \cup Device
    BY <1>1 DEF IInv, TypeOK
  <2>5. pc # "exited" /\ pc' \in {"loop", "free", "dispatch", "waits"}
    BY <1>1, <2>1
  <2>6. \/ to_close' = to_close
        \/ \E q \in Peer : address[q] # NULL /\ to_close' = to_close \cup {address[q]}
    BY <1>1, <2>3
  <2> QED
    BY <1>1, <2>1, <2>2, <2>4, <2>5, <2>6, ServerTurns
<1> QED
  BY <1>2, <1>3

LEMMA HandlePipeKeeps ==
  ASSUME IInv, NEW d \in Device, HandlePipe(d)
  PROVE  IInv'
<1>1. /\ pc = "dispatch" /\ d \in fired /\ fired' = fired \ {d}
      /\ UNCHANGED <<config, stop, to_close, deaths, asked, wire, line>>
  BY DEF HandlePipe, peers
<1>2. waits = NoWait /\ NoWait.peer \notin Peer /\ fired' \subseteq Peer \cup Device
  BY <1>1, ZookeeperAssumption DEF IInv, TypeOK, NoWait
<1>3. CASE child_pid[d] = 0
  <2>1. UNCHANGED <<pc, waits, child_pid, cmd_list, address, blocked, p2c_pipe, c2p_pipe,
                    builder, got, forks>>
    BY <1>3 DEF HandlePipe, Become, State
  <2> QED
    BY <1>1, <1>2, <2>1, ServerTurns
<1>4. CASE child_pid[d] # 0 /\ Readable(State, d)
  <2>1. Become(child_read_proc(State, d))
    BY <1>4 DEF HandlePipe
  <2>2. State = [State EXCEPT !.pc = "dispatch", !.waits = NoWait]
    <3> DEFINE T == [State EXCEPT !.pc = "dispatch", !.waits = NoWait]
    <3>1. DOMAIN T = DOMAIN State /\ \A f \in DOMAIN State : T[f] = State[f]
      <4>1. State.pc = "dispatch" /\ State.waits = NoWait
        BY <1>1, <1>2 DEF State
      <4> QED
        BY <4>1
    <3>2. State = [f \in DOMAIN State |-> State[f]] /\ T = [f \in DOMAIN T |-> T[f]]
      BY DEF State
    <3> HIDE DEF T
    <3>3. State = T
      BY <3>1, <3>2
    <3> QED
      BY <3>3 DEF T
  <2>3. Become(child_read_proc([State EXCEPT !.pc = "dispatch", !.waits = NoWait], d))
    BY <2>1, <2>2
  <2>4. Untouched /\ waits.peer \notin Peer /\ pc # "exited"
    BY <1>1, <1>2 DEF Untouched, peers
  <2> QED
    BY <1>4, <2>3, <2>4, PipeReads, PopsKeeps, LosesKeeps
<1>5. CASE child_pid[d] # 0 /\ ~ Readable(State, d)
  <2>1. Become([State EXCEPT !.pc = "waits",
                             !.waits = [device |-> d, peer |-> Nobody]])
    BY <1>5 DEF HandlePipe
  <2>2. /\ pc' = "waits" /\ waits' = [device |-> d, peer |-> Nobody]
        /\ UNCHANGED <<child_pid, cmd_list, address, blocked, p2c_pipe, c2p_pipe,
                       builder, got, forks>>
    BY <2>1 DEF Become, State
  <2>3. waits'.peer = Nobody /\ waits' \in [device : Device, peer : Peer \cup {Nobody}]
    BY <2>2
  <2>4. pc # "exited" /\ pc' \in {"loop", "free", "dispatch", "waits"}
    BY <1>1, <2>2
  <2> QED
    BY <1>1, <1>2, <2>2, <2>3, <2>4, ServerTurns
<1> QED
  BY <1>3, <1>4, <1>5

LEMMA ReturnsKeeps ==
  ASSUME IInv, Returns
  PROVE  IInv'
<1>1. /\ pc = "waits" /\ Wakes
      /\ UNCHANGED <<config, fired, stop, to_close, deaths, asked, wire, line>>
  BY DEF Returns, peers
<1>2. Untouched /\ pc # "exited" /\ waits.device \in Device
  BY <1>1 DEF Untouched, peers, IInv, TypeOK
<1>3. CASE waits.peer # Nobody
  BY <1>2, <1>3, StopReturns, LosesKeeps
<1>4. CASE waits.peer = Nobody
  <2>1. Become(child_read_proc([State EXCEPT !.pc = "dispatch", !.waits = NoWait],
                               waits.device))
    BY <1>4 DEF Returns
  <2>2. waits.peer \notin Peer /\ Readable(State, waits.device)
    BY <1>1, <1>4, ZookeeperAssumption DEF Wakes
  <2> QED
    BY <1>2, <2>1, <2>2, PipeReads, PopsKeeps, LosesKeeps
<1> QED
  BY <1>3, <1>4

LEMMA BuilderStepKeeps ==
  ASSUME IInv, TwinsFindNothing, BuilderStep
  PROVE  IInv'
<1>1. PICK d \in Device : \/ Twin(d) \/ BecomeBuilder(d) \/ FindBoard(d)
                          \/ ConnectToBoard(d) \/ Answer(d) \/ Obey(d) \/ Die(d)
  BY DEF BuilderStep
<1>2. builder \in [Device -> Builders] /\ builder[d] \in Builders /\ deaths \in 0 .. MaxDeaths
  BY DEF IInv, TypeOK
<1>3. CASE Twin(d)
  <2>1. Passes(d)
    BY <1>3, TwinRunsOn
  <2>2. PICK b \in Builders :
          /\ b.phase = "forked" /\ b.pid = builder[d].pid
          /\ builder' = [builder EXCEPT ![d] = b]
    BY <2>1 DEF Passes
  <2>3. /\ builder[d].phase = "forked"
        /\ UNCHANGED <<config, pc, fired, stop, waits, child_pid, cmd_list, p2c_pipe,
                       c2p_pipe, address, blocked, to_close, forks, deaths, asked, wire,
                       line, got>>
    BY <2>1 DEF Passes, clients, pipes, peers
  <2>4. Alive(builder[d])
    BY <2>3 DEF Alive
  <2> QED
    BY <1>2, <2>2, <2>3, <2>4, BuildersMove
<1>4. ASSUME NEW from, NEW to \in {"finding", "connecting", "built"}, Phase(d, from, to),
             from \in {"forked", "finding", "connecting"}
      PROVE  IInv'
  <2> DEFINE b == [builder[d] EXCEPT !.phase = to]
  <2>1. /\ builder[d].phase = from /\ builder' = [builder EXCEPT ![d].phase = to]
        /\ UNCHANGED <<config, pc, fired, stop, waits, child_pid, cmd_list, p2c_pipe,
                       c2p_pipe, address, blocked, to_close, forks, deaths, asked, wire,
                       line, got>>
    BY <1>4 DEF Phase, clients, pipes, peers
  <2>2. b \in Builders /\ b.phase = to /\ b.pid = builder[d].pid
    BY <1>2 DEF Builders
  <2>3. builder' = [builder EXCEPT ![d] = b]
    BY <2>1
  <2>4. Alive(builder[d]) /\ builder[d].phase # "none" /\ b.phase # "none"
    BY <1>4, <2>1, <2>2 DEF Alive
  <2> HIDE DEF b
  <2> QED
    BY <1>2, <2>1, <2>2, <2>3, <2>4, BuildersMove
<1>5. CASE BecomeBuilder(d) \/ FindBoard(d) \/ ConnectToBoard(d)
  <2>1. \/ Phase(d, "forked", "finding") \/ Phase(d, "finding", "connecting")
        \/ Phase(d, "connecting", "built")
    BY <1>5 DEF BecomeBuilder, FindBoard, ConnectToBoard
  <2> QED
    BY <1>4, <2>1
<1>6. CASE Answer(d)
  BY <1>6, AnswerKeeps
<1>7. CASE Obey(d) \/ Die(d)
  <2> DEFINE b == [NoBuilder EXCEPT !.phase = "dead", !.pid = builder[d].pid]
  <2>1. /\ Alive(builder[d]) /\ builder' = [builder EXCEPT ![d] = b]
        /\ UNCHANGED <<config, pc, fired, stop, waits, child_pid, cmd_list, p2c_pipe,
                       c2p_pipe, address, blocked, to_close, forks, asked, wire,
                       line, got>>
    BY <1>7 DEF Obey, Die, Ends, clients, pipes, peers
  <2>2. deaths' \in 0 .. MaxDeaths
    BY <1>2, <1>7, ZookeeperAssumption DEF Obey, Die
  <2>3. b \in Builders /\ b.phase = "dead" /\ b.pid = builder[d].pid
    <3>1. builder[d].pid \in Nat
      BY <1>2 DEF Builders
    <3>2. NoBuilder \in Builders /\ NoBuilder.child_pid \in [Device -> Nat]
          /\ NoBuilder.cmd_list \in [Device -> Seq(Entries)]
      BY DEF NoBuilder, Builders
    <3> QED
      BY <3>1, <3>2 DEF Builders, NoBuilder
  <2>4. builder[d].phase # "none" /\ b.phase # "none"
    BY <2>1, <2>3 DEF Alive
  <2> HIDE DEF b
  <2> QED
    BY <2>1, <2>2, <2>3, <2>4, BuildersMove
<1> QED
  BY <1>1, <1>3, <1>5, <1>6, <1>7

-----------------------------------------------------------------------------
(* The theorems *)

LEMMA InitSound == Init => IInv
<1> SUFFICES ASSUME Init
             PROVE  IInv
  OBVIOUS
<1>1. NoBuilder \in Builders /\ NoBuilder.phase = "none"
      /\ NoBuilder.child_pid \in [Device -> Nat]
      /\ NoBuilder.cmd_list \in [Device -> Seq(Entries)]
  BY DEF NoBuilder, Builders
<1>2. ASSUME NEW d \in Device
      PROVE  d + 1 \in Nat /\ d + 1 # 0
  BY ZookeeperAssumption DEF MAX_NUM_BUILDERS
<1>3. config \in Configurations /\ NoWait.peer \notin Peer
  BY ZookeeperAssumption DEF Init, NoWait
<1> DEFINE built(d) == [NoBuilder EXCEPT !.phase = "built", !.pid = d + 1]
<1>4. ASSUME NEW d \in Device
      PROVE  built(d) \in Builders /\ built(d).phase = "built" /\ built(d).pid = d + 1
  BY <1>1, <1>2 DEF Builders, NoBuilder
<1>5. ASSUME NEW d \in Device
      PROVE  /\ d \in config.running => builder[d] = built(d) /\ child_pid[d] = d + 1
             /\ d \notin config.running => builder[d] = NoBuilder /\ child_pid[d] = 0
             /\ cmd_list[d] = <<>> /\ c2p_pipe[d] = <<>> /\ p2c_pipe[d] = <<>>
  BY DEF Init
<1>6. builder = [d \in Device |-> builder[d]] /\ child_pid = [d \in Device |-> child_pid[d]]
  BY DEF Init
<1> HIDE DEF built
<1>7. ASSUME NEW d \in Device
      PROVE  Books(d)
  BY <1>1, <1>2, <1>4, <1>5 DEF Books, Alive
<1>i. /\ pc = "loop" /\ fired = {} /\ stop = FALSE /\ waits = NoWait
      /\ cmd_list = [d \in Device |-> <<>>]
      /\ address = [p \in Peer |-> NULL] /\ blocked = {} /\ to_close = {}
      /\ p2c_pipe = [d \in Device |-> <<>>] /\ c2p_pipe = [d \in Device |-> <<>>]
      /\ forks = MAX_NUM_BUILDERS /\ deaths = 0
      /\ asked = [p \in Peer |-> 0] /\ wire = [p \in Peer |-> <<>>]
      /\ got = [p \in Peer |-> <<>>] /\ line = [p \in Peer |-> "off"]
  BY DEF Init
<1>e. \A S : <<>> \in Seq(S) /\ DOMAIN <<>> = {} /\ Len(<<>>) = 0
  BY EmptySeq
<1>8. TypeOK
  <2>1. builder \in [Device -> Builders] /\ child_pid \in [Device -> Nat]
    <3>1. ASSUME NEW d \in Device
          PROVE  builder[d] \in Builders /\ child_pid[d] \in Nat
      <4>1. CASE d \in config.running
        BY <1>2, <1>4, <1>5, <4>1
      <4>2. CASE d \notin config.running
        BY <1>1, <1>5, <4>2
      <4> QED
        BY <4>1, <4>2
    <3> QED
      BY <1>6, <3>1
  <2>2. /\ cmd_list \in [Device -> Seq(Entries)] /\ p2c_pipe \in [Device -> Seq(IoCmds)]
        /\ c2p_pipe \in [Device -> Seq(Answers)] /\ wire \in [Peer -> Seq(Command)]
        /\ asked \in [Peer -> Nat] /\ address \in [Peer -> Addr \cup {NULL}]
        /\ line \in [Peer -> {"off", "on", "gone", "closed"}]
    BY <1>i, <1>e
  <2>3. forks \in Nat /\ deaths \in 0 .. MaxDeaths
    BY <1>i, ZookeeperAssumption DEF MAX_NUM_BUILDERS
  <2>4. DOMAIN got = Peer /\ \A p \in Peer : \A i \in DOMAIN got[p] : got[p][i].to \in Requests
    BY <1>i, <1>e
  <2> QED
    BY <1>i, <1>3, <2>1, <2>2, <2>3, <2>4 DEF TypeOK
<1>9. Lines
  BY <1>i, <1>3 DEF Lines
<1>10. Asking
  <2> SUFFICES ASSUME NEW p \in Peer
               PROVE  /\ \E S : got[p] \in Seq(S)
                      /\ asked[p] \in {Len(got[p]), Len(got[p]) + 1}
                      /\ Len(wire[p]) <= 1 /\ wire[p] = <<>> /\ waits.peer # p
    BY DEF Asking
  <2>1. got[p] = <<>> /\ asked[p] = 0 /\ wire[p] = <<>> /\ waits.peer # p
    BY <1>i, <1>3
  <2> QED
    BY <1>e, <2>1
<1>11. Waiting
  <2>1. \A d \in Device : DOMAIN cmd_list[d] = {}
    BY <1>i, <1>e
  <2> QED
    BY <1>i, <2>1 DEF Waiting
<1>12. AnswersAreOnesOwn
  <2>1. \A p \in Peer : DOMAIN got[p] = {}
    BY <1>i, <1>e
  <2> QED
    BY <2>1 DEF AnswersAreOnesOwn
<1> QED
  BY <1>i, <1>7, <1>8, <1>9, <1>10, <1>11, <1>12 DEF IInv

LEMMA StepSound ==
  IInv /\ TwinsFindNothing /\ LeavesAlone /\ [Next]_vars => IInv'
<1> SUFFICES ASSUME IInv, TwinsFindNothing, LeavesAlone, [Next]_vars
             PROVE  IInv'
  OBVIOUS
<1>1. CASE Poll \/ NextTurn
  <2>1. /\ pc \in {"loop", "free", "dispatch"} /\ pc' \in {"loop", "dispatch"}
        /\ UNCHANGED <<config, stop, waits, child_pid, cmd_list, p2c_pipe, c2p_pipe,
                       address, blocked, to_close, builder, forks, deaths, asked, wire,
                       line, got>>
    BY <1>1 DEF Poll, NextTurn, clients, pipes, peers
  <2>2. fired' \subseteq Peer \cup Device
    BY <1>1 DEF Poll, NextTurn, Ready, IInv, TypeOK
  <2>3. waits' = NoWait /\ pc' # "waits" /\ pc # "exited"
    BY <2>1 DEF IInv, TypeOK
  <2> QED
    BY <2>1, <2>2, <2>3, ServerTurns
<1>2. ASSUME NEW p \in Peer, FreeClient(p)
      PROVE  IInv'
  BY <1>2, FreeClientRuns, FreesKeeps
<1>3. CASE ServerStep
  BY <1>1, <1>2, <1>3, ReturnsKeeps, ShutdownKeeps, HandleClientKeeps, HandlePipeKeeps
     DEF ServerStep
<1>4. CASE BuilderStep
  BY <1>4, BuilderStepKeeps
<1>5. CASE PeerStep
  BY <1>5, InterruptKeeps, ConnectKeeps, SendKeeps, HangUpKeeps DEF PeerStep
<1>6. CASE UNCHANGED vars
  BY <1>6, InterruptKeeps
<1> QED
  BY <1>3, <1>4, <1>5, <1>6 DEF Next

(* As long as a copy that was forked finds nothing to read, and those who  *)
(* leave while they wait wait alone, all parts of the invariant hold.      *)
THEOREM Invariant == Spec /\ []TwinsFindNothing /\ []LeavesAlone => []IInv
BY InitSound, StepSound, PTL DEF Spec

(* Under these conditions every reply goes to the peer that asked, and     *)
(* answers the request that it counts (child_read_proc trusts the order).  *)
THEOREM RepliesAreOnesOwn ==
  Spec /\ []TwinsFindNothing /\ []LeavesAlone => []AnswersAreOnesOwn
<1>1. IInv => AnswersAreOnesOwn
  BY DEF IInv
<1> QED
  BY <1>1, Invariant, PTL

(* And no queue leads to the memory of a client that was freed, nor does   *)
(* the server ever use a command or a client that is not there.            *)
THEOREM NobodyDangles ==
  Spec /\ []TwinsFindNothing /\ []LeavesAlone => []NoDangling
<1>1. ASSUME IInv
      PROVE  NoDangling
  <2> DEFINE Waiters == UNION {{d} \X {i \in DOMAIN cmd_list[d] :
                                  cmd_list[d][i].client # NULL} : d \in Device}
             entry(w) == cmd_list[w[1]][w[2]]
  <2>1. ASSUME NEW w \in Waiters
        PROVE  /\ w[1] \in Device /\ w[2] \in DOMAIN cmd_list[w[1]]
               /\ entry(w).client # NULL /\ w = <<w[1], w[2]>>
    OBVIOUS
  <2>2. ASSUME NEW d \in Device, NEW i \in DOMAIN cmd_list[d],
               cmd_list[d][i].client # NULL
        PROVE  <<d, i>> \in Waiters
    BY <2>2
  <2> HIDE DEF Waiters
  <2>3. ASSUME NEW w \in Waiters
        PROVE  /\ address[entry(w).io_cmd.request.peer] = entry(w).client
               /\ entry(w).client \in Addr
    <3>1. entry(w) \in Entries /\ address[entry(w).io_cmd.request.peer] = entry(w).client
      BY <1>1, <2>1, OfAnEntry
    <3> QED
      BY <2>1, <3>1 DEF Entries
  <2>4. blocked = {entry(w).client : w \in Waiters}
    <3>1. ASSUME NEW a \in blocked
          PROVE  \E w \in Waiters : a = entry(w).client
      <4>1. a \in Addr /\ a # NULL
        BY <1>1, ZookeeperAssumption DEF IInv, TypeOK
      <4>2. PICK d \in Device : \E i \in DOMAIN cmd_list[d] : cmd_list[d][i].client = a
        BY <1>1, <4>1 DEF IInv, Waiting
      <4>3. PICK i \in DOMAIN cmd_list[d] : cmd_list[d][i].client = a
        BY <4>2
      <4>4. <<d, i>> \in Waiters /\ entry(<<d, i>>).client = a
        BY <2>2, <4>1, <4>3
      <4> QED
        BY <4>4
    <3>2. ASSUME NEW w \in Waiters
          PROVE  entry(w).client \in blocked
      BY <1>1, <2>1, <2>3 DEF IInv, Waiting
    <3> QED
      BY <3>1, <3>2
  <2>5. ASSUME NEW v \in Waiters, NEW w \in Waiters, entry(v).client = entry(w).client
        PROVE  v = w
    <3>1. v[1] = w[1] /\ v[2] = w[2]
      BY <1>1, <2>1, <2>5, OneEntryEach
    <3> QED
      BY <2>1, <3>1
  <2>6. pc # "crashed"
    BY <1>1 DEF IInv
  <2> QED
    BY <2>3, <2>4, <2>5, <2>6 DEF NoDangling, Waiters
<1> QED
  BY <1>1, Invariant, PTL

(* And what the server keeps about its builders is right: what is under    *)
(* way to a builder and from it is the first command of its list, and      *)
(* every process that runs is the one that the server knows.               *)
THEOREM BooksStayRight ==
  Spec /\ []TwinsFindNothing /\ []LeavesAlone => []BooksAreRight
<1>1. ASSUME IInv
      PROVE  BooksAreRight
  <2>1. BuildersAreKnown
    BY <1>1 DEF IInv, Books, BuildersAreKnown
  <2>2. ASSUME NEW d \in Device, child_pid[d] # 0, Alive(builder[d])
        PROVE  [i \in DOMAIN p2c_pipe[d] |-> p2c_pipe[d][i].request]
                 \o [i \in DOMAIN c2p_pipe[d] |-> c2p_pipe[d][i].request]
               = IF cmd_list[d] = <<>> THEN <<>> ELSE << cmd_list[d][1].io_cmd.request >>
    <3> DEFINE sent == [i \in DOMAIN p2c_pipe[d] |-> p2c_pipe[d][i].request]
               answered == [i \in DOMAIN c2p_pipe[d] |-> c2p_pipe[d][i].request]
               r == cmd_list[d][1].io_cmd.request
    <3>1. p2c_pipe[d] \in Seq(IoCmds) /\ c2p_pipe[d] \in Seq(Answers)
      BY <1>1 DEF IInv, TypeOK
    <3>2. /\ c2p_pipe[d] # <<>> =>
               /\ Len(c2p_pipe[d]) = 1 /\ cmd_list[d] # <<>> /\ c2p_pipe[d][1].request = r
          /\ cmd_list[d] = <<>> => p2c_pipe[d] = <<>>
          /\ cmd_list[d] # <<>> /\ c2p_pipe[d] # <<>> => p2c_pipe[d] = <<>>
          /\ cmd_list[d] # <<>> /\ c2p_pipe[d] = <<>> =>
               Len(p2c_pipe[d]) = 1 /\ p2c_pipe[d][1].request = r
      BY <1>1, <2>2 DEF IInv, Books
    <3>3. ASSUME NEW q, NEW T, q \in Seq(T), NEW s, s = [i \in DOMAIN q |-> q[i].request]
          PROVE  /\ q = <<>> => s = <<>>
                 /\ Len(q) = 1 => s = << q[1].request >>
      BY <3>3
    <3>4. /\ p2c_pipe[d] = <<>> => sent = <<>>
          /\ Len(p2c_pipe[d]) = 1 => sent = << p2c_pipe[d][1].request >>
          /\ c2p_pipe[d] = <<>> => answered = <<>>
          /\ Len(c2p_pipe[d]) = 1 => answered = << c2p_pipe[d][1].request >>
      BY <3>1, <3>3
    <3> HIDE DEF sent, answered, r
    <3>5. << r >> \o <<>> = << r >> /\ <<>> \o << r >> = << r >> /\ <<>> \o <<>> = <<>>
      OBVIOUS
    <3>6. sent \o answered = IF cmd_list[d] = <<>> THEN <<>> ELSE << r >>
      BY <3>2, <3>4, <3>5
    <3> QED
      BY <3>6 DEF sent, answered, r
  <2>3. FirstIsUnderway
    BY <2>2 DEF FirstIsUnderway
  <2> QED
    BY <2>1, <2>3 DEF BooksAreRight
<1> QED
  BY <1>1, Invariant, PTL

=============================================================================
