----------------------------- MODULE BoardServer -----------------------------
(***************************************************************************)
(* ceres_server.c, which has up to eight CERES boards and for each client  *)
(* a mask of those its commands are for, and kintex_client_server.c, which *)
(* has one board of either kind.  A command runs to its end before the     *)
(* next one begins, board after board, each access waiting for its answer; *)
(* a client's request is known to be complete and of the right length      *)
(* (Server.tla).                                                           *)
(***************************************************************************)
EXTENDS Board

CONSTANTS
  Run(_, _),    \* the table of commands: Run(s, r) is what the function for r
                \* makes of the state s of its run on one board
  Clients,
  NUM_XEMS,     \* how many boards there are
  SessionNames,
  Sessions(_),  \* Sessions(name): who sends which requests to which boards
  MaxCommands,  \* bound: commands in a run
  MaxTroubles,  \* bound: accesses that do not turn out well in a run
  Outcomes,     \* the ways in which they do not
  Moods         \* how slow the masters of a board are, and what else varies

ASSUME BoardServerAssumption ==
  /\ NUM_XEMS \in 1 .. 8
  /\ Server = "kintex_client_server" => NUM_XEMS = 1
  /\ \A name \in SessionNames :
       /\ Sessions(name).clients \subseteq Clients
       /\ \A boards \in Sessions(name).linked : boards \subseteq 0 .. NUM_XEMS - 1

VARIABLES
  session,  \* the name of the session
  board,    \* board[i]: the hardware of board i, and the buffer of its connection
  linked,   \* the boards the server could connect to when it began
  dummy,    \* dummy_mode: nothing is sent to any board
  active,   \* active[c]: the mask of the boards of client c, or NotSet
  wanted,   \* wanted[c]: the boards c asked for last and was promised (history)
  last,     \* the last command, and the boards before it (history)
  count,    \* commands so far (history)
  troubles  \* accesses that did not turn out well so far (history)

vars == <<session, board, linked, dummy, active, wanted, last, count, troubles>>

Index == 0 .. NUM_XEMS - 1
DeviceId(i) == i + 4
NotSet == -1

Fresh == [reg |-> << >>, chip |-> << >>, rx |-> << >>, tx |-> << >>, latch |-> 0, answer |-> 0]

Nothing == [client |-> "nobody", request |-> [verb |-> "none"], mask |-> NotSet, where |-> 0,
            env |-> [at |-> 0, how |-> "done"], replies |-> << >>, runs |-> << >>, before |-> << >>]

Init ==
  /\ session \in SessionNames
  /\ linked \in Sessions(session).linked
  /\ dummy \in Sessions(session).dummy
  /\ Server = "kintex_client_server" => dummy \/ linked = Index
  /\ board = [i \in Index |-> Fresh]
  /\ active = [c \in Clients |-> NotSet]
  /\ wanted = [c \in Clients |-> {}]
  /\ last = Nothing
  /\ count = 0
  /\ troubles = 0

-----------------------------------------------------------------------------
(* Running one command on one board.                                       *)

Calm(mood) == mood @@ [at |-> 0, how |-> "done"]

Undisturbed == Calm(CHOOSE m \in Moods : m.slow = 0)

Begin(i, env) ==
  board[i] @@ [seen |-> << >>, n |-> 0, slow |-> env.slow, ret |-> 0, resp |-> << >>, out |-> << >>,
               dummy |-> dummy, env |-> env]

End(s) == [f \in DOMAIN Fresh |-> s[f]]

-----------------------------------------------------------------------------
(* The commands about the mask.                                            *)

\* Mutant: the mask grows while the boards are looked at.
ChooseAtOnce(c, mask) ==
  LET requested == BitsOf(mask)
      available == {i \in Index : DeviceId(i) \in requested /\ (i \in linked \/ dummy)}
  IN IF Cardinality(requested) > NUM_XEMS THEN <<0, "error">>
     ELSE <<FromBits(available), IF Cardinality(available) = Cardinality(requested) THEN "ok" ELSE "error">>

\* Mutant: the mask there was is kept if the new one is of no use.
ChooseOrKeep(c, mask) ==
  LET requested == BitsOf(mask)
      available == {i \in Index : DeviceId(i) \in requested /\ (i \in linked \/ dummy)}
  IN IF Cardinality(available) = Cardinality(requested) THEN <<FromBits(available), "ok">>
     ELSE <<active[c], "error">>

(* The mask is unset first, and set again only if every board that is      *)
(* asked for is there: the new mask, and the answer.                       *)
set_active_xem_mask_command(c, mask) ==
  LET requested == BitsOf(mask)
      available == {i \in Index : DeviceId(i) \in requested /\ (i \in linked \/ dummy)}
  IN CASE requested = {} -> <<0, "ok">>
       [] \/ Cardinality(requested) > NUM_XEMS
          \/ Cardinality(available) # Cardinality(requested) -> <<0, "error">>
       [] OTHER -> <<FromBits(available), "ok">>

get_active_xem_mask_command(c) ==
  IF active[c] <= 0 THEN <<<<"null", -1>>>>
  ELSE <<<<"int", FromBits({DeviceId(i) : i \in {j \in Index : Bit(active[c], j)}})>>>>

InOrder(S) == [k \in 1 .. Cardinality(S) |-> CHOOSE i \in S : Cardinality({j \in S : j < i}) = k - 1]

get_available_xems_command ==
  LET there == InOrder(IF dummy THEN Index ELSE linked)
  IN IF there = << >> THEN <<<<"null", -1>>>>
     ELSE <<<<"array", Len(there)>>>> \o [k \in DOMAIN there |-> <<"int", DeviceId(there[k])>>]

-----------------------------------------------------------------------------

\* The boards a command of the client is for, in their order.
Chosen(c) == IF Server = "kintex_client_server" THEN Index ELSE {i \in Index : Bit(active[c], i)}

Remember(c, r, where, env, replies, runs) ==
  /\ last' = [client |-> c, request |-> r, mask |-> active[c], where |-> where, env |-> env,
              replies |-> replies, runs |-> runs, before |-> board]
  /\ count' = count + 1
  /\ troubles' = troubles + IF env.how = "done" THEN 0 ELSE 1
  /\ UNCHANGED <<session, linked, dummy>>

AboutMask == {"set_active_xem_mask", "get_active_xem_mask", "get_available_xems"}
NoEnv == [at |-> 0, how |-> "done"]

SetActive(c, r) ==
  /\ r.what = "set_active_xem_mask"
  /\ LET new == set_active_xem_mask_command(c, r.args[1])
     IN /\ active' = [active EXCEPT ![c] = new[1]]
        /\ wanted' = [wanted EXCEPT ![c] = IF new[2] = "ok" THEN BitsOf(r.args[1]) ELSE {}]
        /\ Remember(c, r, 0, NoEnv, <<<<new[2], 0>>>>, << >>)
  /\ UNCHANGED board

GetMasks(c, r) ==
  /\ \/ r.what = "get_active_xem_mask" /\ Remember(c, r, 0, NoEnv, get_active_xem_mask_command(c), << >>)
     \/ r.what = "get_available_xems" /\ Remember(c, r, 0, NoEnv, get_available_xems_command, << >>)
  /\ UNCHANGED <<board, active, wanted>>

\* Until the client has chosen, nothing is done.
NotChosen(c, r) ==
  /\ r.what \notin AboutMask
  /\ Server = "ceres_server" /\ active[c] < 0
  /\ Remember(c, r, 0, NoEnv, <<<<"error", 0>>>>, << >>)
  /\ UNCHANGED <<board, active, wanted>>

\* How the accesses of a command of n accesses turn out.
Environments(n) ==
  {Calm(m) : m \in Moods} \cup
  IF troubles = MaxTroubles THEN {}
  ELSE {[at |-> k, how |-> o, slow |-> 0, rise |-> 3, junk |-> 0] : k \in 1 .. n, o \in Outcomes}

\* The command is run on one chosen board after the other.
ceres_call(c, r) ==
  /\ r.what \notin AboutMask
  /\ Server = "ceres_server" => active[c] >= 0
  /\ LET chosen == Chosen(c)
         quiet == [i \in chosen |-> Run(Begin(i, Undisturbed), r)]
         head == IF Server = "ceres_server" THEN <<<<"array", Cardinality(chosen)>>>> ELSE << >>
     IN \E where \in IF chosen = {} THEN {NotSet} ELSE chosen :
        \E env \in IF where = NotSet THEN {Undisturbed} ELSE Environments(quiet[where].n) :
        \E troubled \in IF where = NotSet THEN {{}} ELSE {Run(Begin(where, env), r)} :
          LET run == [i \in chosen |-> IF i = where THEN troubled ELSE quiet[i]]
              order == InOrder(chosen)
          IN /\ board' = [i \in Index |-> IF i \in chosen THEN End(run[i]) ELSE board[i]]
             /\ Remember(c, r, where, env, head \o FlattenSeq([k \in DOMAIN order |-> run[order[k]].out]),
                         [i \in chosen |-> [ret |-> run[i].ret, seen |-> run[i].seen, out |-> run[i].out]])
  /\ UNCHANGED <<active, wanted>>

Next ==
  /\ count < MaxCommands
  /\ \E c \in Sessions(session).clients, r \in Sessions(session).requests :
       SetActive(c, r) \/ GetMasks(c, r) \/ NotChosen(c, r) \/ ceres_call(c, r)

Spec == Init /\ [][Next]_vars

-----------------------------------------------------------------------------
(* Properties of any table of commands.                                    *)

Token == {"array", "int", "ok", "error", "null"}

(* What a command says on one board is a sequence of replies.              *)
OutputsAreReplies == \A i \in DOMAIN last.runs : last.runs[i].out \in Seq(Token \X Int)

\* The head of an array announces as many replies as follow it.
Announced(t) == IF t[1] = "array" THEN t[2] ELSE 0

\* Missing(out)[k]: how many replies are still to come after k tokens of out.
Missing(out) ==
  LET m[k \in 0 .. Len(out)] == IF k = 0 THEN 1 ELSE m[k - 1] - 1 + Announced(out[k])
  IN m

\* One reply, and a whole one.
Whole(out) == /\ Missing(out)[Len(out)] = 0
              /\ \A k \in 0 .. Len(out) - 1 : Missing(out)[k] > 0

(* What a command says on one board is one whole reply.                    *)
OutputsAreWhole == OutputsAreReplies /\ \A i \in DOMAIN last.runs : Whole(last.runs[i].out)

(* Every answer is one reply of the protocol, and a whole one: as many     *)
(* replies follow the head of an array as it announces, whatever the       *)
(* commands run on its boards said (ceres_call).                           *)
RepliesAreWhole == last.client # "nobody" => Whole(last.replies)

(* A command reaches exactly the boards its client asked for last, if it   *)
(* was granted all of them, and no board otherwise: not what the client    *)
(* asked for before, nor what another one did.                             *)
OnlyChosenBoards ==
  last.client # "nobody" =>
    LET mine == {i \in Index : DeviceId(i) \in wanted[last.client]}
    IN /\ \A i \in Index \ mine : board[i] = last.before[i]
       /\ last.request.what \notin AboutMask =>
            \/ last.replies[1] = <<"array", Cardinality(wanted[last.client])>> /\ DOMAIN last.runs = mine
            \/ last.replies = <<<<"error", 0>>>> /\ wanted[last.client] = {}
       /\ last.request.what = "get_active_xem_mask" =>
            last.replies = IF mine = {} THEN <<<<"null", -1>>>> ELSE <<<<"int", FromBits(wanted[last.client])>>>>
=============================================================================
