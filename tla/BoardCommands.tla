--------------------------- MODULE BoardCommands ---------------------------
(***************************************************************************)
(* The table of commands of a board server, and what the server does with  *)
(* the word that a command returns (call in server.c): the commands every  *)
(* server has, those of the board it drives, and the answers they give.    *)
(***************************************************************************)
EXTENDS Pipelines

Ceres == INSTANCE CeresCommands
Fontus == INSTANCE FontusCommands

\* A legacy command is run only with as many words as its row in the table
\* says (server.c:369).
Fits(r) ==
  LET Shape == IF Kind = "CERES" THEN Ceres!Shape ELSE Fontus!Shape
  IN r.verb = "do" /\ r.what \in DOMAIN Shape => Len(r.args) + 1 = Shape[r.what]

-----------------------------------------------------------------------------

Say(s, kind, number) == [s EXCEPT !.out = Append(@, <<kind, number>>)]

(* Numbers that are not numbers are refused; that a write fails is not     *)
(* noticed.                                                                *)
write_addr_command(s, r) ==
  IF r.bad THEN Say(s, "error", 0) ELSE Say(write_addr(s, r.args[1], 0, r.args[2]), "ok", 0)

read_addr_command(s, r) ==
  LET read == double_read_addr(s, r.args[1], 0)
  IN IF r.bad THEN Say(s, "error", 0)
     ELSE IF read.ret # 0 THEN Say(read, "error", 0) ELSE Say(read, "int", read.answer)

sleep_command(s, r) == Say(s, IF r.bad THEN "error" ELSE "ok", 0)

Default == {"write_addr", "read_addr", "sleep"}
default_commands(s, r) ==
  CASE r.what = "write_addr" -> write_addr_command(s, r)
    [] r.what = "read_addr" -> read_addr_command(s, r)
    [] r.what = "sleep" -> sleep_command(s, r)

nresp(r) == IF Kind = "CERES" THEN Ceres!nresp(r) ELSE Fontus!nresp(r)

Legacy(s, r) == IF Kind = "CERES" THEN Ceres!Legacy(s, r) ELSE Fontus!Legacy(s, r)

\* Mutant: what is not a single number is sent without its length.
BareAnswer(s, r) ==
  LET done == Legacy(s, r)
      Numbers(words) == [i \in DOMAIN words |-> <<"int", words[i]>>]
  IN IF nresp(r) = 0 THEN Say(done, "ok", 0)
     ELSE IF nresp(r) = 1 THEN Say(done, "int", done.ret)
     ELSE IF done.ret # 0 THEN Say(done, "error", 0)
     ELSE [done EXCEPT !.out = Numbers(done.resp)]

(* What a legacy function returns is the answer, if that is one number;    *)
(* whether it failed, if there are more; and nothing, if there are none.   *)
CallLegacy(s, r) ==
  LET done == Legacy(s, r)
      Numbers(words) == [i \in DOMAIN words |-> <<"int", words[i]>>]
  IN IF nresp(r) = 0 THEN Say(done, "ok", 0)
     ELSE IF nresp(r) = 1 THEN Say(done, "int", done.ret)
     ELSE IF done.ret # 0 THEN Say(done, "error", 0)
     ELSE [done EXCEPT !.out = <<<<"array", Len(done.resp)>>>> \o Numbers(done.resp)]

\* Those that change a mask bit by bit answer the client themselves.
RunCommand(s, r) ==
  LET masks == IF Kind = "FONTUS" THEN Fontus!MaskCommands ELSE {}
  IN CASE r.what \in Default -> default_commands(s, r)
       [] r.what \in masks -> Fontus!MaskCommand(s, r)
       [] OTHER -> CallLegacy(s, r)
=============================================================================
