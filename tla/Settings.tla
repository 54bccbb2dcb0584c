------------------------------ MODULE Settings ------------------------------
(***************************************************************************)
(* What the board servers promise their clients: a board is a table of     *)
(* settings.  A request that succeeds gives the settings it names the      *)
(* values it asks for and leaves all others alone; one that reads is       *)
(* answered with the values of that moment.  A request that fails may have *)
(* disturbed what it is about, and nothing else.  Boards that a request is *)
(* not for keep their settings.                                            *)
(***************************************************************************)
EXTENDS Sequences

CONSTANTS Boards, Cells

VARIABLES
  value,   \* value[b][c]: the setting c of the board b
  request  \* the last request: for each board it was for, the settings asked
           \* for, the settings it is about, those it reads, what was
           \* answered, and whether that board did what it should

None == [b \in {} |-> {}]

Init == request = None

Done(r, old, new) ==
  /\ new = [c \in Cells |-> IF c \in DOMAIN r.asked THEN r.asked[c] ELSE old[c]]
  /\ r.said = [i \in DOMAIN r.reads |-> old[r.reads[i]]]

Failed(r, old, new) == \A c \in Cells \ r.about : new[c] = old[c]

Asked(r, old, new) == IF r.ok THEN Done(r, old, new) ELSE Failed(r, old, new)

Request ==
  \A b \in Boards :
    IF b \in DOMAIN request' THEN Asked(request'[b], value[b], value'[b]) ELSE value'[b] = value[b]

Spec == Init /\ [][Request]_<<value, request>>
=============================================================================
