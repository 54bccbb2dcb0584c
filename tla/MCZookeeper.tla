----------------------------- MODULE MCZookeeper -----------------------------
(***************************************************************************)
(* Small instances of Zookeeper: what its clients ask.                     *)
(***************************************************************************)
EXTENDS Zookeeper, TLC

CONSTANTS p1, p2, p3  \* the peers

C(name, device) == [name |-> name, device |-> device]
Active == C("active", MAX_NUM_BUILDERS)  \* which has no argument

Asks(of_1, of_2, of_3) == p1 :> of_1 @@ p2 :> of_2 @@ p3 :> of_3
Config(script, running) ==
  [script |-> script, rude |-> {}, after |-> [p \in Peer |-> {}],
   running |-> running, interrupt |-> FALSE]

\* One client has a builder to itself from its start to its end, while another
\* may hang up and another builder may die.
Lifecycle ==
  [Config(Asks(<<C("start", 1), C("reeling", 1), C("stop", 1), C("start", 1),
                 C("reset", 1)>>, <<>>, <<>>), {31}) EXCEPT !.rude = {p2}]

\* Commands that are refused.
Refused ==
  Config(Asks(<<C("stop", 1), C("pid", 1), C("numbuilt", 1), C("start", 32),
                C("start", 1), C("start", 1), C("pid", 1), Active>>, <<>>, <<>>), {})

\* Three clients wait for one builder, and one of them stops it.
Queue ==
  Config(Asks(<<C("numbuilt", 1), C("reset", 1)>>, <<C("reeling", 1), C("stop", 1)>>,
              <<C("display", 1), Active>>), {1})

\* A client leaves; another takes its place in the memory and at the builder.
Successor ==
  [Config(Asks(<<C("numbuilt", 31)>>, <<C("display", 1), C("reeling", 1)>>,
               <<C("numbuilt", 1)>>), {1, 31})
   EXCEPT !.rude = {p2}, !.after[p3] = {p2}]

\* The server is interrupted.
Interrupted ==
  [Config(Asks(<<C("stop", 31)>>, <<C("numbuilt", 1)>>, <<>>), {1, 31})
   EXCEPT !.interrupt = TRUE]

\* Two clients wait for one builder, and one of them may leave.
Leaving ==
  [Config(Asks(<<C("numbuilt", 1)>>, <<C("reeling", 1)>>, <<>>), {1})
   EXCEPT !.rude = {p2}]

\* A builder is started while another client asks something of another one.
Forking ==
  Config(Asks(<<C("start", 1)>>, <<C("reeling", 31)>>, <<>>), {31})

SoundConfigurations == {Lifecycle, Refused, Queue, Successor, Interrupted}
LeavingConfigurations == {Leaving}
ForkingConfigurations == {Forking}

=============================================================================
