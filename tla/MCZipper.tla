------------------------------ MODULE MCZipper ------------------------------
(***************************************************************************)
(* Small instances of Zipper: three devices of which two make an event.    *)
(***************************************************************************)
EXTENDS Zipper

\* Devices 0 and 2 are needed; device 1 sends a waveform nobody asked for.
Mask == {0, 2}

Sends(a, b) == [d \in Device |-> CASE d = 0 -> a [] d = 1 -> <<1>> [] d = 2 -> b]

\* In order and complete, with an event missing, with a number that shares
\* the slot of another (the registry has three slots), with one repeated.
SomeNumbers == {<<1, 2, 3>>, <<1, 3>>, <<1, 2, 4>>, <<2, 3, 2>>}

ManyStreams == {Sends(a, b) : a, b \in SomeNumbers}

Run(n) == [run_number |-> n, sub_run |-> 0]

\* No run, one, or two of which the second comes with a third.
NoRuns == {<< >>}
SomeRuns == {<< >>, <<<<Run(7)>>>>, <<<<Run(7)>>, <<Run(8), Run(9)>>>>}

=============================================================================
