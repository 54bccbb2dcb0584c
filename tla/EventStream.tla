---------------------------- MODULE EventStream ----------------------------
(***************************************************************************)
(* What a data builder promises its readers: the events an FPGA sent come  *)
(* out of it one by one, each of them once, in the order they were sent.   *)
(* An event is known by its trigger number.                                *)
(***************************************************************************)
EXTENDS Naturals, Sequences

VARIABLES
  sent,       \* the events the FPGA sends, in order
  delivered   \* the events published so far

vars == <<sent, delivered>>

Init ==
  /\ sent \in Seq(Nat)
  /\ delivered = << >>

Deliver ==
  /\ Len(delivered) < Len(sent)
  /\ delivered' = Append(delivered, sent[Len(delivered) + 1])
  /\ UNCHANGED sent

Spec == Init /\ [][Deliver]_vars

FairSpec == Spec /\ WF_vars(Deliver)

=============================================================================
