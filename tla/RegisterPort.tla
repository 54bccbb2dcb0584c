---------------------------- MODULE RegisterPort ----------------------------
(***************************************************************************)
(* What register access over UDP promises to its caller: an access that    *)
(* succeeds has been performed, at least once.  It may also be performed   *)
(* later than that, and one that fails may be performed all the same.      *)
(* After a failure less is promised: the number of the failed access is    *)
(* used again, and the answer to it may be taken for the answer to the     *)
(* next access of the same addresses.                                      *)
(***************************************************************************)
EXTENDS Integers, Sequences

VARIABLES
  accesses,   \* the items of all accesses that were asked for
  performed,  \* how often each was performed
  failed,     \* those that were reported to have failed
  open        \* the last access has not returned

vars == <<accesses, performed, failed, open>>

Init == accesses = << >> /\ performed = << >> /\ failed = {} /\ open = FALSE

Begin(items) ==
  /\ ~ open /\ open' = TRUE
  /\ accesses' = Append(accesses, items)
  /\ performed' = Append(performed, 0)
  /\ UNCHANGED failed

Perform(i) ==
  /\ performed' = [performed EXCEPT ![i] = @ + 1]
  /\ UNCHANGED <<accesses, failed, open>>

Addresses(i) == [k \in DOMAIN accesses[i] |-> accesses[i][k].addr]

\* Access i may answer for the last one: it is that one, or all accesses
\* from i on have failed.
Vouches(i) ==
  /\ performed[i] > 0
  /\ Addresses(i) = Addresses(Len(accesses))
  /\ i .. Len(accesses) - 1 \subseteq failed

Succeed ==
  /\ open /\ open' = FALSE
  /\ \E i \in DOMAIN accesses : Vouches(i)
  /\ UNCHANGED <<accesses, performed, failed>>

Fail ==
  /\ open /\ open' = FALSE
  /\ failed' = failed \cup {Len(accesses)}
  /\ UNCHANGED <<accesses, performed>>

Next ==
  \/ accesses' /= accesses /\ Begin(accesses'[Len(accesses')])
  \/ \E i \in DOMAIN accesses : Perform(i)
  \/ Succeed \/ Fail

Spec == Init /\ [][Next]_vars

=============================================================================
