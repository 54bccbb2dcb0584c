---------------------------- MODULE MCFnetClient ----------------------------
(***************************************************************************)
(* Small instances of FnetClient.  The three programs on the idempotent    *)
(* port and fnetctrl on a reliable one, each with a network that keeps     *)
(* the order of packets and with one that does not.                        *)
(***************************************************************************)
EXTENDS FnetClient

Config(p, r, o, n, t) ==
  [program |-> p, reliable |-> r, in_order |-> o, most |-> n, troubles |-> t]

AllConfigurations ==
  {Config("ceres", FALSE, TRUE, 3, 2), Config("kintex", FALSE, FALSE, 3, 2),
   Config("fnetctrl", TRUE, FALSE, 2, 3)}

\* One register and the one that is read for its sake differ at first.
OneBoard == {[a \in Addr |-> IF a = SAFE_READ_ADDRESS THEN 0 ELSE 1]}

\* A channel nobody uses, one that is left open, and one in use.
SomeUse == {[active |-> FALSE, connected |-> FALSE],
            [active |-> TRUE,  connected |-> TRUE]}

=============================================================================
