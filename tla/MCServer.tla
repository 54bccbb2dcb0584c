------------------------------ MODULE MCServer ------------------------------
(***************************************************************************)
(* Small instances of Server: what the peers send, as bytes, and what they *)
(* are to be told.                                                         *)
(***************************************************************************)
EXTENDS Server

\* A routine without a result (s), with one (g x), with several (v), one that
\* fails (f), and one that another program answers (b).
Entry(n, r, resp, b) == [nargs |-> n, nresp |-> r, resp |-> resp, blocks |-> b]
TheCommands ==
  <<115>> :> Entry(1, 0, 0, FALSE) @@ <<103>> :> Entry(2, 1, 7, FALSE) @@
  <<118>> :> Entry(1, 2, 0, FALSE) @@ <<102>> :> Entry(1, 2, 5, FALSE) @@
  <<98>>  :> Entry(-1, 0, 0, TRUE)

Request(bytes, pieces, ends) ==
  [bytes |-> bytes, replies |-> FlattenSeq(pieces), ends |-> ends]

\* "*<n>\r\n" and then "$<length>\r\n<argument>\r\n" for each argument.
Bulk(a) == <<DOLLAR, 48 + Len(a), CR, LF>> \o a \o <<CR, LF>>
Multi(args) == <<STAR, 48 + Len(args), CR, LF>>
                 \o FlattenSeq([i \in DOMAIN args |-> Bulk(args[i])])

Plain(bytes, pieces) == Request(bytes, pieces, FALSE)
Ends(bytes, pieces) == Request(bytes, pieces, TRUE)

Set == Plain(Multi(<< <<115>> >>), Status("OK"))
SetLine == Plain(<<83, LF>>, Status("OK"))
Get == Plain(<<103, SPACE, DQUOTE, 120, DQUOTE, CR, LF>>, LongLong(":", 7))
Vector == Plain(<<118, LF>>, LongLong("*", 2) \o LongLong(":", 0) \o LongLong(":", 0))
Fails == Plain(<<102, LF>>, Error("error performing"))
Unknown == Plain(<<122, LF>>, Error("unknown command"))
Arity == Plain(Multi(<< <<103>> >>), Error("wrong number of arguments"))
Empty == Plain(<<STAR, 48, CR, LF, LF>>, <<>>)
Block == Plain(<<98, LF>>, Status("answer"))
Exit == Ends(QUIT \o <<LF>>, << <<U("+", 0), U("OK", 0)>> >>)
BadCount == Ends(<<STAR, 120, CR, LF>>, Error("invalid multibulk length"))
BadLength == Ends(<<STAR, 49, CR, LF, DOLLAR, 57, CR, LF>>, Error("invalid bulk length"))
BadDollar == Ends(<<STAR, 49, CR, LF, 65, CR, LF>>, Error("expected '$'"))
BadQuote == Ends(<<103, DQUOTE, LF>>, Error("unbalanced quotes"))
TooLong == Ends([i \in 1..9 |-> 97], Error("too big"))

Two(max, a, b) == [maxclients |-> max, script |-> "p" :> a @@ "r" :> b]

AllConfigurations ==
  {Two(2, <<Get, Set>>, <<>>),
   Two(2, <<Vector, Fails>>, <<Vector>>),
   Two(2, <<SetLine, BadQuote>>, <<Block>>),
   Two(2, <<Block>>, <<SetLine, Block>>),
   Two(2, <<Arity, Empty>>, <<>>),
   Two(2, <<Unknown, Exit, SetLine>>, <<>>),
   Two(1, <<BadLength, SetLine>>, <<SetLine>>),
   Two(2, <<SetLine, BadDollar>>, <<>>),
   Two(2, <<BadCount, SetLine>>, <<SetLine>>),
   Two(2, <<TooLong>>, <<Vector>>)}

ASSUME EnoughDescriptors /\ BytesAreSent

=============================================================================
