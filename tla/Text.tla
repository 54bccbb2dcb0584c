-------------------------------- MODULE Text --------------------------------
(***************************************************************************)
(* Numbers and lines as bytes: string2ll and ll2string (util.c), and       *)
(* sdssplitargs (sds.c), which splits an inline command into its           *)
(* arguments.  A byte is its number, a text a sequence of bytes.  The      *)
(* width of a long long is a parameter, so that its limits can be reached. *)
(***************************************************************************)
EXTENDS Integers, Sequences, FiniteSets, SequencesExt

CONSTANT LLONG_MAX      \* 2^63 - 1

ASSUME TextAssumption == LLONG_MAX \in Nat \ {0}

ULLONG_MAX == 2 * LLONG_MAX + 1
LLONG_MIN == -LLONG_MAX - 1

NUL == 0
TAB == 9
LF == 10
CR == 13
SPACE == 32
DQUOTE == 34
SQUOTE == 39
MINUS == 45
BACKSLASH == 92
LETTER_x == 120
Digit == 48..57
White == 9..13 \cup {SPACE}      \* isspace

-----------------------------------------------------------------------------
(* Numbers.  The value of string2ll is <<n>>, or <<>> for the return value *)
(* 0; that of ll2string is <<>> when the buffer is too small.              *)

\* One more digit, or -1 when there is an overflow or no digit.
NextDigit(v, b) ==
  IF \/ v = -1 \/ b \notin Digit
     \/ v > ULLONG_MAX \div 10 \/ v * 10 > ULLONG_MAX - (b - 48)
    THEN -1
    ELSE v * 10 + (b - 48)

\* All the digits, the first of which is not 0.
Digits(s) == FoldLeft(NextDigit, Head(s) - 48, Tail(s))

string2ll(s) ==
  LET negative == s # <<>> /\ Head(s) = MINUS
      digits   == IF negative THEN Tail(s) ELSE s
      v        == IF digits = <<>> \/ Head(digits) \notin 49..57 THEN -1
                  ELSE Digits(digits)
  IN CASE s = <<48>>                   -> <<0>>
       [] v = -1                       -> <<>>
       [] negative /\ v <= -LLONG_MIN  -> <<-v>>
       [] ~negative /\ v <= LLONG_MAX  -> <<v>>
       [] OTHER                        -> <<>>

digits10(v) == 1 + Cardinality({n \in 1..9 : v >= 10^n})

TwoDigits(v) == <<48 + (v \div 10), 48 + (v % 10)>>

\* Two digits at a time, from the end.
Decimal[v \in Nat] ==
  CASE v < 10             -> <<48 + v>>
    [] v >= 10 /\ v < 100 -> TwoDigits(v)
    [] OTHER              -> Decimal[v \div 100] \o TwoDigits(v % 100)

ll2string(dstlen, svalue) ==
  LET value  == IF svalue < 0 THEN -svalue ELSE svalue
      length == digits10(value) + (IF svalue < 0 THEN 1 ELSE 0)
  IN IF length >= dstlen THEN <<>>
     ELSE (IF svalue < 0 THEN <<MINUS>> ELSE <<>>) \o Decimal[value]

-----------------------------------------------------------------------------
(* Arguments of a line.                                                    *)

is_hex_digit(b) == b \in Digit \cup 97..102 \cup 65..70

hex_digit_to_int(b) ==
  CASE b \in Digit   -> b - 48
    [] b \in 97..102 -> b - 87
    [] b \in 65..70  -> b - 55
    [] OTHER         -> 0

\* What a letter after a backslash stands for.
Escaped(b) ==
  CASE b = 110 -> LF
    [] b = 114 -> CR
    [] b = 116 -> TAB
    [] b = 98  -> 8
    [] b = 97  -> 7
    [] OTHER   -> b

At(line, i) == IF i <= Len(line) THEN line[i] ELSE NUL

\* A token that goes on: the bytes read, and where to read on (0 is an error).
Bad == [bytes |-> <<>>, next |-> 0]
After(b, token) == IF token.next = 0 THEN Bad
                   ELSE [token EXCEPT !.bytes = <<b>> \o @]

\* A closing quote must be followed by a space or nothing at all.
Closed(line, i) ==
  IF At(line, i + 1) \in White \cup {NUL}
    THEN [bytes |-> <<>>, next |-> i + 1] ELSE Bad

DoubleQuoted(line, start) ==
  LET token[i \in 1..Len(line) + 4] ==
        LET b == At(line, i)
            c == At(line, i + 1)
            hex == /\ c = LETTER_x
                   /\ is_hex_digit(At(line, i + 2))
                   /\ is_hex_digit(At(line, i + 3))
        IN CASE b = BACKSLASH /\ hex ->
                  After(hex_digit_to_int(At(line, i + 2)) * 16
                          + hex_digit_to_int(At(line, i + 3)), token[i + 4])
             [] b = BACKSLASH /\ ~hex /\ c # NUL ->
                  After(Escaped(c), token[i + 2])
             [] b = DQUOTE -> Closed(line, i)
             [] b = NUL    -> Bad
             [] OTHER      -> After(b, token[i + 1])
  IN token[start]

SingleQuoted(line, start) ==
  LET token[i \in 1..Len(line) + 2] ==
        LET b == At(line, i)
        IN CASE b = BACKSLASH /\ At(line, i + 1) = SQUOTE ->
                  After(SQUOTE, token[i + 2])
             [] b = SQUOTE -> Closed(line, i)
             [] b = NUL    -> Bad
             [] OTHER      -> After(b, token[i + 1])
  IN token[start]

\* A quote inside a token opens a quoted rest.
Token(line, start) ==
  LET token[i \in 1..Len(line) + 1] ==
        LET b == At(line, i)
        IN CASE b \in {SPACE, LF, CR, TAB} -> [bytes |-> <<>>, next |-> i + 1]
             [] b = NUL    -> [bytes |-> <<>>, next |-> i]
             [] b = DQUOTE -> DoubleQuoted(line, i + 1)
             [] b = SQUOTE -> SingleQuoted(line, i + 1)
             [] OTHER      -> After(b, token[i + 1])
  IN token[start]

\* The arguments of `line', as <<arguments>>, or <<>> for NULL.
sdssplitargs(line) ==
  LET args[i \in 1..Len(line) + 1] ==
        IF At(line, i) = NUL THEN << <<>> >>
        ELSE IF At(line, i) \in White THEN args[i + 1]
        ELSE LET token == Token(line, i)
                 rest  == IF token.next = 0 THEN <<>> ELSE args[token.next]
             IN IF rest = <<>> THEN <<>>
                ELSE << <<token.bytes>> \o rest[1] >>
  IN args[1]

=============================================================================
