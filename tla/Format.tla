------------------------------- MODULE Format -------------------------------
(***************************************************************************)
(* utils/easylog/format.h: the placeholders "{}" of a text are replaced by *)
(* the arguments, in order.  A text is a sequence of tokens, of which "{"  *)
(* and "}" are two; an argument, once converted to a string, is one token. *)
(***************************************************************************)
EXTENDS Integers, Sequences

OutOfRange == "Arg index out of range"      \* the exception, in place of the rest

IsText(s) == s \in Seq({s[i] : i \in DOMAIN s})

IsPlaceholder(str, i) == i \in 1 .. Len(str) - 1 /\ str[i] = "{" /\ str[i + 1] = "}"

\* The next argument, or the exception.
NextArg(copy, args) == IF copy.pos < Len(args) THEN args[copy.pos + 1] ELSE OutOfRange

\* Mutant: what follows a placeholder is copied from its "}" on (last = curr + 1).
FormatOverlaps(str, args) ==
  LET copied[i \in 0 .. Len(str)] ==
        IF i = 0 THEN [buf |-> <<>>, pos |-> 0]
        ELSE LET copy == copied[i - 1] IN
             IF copy.pos > Len(args) THEN copy
             ELSE IF IsPlaceholder(str, i)
                  THEN [buf |-> Append(copy.buf, NextArg(copy, args)), pos |-> copy.pos + 1]
                  ELSE [copy EXCEPT !.buf = Append(@, str[i])]
  IN IF args = <<>> THEN str ELSE copied[Len(str)].buf

\* format(): what is in buf after i tokens, and the arguments used.  Nothing follows
\* the exception.  A text without arguments is taken as it is.
Format(str, args) ==
  LET copied[i \in 0 .. Len(str)] ==
        IF i = 0 THEN [buf |-> <<>>, pos |-> 0]
        ELSE LET copy == copied[i - 1] IN
             IF copy.pos > Len(args) \/ IsPlaceholder(str, i - 1) THEN copy
             ELSE IF IsPlaceholder(str, i)
                  THEN [buf |-> Append(copy.buf, NextArg(copy, args)), pos |-> copy.pos + 1]
                  ELSE [copy EXCEPT !.buf = Append(@, str[i])]
  IN IF args = <<>> THEN str ELSE copied[Len(str)].buf
=============================================================================
