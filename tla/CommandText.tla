---------------------------- MODULE CommandText ----------------------------
(***************************************************************************)
(* What the command line parser of include/cmdline.h does with characters: *)
(* the reader of an int in a range, and the splitting of a text into       *)
(* arguments.                                                              *)
(***************************************************************************)
EXTENDS EnumUtil

QuoteByte == 34
BackslashByte == 92

(* lexical_cast<int>: the stream takes what std::stoi would take, and must *)
(* be at its end then.                                                     *)
CastsToInt(text) == StoiReturns(text) /\ Unsigned(Unspaced(text)) = DigitsOf(text)

RangeReads(text, low, high) == CastsToInt(text) /\ Stoi(text) \in low .. high

Unread == [args |-> <<>>, buf |-> <<>>, inQuote |-> FALSE, escaped |-> FALSE]

(* Mutation: a backslash means nothing between quotes.                     *)
ReadByteRaw(s, c) ==
  CASE s.escaped -> [s EXCEPT !.buf = Append(@, c), !.escaped = FALSE]
    [] ~s.escaped /\ c = QuoteByte -> [s EXCEPT !.inQuote = ~@]
    [] ~s.escaped /\ ~s.inQuote /\ c = SpaceByte ->
         [s EXCEPT !.args = Append(@, s.buf), !.buf = <<>>]
    [] ~s.escaped /\ ~s.inQuote /\ c = BackslashByte -> [s EXCEPT !.escaped = TRUE]
    [] OTHER -> [s EXCEPT !.buf = Append(@, c)]

(* One round of the loop, or the first half of one for a backslash.        *)
ReadByte(s, c) ==
  CASE s.escaped -> [s EXCEPT !.buf = Append(@, c), !.escaped = FALSE]
    [] ~s.escaped /\ c = QuoteByte -> [s EXCEPT !.inQuote = ~@]
    [] ~s.escaped /\ ~s.inQuote /\ c = SpaceByte ->
         [s EXCEPT !.args = Append(@, s.buf), !.buf = <<>>]
    [] ~s.escaped /\ c = BackslashByte -> [s EXCEPT !.escaped = TRUE]
    [] OTHER -> [s EXCEPT !.buf = Append(@, c)]

Read(text) == FoldLeft(ReadByte, Unread, text)

(* "unexpected occurrence of '\\' at end of string", "quote is not closed".*)
ParsesText(text) == ~Read(text).escaped /\ ~Read(text).inQuote

(* The arguments handed on; an empty one at the end is none.               *)
ArgumentsOf(text) ==
  Read(text).args \o (IF Read(text).buf = <<>> THEN <<>> ELSE <<Read(text).buf>>)

=============================================================================
