------------------------------- MODULE Parser -------------------------------
(***************************************************************************)
(* The command parser of 2/parser.cpp as operators on a buffer, which is a *)
(* sequence of characters.  Characters that mean something to the parser   *)
(* have names here; every other character stands for itself.               *)
(*                                                                         *)
(* The two loops over characters and over tokens are automata that run     *)
(* over the buffer.  An automaton that reaches the end of the buffer       *)
(* before it is done corresponds to "return 0": more input is needed.      *)
(***************************************************************************)
EXTENDS Integers, Sequences, SequencesExt

Blank == "sp"       \* ' ', '\t' and '\r'
NewLine == "nl"
Quotes == {"'", "dq"}
Escape == "esc"     \* the backslash
Operators == {"&", "|", ">"}
Hash == "#"

Single == [c \in Operators |->
    CASE c = "&" -> "BACKGROUND" [] c = "|" -> "PIPE" [] c = ">" -> "OUT_NEW"]
Double == [c \in Operators |->
    CASE c = "&" -> "AND" [] c = "|" -> "OR" [] c = ">" -> "OUT_APPEND"]

-----------------------------------------------------------------------------
(* parse_token.  n counts the characters used so far.                      *)
token_reset ==
    [at |-> "blank", quote |-> "", op |-> "", data |-> <<>>, n |-> 0, type |-> "NONE"]

Go(s, at) == [s EXCEPT !.at = at, !.n = @ + 1]
Keep(s, chars) == [Go(s, "word") EXCEPT !.data = @ \o chars]
Done(s, type, used) == [s EXCEPT !.at = "done", !.type = type, !.n = @ + used]

(* Between tokens, in a word, and after a backslash in a word.             *)
InWord(s, c) ==
    CASE c \in Quotes /\ s.quote = "" -> [Go(s, "word") EXCEPT !.quote = c]
      [] c \in Quotes /\ s.quote = c -> Done(s, "STR", 1)
      [] c = Escape /\ s.quote # "'" -> Go(s, "escape")
      [] c \in Operators \cup {Hash} /\ s.quote = "" /\ s.data # <<>> -> Done(s, "STR", 0)
      [] c \in Operators /\ s.quote = "" /\ s.data = <<>> -> [Go(s, "op") EXCEPT !.op = c]
      [] c = Hash /\ s.quote = "" /\ s.data = <<>> -> Go(s, "comment")
      [] c \in {Blank, NewLine} /\ s.quote = "" ->
             \* assert(!out->data.empty())
             IF s.data = <<>> THEN Done(s, "ABORT", 0)
             ELSE Done(s, "STR", IF c = Blank THEN 1 ELSE 0)
      [] OTHER -> Keep(s, <<c>>)

Escaped(s, c) ==
    CASE c = NewLine -> Go(s, "word")
      [] s.quote = "dq" /\ c \notin {Escape, "dq"} -> Keep(s, <<Escape, c>>)
      [] OTHER -> Keep(s, <<c>>)

TokenStep(s, c) ==
    CASE s.at = "done" -> s
      [] s.at = "blank" ->
             IF c = NewLine THEN Done(s, "NEW_LINE", 1)
             ELSE IF c = Blank THEN Go(s, "blank") ELSE InWord(s, c)
      [] s.at = "word" -> InWord(s, c)
      [] s.at = "escape" -> Escaped(s, c)
      [] s.at = "op" -> IF c = s.op THEN Done(s, Double[c], 1) ELSE Done(s, Single[s.op], 0)
      [] s.at = "comment" -> IF c = NewLine THEN Done(s, "NEW_LINE", 1) ELSE Go(s, "comment")

(* Mutant: a comment ends where the buffer does.                           *)
Mutantparse_token(buf) ==
    LET state[k \in 0..Len(buf)] ==
            IF k = 0 THEN token_reset ELSE TokenStep(state[k - 1], buf[k])
        s == state[Len(buf)]
    IN  [type |-> IF s.at = "comment" THEN "NEW_LINE" ELSE s.type, data |-> s.data,
         used |-> IF s.at \in {"comment", "done"} THEN s.n ELSE 0]

parse_token(buf) ==
    LET state[k \in 0..Len(buf)] ==
            IF k = 0 THEN token_reset ELSE TokenStep(state[k - 1], buf[k])
        s == state[Len(buf)]
    IN  [type |-> s.type, data |-> s.data, used |-> IF s.at = "done" THEN s.n ELSE 0]

(* The complete tokens of a buffer, each with the position after it.  The  *)
(* parser goes no further than a failed assertion.                         *)
Tokens(buf) ==
    LET Scan(toks, k) ==
            LET end == IF toks = <<>> THEN 0 ELSE Last(toks).end
                t == parse_token(SubSeq(buf, end + 1, Len(buf)))
            IN  IF t.type = "NONE" \/ (toks # <<>> /\ Last(toks).type = "ABORT") THEN toks
                ELSE Append(toks, [type |-> t.type, data |-> t.data, end |-> end + t.used])
    IN  FoldLeftDomain(Scan, <<>>, buf)

-----------------------------------------------------------------------------
(* parser_pop_next.  An expression is a command, a non-empty sequence of   *)
(* words (exe and args), or one of "PIPE", "AND", "OR".                    *)
Command(words) == [type |-> "COMMAND", words |-> words]
Connective(type) == [type |-> type, words |-> <<>>]
NoLine == [exprs |-> <<>>, out_type |-> "STDOUT", out_file |-> <<>>, is_background |-> FALSE]
Start == [at |-> "exprs", line |-> NoLine, res |-> "NONE", used |-> 0]

Result(g, kind, used) == [g EXCEPT !.at = kind, !.used = used]
Error(g, err) == [g EXCEPT !.at = "skip", !.res = err]

EndsWithCommand(exprs) == exprs # <<>> /\ Last(exprs).type = "COMMAND"

AddWord(g, w) ==
    [g EXCEPT !.line.exprs =
        IF EndsWithCommand(@) THEN Front(@) \o <<Command(Append(Last(@).words, w))>>
        ELSE Append(@, Command(<<w>>))]

NoLeftArg == [PIPE |-> "PIPE_WITH_NO_LEFT_ARG", AND |-> "AND_WITH_NO_LEFT_ARG",
              OR |-> "OR_WITH_NO_LEFT_ARG"]
LeftArgNotACommand == [PIPE |-> "PIPE_WITH_LEFT_ARG_NOT_A_COMMAND",
    AND |-> "AND_WITH_LEFT_ARG_NOT_A_COMMAND", OR |-> "OR_WITH_LEFT_ARG_NOT_A_COMMAND"]

AddConnective(g, type) ==
    CASE g.line.exprs = <<>> -> Error(g, NoLeftArg[type])
      [] ~EndsWithCommand(g.line.exprs) -> Error(g, LeftArgNotACommand[type])
      [] OTHER -> [g EXCEPT !.line.exprs = Append(@, Connective(type))]

(* A new line after the expressions, the redirection or the '&'.           *)
CloseLine(g, t) ==
    CASE g.line.exprs = <<>> -> Result(g, "abort", 0)
      [] EndsWithCommand(g.line.exprs) -> Result(g, "line", t.end)
      [] OTHER -> [Result(g, "error", t.end) EXCEPT !.res = "ENDS_NOT_WITH_A_COMMAND"]

(* What follows a redirection or a '&'.                                    *)
CloseOrLate(g, t) ==
    IF t.type = "NEW_LINE" THEN CloseLine(g, t) ELSE Error(g, "TOO_LATE_ARGUMENTS")
Background(g) == [g EXCEPT !.line.is_background = TRUE, !.at = "background"]

ExprStep(g, t) ==
    CASE t.type = "STR" -> AddWord(g, t.data)
      [] t.type = "NEW_LINE" -> IF g.line.exprs = <<>> THEN g ELSE CloseLine(g, t)
      [] t.type \in {"PIPE", "AND", "OR"} -> AddConnective(g, t.type)
      [] t.type \in {"OUT_NEW", "OUT_APPEND"} ->
             [g EXCEPT !.line.out_type = t.type, !.at = "out_file"]
      [] t.type = "BACKGROUND" -> Background(g)

GrammarStep(g, t) ==
    CASE g.at \in {"line", "error", "abort"} -> g
      [] t.type = "ABORT" -> Result(g, "abort", 0)
      [] g.at = "exprs" -> ExprStep(g, t)
      [] g.at = "out_file" ->
             IF t.type = "STR" THEN [g EXCEPT !.line.out_file = t.data, !.at = "after_out"]
             ELSE Error(g, "OUTOUT_REDIRECT_BAD_ARG")
      [] g.at = "after_out" ->
             IF t.type = "BACKGROUND" THEN Background(g) ELSE CloseOrLate(g, t)
      [] g.at = "background" -> CloseOrLate(g, t)
      [] g.at = "skip" ->
             \* return_error: skip the line
             IF t.type = "NEW_LINE" THEN Result(g, "error", t.end) ELSE g

(* Nothing is consumed and no error returned before a line is complete.    *)
parser_pop_next(buf) ==
    LET g == FoldLeft(GrammarStep, Start, Tokens(buf))
    IN  IF g.at \in {"line", "error", "abort"}
        THEN [kind |-> g.at, line |-> g.line, res |-> g.res, used |-> g.used]
        ELSE [kind |-> "none", line |-> NoLine, res |-> "NONE", used |-> 0]

parser_feed(buf, str) == buf \o str
parser_consume(buf, size) == SubSeq(buf, size + 1, Len(buf))
=============================================================================
