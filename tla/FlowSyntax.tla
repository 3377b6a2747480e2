----------------------------- MODULE FlowSyntax -----------------------------
(***************************************************************************)
(* The text of a Robine Flow: the lexer, the parser and the formatter of   *)
(* robine-flow-syntax, applied to what a user types, key after key, in the *)
(* body of a flow.                                                         *)
(*                                                                         *)
(* Abstractions.  A text is a sequence of characters, where a word of the  *)
(* language ("flow", "true", "u0001") counts as one character, "quote" is  *)
(* the double quote and "ctl" the control character U+0001.  Spans and the *)
(* wording of diagnostics are left out: a text is parsed or it is not.  The*)
(* indentation of the formatter is a line break.  MaxKeys bounds the model.*)
(***************************************************************************)
EXTENDS Naturals, Sequences, SequencesExt

CONSTANTS
    Char,       \* characters a user may type
    MaxKeys     \* bound: characters typed

ASSUME SyntaxAssumption == MaxKeys \in Nat

VARIABLES
    typed,      \* what stands between "(do" and "))"
    tree        \* what the document is parsed to, if it is a flow

syntaxVars == <<typed, tree>>

-----------------------------------------------------------------------------
(* Characters. *)

Blank == {" ", "newline", "tab"}
Delimiting == {"(", ")", "[", "]"}
Digit == {"0", "1"}
Numeral == Digit \cup {".", "-"}

\* read_string: what an escape stands for; "u0001" is the code of "ctl".
Escaped == [c \in {"quote", "backslash", "n", "t", "u0001"} |->
              CASE c = "n" -> "newline" [] c = "t" -> "tab" [] c = "u0001" -> "ctl" [] OTHER -> c]

-----------------------------------------------------------------------------
(* The lexer. *)

Reading(mode, text, tokens) == [mode |-> mode, text |-> text, tokens |-> tokens]
TokenOf(kind, text) == [kind |-> kind, text |-> text]
FailedLex == Reading("failed", <<>>, <<>>)

\* The atom under way, if any, is complete.
Flush(l) == IF l.mode = "atom" THEN Append(l.tokens, TokenOf("atom", l.text)) ELSE l.tokens

\* One character more.  An atom ends before a blank, a delimiter or a comment,
\* not before a quote; a comment ends with its line.
LexOne(l, c) ==
    CASE l.mode = "failed" -> l
      [] l.mode = "comment" -> IF c = "newline" THEN Reading("between", <<>>, l.tokens) ELSE l
      [] l.mode = "string" ->
            IF c = "quote" THEN Reading("between", <<>>, Append(l.tokens, TokenOf("string", l.text)))
            ELSE IF c = "backslash" THEN Reading("escape", l.text, l.tokens)
            ELSE Reading("string", Append(l.text, c), l.tokens)
      [] l.mode = "escape" ->
            IF c \in DOMAIN Escaped THEN Reading("string", Append(l.text, Escaped[c]), l.tokens)
            ELSE FailedLex
      [] OTHER ->
            IF c \in Blank THEN Reading("between", <<>>, Flush(l))
            ELSE IF c = ";" THEN Reading("comment", <<>>, Flush(l))
            ELSE IF c \in Delimiting
                 THEN Reading("between", <<>>, Append(Flush(l), TokenOf(c, <<>>)))
            ELSE IF c = "quote" /\ l.mode = "between" THEN Reading("string", <<>>, l.tokens)
            ELSE Reading("atom", Append(l.text, c), l.tokens)

Lexed(text) == FoldLeft(LexOne, Reading("between", <<>>, <<>>), text)
LexOK(l) == l.mode \notin {"failed", "string", "escape"}

-----------------------------------------------------------------------------
(* Forms. *)

List(items) == [kind |-> "list", items |-> items]
Leaf(kind, text) == [kind |-> kind, text |-> text, unit |-> <<>>]

\* The length of the longest prefix of numerals.
UnitStart(text) == CHOOSE n \in 0..Len(text) :
    /\ \A i \in 1..n : text[i] \in Numeral
    /\ n = Len(text) \/ text[n + 1] \notin Numeral

\* What parse::<f64> takes: a sign, and digits with a point among them at most.
IsFloat(literal) ==
    LET points == {i \in 1..Len(literal) : literal[i] = "."}
        signs == {i \in 1..Len(literal) : literal[i] = "-"}
    IN  /\ \E i \in 1..Len(literal) : literal[i] \in Digit
        /\ signs \subseteq {1}
        /\ \A i, j \in points : i = j

\* atom and parse_number.
AtomOf(text) ==
    LET n == UnitStart(text)
        literal == SubSeq(text, 1, n)
    IN  CASE text \in {<<"true">>, <<"false">>} -> Leaf("bool", text)
          [] text = <<"nil">> -> Leaf("nil", text)
          [] text[1] = ":" /\ Len(text) > 1 -> Leaf("keyword", Tail(text))
          [] n > 0 /\ IsFloat(literal) ->
                [kind |-> "number", text |-> literal, unit |-> SubSeq(text, n + 1, Len(text))]
          [] OTHER -> Leaf("symbol", text)

-----------------------------------------------------------------------------
(* The parser: the lists that are open, innermost last, below them the      *)
(* forms of the document.                                                   *)

Opened(delimiter) == [by |-> delimiter, forms |-> <<>>]
Closes == [c \in {")", "]"} |-> IF c = ")" THEN "(" ELSE "["]
FailedParse == <<>>

Add(open, form) == [open EXCEPT ![Len(open)].forms = Append(@, form)]

\* Parser::form: a document is one root form, so at the bottom there is room
\* for one; a list is closed by its own delimiter.
ParseOne(open, token) ==
    CASE open = FailedParse -> open
      [] Len(open) = 1 /\ open[1].forms # <<>> -> FailedParse
      [] token.kind = "string" -> Add(open, Leaf("string", token.text))
      [] token.kind = "atom" -> Add(open, AtomOf(token.text))
      [] token.kind \in {"(", "["} -> Append(open, Opened(token.kind))
      [] OTHER -> IF Last(open).by = Closes[token.kind]
                  THEN Add(Front(open), List(Last(open).forms))
                  ELSE FailedParse

Parsed(text) == FoldLeft(ParseOne, <<Opened("document")>>, Lexed(text).tokens)
ParseOK(open) == Len(open) = 1 /\ open[1].forms # <<>>
FormOf(text) == Parsed(text)[1].forms[1]

\* validate_root: "flow" and its sections, in their order and none twice, with
\* a trigger and a body.
SectionNames == <<"meta", "inputs", "on", "when", "do">>
IsSection(form) ==
    /\ form.kind = "list" /\ form.items # <<>>
    /\ form.items[1] \in {Leaf("symbol", <<n>>) : n \in ToSet(SectionNames)}
PlaceOf(form) == CHOOSE n \in DOMAIN SectionNames : form.items[1].text = <<SectionNames[n]>>
IsRoot(form) ==
    /\ form.kind = "list" /\ form.items # <<>>
    /\ form.items[1] = Leaf("symbol", <<"flow">>)
    /\ LET sections == Tail(form.items)
       IN  /\ \A i \in DOMAIN sections : IsSection(sections[i])
           /\ \A i, j \in DOMAIN sections : i < j => PlaceOf(sections[i]) < PlaceOf(sections[j])
           /\ {3, 5} \subseteq {PlaceOf(sections[i]) : i \in DOMAIN sections}

Parses(text) == LexOK(Lexed(text)) /\ ParseOK(Parsed(text)) /\ IsRoot(FormOf(text))

-----------------------------------------------------------------------------
(* The formatter. *)

\* Mutant: a backslash is printed as it is.
EscapeLessly(c) == IF c \in {"quote", "newline", "tab", "ctl"}
                   THEN <<"backslash", CHOOSE e \in DOMAIN Escaped : Escaped[e] = c>> ELSE <<c>>

\* Quotes, backslashes and what is a control character are escaped in a string.
Escape(c) == IF c \in {Escaped[e] : e \in DOMAIN Escaped}
             THEN <<"backslash", CHOOSE e \in DOMAIN Escaped : Escaped[e] = c>> ELSE <<c>>

RECURSIVE Formatted(_)
Formatted(form) ==
    CASE form.kind = "list" ->
            LET separator == IF \A i \in DOMAIN form.items : form.items[i].kind # "list"
                             THEN " " ELSE "newline"
                printed(i) == (IF i > 1 THEN <<separator>> ELSE <<>>) \o Formatted(form.items[i])
            IN  <<"(">> \o FlattenSeq([i \in DOMAIN form.items |-> printed(i)]) \o <<")">>
      [] form.kind = "string" ->
            <<"quote">> \o FlattenSeq([i \in DOMAIN form.text |-> Escape(form.text[i])]) \o <<"quote">>
      [] form.kind = "keyword" -> <<":">> \o form.text
      [] OTHER -> form.text \o form.unit

-----------------------------------------------------------------------------

Document(text) ==
    <<"(", "flow", "(", "on", ")", "(", "do", " ">> \o text \o <<")", ")">>

NoTree == Leaf("none", <<>>)

SyntaxInit == typed = <<>> /\ tree = NoTree

Type(c) ==
    /\ Len(typed) < MaxKeys
    /\ typed' = Append(typed, c)
    /\ tree' = IF Parses(Document(typed')) THEN FormOf(Document(typed')) ELSE NoTree

SyntaxNext == \E c \in Char : Type(c)

SyntaxSpec == SyntaxInit /\ [][SyntaxNext]_syntaxVars

-----------------------------------------------------------------------------
(* Properties. *)

SyntaxTypeOK ==
    /\ typed \in Seq(Char) /\ Len(typed) <= MaxKeys
    /\ tree = NoTree \/ IsRoot(tree)

\* automation/0002: text and tree are two views of one flow.  Whatever parses,
\* be it brackets, comments, quotes inside an atom, escapes or a number glued to
\* its unit: the formatted text parses to the same tree, so formatting it again
\* changes nothing.
FlowRoundTrip ==
    tree # NoTree =>
        LET text == Formatted(tree) IN Parses(text) /\ FormOf(text) = tree
=============================================================================
