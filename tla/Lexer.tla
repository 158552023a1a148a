------------------------------- MODULE Lexer -------------------------------
(***************************************************************************)
(* The lexer of src/lexer.cpp: from a text to its tokens.                  *)
(*                                                                         *)
(* A text is a string, and a position in it the number of the character to *)
(* be read next, from 1.  The empty string stands for the '\0' that peek   *)
(* returns at the end of the text; no text has one inside.  A token is a   *)
(* kind and a text, which is empty for the signs of one character; line    *)
(* and column, which only error messages show, are left out.               *)
(***************************************************************************)
EXTENDS Naturals, SequencesExt

EndOfText == ""
peek(s, i) == IF i <= Len(s) THEN SubSeq(s, i, i) ELSE EndOfText

StartsWith(s, i, word) ==
  i + Len(word) - 1 <= Len(s) /\ SubSeq(s, i, i + Len(word) - 1) = word

Chars(s) == [i \in 1..Len(s) |-> SubSeq(s, i, i)]

Digits10 == ToSet(Chars("0123456789"))
Letters == ToSet(Chars("abcdefghijklmnopqrstuvwxyzABCDEFGHIJKLMNOPQRSTUVWXYZ_"))
WordChars == Letters \cup Digits10 \cup {"."}
\* isspace takes the vertical tab too, which a TLA+ string cannot have.
Spaces == ToSet(Chars(" \t\n\r\f"))

\* The first position from i on whose character is not one of chars.
RECURSIVE SkipAll(_, _, _)
SkipAll(s, i, chars) == IF peek(s, i) \in chars THEN SkipAll(s, i + 1, chars) ELSE i

\* The position behind the next occurrence of word, or the end of the text.
RECURSIVE SkipPast(_, _, _)
SkipPast(s, i, word) ==
  IF i > Len(s) THEN i
  ELSE IF StartsWith(s, i, word) THEN i + Len(word) ELSE SkipPast(s, i + 1, word)

Token(kind, text) == [kind |-> kind, text |-> text]

\* A token, and the position behind it.
Found(kind, text, i) == [token |-> Token(kind, text), next |-> i]

-----------------------------------------------------------------------------
RECURSIVE skip_ws(_, _)

\* Mutant: a comment ends at the first "]".
skip_ws_Bracket(s, i) ==
  CASE peek(s, i) \in Spaces   -> skip_ws(s, i + 1)
    [] StartsWith(s, i, "--")  -> skip_ws(s, SkipPast(s, i + 2, "\n"))
    [] StartsWith(s, i, "-[")  -> skip_ws(s, SkipPast(s, i + 2, "]"))
    [] OTHER -> i

\* Blanks, comments to the end of the line, and comments in -[ and ]-.
skip_ws(s, i) ==
  CASE peek(s, i) \in Spaces   -> skip_ws(s, i + 1)
    [] StartsWith(s, i, "--")  -> skip_ws(s, SkipPast(s, i + 2, "\n"))
    [] StartsWith(s, i, "-[")  -> skip_ws(s, SkipPast(s, i + 2, "]-"))
    [] OTHER -> i

Keywords ==
  [unit |-> "Kw_unit", on |-> "Kw_on", end |-> "Kw_end", local |-> "Kw_local",
   if |-> "Kw_if", elseif |-> "Kw_elseif", else |-> "Kw_else", while |-> "Kw_while",
   foreach |-> "Kw_foreach", in |-> "Kw_in", return |-> "Kw_return",
   true |-> "Boolean", false |-> "Boolean", nil |-> "Nil"]

\* A keyword, or a name with its dots.
Word(word, i) ==
  Found(IF word \in DOMAIN Keywords THEN Keywords[word] ELSE "Identifier", word, i)

LexWord(s, i) ==
  LET end == SkipAll(s, i, WordChars) IN Word(SubSeq(s, i, end - 1), end)

\* Digits and at most one dot; a second dot ends the number and is dropped.
LexNumber(s, i) ==
  LET whole == SkipAll(s, i, Digits10)
      end == IF peek(s, whole) = "." THEN SkipAll(s, whole + 1, Digits10) ELSE whole
  IN  Found("Number", SubSeq(s, i, end - 1), IF peek(s, end) = "." THEN end + 1 ELSE end)

\* Mutant: a backslash is not treated specially.
Unescaped_Raw(c) == "\\" \o c

\* The character that a backslash and c stand for.
Unescaped(c) ==
  CASE c = "n" -> "\n" [] c = "r" -> "\r" [] c = "t" -> "\t" [] OTHER -> c

\* From inside a string up to its closing quote, or the end of the text.
RECURSIVE Quoted(_, _, _, _)
Quoted(s, i, quote, text) ==
  CASE peek(s, i) = EndOfText -> Found("String", text, i)
    [] peek(s, i) = quote     -> Found("String", text, i + 1)
    [] peek(s, i) = "\\"      -> Quoted(s, i + 2, quote, text \o Unescaped(peek(s, i + 1)))
    [] OTHER                  -> Quoted(s, i + 1, quote, text \o peek(s, i))

Signs ==
  "(" :> "LParen" @@ ")" :> "RParen" @@ "[" :> "LBracket" @@ "]" :> "RBracket" @@
  "{" :> "LBrace" @@ "}" :> "RBrace" @@ ";" :> "Semicolon" @@ "," :> "Comma" @@
  "~" :> "Tilde" @@ "=" :> "Equal" @@ "==" :> "EqualEqual" @@
  "!" :> "Exclamation" @@ "!=" :> "NotEqual" @@
  "<" :> "Less" @@ "<=" :> "LessEqual" @@ "<<" :> "ShiftLeft" @@ "<<=" :> "ShiftLeftEqual" @@
  ">" :> "Greater" @@ ">=" :> "GreaterEqual" @@ ">>" :> "ShiftRight" @@
  ">>=" :> "ShiftRightEqual" @@ "&" :> "LogicalAnd" @@ "&=" :> "LogicalAndEqual" @@
  "|" :> "LogicalOr" @@ "|=" :> "LogicalOrEqual" @@ "^" :> "Caret" @@ "^=" :> "CaretEqual" @@
  "+" :> "Plus" @@ "++" :> "PlusPlus" @@ "+=" :> "PlusEqual" @@
  "-" :> "Minus" @@ "-=" :> "MinusEqual" @@ "->" :> "Arrow" @@
  "*" :> "Star" @@ "*=" :> "StarEqual" @@ "/" :> "Slash" @@ "/=" :> "SlashEqual" @@
  "%" :> "Percent" @@ "%=" :> "PercentEqual"

\* The longest sign at position i; any other character is the end, and is
\* consumed.  "--" is never a sign: skip_ws has taken it for a comment.
LexSign(s, i) ==
  LET signs == {n \in 1..3 : \E sign \in DOMAIN Signs : Len(sign) = n /\ StartsWith(s, i, sign)}
      longest == Max(signs)
      sign == SubSeq(s, i, i + longest - 1)
  IN  IF signs = {} THEN Found("End", peek(s, i), i + 1)
      ELSE Found(Signs[sign], IF longest = 1 THEN "" ELSE sign, i + longest)

LexToken(s, i) ==
  CASE peek(s, i) = EndOfText -> Found("End", "", i)
    [] peek(s, i) \in Letters -> LexWord(s, i)
    [] peek(s, i) \in Digits10 \/ (peek(s, i) = "." /\ peek(s, i + 1) \in Digits10)
                              -> LexNumber(s, i)
    [] peek(s, i) \in {"'", "\""} -> Quoted(s, i + 1, peek(s, i), "")
    [] OTHER -> LexSign(s, i)

next(s, i) == LexToken(s, skip_ws(s, i))
=============================================================================
