----------------------------- MODULE ParseRuns -----------------------------
(***************************************************************************)
(* One text on its way through the lexer and the parser: what the two make *)
(* of it (Lexer, Parser) against what it says (Grammar).                   *)
(*                                                                         *)
(* The parser calls the lexer whenever it needs a token; as no token       *)
(* depends on what the parser does, all of them are lexed first here.  A   *)
(* step then is one iteration of the loop of parse_program or of the one   *)
(* of parse_unit.                                                          *)
(***************************************************************************)
EXTENDS Parser, Compiler, Semantics, Grammar

CONSTANTS
  Sources,      \* texts that may be read
  MaxHandlers   \* bound: handlers of one unit

ASSUME MaxHandlersAssumption == MaxHandlers \in Nat \ {0}

\* What is known of a text besides its characters: how it was written.
WrittenAs(text, toks, units) == [text |-> text, toks |-> toks, units |-> units, demo |-> FALSE]
Demo(text) == [WrittenAs(text, <<>>, <<>>) EXCEPT !.demo = TRUE]

VARIABLES
  source,   \* the text that is read
  pos,      \* the lexer's position in it
  toks,     \* the tokens lexed so far
  parser,   \* the parser; inside a unit it has made its name and a list of handlers
  units,    \* the units parsed so far
  pc        \* "lex", "program" or "unit", or how the parse has ended

vars == <<source, pos, toks, parser, units, pc>>

Init ==
  /\ source \in Sources
  /\ pos = 1 /\ toks = <<>> /\ parser = ParserOf(<<>>) /\ units = <<>>
  /\ pc = "lex"

\* The lexer's next token, up to the first End.
Lex ==
  LET found == next(source.text, pos) IN
  /\ pc = "lex"
  /\ toks' = Append(toks, found.token) /\ pos' = found.next
  /\ IF found.token.kind = "End"
     THEN pc' = "program" /\ parser' = ParserOf(toks')
     ELSE UNCHANGED <<pc, parser>>
  /\ UNCHANGED <<source, units>>

\* A step of the parser, which may throw.
Parse(p, then) ==
  /\ parser' = p
  /\ pc' = IF p.ok THEN then ELSE "threw"
  /\ UNCHANGED <<source, pos, toks>>

\* parse_unit up to its loop.
BeginUnit ==
  /\ pc = "program" /\ Kind(parser) = "Kw_unit"
  /\ Parse(Give(expect(Name(eat(parser)), "LBrace"), <<>>), "unit")
  /\ UNCHANGED units

NoUnit ==
  /\ pc = "program" /\ Kind(parser) \notin {"Kw_unit", "End"}
  /\ Parse(Throw(parser), "threw")
  /\ UNCHANGED units

EndProgram ==
  /\ pc = "program" /\ Kind(parser) = "End"
  /\ Parse(parser, "parsed")
  /\ UNCHANGED units

\* Handlers, with "on" or without.
Member ==
  /\ pc = "unit" /\ Kind(parser) # "RBrace" /\ Len(Made(parser, 0)) < MaxHandlers
  /\ Parse(AddToList(IF Kind(parser) = "Kw_on" THEN parse_handler(parser)
                                               ELSE parse_annon_handler(parser)), "unit")
  /\ UNCHANGED units

EndUnit ==
  /\ pc = "unit" /\ Kind(parser) = "RBrace"
  /\ Parse([eat(parser) EXCEPT !.made = <<>>], "program")
  /\ units' = Append(units, UnitDecl(Made(parser, 1), Made(parser, 0)))

Ended == pc \in {"parsed", "threw"}

Next ==
  \/ Lex \/ BeginUnit \/ NoUnit \/ EndProgram \/ Member \/ EndUnit
  \/ Ended /\ UNCHANGED vars

Spec == Init /\ [][Next]_vars

-----------------------------------------------------------------------------
(* Properties                                                               *)

\* The lexer finds the tokens a text was written with, whatever stands between
\* them: blanks, comments of both kinds that hold quotes and brackets, or
\* nothing, so that each sign is the longest there is and a word or a number goes
\* on for as long as it can; a blank is needed only where that would change the
\* tokens (Lexer::next).
TokensAsWritten ==
  pc # "lex" /\ source.toks # <<>> => toks = Append(source.toks, Token("End", ""))

\* A script is parsed to the tree it was written from: operators group by
\* precedence and to the left, assignments to the right, parentheses and
\* suffixes where they stand, statements into the block they stand in.
TreeAsWritten == Ended /\ source.units # <<>> => pc = "parsed" /\ units = source.units

\* A text is accepted exactly if it is a script: one with a token missing,
\* twice or in the place of its neighbour is refused unless it still is one.
AcceptsScripts ==
  Ended /\ source.toks # <<>> => (pc = "parsed" <=> IsScript(source.toks))

\* The repository's own scripts, demo/**/*.mon and scripts/*.mon, and some more:
\* every one is parsed and compiled, and where it has a UTest, that returns
\* something truthy, as --test demands.
DemosPass ==
  Ended /\ source.demo =>
    /\ pc = "parsed"
    /\ \A i \in DOMAIN units :
         LET hs == units[i].handlers IN
         /\ Compiles(hs)
         /\ \A h \in DOMAIN hs :
              hs[h].name = "UTest" =>
                LET end == Call(hs, h - 1, Nil) IN
                end.status = "returned" /\ is_truthy(end.value)

\* Each iteration of the loop over the members of a unit consumes a token, or
\* is the last: a text of finite length is parsed in finite time and memory.
MembersConsume == [][parser'.k > parser.k \/ pc' # pc]_<<parser, units>>
=============================================================================
