------------------------------- MODULE Parser -------------------------------
(***************************************************************************)
(* The parser of src/parser.cpp, with the tables of src/facts.cpp: from    *)
(* tokens to the syntax tree.                                              *)
(*                                                                         *)
(* A parser p is a record: the tokens up to the first End, which is never  *)
(* consumed, the number k of the current one, and the trees and texts it   *)
(* has made and not yet put into larger ones.  Each operator parse_X takes *)
(* a parser and returns it with one more of them, as the C++ function      *)
(* returns a tree.  When it throws, ok becomes FALSE; from then on the     *)
(* current token has the kind "Thrown", which no rule accepts.             *)
(* The copy of the lexer that looks ahead is the same p, used and dropped. *)
(***************************************************************************)
EXTENDS Lexer, Ast

ParserOf(toks) == [toks |-> toks, k |-> 1, ok |-> TRUE, made |-> <<>>]

cur(p) == p.toks[p.k]
Kind(p) == IF p.ok THEN cur(p).kind ELSE "Thrown"

eat(p) == [p EXCEPT !.k = @ + 1]
Throw(p) == [p EXCEPT !.ok = FALSE]
expect(p, kind) == IF Kind(p) = kind THEN eat(p) ELSE Throw(p)

Give(p, x) == [p EXCEPT !.made = Append(@, x)]

\* The last one, two or three things made become one.
Made(p, i) == p.made[Len(p.made) - i]
Make(p, n, x) == [p EXCEPT !.made = Append(SubSeq(@, 1, Len(@) - n), x)]

Make1(p, node(_)) == IF p.ok THEN Make(p, 1, node(Made(p, 0))) ELSE p
Make2(p, node(_, _)) == IF p.ok THEN Make(p, 2, node(Made(p, 1), Made(p, 0))) ELSE p
Make3(p, node(_, _, _)) ==
  IF p.ok THEN Make(p, 3, node(Made(p, 2), Made(p, 1), Made(p, 0))) ELSE p

\* The thing made last is the next element of the list made before it.
AddToList(p) == Make2(p, Append)

Name(p) == IF Kind(p) = "Identifier" THEN eat(Give(p, cur(p).text)) ELSE Throw(p)

-----------------------------------------------------------------------------
(* facts.cpp                                                                *)

\* 0 for what is no operator.  The unary minus has the precedence of the binary one.
get_precedence(kind) ==
  CASE kind \in {"LParen", "LBracket"} -> 110
    [] kind \in {"PlusPlus", "MinusMinus"} -> 100
    [] kind = "Exclamation" -> 90
    [] kind \in {"Star", "Slash", "Percent"} -> 80
    [] kind \in {"Plus", "Minus"} -> 70
    [] kind \in {"Less", "LessEqual", "Greater", "GreaterEqual"} -> 60
    [] kind \in {"EqualEqual", "NotEqual"} -> 50
    [] kind = "LogicalAnd" -> 40
    [] kind = "LogicalOr" -> 30
    [] kind = "Equal" -> 10
    [] OTHER -> 0

is_right_associative(kind) == kind = "Equal"
is_postfix(kind) == kind \in {"PlusPlus", "MinusMinus"}
is_prefix(kind) == kind \in {"Exclamation", "Minus", "PlusPlus", "MinusMinus"}

-----------------------------------------------------------------------------
(* Expressions                                                              *)

RECURSIVE parse_expression_prec(_, _), parse_block(_, _, _)

parse_expression(p) == parse_expression_prec(p, 0)

\* The commas of a list, each with another element behind it.
RECURSIVE MoreArgs(_), MoreParams(_)
MoreArgs(p) ==
  IF Kind(p) = "Comma" THEN MoreArgs(AddToList(parse_expression(eat(p)))) ELSE p
MoreParams(p) ==
  IF Kind(p) = "Comma" THEN MoreParams(AddToList(Name(eat(p)))) ELSE p

\* From the "(" of a call to its ")".
Args(p) ==
  expect(IF Kind(p) = "RParen" THEN p ELSE MoreArgs(AddToList(parse_expression(p))), "RParen")
parse_args(p) == Args(Give(expect(p, "LParen"), <<>>))

\* From the "(" in front of the names of parameters to the ")".
Params(p) ==
  expect(IF Kind(p) = "Identifier" THEN MoreParams(AddToList(Name(p))) ELSE p, "RParen")
parse_params(p) == Params(Give(expect(p, "LParen"), <<>>))

\* The name of the function has been made already.
parse_call_expr(p) == Make2(parse_args(p), Call_)

parse_func_literal(p) ==
  expect(Make2(parse_block(parse_params(p), {"Kw_end"}, {}), FuncLiteral), "Kw_end")

\* The lookahead over names, each followed by a comma or by what ends them.
RECURSIVE SkipNames(_)
SkipNames(p) ==
  IF Kind(p) # "Identifier" THEN p
  ELSE IF Kind(eat(p)) = "Comma" THEN SkipNames(eat(eat(p))) ELSE eat(p)

\* A "(" starts a function when it is closed behind some names and "end" or one
\* of these keywords follows.
LooksLikeFunction(p) ==
  LET close == SkipNames(eat(p)) IN
  /\ Kind(close) = "RParen"
  /\ Kind(eat(close)) \in
       {"Kw_end", "Kw_local", "Kw_if", "Kw_while", "Kw_foreach", "Kw_return"}

OperatorOf(name, x) == Call_(name, <<x>>)
PostfixOf(x, name) == Call_(name, <<x>>)
BinaryOf(x, name, y) == Call_(name, <<x, y>>)
IndexOf(x, y) == Call_("[index]", <<x, y>>)

\* A call of something that is no name has it as its first argument.
CallOf(callee, args) ==
  IF callee.kind = "Ident" THEN Call_(callee.ident, args)
                           ELSE Call_("<call>", <<callee>> \o args)

\* The whole part of a number: doubles are integers here.
Digit10(c) == CHOOSE n \in 0..9 : ToString(n) = c
stod(text) ==
  FoldLeft(LAMBDA n, c : 10 * n + Digit10(c), 0,
           Chars(SubSeq(text, 1, SkipAll(text, 1, Digits10) - 1)))

Atom(p, e) == eat(Give(p, e))

\* Mutant: every Boolean literal is read as false.
BoolLiteral_False(p) == Atom(p, ExprOfBool(cur(p).text = "True"))

BoolLiteral(p) == Atom(p, ExprOfBool(cur(p).text = "true"))

\* The name of a sign of one character is empty: see Lexer.
parse_primary(p) ==
  CASE is_prefix(Kind(p)) ->
         Make2(parse_expression_prec(Give(eat(p), cur(p).text), get_precedence(Kind(p))),
               OperatorOf)
    [] Kind(p) = "Boolean" -> BoolLiteral(p)
    [] Kind(p) = "Nil"     -> Atom(p, ExprDefault)
    [] Kind(p) = "Number"  -> Atom(p, Num(stod(cur(p).text)))
    [] Kind(p) = "String"  -> Atom(p, Text(Chars(cur(p).text)))
    [] Kind(p) = "Identifier" ->
         IF Kind(eat(p)) = "LParen" THEN parse_call_expr(Name(p))
                                    ELSE Atom(p, Ident(cur(p).text))
    [] Kind(p) = "LParen" ->
         IF LooksLikeFunction(p) THEN parse_func_literal(p)
                                 ELSE expect(parse_expression(eat(p)), "RParen")
    [] OTHER -> Throw(p)

\* Mutant: the right operand may have an operator of the same precedence.
RightOperand_Same(p, kind) == parse_expression_prec(p, get_precedence(kind))

RightOperand(p, kind) ==
  parse_expression_prec(p, get_precedence(kind) +
                           (IF is_right_associative(kind) THEN 0 ELSE 1))

\* The loop of parse_expression_prec, which puts what follows around what it has.
RECURSIVE Climb(_, _)
Climb(p, min_prec) ==
  IF Kind(p) = "LParen"
  THEN Climb(Make2(parse_args(p), CallOf), min_prec)
  ELSE IF Kind(p) = "LBracket"
  THEN Climb(Make2(expect(parse_expression(eat(p)), "RBracket"), IndexOf), min_prec)
  ELSE IF get_precedence(Kind(p)) = 0 \/ get_precedence(Kind(p)) < min_prec
  THEN p
  ELSE IF is_postfix(Kind(p))
  THEN Climb(Make2(Give(eat(p), cur(p).text), PostfixOf), min_prec)
  ELSE Climb(Make3(RightOperand(Give(eat(p), cur(p).text), Kind(p)), BinaryOf), min_prec)

parse_expression_prec(p, min_prec) == Climb(parse_primary(p), min_prec)

-----------------------------------------------------------------------------
(* Statements                                                               *)

\* "(", an expression and ")".
Condition(p) == expect(parse_expression(expect(p, "LParen")), "RParen")

ParseLocal(p) ==
  expect(IF Kind(p) = "Equal" THEN Make2(parse_expression(eat(p)), LAMBDA x, e : Local(x, <<e>>))
                              ELSE Make2(Give(p, <<>>), Local), "Semicolon")

Arm(p) == Make2(parse_block(Condition(p), {"Kw_elseif", "Kw_else", "Kw_end"}, {}), Part)

\* Mutant: at most one elseif is looked for.
ElseifParts_One(p) == IF Kind(p) = "Kw_elseif" THEN AddToList(Arm(eat(p))) ELSE p

RECURSIVE ElseifParts(_)
ElseifParts(p) ==
  IF Kind(p) = "Kw_elseif" THEN ElseifParts(AddToList(Arm(eat(p)))) ELSE p

ElseBody(p) ==
  IF Kind(p) = "Kw_else" THEN parse_block(eat(p), {"Kw_end"}, {}) ELSE Give(p, <<>>)

ParseIf(p) ==
  expect(Make3(ElseBody(ElseifParts(Give(Arm(p), <<>>))),
               LAMBDA arm, parts, body : If(arm.cond, arm.body, parts, body)), "Kw_end")

ParseWhile(p) ==
  expect(Make2(parse_block(Condition(p), {"Kw_end"}, {}), While), "Kw_end")

ForeachHead(p) ==
  expect(parse_expression(expect(Name(expect(p, "LParen")), "Kw_in")), "RParen")

ParseForeach(p) ==
  expect(Make3(parse_block(ForeachHead(p), {"Kw_end"}, {}), Foreach), "Kw_end")

ParseReturn(p) == expect(Make1(parse_expression(p), Return_), "Semicolon")

\* Behind the name that a statement starts with.
AssignOrCall(p) ==
  CASE Kind(p) = "Equal"  -> expect(Make2(parse_expression(eat(p)), Let), "Semicolon")
    [] Kind(p) = "LParen" -> expect(Make1(parse_call_expr(p), Do), "Semicolon")
    [] OTHER -> Throw(p)

parse_statement(p) ==
  CASE Kind(p) = "Kw_local"   -> ParseLocal(Name(eat(p)))
    [] Kind(p) = "Kw_if"      -> ParseIf(eat(p))
    [] Kind(p) = "Kw_while"   -> ParseWhile(eat(p))
    [] Kind(p) = "Kw_foreach" -> ParseForeach(eat(p))
    [] Kind(p) = "Kw_return"  -> ParseReturn(eat(p))
    [] Kind(p) = "Identifier" -> AssignOrCall(Name(p))
    [] Kind(p) \in {"String", "Number", "Boolean", "Nil"} ->
         expect(Make1(parse_expression(p), Do), "Semicolon")
    [] OTHER -> Throw(p)

\* The statements up to one of the kinds of token in ends, those in skipped
\* being passed over: the semicolons of a handler, but not of a nested block.
RECURSIVE Statements(_, _, _)
Statements(p, ends, skipped) ==
  IF Kind(p) \in ends \cup {"Thrown"} THEN p
  ELSE IF Kind(p) \in skipped THEN Statements(eat(p), ends, skipped)
  ELSE Statements(AddToList(parse_statement(p)), ends, skipped)

parse_block(p, ends, skipped) == Statements(Give(p, <<>>), ends, skipped)

-----------------------------------------------------------------------------
(* Handlers                                                                 *)

\* The branch for "on name = (...)" in the code cannot be reached: it throws.
parse_handler(p) ==
  expect(Make3(parse_block(parse_params(expect(Name(expect(p, "Kw_on")), "Arrow")),
                           {"Kw_end"}, {"Semicolon"}), Handler), "Kw_end")

\* Mutant: the statements end at a semicolon that stands alone.
parse_annon_handler_Stop(p) ==
  Make1(parse_block(p, {"Kw_on", "RBrace", "End", "Semicolon"}, {}),
        LAMBDA body : Handler("MdSuperInit", <<>>, body))

\* The statements between two handlers are a handler too.
parse_annon_handler(p) ==
  Make1(parse_block(p, {"Kw_on", "RBrace", "End"}, {"Semicolon"}),
        LAMBDA body : Handler("MdSuperInit", <<>>, body))
=============================================================================
