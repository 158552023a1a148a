------------------------------ MODULE Grammar ------------------------------
(***************************************************************************)
(* The language of scripts, told without a lexer and without a parser: the *)
(* reference that those two are compared with.                             *)
(*                                                                         *)
(* The first part says how a phrase is written: it puts the tokens and the *)
(* tree of a phrase together from those of its parts, with parentheses     *)
(* where a part binds less tightly than its place asks for.  The second    *)
(* says which sequences of tokens are scripts, by the rules of a grammar   *)
(* and the positions a match of a rule can end at.  The third spells       *)
(* tokens as text.                                                         *)
(***************************************************************************)
EXTENDS Ast, SequencesExt

Tok(kind, text) == [kind |-> kind, text |-> text]
Sign(kind) == Tok(kind, "")

-----------------------------------------------------------------------------
(* Writing                                                                  *)

\* Levels, from what binds loosest: assignment, or, and, equality, comparison,
\* sums, products, prefix and postfix operators, and whatever needs no parentheses.
LevelOf ==
  [Equal |-> 1, LogicalOr |-> 2, LogicalAnd |-> 3, EqualEqual |-> 4, NotEqual |-> 4,
   Less |-> 5, LessEqual |-> 5, Greater |-> 5, GreaterEqual |-> 5, Plus |-> 6, Minus |-> 6,
   Star |-> 7, Slash |-> 7, Percent |-> 7]
PrefixLevel == 8
PostfixLevel == 9
Closed == 10

Phrase(toks, level, tree) == [toks |-> toks, level |-> level, tree |-> tree]

Group(x) == Phrase(<<Sign("LParen")>> \o x.toks \o <<Sign("RParen")>>, Closed, x.tree)
AtLeast(x, level) == (IF x.level >= level THEN x ELSE Group(x)).toks

Var(name) == Phrase(<<Tok("Identifier", name)>>, Closed, Ident(name))
NumberLit(text, n) == Phrase(<<Tok("Number", text)>>, Closed, Num(n))
StringLit(text, chars) == Phrase(<<Tok("String", text)>>, Closed, Text(chars))
Bool(text, n) == Phrase(<<Tok("Boolean", text)>>, Closed, Num(n))

\* Operators of one level group to the left, assignments to the right.  The
\* tree has the text of the operator's token.
Binary(op, x, y) ==
  LET level == LevelOf[op.kind]
      right == IF op.kind = "Equal" THEN level ELSE level + 1
  IN  Phrase(AtLeast(x, IF op.kind = "Equal" THEN level + 1 ELSE level) \o <<op>>
               \o AtLeast(y, right), level, Call_(op.text, <<x.tree, y.tree>>))

PrefixOp(op, x) ==
  Phrase(<<op>> \o AtLeast(x, PrefixLevel), PrefixLevel, Call_(op.text, <<x.tree>>))
PostfixOp(x, op) ==
  Phrase(AtLeast(x, PostfixLevel) \o <<op>>, PostfixLevel, Call_(op.text, <<x.tree>>))

\* Phrases with commas between them.
Listed(xs) ==
  FoldLeft(LAMBDA toks, x : IF toks = <<>> THEN x.toks ELSE toks \o <<Sign("Comma")>> \o x.toks,
           <<>>, xs)
InParens(xs) == <<Sign("LParen")>> \o Listed(xs) \o <<Sign("RParen")>>
Trees(xs) == [i \in DOMAIN xs |-> xs[i].tree]

CallOfName(name, args) ==
  Phrase(<<Tok("Identifier", name)>> \o InParens(args), Closed, Call_(name, Trees(args)))
\* What is called may be any expression; a name in parentheses is still a name.
CallValue(f, args) ==
  Phrase(AtLeast(f, PostfixLevel) \o InParens(args), Closed,
         IF f.tree.kind = "Ident" THEN Call_(f.tree.ident, Trees(args))
         ELSE Call_("<call>", <<f.tree>> \o Trees(args)))
Index(x, i) ==
  Phrase(AtLeast(x, PostfixLevel) \o <<Sign("LBracket")>> \o i.toks \o <<Sign("RBracket")>>,
         Closed, Call_("[index]", <<x.tree, i.tree>>))

Key(word) == Tok("Kw_" \o word, word)
NameTok(name) == Tok("Identifier", name)

\* Statements, one after the other.
Block(body) == FlattenSeq([i \in DOMAIN body |-> body[i].toks])

Function(params, body) ==
  Phrase(InParens([i \in DOMAIN params |-> Var(params[i])]) \o Block(body) \o <<Key("end")>>,
         Closed, FuncLiteral(params, Trees(body)))

Statement(toks, tree) == [toks |-> toks, tree |-> tree]
Semi == <<Sign("Semicolon")>>

LocalStmt(name, init) ==
  Statement(<<Key("local"), NameTok(name)>>
              \o (IF init = <<>> THEN <<>> ELSE <<Sign("Equal")>> \o init[1].toks) \o Semi,
            Local(name, Trees(init)))
AssignStmt(name, x) ==
  Statement(<<NameTok(name), Sign("Equal")>> \o x.toks \o Semi, Let(name, x.tree))
ExprStmt(x) == Statement(x.toks \o Semi, Do(x.tree))
ReturnStmt(x) == Statement(<<Key("return")>> \o x.toks \o Semi, Return_(x.tree))

ArmToks(word, arm) == <<Key(word)>> \o Group(arm.cond).toks \o Block(arm.body)
ArmTree(arm) == Part(arm.cond.tree, Trees(arm.body))
IfStmt(arm, parts, else_body) ==
  Statement(ArmToks("if", arm)
              \o FlattenSeq([i \in DOMAIN parts |-> ArmToks("elseif", parts[i])])
              \o (IF else_body = <<>> THEN <<>> ELSE <<Key("else")>> \o Block(else_body))
              \o <<Key("end")>>,
            If(arm.cond.tree, Trees(arm.body), [i \in DOMAIN parts |-> ArmTree(parts[i])],
               Trees(else_body)))
WhileStmt(cond, body) ==
  Statement(ArmToks("while", Part(cond, body)) \o <<Key("end")>>,
            While(cond.tree, Trees(body)))
ForeachStmt(name, x, body) ==
  Statement(<<Key("foreach"), Sign("LParen"), NameTok(name), Key("in")>> \o x.toks
              \o <<Sign("RParen")>> \o Block(body) \o <<Key("end")>>,
            Foreach(name, x.tree, Trees(body)))

\* A handler, and statements of a unit that are in none.
OnHandler(name, params, body) ==
  Statement(<<Key("on"), NameTok(name), Tok("Arrow", "->")>>
              \o InParens([i \in DOMAIN params |-> Var(params[i])]) \o Block(body)
              \o <<Key("end")>>,
            Handler(name, params, Trees(body)))
Loose(body) == Statement(Block(body), Handler("MdSuperInit", <<>>, Trees(body)))

UnitOf(name, handlers) ==
  Statement(<<Key("unit"), NameTok(name), Sign("LBrace")>> \o Block(handlers)
              \o <<Sign("RBrace")>>,
            UnitDecl(name, Trees(handlers)))

-----------------------------------------------------------------------------
(* Scripts as sequences of kinds of tokens: rules, and what they match.     *)

OneOf(kinds) == [rule |-> "token", kinds |-> kinds]
Ahead(kinds) == [rule |-> "ahead", kinds |-> kinds]
The(name) == [rule |-> "named", name |-> name]
Seq_(parts) == [rule |-> "seq", parts |-> parts]
Either(choices) == [rule |-> "choice", choices |-> choices]
Many(item) == [rule |-> "many", item |-> item]

A(kind) == OneOf({kind})
May(x) == Either(<<x, Seq_(<<>>)>>)
InBrackets(open, x, close) == Seq_(<<A(open), x, A(close)>>)
ListOf(x) ==
  InBrackets("LParen", May(Seq_(<<x, Many(Seq_(<<A("Comma"), x>>))>>)), "RParen")

Literals == {"Boolean", "Nil", "Number", "String"}
FirstOfFunction ==
  {"Kw_end", "Kw_local", "Kw_if", "Kw_while", "Kw_foreach", "Kw_return"}

\* What may stand between two operands: "!" too, which has no level of its own
\* there and is not written between any.
Infix == DOMAIN LevelOf \cup {"Exclamation"}

Expr == The("expr")
Grouped == InBrackets("LParen", Expr, "RParen")
ArmOf(word) == Seq_(<<A(word), Grouped, The("block")>>)
Ending(parts) == Seq_(Append(parts, A("Kw_end")))
Item == Either(<<The("statement"), A("Semicolon")>>)

Rules ==
  [expr |-> Seq_(<<The("operand"), Many(Seq_(<<OneOf(Infix), The("operand")>>))>>),
   operand |->
     Seq_(<<Many(OneOf({"Exclamation", "Minus", "PlusPlus"})),
            Either(<<OneOf(Literals \cup {"Identifier"}), Grouped, The("function")>>),
            Many(Either(<<A("PlusPlus"), ListOf(Expr),
                          InBrackets("LBracket", Expr, "RBracket")>>))>>),
   \* A function's body is empty or begins with the keyword of a statement.
   function |-> Ending(<<ListOf(A("Identifier")), Ahead(FirstOfFunction), The("block")>>),
   block |-> Many(The("statement")),
   statement |->
     Either(<<Seq_(<<The("simple"), A("Semicolon")>>),
              Ending(<<ArmOf("Kw_if"), Many(ArmOf("Kw_elseif")),
                       May(Seq_(<<A("Kw_else"), The("block")>>))>>),
              Ending(<<ArmOf("Kw_while")>>),
              Ending(<<A("Kw_foreach"),
                       InBrackets("LParen", Seq_(<<A("Identifier"), A("Kw_in"), Expr>>), "RParen"),
                       The("block")>>)>>),
   simple |->
     Either(<<Seq_(<<A("Kw_local"), A("Identifier"), May(Seq_(<<A("Equal"), Expr>>))>>),
              Seq_(<<A("Identifier"), Either(<<Seq_(<<A("Equal"), Expr>>), ListOf(Expr)>>)>>),
              Seq_(<<A("Kw_return"), Expr>>),
              Seq_(<<Ahead(Literals), Expr>>)>>),
   \* In a handler, and between handlers, semicolons may stand alone.
   handler |->
     Ending(<<A("Kw_on"), A("Identifier"), A("Arrow"), ListOf(A("Identifier")), Many(Item)>>),
   unit |->
     Seq_(<<A("Kw_unit"), A("Identifier"),
            InBrackets("LBrace", Many(Either(<<The("handler"), Item>>)), "RBrace")>>),
   script |-> Many(The("unit"))]

\* Where a match of x in ks that starts at a position in S can end.
RECURSIVE Ends(_, _, _)
Ends(ks, x, S) ==
  LET starts(kinds) == {i \in S \cap DOMAIN ks : ks[i] \in kinds} IN
  CASE S = {}             -> {}
    [] x.rule = "token"   -> {i + 1 : i \in starts(x.kinds)}
    [] x.rule = "ahead"   -> starts(x.kinds)
    [] x.rule = "named"   -> Ends(ks, Rules[x.name], S)
    [] x.rule = "choice"  -> UNION {Ends(ks, x.choices[c], S) : c \in DOMAIN x.choices}
    [] x.rule = "many"    -> S \cup Ends(ks, x, Ends(ks, x.item, S))
    [] x.rule = "seq"     ->
         IF x.parts = <<>> THEN S ELSE Ends(ks, Seq_(Tail(x.parts)), Ends(ks, x.parts[1], S))

IsScript(toks) ==
  Len(toks) + 1 \in Ends([i \in DOMAIN toks |-> toks[i].kind], Rules.script, {1})

-----------------------------------------------------------------------------
(* Spelling                                                                 *)

SignSpelling ==
  [LParen |-> "(", RParen |-> ")", LBracket |-> "[", RBracket |-> "]", LBrace |-> "{",
   RBrace |-> "}", Semicolon |-> ";", Comma |-> ",", Tilde |-> "~", Equal |-> "=",
   Exclamation |-> "!", Less |-> "<", Greater |-> ">", LogicalAnd |-> "&", LogicalOr |-> "|",
   Caret |-> "^", Plus |-> "+", Minus |-> "-", Star |-> "*", Slash |-> "/", Percent |-> "%"]

\* The inside of a quoted string that stands for c.
Escaped(c) ==
  CASE c = "\n" -> "\\n" [] c \in {"'", "\"", "\\"} -> "\\" \o c [] OTHER -> c

\* The texts one after the other; in halves, as they may be many.
RECURSIVE Joined(_)
Joined(texts) ==
  LET half == Len(texts) \div 2 IN
  CASE texts = <<>>    -> ""
    [] Len(texts) = 1  -> texts[1]
    [] OTHER -> Joined(SubSeq(texts, 1, half)) \o Joined(SubSeq(texts, half + 1, Len(texts)))

InQuotes(text, quote) ==
  quote \o Joined([i \in 1..Len(text) |-> Escaped(SubSeq(text, i, i))]) \o quote

Spelling(t) ==
  CASE t.kind = "String"            -> InQuotes(t.text, IF Len(t.text) % 2 = 0 THEN "'" ELSE "\"")
    [] t.kind \in DOMAIN SignSpelling -> SignSpelling[t.kind]
    [] OTHER                        -> t.text

Words ==
  {"Identifier", "Number", "Boolean", "Nil"}
    \cup {"Kw_" \o w : w \in {"unit", "on", "end", "local", "if", "elseif", "else", "while",
                             "foreach", "in", "return"}}

\* The signs of more than one character, and what begins a comment.
LongSpellings ==
  {"==", "!=", "<<", "<<=", "<=", ">>", ">>=", ">=", "++", "+=", "-=", "->", "*=", "/=", "%=",
   "^=", "&=", "|=", "--", "-["}

BeginsWith(text, s) == Len(s) <= Len(text) /\ SubSeq(text, 1, Len(s)) = s

\* Without a space, u would lengthen the word or the number t is, or together they
\* would begin with a sign that is longer than t, or with a comment.
Fuse(t, u) ==
  \/ t.kind \in Words \ {"Number"} /\ u.kind \in Words
  \/ t.kind = "Number" /\ u.kind = "Number"
  \/ \E s \in LongSpellings :
       Len(s) > Len(Spelling(t)) /\ BeginsWith(Spelling(t) \o Spelling(u), s)

\* The tokens as a text, with "between" between two of them.
Spelled(toks, between) ==
  LET Sep(i) == IF i = 1 THEN "" ELSE IF between # "" THEN between
                ELSE IF Fuse(toks[i - 1], toks[i]) THEN " " ELSE ""
  IN  Joined([i \in DOMAIN toks |-> Sep(i) \o Spelling(toks[i])])
=============================================================================
