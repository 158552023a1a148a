-------------------------------- MODULE Ast --------------------------------
(***************************************************************************)
(* The syntax tree of src/ast.h, by its constructors.  The fields of Expr  *)
(* and Stmt that a kind does not use are left out; a local without an      *)
(* initial value has an empty sequence for the null pointer.               *)
(***************************************************************************)
EXTENDS Values, SequencesExt

CONSTANT MaxNesting  \* bound on the nesting of the trees

ASSUME NestingAssumption == MaxNesting \in Nat

\* What a pointer points to, if it is not null.
Optional(S) == [1..0 -> S] \cup [1..1 -> S]

\* Expressions and statements whose parts are in t.
ExprsOver(t) ==
  [kind: {"Const"}, value: Value] \cup [kind: {"Ident"}, ident: STRING]
    \cup [kind: {"Call"}, call_name: STRING, args: Seq(t.expr)]
    \cup [kind: {"FuncLiteral"}, params: Seq(STRING), body: Seq(t.stmt)]

PartsOver(t) == [cond: t.expr, body: Seq(t.stmt)]

StmtsOver(t) ==
  [kind: {"Local"}, local_name: STRING, local_init: Optional(t.expr)]
    \cup [kind: {"Assign"}, lhs: STRING, rhs: t.expr]
    \cup [kind: {"Expr", "Return"}, expr: t.expr]
    \cup [kind: {"If"}, cond: t.expr, then_body: Seq(t.stmt),
          elseif_parts: Seq(PartsOver(t)), else_body: Seq(t.stmt)]
    \cup [kind: {"While"}, cond: t.expr, then_body: Seq(t.stmt)]
    \cup [kind: {"Foreach"}, iter_name: STRING, iter_expr: t.expr, foreach_body: Seq(t.stmt)]

\* The trees of at most d levels, each level made once.
TreesUpTo ==
  LET upto[d \in 0..MaxNesting] ==
        IF d = 0 THEN [expr |-> {}, stmt |-> {}]
        ELSE LET t == upto[d - 1] IN [expr |-> ExprsOver(t), stmt |-> StmtsOver(t)]
  IN  [d \in 0..MaxNesting |-> upto[d]]

\* What becomes of start when the trees are gone through one after the other;
\* each maps what the ones before it have made.
InOrder(map, start, trees) ==
  LET upto[i \in 0..Len(trees)] == IF i = 0 THEN start ELSE map[trees[i]][upto[i - 1]]
  IN  upto[Len(trees)]

\* Of what has no name.
NoName == ""

\* A handler with its parameters and its body.
HandlerDecl == [name: STRING, params: Seq(STRING), body: Seq(TreesUpTo[MaxNesting].stmt)]

Const(v) == [kind |-> "Const", value |-> v]
Num(n) == Const(Number(n))
Text(s) == Const(String(s))
Ident(name) == [kind |-> "Ident", ident |-> name]
Call_(name, args) == [kind |-> "Call", call_name |-> name, args |-> args]
FuncLiteral(params, body) == [kind |-> "FuncLiteral", params |-> params, body |-> body]

\* make_unique<Expr>(b): of the constructors that can take a bool, it is the
\* one for numbers.
ExprOfBool(b) == Num(IF b THEN 1 ELSE 0)

\* Expr(): an identifier without a name.
ExprDefault == Ident("")

Local(name, init) == [kind |-> "Local", local_name |-> name, local_init |-> init]
Let(name, rhs) == [kind |-> "Assign", lhs |-> name, rhs |-> rhs]
Do(expr) == [kind |-> "Expr", expr |-> expr]
If(cond, body, parts, else_body) ==
  [kind |-> "If", cond |-> cond, then_body |-> body, elseif_parts |-> parts,
   else_body |-> else_body]
Part(cond, body) == [cond |-> cond, body |-> body]
While(cond, body) == [kind |-> "While", cond |-> cond, then_body |-> body]
Foreach(name, expr, body) ==
  [kind |-> "Foreach", iter_name |-> name, iter_expr |-> expr, foreach_body |-> body]
Return_(expr) == [kind |-> "Return", expr |-> expr]

Handler(name, params, body) == [name |-> name, params |-> params, body |-> body]
UnitDecl(name, handlers) == [name |-> name, handlers |-> handlers]
=============================================================================
