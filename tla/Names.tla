------------------------------- MODULE Names -------------------------------
(***************************************************************************)
(* Which scripts compile_unit is to accept, told by the names in the order *)
(* of their text: each use of a name needs a declaration before it.  This  *)
(* is the reference for the table of locals that compile_unit keeps.       *)
(***************************************************************************)
EXTENDS Ast

\* What a text says of a name, or that it has something there is no code for.
Mention == [name: STRING, as: {"declaration", "variable", "function", "unsupported"}]

Declaration(name) == [name |-> name, as |-> "declaration"]
Variable(name) == [name |-> name, as |-> "variable"]
Callee(name) == [name |-> name, as |-> "function"]
Unsupported == [name |-> NoName, as |-> "unsupported"]

NoCodeIf(names, unsupported) == IF unsupported THEN Append(names, Unsupported) ELSE names

\* The mentions in a tree come behind those before it, names; those in the
\* parts of the tree are what c says they are.
ExprNames(c, names, e) ==
  CASE e.kind = "Const" -> names
    [] e.kind = "Ident" -> Append(names, Variable(e.ident))
    [] e.kind = "Call"  -> Append(InOrder(c.expr, names, e.args), Callee(e.call_name))
    [] e.kind = "FuncLiteral" -> NoCodeIf(names, TRUE)

ArmNames(c, names, cond, body) == InOrder(c.stmt, c.expr[cond][names], body)

LocalNames(c, names, st) ==
  Append(InOrder(c.expr, NoCodeIf(names, st.local_name = NoName), st.local_init),
         Declaration(st.local_name))

AssignNames(c, names, st) ==
  Append(c.expr[st.rhs][NoCodeIf(names, st.lhs = NoName)], Variable(st.lhs))

IfNames(c, names, st) ==
  LET elseif == [p \in ToSet(st.elseif_parts) |->
                  [x \in Seq(Mention) |-> ArmNames(c, x, p.cond, p.body)]]
      first == ArmNames(c, names, st.cond, st.then_body)
  IN  InOrder(c.stmt, InOrder(elseif, first, st.elseif_parts), st.else_body)

\* A foreach declares its variable, and two of its own that have names too.
ForeachNames(c, names, st) ==
  LET seq == Append(c.expr[st.iter_expr][names], Declaration("__foreach_seq"))
      idx == Append(seq, Declaration("__foreach_idx"))
  IN  InOrder(c.stmt, Append(idx, Declaration(st.iter_name)), st.foreach_body)

\* Of the expressions only calls are statements.
StmtNames(c, names, st) ==
  CASE st.kind = "Local"   -> LocalNames(c, names, st)
    [] st.kind = "Assign"  -> AssignNames(c, names, st)
    [] st.kind = "Expr"    -> c.expr[st.expr][NoCodeIf(names, st.expr.kind # "Call")]
    [] st.kind = "If"      -> IfNames(c, names, st)
    [] st.kind = "While"   -> ArmNames(c, names, st.cond, st.then_body)
    [] st.kind = "Foreach" -> ForeachNames(c, names, st)
    [] st.kind = "Return"  -> c.expr[st.expr][names]

\* For the trees of at most d levels.
NamesOf[d \in 0..MaxNesting] ==
  [expr |-> [e \in TreesUpTo[d].expr |->
              [names \in Seq(Mention) |-> ExprNames(NamesOf[d - 1], names, e)]],
   stmt |-> [s \in TreesUpTo[d].stmt |->
              [names \in Seq(Mention) |-> StmtNames(NamesOf[d - 1], names, s)]]]

\* Host functions can be called; anything else is declared first.
ResolvedAt(names, i) ==
  \/ names[i].as = "declaration"
  \/ names[i].as = "function" /\ names[i].name \in HostNames
  \/ /\ names[i].as \in {"variable", "function"}
     /\ \E j \in 1..i - 1 : names[j] = Declaration(names[i].name)

AllResolved(names) == \A i \in DOMAIN names : ResolvedAt(names, i)

\* The mentions in a handler with these parameters.
HandlerNames(params, body) ==
  InOrder(NamesOf[MaxNesting].stmt,
          <<Declaration("_tmp")>> \o [i \in DOMAIN params |-> Declaration(params[i])], body)

\* Every handler has its parameters and the variable _tmp.
Resolved(h) == AllResolved(HandlerNames(h.params, h.body))
=============================================================================
