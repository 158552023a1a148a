------------------------------ MODULE Compiler ------------------------------
(***************************************************************************)
(* compile_unit of src/runtime/bytecode.cpp: from the syntax tree of a     *)
(* unit to the functions the VM executes.                                  *)
(*                                                                         *)
(* The tree is the one of src/ast.h: an expression is a constant, an       *)
(* identifier or a call (operators are calls too); a handler is a name and *)
(* a list of statements, its parameters being used by nothing.             *)
(*                                                                         *)
(* A function being compiled is a record that the operators below extend.  *)
(* The code throws at the first construct it cannot compile; here "ok"     *)
(* becomes FALSE, and what is appended after that is not used.             *)
(***************************************************************************)
EXTENDS Bytecode, Ast

\* The names the code itself writes.
LiteralNames ==
  {NoName, "_tmp", "__foreach_seq", "__foreach_idx", "strlen", "lt", "str_char_at", "add"}

\* The provers have no rule for it.
ASSUME NamesAssumption == LiteralNames \subseteq STRING

NewFunc == [ok |-> TRUE, code |-> <<>>, consts |-> <<>>, locals |-> <<"_tmp">>]

\* What NewFunc is extended to.
Func == [ok: BOOLEAN, code: Seq(Op), consts: Seq(Value), locals: Seq(STRING)]

FailIf(bf, failed) == [bf EXCEPT !.ok = @ /\ ~failed]

Emit(bf, op, a) == [bf EXCEPT !.code = Append(@, [op |-> op, a |-> a, b |-> 0, s |-> NoName])]

EmitCall(bf, nargs, kind, name) ==
  [bf EXCEPT !.code = Append(@, [op |-> "CALL", a |-> nargs, b |-> kind, s |-> name])]

\* push_const, and the instruction that pushes the constant.
EmitConst(bf, v) ==
  Emit([bf EXCEPT !.consts = Append(@, v)], "PUSH_CONST", Len(bf.consts))

\* The position of the next instruction.
Here(bf) == Len(bf.code)

\* The jump emitted last before position pos goes to the next instruction.
Land(bf, pos) == [bf EXCEPT !.code[pos].a = Here(bf)]

IsLocal(bf, name) == name \in ToSet(bf.locals)
Slot(bf, name) == (CHOOSE i \in DOMAIN bf.locals : bf.locals[i] = name) - 1

AddLocal(bf, name) ==
  IF IsLocal(bf, name) THEN bf ELSE [bf EXCEPT !.locals = Append(@, name)]

\* The value on the stack goes to a local that is declared here, if it is new.
StoreNew(bf, name) == LET d == AddLocal(bf, name) IN Emit(d, "STORE_LOCAL", Slot(d, name))

PushName(bf, name) ==
  IF IsLocal(bf, name) THEN Emit(bf, "PUSH_LOCAL", Slot(bf, name)) ELSE FailIf(bf, TRUE)

-----------------------------------------------------------------------------
(* Expressions                                                              *)

\* Arguments from left to right; then a local is called by the number it
\* holds, and any other name has to be that of a host function.
CompileCall(c, bf, e) ==
  LET args == InOrder(c.expr, bf, e.args) IN
  IF IsLocal(bf, e.call_name)
  THEN EmitCall(PushName(args, e.call_name), Len(e.args), -2, NoName)
  ELSE EmitCall(FailIf(args, e.call_name \notin HostNames), Len(e.args), -1, e.call_name)

CompileExpr(c, bf, e) ==
  CASE e.kind = "Const" -> EmitConst(bf, e.value)
    [] e.kind = "Ident" -> PushName(bf, e.ident)
    [] e.kind = "Call"  -> CompileCall(c, bf, e)
    [] e.kind = "FuncLiteral" -> FailIf(bf, TRUE)

-----------------------------------------------------------------------------
(* Statements                                                               *)

CompileBlock(c, bf, body) == InOrder(c.stmt, bf, body)

\* Mutants: no value is pushed for a missing one; the name is declared first.
CompileLocal_NoValue(c, bf, st) ==
  StoreNew(IF st.local_init = <<>> THEN bf ELSE c.expr[st.local_init[1]][bf],
           st.local_name)
CompileLocal_DeclareFirst(c, bf, st) ==
  LET d == AddLocal(bf, st.local_name) IN
  StoreNew(IF st.local_init = <<>> THEN EmitConst(d, Nil)
                                   ELSE c.expr[st.local_init[1]][d],
           st.local_name)

\* local_init is a sequence of at most one expression.
CompileLocal(c, bf, st) ==
  LET named == FailIf(bf, st.local_name = NoName) IN
  StoreNew(IF st.local_init = <<>> THEN EmitConst(named, Nil)
                                   ELSE c.expr[st.local_init[1]][named],
           st.local_name)

CompileAssign(c, bf, st) ==
  LET rhs == c.expr[st.rhs][FailIf(bf, st.lhs = NoName)] IN
  IF IsLocal(rhs, st.lhs) THEN Emit(rhs, "STORE_LOCAL", Slot(rhs, st.lhs))
                          ELSE FailIf(rhs, TRUE)

\* Mutant: the result of the call is left on the stack.
CompileExprStmt_NoPop(c, bf, st) == c.expr[st.expr][FailIf(bf, st.expr.kind # "Call")]

CompileExprStmt(c, bf, st) ==
  Emit(c.expr[st.expr][FailIf(bf, st.expr.kind # "Call")], "POP", 1)

\* A condition, its body if it holds, and a jump behind the body.
CompileArm(c, bf, cond, body) ==
  LET test == Emit(c.expr[cond][bf], "JMP_IF_FALSE", 0) IN
  Land(Emit(CompileBlock(c, test, body), "JMP", 0), Here(test))

\* The jump at the end of an elseif part goes to the next part.
CompileElseif(c, bf, part) ==
  LET arm == CompileArm(c, bf, part.cond, part.body) IN Land(arm, Here(arm))

\* The jump at the end of the first body goes behind the whole statement.
CompileIf(c, bf, st) ==
  LET first == CompileArm(c, bf, st.cond, st.then_body)
      elseif == [p \in ToSet(st.elseif_parts) |-> [x \in Func |-> CompileElseif(c, x, p)]]
      parts == InOrder(elseif, first, st.elseif_parts)
  IN  Land(CompileBlock(c, parts, st.else_body), Here(first))

\* Mutant: the exit jump is patched before the jump back is emitted.
CompileWhile_EarlyPatch(c, bf, st) ==
  LET test == Emit(c.expr[st.cond][bf], "JMP_IF_FALSE", 0)
      body == CompileBlock(c, test, st.then_body)
  IN  Emit(Land(body, Here(test)), "JMP", Here(bf))

CompileWhile(c, bf, st) ==
  LET test == Emit(c.expr[st.cond][bf], "JMP_IF_FALSE", 0)
      body == CompileBlock(c, test, st.then_body)
  IN  Land(Emit(body, "JMP", Here(bf)), Here(test))

\* The sequence and the index are locals of the function, the same ones for
\* every foreach in it.
CompileForeach(c, bf, st) ==
  LET seq == StoreNew(c.expr[st.iter_expr][bf], "__foreach_seq")
      start == StoreNew(EmitConst(AddLocal(seq, "__foreach_idx"), Number(0)), "__foreach_idx")
      len == EmitCall(PushName(start, "__foreach_seq"), 1, -1, "strlen")
      less == EmitCall(PushName(len, "__foreach_idx"), 2, -1, "lt")
      test == Emit(less, "JMP_IF_FALSE", 0)
      both == PushName(PushName(test, "__foreach_seq"), "__foreach_idx")
      item == StoreNew(EmitCall(both, 2, -1, "str_char_at"), st.iter_name)
      body == CompileBlock(c, item, st.foreach_body)
      sum == EmitCall(EmitConst(PushName(body, "__foreach_idx"), Number(1)), 2, -1, "add")
      loop == Emit(StoreNew(sum, "__foreach_idx"), "JMP", Here(start))
  IN  Land(loop, Here(test))

CompileReturn(c, bf, st) == Emit(c.expr[st.expr][bf], "RET", 0)

CompileStmt(c, bf, st) ==
  CASE st.kind = "Local"   -> CompileLocal(c, bf, st)
    [] st.kind = "Assign"  -> CompileAssign(c, bf, st)
    [] st.kind = "Expr"    -> CompileExprStmt(c, bf, st)
    [] st.kind = "If"      -> CompileIf(c, bf, st)
    [] st.kind = "While"   -> CompileWhile(c, bf, st)
    [] st.kind = "Foreach" -> CompileForeach(c, bf, st)
    [] st.kind = "Return"  -> CompileReturn(c, bf, st)

\* The compilers of the trees of at most d levels.
Compile[d \in 0..MaxNesting] ==
  [expr |-> [e \in TreesUpTo[d].expr |-> [bf \in Func |-> CompileExpr(Compile[d - 1], bf, e)]],
   stmt |-> [s \in TreesUpTo[d].stmt |-> [bf \in Func |-> CompileStmt(Compile[d - 1], bf, s)]]]

-----------------------------------------------------------------------------
(* Units                                                                    *)

CompileHandler(h) == Emit(CompileBlock(Compile[MaxNesting], NewFunc, h.body), "RET", 0)

\* A unit is a sequence of handlers; compile_unit throws if one of them does.
Compiles(unit) == \A i \in DOMAIN unit : CompileHandler(unit[i]).ok

compile_unit(unit) ==
  [i \in DOMAIN unit |->
    LET bf == CompileHandler(unit[i]) IN
    [code |-> bf.code, consts |-> bf.consts, locals |-> Len(bf.locals)]]

\* Of several handlers of one name the last is the one that is found.
handler_index(unit, name) ==
  LET found == {i \in DOMAIN unit : unit[i].name = name} IN
  (CHOOSE i \in found : \A j \in found : j <= i) - 1
=============================================================================
