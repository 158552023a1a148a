----------------------------- MODULE Semantics -----------------------------
(***************************************************************************)
(* What a script means, told by its syntax tree alone: the reference that  *)
(* compiled code is compared with.  There is no stack, no slot and no jump *)
(* here.                                                                   *)
(*                                                                         *)
(* The state of a handler that runs is a record: the values of its         *)
(* variables, what it has printed, whether it still runs, and the value of *)
(* the last expression.  Variables belong to the handler, not to a block,  *)
(* and are nil before they are assigned.                                   *)
(***************************************************************************)
EXTENDS Values, SequencesExt

Fresh(arg) == [vars |-> [x \in {"_tmp"} |-> arg], output |-> <<>>, status |-> "running",
               value |-> Nil]

Get(s, name) == IF name \in DOMAIN s.vars THEN s.vars[name] ELSE Nil

Set(s, name, v) ==
  [s EXCEPT !.vars = [x \in DOMAIN @ \cup {name} |-> IF x = name THEN v ELSE @[x]]]

Yield(s, v) == IF s.status = "running" THEN [s EXCEPT !.value = v] ELSE s

CallFromHost(s, name, args) ==
  IF s.status # "running" THEN s
  ELSE IF Throws(name, args) THEN [s EXCEPT !.status = "threw"]
  ELSE [s EXCEPT !.value = call_function(name, args), !.output = @ \o Printed(name, args)]

FallOff(s) ==
  IF s.status = "running" THEN [s EXCEPT !.status = "returned", !.value = Nil] ELSE s

RECURSIVE Eval(_, _, _), Exec(_, _, _)

\* A handler of the unit called with one argument: it ends as it returns, by
\* the end of its body, or as it throws.
Call(unit, f, arg) == FallOff(Exec(unit, Fresh(arg), unit[f + 1].body))

\* The caller goes on with what the handler it called has left, unless that threw.
Resume(s, end) ==
  [s EXCEPT !.output = @ \o end.output, !.value = end.value,
            !.status = IF end.status = "threw" THEN "threw" ELSE @]

\* A call of a variable is a call of the handler whose number it holds.
CallVariable(unit, s, v, args) ==
  IF s.status # "running" THEN s
  ELSE IF v.tag # "Number" \/ v.num \notin 0..Len(unit) - 1 THEN Yield(s, Nil)
  ELSE Resume(s, Call(unit, v.num, IF args = <<>> THEN Nil ELSE args[1]))

CallName(unit, name, s, args) ==
  IF name \in HostNames THEN CallFromHost(s, name, args)
                        ELSE CallVariable(unit, s, Get(s, name), args)

\* The arguments are evaluated from left to right, and then the callee.
EvalCall(unit, s, e) ==
  LET AddArg(args, t) == [s |-> t, args |-> Append(args, t.value)]
      Arg(acc, a) == AddArg(acc.args, Eval(unit, acc.s, a))
      Apply(acc) == CallName(unit, e.call_name, acc.s, acc.args)
  IN  Apply(FoldLeft(Arg, [s |-> s, args |-> <<>>], e.args))

Eval(unit, s, e) ==
  CASE e.kind = "Const" -> Yield(s, e.value)
    [] e.kind = "Ident" -> Yield(s, Get(s, e.ident))
    [] e.kind = "Call"  -> EvalCall(unit, s, e)

-----------------------------------------------------------------------------
Assign(s, name) == IF s.status = "running" THEN Set(s, name, s.value) ELSE s

\* The first of the arms whose condition holds, or else the last body.
RECURSIVE ExecArms(_, _, _, _)
ExecArms(unit, s, arms, else_body) ==
  IF arms = <<>> THEN Exec(unit, s, else_body)
  ELSE LET test == Eval(unit, s, arms[1].cond) IN
       IF test.status # "running" THEN test
       ELSE IF is_truthy(test.value) THEN Exec(unit, test, arms[1].body)
       ELSE ExecArms(unit, test, Tail(arms), else_body)

RECURSIVE ExecWhile(_, _, _)
ExecWhile(unit, s, st) ==
  LET test == Eval(unit, s, st.cond) IN
  IF test.status = "running" /\ is_truthy(test.value)
  THEN ExecWhile(unit, Exec(unit, test, st.then_body), st)
  ELSE test

\* The body is executed for each character of a string, and for nothing else.
ExecForeach(unit, s, st) ==
  LET seq == Eval(unit, s, st.iter_expr)
      Item(t, c) == IF t.status # "running" THEN t
                    ELSE Exec(unit, Set(t, st.iter_name, String(<<c>>)), st.foreach_body)
  IN  IF seq.status = "running" /\ seq.value.tag = "String"
      THEN FoldLeft(Item, seq, seq.value.s) ELSE seq

ExecStmt(unit, s, st) ==
  IF s.status # "running" THEN s ELSE
  CASE st.kind = "Local"   -> Assign(IF st.local_init = <<>> THEN Yield(s, Nil)
                                     ELSE Eval(unit, s, st.local_init[1]), st.local_name)
    [] st.kind = "Assign"  -> Assign(Eval(unit, s, st.rhs), st.lhs)
    [] st.kind = "Expr"    -> Eval(unit, s, st.expr)
    [] st.kind = "If"      -> ExecArms(unit, s, <<[cond |-> st.cond, body |-> st.then_body]>>
                                                  \o st.elseif_parts, st.else_body)
    [] st.kind = "While"   -> ExecWhile(unit, s, st)
    [] st.kind = "Foreach" -> ExecForeach(unit, s, st)
    [] st.kind = "Return"  -> LET t == Eval(unit, s, st.expr) IN
                              IF t.status = "running" THEN [t EXCEPT !.status = "returned"]
                                                      ELSE t

Exec(unit, s, body) ==
  LET One(t, st) == ExecStmt(unit, t, st) IN FoldLeft(One, s, body)
=============================================================================
