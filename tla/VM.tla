--------------------------------- MODULE VM ---------------------------------
(***************************************************************************)
(* The stack machine of src/runtime/vm.cpp.  One evaluation stack is       *)
(* shared by all the frames of a call and by all the calls ever made: each *)
(* frame remembers the height it found, base_sp, and must keep to what is  *)
(* above it.  When a host function throws, the frames are unwound but the  *)
(* stack is left as it is.                                                 *)
(*                                                                         *)
(* A step executes one instruction, with the return into the caller and    *)
(* the push of the result that follows it.  arg_scratch is filled and      *)
(* copied within one instruction and is not a variable here.  Functions,   *)
(* constants, locals and instructions are numbered from 0 as in the code.  *)
(***************************************************************************)
EXTENDS Bytecode, SequencesExt

CONSTANTS
  ByteModules,  \* the functions of the modules that may be loaded
  MaxStack,     \* operands memory has room for
  MaxDepth      \* frames the native stack has room for

\* A call's number of arguments is never negative.
WellFormed(fs) ==
  /\ fs \in Seq(ByteFunc)
  /\ \A f \in DOMAIN fs : \A i \in DOMAIN fs[f].code :
       fs[f].code[i].op = "CALL" => fs[f].code[i].a >= 0

ASSUME VMAssumption ==
  /\ \A fs \in ByteModules : WellFormed(fs)
  /\ MaxStack \in Nat /\ MaxDepth \in Nat \ {0}

VARIABLES
  funcs,        \* the functions of the module that is loaded
  eval_stack,
  frames,       \* the run_frame calls in progress, outermost first
  outcome,      \* how the last execute_handler ended
  (* history *)
  output,       \* what the handler has printed since it was begun
  before        \* eval_stack when it was begun

vmVars == <<funcs, eval_stack, frames, outcome, output, before>>

Frame == [func: Nat, ip: Nat, locals: Seq(Value), base_sp: Nat]

Outcome == [status: {"none", "returned", "threw", "overflow"}, value: Value]
Ended(status, v) == [status |-> status, value |-> v]

VMInit ==
  /\ eval_stack = <<>> /\ frames = <<>>
  /\ outcome = Ended("none", Nil)
  /\ output = <<>> /\ before = <<>>

Running == frames # <<>>
Top == Last(frames)
Code == funcs[Top.func + 1].code
CurOp == Code[Top.ip + 1]
At(op) == Running /\ Top.ip < Len(Code) /\ CurOp.op = op

\* The operands the running frame may take.
Depth == Len(eval_stack) - Top.base_sp
CutTo(sp) == SubSeq(eval_stack, 1, sp)

Valid(i, n) == i \in 0..n - 1

-----------------------------------------------------------------------------
(* Parts of instructions                                                    *)

\* The frames are unwound; what is on the stack stays there.
Throw(stack) == frames' = <<>> /\ eval_stack' = stack /\ outcome' = Ended("threw", Nil)

\* push_back of the result of fs's last frame's instruction, which may fail.
PushTo(fs, stack, v) ==
  IF Len(stack) < MaxStack
  THEN /\ frames' = [fs EXCEPT ![Len(fs)].ip = @ + 1]
       /\ eval_stack' = Append(stack, v)
       /\ UNCHANGED outcome
  ELSE Throw(stack)

Push(v) == PushTo(frames, eval_stack, v)

Continue(ip, stack) ==
  /\ frames' = [frames EXCEPT ![Len(frames)].ip = ip]
  /\ eval_stack' = stack /\ UNCHANGED outcome

Skip == Continue(Top.ip + 1, eval_stack)

\* Mutant: the loop over the arguments is not bounded by the number of locals.
NewFrame_Unbounded(f, args, sp) ==
  [func |-> f, ip |-> 0, base_sp |-> sp,
   locals |-> args \o [i \in 1..funcs[f + 1].locals - Len(args) |-> Nil]]

NewFrame(f, args, sp) ==
  [func |-> f, ip |-> 0, base_sp |-> sp,
   locals |-> [i \in 1..funcs[f + 1].locals |-> IF i <= Len(args) THEN args[i] ELSE Nil]]

\* A jump out of the code, negative targets included, ends the loop over it.
Target(a) == IF a < 0 THEN Len(Code) ELSE a

\* Mutant: run_frame returns without its resize.
Return_Leave(v) ==
  IF Len(frames) = 1
  THEN frames' = <<>> /\ UNCHANGED eval_stack /\ outcome' = Ended("returned", v)
  ELSE PushTo(Front(frames), eval_stack, v)

\* The frame returns v: to the caller's stack, or out of execute_handler.
Return(v) ==
  LET stack == CutTo(Top.base_sp) IN
  IF Len(frames) = 1
  THEN frames' = <<>> /\ eval_stack' = stack /\ outcome' = Ended("returned", v)
  ELSE PushTo(Front(frames), stack, v)

\* call_bytecode_function, the arguments having been taken off the stack.
CallFunction(f, args, stack) ==
  IF ~Valid(f, Len(funcs)) THEN PushTo(frames, stack, Nil)
  ELSE IF Len(frames) = MaxDepth
  THEN frames' = <<>> /\ eval_stack' = stack /\ outcome' = Ended("overflow", Nil)
  ELSE /\ frames' = Append(frames, NewFrame(f, args, Len(stack)))
       /\ eval_stack' = stack /\ UNCHANGED outcome

-----------------------------------------------------------------------------
(* Instructions                                                             *)

PushConst ==
  /\ At("PUSH_CONST")
  /\ LET consts == funcs[Top.func + 1].consts IN
     Push(IF Valid(CurOp.a, Len(consts)) THEN consts[CurOp.a + 1] ELSE Nil)
  /\ UNCHANGED <<funcs, output, before>>

PushLocal ==
  /\ At("PUSH_LOCAL")
  /\ Push(IF Valid(CurOp.a, Len(Top.locals)) THEN Top.locals[CurOp.a + 1] ELSE Nil)
  /\ UNCHANGED <<funcs, output, before>>

StoreLocal ==
  /\ At("STORE_LOCAL") /\ Depth > 0
  /\ LET locals == IF Valid(CurOp.a, Len(Top.locals))
                   THEN [Top.locals EXCEPT ![CurOp.a + 1] = Last(eval_stack)]
                   ELSE Top.locals
     IN  frames' = [frames EXCEPT ![Len(frames)] =
                      [Top EXCEPT !.ip = Top.ip + 1, !.locals = locals]]
  /\ eval_stack' = Front(eval_stack)
  /\ UNCHANGED <<funcs, outcome, output, before>>

\* Mutant: the new height is not kept above base_sp.
Pop_Unchecked ==
  /\ At("POP")
  /\ LET n == IF CurOp.a < 0 THEN 0 ELSE CurOp.a
         sp == Len(eval_stack)
     IN  Continue(Top.ip + 1, CutTo(IF sp > n THEN sp - n ELSE 0))
  /\ UNCHANGED <<funcs, output, before>>

Pop ==
  /\ At("POP")
  /\ LET n == IF CurOp.a < 0 THEN 0 ELSE CurOp.a IN
     Continue(Top.ip + 1, CutTo(IF Depth > n THEN Len(eval_stack) - n ELSE Top.base_sp))
  /\ UNCHANGED <<funcs, output, before>>

\* OP_CALL finds fewer operands than it needs, or has an unknown kind: it does
\* nothing, and pushes no result either.
CallIgnored ==
  /\ At("CALL")
  /\ Depth < CurOp.a + (IF CurOp.b = -2 THEN 1 ELSE 0) \/ CurOp.b < -2
  /\ Skip
  /\ UNCHANGED <<funcs, output, before>>

\* The callee is on top of its arguments, and is the number of a function.
CallDynamic ==
  /\ At("CALL") /\ CurOp.b = -2 /\ Depth > CurOp.a
  /\ LET sp == Len(eval_stack) - 1
         callee == Last(eval_stack)
         rest == CutTo(sp - CurOp.a)
     IN  IF callee.tag = "Number"
         THEN CallFunction(callee.num, SubSeq(eval_stack, sp - CurOp.a + 1, sp), rest)
         ELSE PushTo(frames, rest, Nil)
  /\ UNCHANGED <<funcs, output, before>>

\* The arguments of a call whose callee is not on the stack.
Args == SubSeq(eval_stack, Len(eval_stack) - CurOp.a + 1, Len(eval_stack))

CallStatic ==
  /\ At("CALL") /\ CurOp.b >= 0 /\ Depth >= CurOp.a
  /\ CallFunction(CurOp.b, Args, CutTo(Len(eval_stack) - CurOp.a))
  /\ UNCHANGED <<funcs, output, before>>

CallHost ==
  /\ At("CALL") /\ CurOp.b = -1 /\ Depth >= CurOp.a
  /\ LET rest == CutTo(Len(eval_stack) - CurOp.a) IN
     IF Throws(CurOp.s, Args)
     THEN Throw(rest) /\ UNCHANGED output
     ELSE /\ PushTo(frames, rest, call_function(CurOp.s, Args))
          /\ output' = output \o Printed(CurOp.s, Args)
  /\ UNCHANGED <<funcs, before>>

Jmp ==
  /\ At("JMP")
  /\ Continue(Target(CurOp.a), eval_stack)
  /\ UNCHANGED <<funcs, output, before>>

JmpIfFalse ==
  /\ At("JMP_IF_FALSE") /\ Depth > 0
  /\ Continue(IF is_truthy(Last(eval_stack)) THEN Top.ip + 1 ELSE Target(CurOp.a),
              Front(eval_stack))
  /\ UNCHANGED <<funcs, output, before>>

\* STORE_LOCAL and JMP_IF_FALSE on an empty stack, and unknown instructions.
Ignored ==
  /\ At("ADD") \/ ((At("STORE_LOCAL") \/ At("JMP_IF_FALSE")) /\ Depth = 0)
  /\ Skip
  /\ UNCHANGED <<funcs, output, before>>

\* Mutant: the whole stack is cleared, not cut back to base_sp.
Ret_Clear ==
  /\ At("RET")
  /\ LET v == IF Depth > 0 THEN Last(eval_stack) ELSE Nil IN
     IF Len(frames) = 1
     THEN frames' = <<>> /\ eval_stack' = <<>> /\ outcome' = Ended("returned", v)
     ELSE PushTo(Front(frames), <<>>, v)
  /\ UNCHANGED <<funcs, output, before>>

Ret ==
  /\ At("RET")
  /\ Return(IF Depth > 0 THEN Last(eval_stack) ELSE Nil)
  /\ UNCHANGED <<funcs, output, before>>

EndOfCode ==
  /\ Running /\ Top.ip >= Len(Code)
  /\ Return(Nil)
  /\ UNCHANGED <<funcs, output, before>>

-----------------------------------------------------------------------------
(* Calls from outside                                                       *)

\* execute_handler_idx; a number without a function returns nil at once.
\* After the native stack has overflowed there is no process.
Execute(f) ==
  /\ ~Running /\ outcome.status # "overflow"
  /\ IF Valid(f, Len(funcs))
     THEN frames' = <<NewFrame(f, <<>>, Len(eval_stack))>> /\ outcome' = Ended("none", Nil)
     ELSE UNCHANGED frames /\ outcome' = Ended("returned", Nil)
  /\ output' = <<>> /\ before' = eval_stack
  /\ UNCHANGED <<funcs, eval_stack>>

Step ==
  \/ PushConst \/ PushLocal \/ StoreLocal \/ Pop
  \/ CallIgnored \/ CallDynamic \/ CallStatic \/ CallHost
  \/ Jmp \/ JmpIfFalse \/ Ignored \/ Ret \/ EndOfCode
=============================================================================
