---------------------------- MODULE VMProperties ----------------------------
(***************************************************************************)
(* What the VM owes to its callers whatever the code it runs, compiled or  *)
(* not: handlers are executed one after the other, in any order, as the    *)
(* run controller does.                                                    *)
(***************************************************************************)
EXTENDS WellMade

Init == VMInit /\ funcs \in ByteModules

Killed == outcome.status = "overflow" /\ UNCHANGED vmVars

Next == Step \/ (\E f \in 0..Len(funcs) : Execute(f)) \/ Killed

Spec == Init /\ [][Next]_vmVars

\* Every frame runs a function of the module and has the locals it declares.
TypeOK ==
  /\ WellFormed(funcs)
  /\ eval_stack \in Seq(Value) /\ Len(eval_stack) <= MaxStack
  /\ frames \in Seq(Frame) /\ Len(frames) <= MaxDepth
  /\ \A i \in DOMAIN frames :
       frames[i].func < Len(funcs) /\
       Len(frames[i].locals) = funcs[frames[i].func + 1].locals
  /\ outcome \in Outcome
  /\ output \in Seq(STRING)
  /\ before \in Seq(Value)

\* The frames lie on the stack in the order they were called in: no frame has
\* taken an operand that a frame below it, or the caller of the VM, has pushed.
FramesNest ==
  \A i \in DOMAIN frames :
    frames[i].base_sp <=
      (IF i < Len(frames) THEN frames[i + 1].base_sp ELSE Len(eval_stack))

\* Each frame's share of the stack, and what lies below all of them.
SharesOfStack ==
  [i \in DOMAIN frames |->
    SubSeq(eval_stack, frames[i].base_sp + 1,
           IF i < Len(frames) THEN frames[i + 1].base_sp ELSE Len(eval_stack))]

BelowFrames == IF Running THEN CutTo(frames[1].base_sp) ELSE eval_stack

Private == INSTANCE PrivateStacks WITH stacks <- SharesOfStack, left <- BelowFrames

\* The one stack is as good as a stack for each frame: no instruction, call,
\* return or exception touches the operands of the frames below, or those that
\* earlier handlers have left by throwing (run_frame, call_bytecode_function).
ImplementsPrivateStacks == Private!PrivateStacksSpec

\* What was on the stack when a handler was begun, which earlier handlers have
\* left there by throwing, is still there whenever it ends; and if it returns,
\* whatever it has pushed is gone.
StackRestored ==
  /\ IsPrefix(before, eval_stack)
  /\ outcome.status = "returned" => eval_stack = before

\* For code that passes the static check, no instruction that is executed meets
\* a guard of run_frame: whatever calls and loops have been taken to it.
WellMadeCodeRuns == AllWellMade => NothingIgnored
=============================================================================
