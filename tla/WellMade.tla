------------------------------ MODULE WellMade ------------------------------
(***************************************************************************)
(* Bytecode the VM executes without meeting one of its guards: where it    *)
(* would go on without a value, drop one or leave the code.  src/ has no   *)
(* such check; compile_unit is to make nothing else.                       *)
(***************************************************************************)
EXTENDS VM

\* What an instruction takes from the stack, and what it leaves there.
Takes(i) ==
  CASE i.op \in {"STORE_LOCAL", "JMP_IF_FALSE"} -> 1
    [] i.op = "POP"  -> i.a
    [] i.op = "CALL" -> i.a + (IF i.b = -2 THEN 1 ELSE 0)
    [] OTHER -> 0

Gives(i) == IF i.op \in {"PUSH_CONST", "PUSH_LOCAL", "CALL"} THEN 1 ELSE 0

\* The operands of the frame before each instruction, going by the text: what
\* follows a RET begins a statement.
Heights(code) ==
  LET height[i \in 0..Len(code)] ==
        IF i = 0 \/ code[i].op = "RET" THEN 0
        ELSE height[i - 1] - Takes(code[i]) + Gives(code[i])
  IN  height

\* The operands are there, whichever way an instruction is reached, and what it
\* names exists.  The module has n functions.
WellMade(fn, n) ==
  LET height == Heights(fn.code) IN
  /\ fn.code # <<>> /\ Last(fn.code).op = "RET"
  /\ \A k \in DOMAIN fn.code :
       LET i == fn.code[k] IN
       /\ i.op # "ADD" /\ Takes(i) \in 0..height[k - 1]
       /\ i.op = "PUSH_CONST" => Valid(i.a, Len(fn.consts))
       /\ i.op \in {"PUSH_LOCAL", "STORE_LOCAL"} => Valid(i.a, fn.locals)
       /\ i.op = "CALL" => i.b \in {-2, -1} \/ Valid(i.b, n)
       /\ i.op \in {"JMP", "JMP_IF_FALSE"} =>
            Valid(i.a, Len(fn.code)) /\ height[i.a] = height[k]

AllWellMade == \A f \in DOMAIN funcs : WellMade(funcs[f], Len(funcs))

\* The frame that runs is at an instruction that does what it says, and has no
\* more operands than instructions.
NothingIgnored ==
  Running =>
    /\ Top.ip < Len(Code) /\ CurOp.op # "ADD"
    /\ Depth \in Takes(CurOp)..Len(Code)
    /\ CurOp.op \in {"PUSH_LOCAL", "STORE_LOCAL"} => Valid(CurOp.a, Len(Top.locals))
=============================================================================
