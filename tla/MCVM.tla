-------------------------------- MODULE MCVM --------------------------------
(***************************************************************************)
(* All the short functions over a few instructions, for TLC.  Function 0   *)
(* is any of them and function 1 one of a few that it can call.            *)
(***************************************************************************)
EXTENDS VMProperties

I(op, a, b) == [op |-> op, a |-> a, b |-> b, s |-> ""]
Host(name, a) == [op |-> "CALL", a |-> a, b |-> -1, s |-> name]

\* Operands out of range, calls of each kind, jumps that leave the code.
Instructions ==
  {I("PUSH_CONST", 0, 0), I("PUSH_CONST", 7, 0), I("PUSH_LOCAL", 0, 0),
   I("STORE_LOCAL", 0, 0), I("STORE_LOCAL", 7, 0), I("POP", 3, 0), I("CALL", 1, -2),
   I("CALL", 1, 1), Host("lt", 2), I("RET", 0, 0), I("JMP", -1, 0),
   I("JMP_IF_FALSE", 0, 0)}

Function(code) ==
  [code |-> code, consts |-> <<Number(1), String(<<".">>)>>, locals |-> 1]

\* The first has no local for the argument it is called with.
Callees ==
  {[Function(<<I("PUSH_CONST", 0, 0), I("CALL", 0, 9), I("CALL", 0, -3)>>)
      EXCEPT !.locals = 0],
   Function(<<I("PUSH_LOCAL", 0, 0), I("PUSH_CONST", 0, 0), I("CALL", 1, -2),
              I("ADD", 0, 0), I("RET", 0, 0)>>),
   Function(<<I("PUSH_LOCAL", 0, 0), I("JMP_IF_FALSE", 6, 0), I("PUSH_CONST", 0, 0),
              I("CALL", 0, 1), Host("lt", 2), I("RET", 0, 0), I("RET", 0, 0)>>),
   Function(<<I("PUSH_CONST", 0, 0), I("PUSH_CONST", 1, 0), Host("read_file", 1)>>)}

MCByteModules ==
  {<<Function(code), g>> :
     code \in UNION {[1..n -> Instructions] : n \in 1..3}, g \in Callees}
=============================================================================
