------------------------------ MODULE Bytecode ------------------------------
(***************************************************************************)
(* The instructions of src/runtime/bytecode.h, which compile_unit makes    *)
(* and the VM executes.                                                    *)
(***************************************************************************)
EXTENDS Values

\* ADD stands for the opcodes run_frame has no case for.
OpCodes == {"PUSH_CONST", "PUSH_LOCAL", "STORE_LOCAL", "POP", "CALL", "RET", "JMP",
            "JMP_IF_FALSE", "ADD"}

Op == [op: OpCodes, a: Int, b: Int, s: STRING]

ByteFunc == [code: Seq(Op), consts: Seq(Value), locals: Nat]
=============================================================================
