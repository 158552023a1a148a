------------------------------ MODULE VMGuards ------------------------------
(***************************************************************************)
(* Code that passes the static check WellMade is executed without meeting a*)
(* guard of run_frame, for any module, however its functions call each other.*)
(*                                                                         *)
(* The invariant compares each frame with the text of its function: the one*)
(* that runs has the operands the text says, those below it have what is left*)
(* when the call they wait for has taken its operands.                     *)
(***************************************************************************)
EXTENDS VMTypes

-----------------------------------------------------------------------------
(* Heights by the text                                                      *)

\* What an instruction leaves of h operands.
NextHeight(i, h) == IF i.op = "RET" THEN 0 ELSE h - Takes(i) + Gives(i)

LEMMA OpInts ==
  ASSUME NEW i \in Op
  PROVE  /\ Takes(i) \in Int /\ Gives(i) \in {0, 1}
         /\ \A h \in Int : NextHeight(i, h) \in Int
<1>1. i.a \in Int /\ i.b \in Int
  BY DEF Op
<1>2. Takes(i) \in Int
  BY <1>1 DEF Takes
<1>3. Gives(i) \in {0, 1}
  BY DEF Gives
<1> QED
  BY <1>2, <1>3 DEF NextHeight

\* The heights are what their definition says: there is such a function.
LEMMA HeightsFacts ==
  ASSUME NEW code \in Seq(Op)
  PROVE  /\ Heights(code)[0] = 0
         /\ \A i \in 1..Len(code) : Heights(code)[i] = NextHeight(code[i], Heights(code)[i - 1])
         /\ \A i \in 0..Len(code) : Heights(code)[i] \in Int
<1> PICK n : n \in Nat /\ n = Len(code) /\ \A i \in 1..n : code[i] \in Op
  OBVIOUS
<1> DEFINE body(f, i) == IF i = 0 \/ code[i].op = "RET" THEN 0
                         ELSE f[i - 1] - Takes(code[i]) + Gives(code[i])
           G == [i \in 1..n |-> [h \in Int |-> NextHeight(code[i], h)]]
<1>1. \A i \in 1..n : \A h \in Int : NextHeight(code[i], h) \in Int
  BY OpInts
<1>2. G \in [1..n -> [Int -> Int]]
  BY <1>1
<1>3. \A i \in 1..n : \A h \in Int : G[i][h] = NextHeight(code[i], h)
  OBVIOUS
<1> HIDE DEF G
<1>4. PICK f \in [0..n -> Int] : f[0] = 0 /\ \A i \in 1..n : f[i] = G[i][f[i - 1]]
  <2>1. 0 \in Int
    OBVIOUS
  <2>2. \E f : Walks(f, Int, 0, n, G)
    BY <1>2, <2>1, StepByStep
  <2> QED
    BY <2>2 DEF Walks
<1>5. \A i \in 0..n : f[i] = body(f, i)
  <2> TAKE i \in 0..n
  <2>1. CASE i = 0
    BY <1>4, <2>1
  <2>2. CASE i # 0
    <3>1. i \in 1..n /\ f[i - 1] \in Int
      BY <2>2
    <3>2. f[i] = NextHeight(code[i], f[i - 1])
      BY <1>3, <1>4, <3>1
    <3> QED
      BY <2>2, <3>2 DEF NextHeight
  <2> QED
    BY <2>1, <2>2
<1>6. f = [i \in 0..n |-> body(f, i)]
  BY <1>5
<1>7. PICK u : u = CHOOSE g : g = [i \in 0..n |-> body(g, i)]
  OBVIOUS
<1>8. u = [i \in 0..n |-> body(u, i)]
  BY <1>6, <1>7
<1>9. Heights(code) = u
  BY <1>7 DEF Heights
<1>10. u[0] = 0
  <2>1. 0 \in 0..n
    OBVIOUS
  <2> QED
    BY <1>8, <2>1
<1>11. \A i \in 1..n : u[i] = NextHeight(code[i], u[i - 1])
  <2> TAKE i \in 1..n
  <2>1. i \in 0..n /\ i # 0
    OBVIOUS
  <2>2. u[i] = body(u, i)
    BY <1>8, <2>1
  <2> QED
    BY <2>1, <2>2 DEF NextHeight
<1>12. \A i \in 0..n : u[i] \in Int
  <2> DEFINE T == {i \in Nat : i <= n => u[i] \in Int}
  <2>1. 0 \in T
    BY <1>10
  <2>2. ASSUME NEW i \in Nat, i \in T PROVE i + 1 \in T
    <3> SUFFICES ASSUME i + 1 <= n PROVE u[i + 1] \in Int
      OBVIOUS
    <3>1. u[i] \in Int /\ i + 1 \in 1..n
      BY <2>2
    <3>2. u[i + 1] = NextHeight(code[i + 1], u[i])
      BY <1>11, <3>1
    <3> QED
      BY <1>1, <3>1, <3>2
  <2> HIDE DEF T
  <2>3. \A i \in Nat : i \in T
    BY <2>1, <2>2, FromZero
  <2> QED
    BY <2>3 DEF T
<1> QED
  BY <1>9, <1>10, <1>11, <1>12

\* The text a frame runs, the instruction it is at, and the height there.
CodeOf(fr) == funcs[fr.func + 1].code
OpOf(fr) == CodeOf(fr)[fr.ip + 1]
FrameHeight(fr) == Heights(CodeOf(fr))[fr.ip]

\* What WellMade says of the instruction a frame is at.
LEMMA WellMadeFacts ==
  ASSUME NEW fn \in ByteFunc, NEW n \in Nat, WellMade(fn, n), NEW k \in Nat, k < Len(fn.code),
         NEW i, i = fn.code[k + 1], NEW h, h = Heights(fn.code)
  PROVE  /\ fn.code \in Seq(Op) /\ Len(fn.code) \in Nat /\ i \in Op
         /\ h[0] = 0 /\ 0 < Len(fn.code)
         /\ h[k] \in Takes(i)..k /\ Takes(i) \in Nat
         /\ i.op # "ADD"
         /\ i.op = "PUSH_CONST" => Valid(i.a, Len(fn.consts))
         /\ i.op \in {"PUSH_LOCAL", "STORE_LOCAL"} => Valid(i.a, fn.locals)
         /\ i.op = "CALL" => i.b \in {-2, -1} \/ Valid(i.b, n)
         /\ i.op # "RET" => k + 1 < Len(fn.code) /\ h[k + 1] = h[k] - Takes(i) + Gives(i)
         /\ i.op \in {"JMP", "JMP_IF_FALSE"} =>
              Valid(i.a, Len(fn.code)) /\ h[i.a] = h[k] - Takes(i)
<1> PICK code : code = fn.code
  OBVIOUS
<1>1. code \in Seq(Op) /\ Len(code) \in Nat /\ DOMAIN code = 1..Len(code)
  BY LenProperties DEF ByteFunc
<1>2. k + 1 \in 1..Len(code) /\ (k + 1) - 1 = k /\ k \in 0..Len(code)
  BY <1>1
<1>3. i \in Op /\ \A j \in 1..Len(code) : code[j] \in Op
  BY <1>1, <1>2, ElementOfSeq
<1>4. /\ h[0] = 0
      /\ \A j \in 1..Len(code) : h[j] = NextHeight(code[j], h[j - 1])
      /\ \A j \in 0..Len(code) : h[j] \in Int
  BY <1>1, HeightsFacts
<1>5. /\ Last(code).op = "RET"
      /\ \A j \in 1..Len(code) : Takes(code[j]) \in 0..h[j - 1]
  BY <1>1 DEF WellMade
<1>6. /\ i.op # "ADD" /\ Takes(i) \in 0..h[k]
      /\ i.op = "PUSH_CONST" => Valid(i.a, Len(fn.consts))
      /\ i.op \in {"PUSH_LOCAL", "STORE_LOCAL"} => Valid(i.a, fn.locals)
      /\ i.op = "CALL" => i.b \in {-2, -1} \/ Valid(i.b, n)
      /\ i.op \in {"JMP", "JMP_IF_FALSE"} =>
           Valid(i.a, Len(fn.code)) /\ h[i.a] = h[k + 1]
  BY <1>1, <1>2 DEF WellMade
<1>7. h[k + 1] = NextHeight(i, h[k])
  BY <1>2, <1>4
<1>8. i.op # "RET" => k + 1 < Len(code)
  <2>1. CASE k + 1 = Len(code)
    BY <1>5, <2>1 DEF Last
  <2> QED
    BY <1>1, <1>2, <2>1
<1>9. h[k] <= k
  <2> DEFINE T == {j \in Nat : j <= Len(code) => h[j] <= j}
  <2>1. 0 \in T
    BY <1>4
  <2>2. ASSUME NEW j \in Nat, j \in T PROVE j + 1 \in T
    <3> SUFFICES ASSUME j + 1 <= Len(code) PROVE h[j + 1] <= j + 1
      OBVIOUS
    <3>1. j + 1 \in 1..Len(code) /\ (j + 1) - 1 = j /\ j \in 0..Len(code) /\ h[j] <= j
      BY <1>1, <2>2
    <3>2. h[j + 1] = NextHeight(code[j + 1], h[j]) /\ Takes(code[j + 1]) \in 0..h[j]
      BY <1>4, <1>5, <3>1
    <3>3. h[j] \in Int /\ Takes(code[j + 1]) \in Int /\ Gives(code[j + 1]) \in {0, 1}
      BY <1>3, <1>4, <3>1, OpInts
    <3> QED
      BY <3>1, <3>2, <3>3 DEF NextHeight
  <2> HIDE DEF T
  <2>3. \A j \in Nat : j \in T
    BY <2>1, <2>2, FromZero
  <2> QED
    BY <1>2, <2>3 DEF T
<1>10. h[k] \in Takes(i)..k /\ Takes(i) \in Nat
  BY <1>2, <1>4, <1>6, <1>9
<1>11. i.op \in {"JMP", "JMP_IF_FALSE"} => h[k + 1] = h[k] - Takes(i)
  <2>1. i.op \in {"JMP", "JMP_IF_FALSE"} => i.op # "RET" /\ Gives(i) = 0
    BY DEF Gives
  <2> QED
    BY <1>2, <1>4, <1>7, <1>10, <2>1 DEF NextHeight
<1> QED
  BY <1>1, <1>2, <1>3, <1>4, <1>6, <1>7, <1>8, <1>10, <1>11 DEF NextHeight

-----------------------------------------------------------------------------
(* The invariant                                                            *)

\* A frame with all the operands its next instruction finds by the text, when
\* its share of the stack ends at top; and one that waits for a call to return.
AtHeight(fr, top) ==
  fr.ip < Len(CodeOf(fr)) /\ top - fr.base_sp = FrameHeight(fr)

InCall(fr, top) ==
  /\ fr.ip < Len(CodeOf(fr)) /\ OpOf(fr).op = "CALL"
  /\ top - fr.base_sp = FrameHeight(fr) - Takes(OpOf(fr))

CallsPending(fs) == \A i \in 1..Len(fs) - 1 : InCall(fs[i], fs[i + 1].base_sp)

\* The stack is divided as the text of the functions says.
AsWritten(fs, stack) ==
  CallsPending(fs) /\ (Len(fs) > 0 => AtHeight(fs[Len(fs)], Len(stack)))

HeightInv == AllWellMade => AsWritten(frames, eval_stack)

WrittenInv == TypeInv /\ HeightInv

\* A frame runs a well-made function.
LEMMA FrameCode ==
  ASSUME TypeInv, AllWellMade, NEW fr, FrameTyped(fr)
  PROVE  /\ funcs[fr.func + 1] \in ByteFunc /\ Len(funcs) \in Nat
         /\ WellMade(funcs[fr.func + 1], Len(funcs))
         /\ CodeOf(fr) = funcs[fr.func + 1].code
         /\ fr.ip \in Nat /\ fr.base_sp \in Nat
<1>1. fr.func \in Nat /\ fr.ip \in Nat /\ fr.base_sp \in Nat /\ fr.func < Len(funcs)
  BY DEF FrameTyped, Frame
<1>2. Len(funcs) \in Nat /\ fr.func + 1 \in DOMAIN funcs
  BY <1>1, ModuleFacts, LenProperties DEF TypeInv
<1> QED
  BY <1>1, <1>2, ModuleFacts DEF TypeInv, AllWellMade, CodeOf

\* The last frame goes on, those below it wait as before.
LEMMA LastGoesOn ==
  ASSUME NEW fs, NEW n, n = Len(fs), n \in Nat \ {0}, CallsPending(fs),
         NEW gs, Len(gs) = n, \A i \in 1..n : i < n => gs[i] = fs[i],
         gs[n].base_sp = fs[n].base_sp, NEW s, AtHeight(gs[n], Len(s))
  PROVE  AsWritten(gs, s)
<1>1. ASSUME NEW i \in 1..n - 1 PROVE InCall(gs[i], gs[i + 1].base_sp)
  <2>1. i \in 1..n /\ i < n /\ i + 1 \in 1..n /\ (i + 1 < n \/ i + 1 = n)
    OBVIOUS
  <2>2. gs[i] = fs[i] /\ gs[i + 1].base_sp = fs[i + 1].base_sp
    BY <2>1
  <2>3. InCall(fs[i], fs[i + 1].base_sp)
    BY DEF CallsPending
  <2> QED
    BY <2>2, <2>3
<1> QED
  BY <1>1 DEF AsWritten, CallsPending

\* The last of some frames goes to an instruction with the operands it finds.
LEMMA FrameGoesOn ==
  ASSUME NEW fs, FramesTyped(fs), NEW n, n = Len(fs), n \in Nat \ {0}, CallsPending(fs),
         NEW ip \in Nat, ip < Len(CodeOf(fs[n])), NEW s,
         Len(s) - fs[n].base_sp = Heights(CodeOf(fs[n]))[ip],
         NEW gs, gs = [fs EXCEPT ![n] = [@ EXCEPT !.ip = ip]]
  PROVE  AsWritten(gs, s)
<1> PICK fr : fr = [fs[n] EXCEPT !.ip = ip]
  OBVIOUS
<1>1. fs \in Seq(Frame) /\ fs[n] \in Frame /\ n \in 1..Len(fs)
  BY DEF FramesTyped
<1>2. fr \in Frame /\ fr.func = fs[n].func /\ fr.base_sp = fs[n].base_sp /\ fr.ip = ip
  BY <1>1 DEF Frame
<1>3. gs = [fs EXCEPT ![n] = fr]
  OBVIOUS
<1>4. Len(gs) = n /\ \A i \in 1..n : gs[i] = IF i = n THEN fr ELSE fs[i]
  BY <1>1, <1>2, <1>3, ExceptSeq
<1>5. AtHeight(fr, Len(s))
  BY <1>2 DEF AtHeight, CodeOf, FrameHeight
<1>6. gs[n] = fr /\ \A i \in 1..n : i < n => gs[i] = fs[i]
  BY <1>4
<1>7. gs[n].base_sp = fs[n].base_sp /\ AtHeight(gs[n], Len(s))
  BY <1>2, <1>5, <1>6
<1>8. n = Len(fs) /\ n \in Nat \ {0} /\ CallsPending(fs) /\ Len(gs) = n
  BY <1>4
<1> QED
  BY ONLY <1>6, <1>7, <1>8, LastGoesOn

LEMMA NoFrames == \A s : AsWritten(<<>>, s)
BY DEF AsWritten, CallsPending

\* A result is pushed for the last of some frames.
LEMMA PushAsWritten ==
  ASSUME NEW fs, FramesTyped(fs), NEW n, n = Len(fs), n \in Nat \ {0}, CallsPending(fs),
         NEW s, StackTyped(s), NEW v \in Value, PushTo(fs, s, v),
         fs[n].ip + 1 < Len(CodeOf(fs[n])),
         Len(s) + 1 - fs[n].base_sp = Heights(CodeOf(fs[n]))[fs[n].ip + 1]
  PROVE  AsWritten(frames', eval_stack')
<1>1. CASE Len(s) < MaxStack
  <2>1. frames' = [fs EXCEPT ![n] = [@ EXCEPT !.ip = fs[n].ip + 1]]
        /\ eval_stack' = Append(s, v)
    BY <1>1 DEF PushTo
  <2>2. Len(eval_stack') = Len(s) + 1
    BY <2>1, AppendProperties DEF StackTyped
  <2>3. n \in 1..Len(fs) /\ fs[n] \in Frame
    BY DEF FramesTyped
  <2>4. fs[n].ip + 1 \in Nat
    BY <2>3 DEF Frame
  <2>5. Len(eval_stack') - fs[n].base_sp = Heights(CodeOf(fs[n]))[fs[n].ip + 1]
    <3>1. Len(s) \in Nat /\ fs[n].base_sp \in Nat
      BY <2>3, EmptyTyped DEF Frame
    <3> QED
      BY <2>2, <3>1
  <2> QED
    BY <2>1, <2>4, <2>5, FrameGoesOn
<1>2. CASE ~(Len(s) < MaxStack)
  BY <1>2, NoFrames DEF PushTo, Throw
<1> QED
  BY <1>1, <1>2

\* A frame that is made has no operands and needs none.
LEMMA FirstInstruction ==
  ASSUME TypeInv, AllWellMade, NEW fr, FrameTyped(fr), fr.ip = 0, NEW top, top = fr.base_sp
  PROVE  AtHeight(fr, top)
<1>1. /\ funcs[fr.func + 1] \in ByteFunc /\ Len(funcs) \in Nat
      /\ WellMade(funcs[fr.func + 1], Len(funcs))
      /\ CodeOf(fr) = funcs[fr.func + 1].code /\ fr.base_sp \in Nat
  BY FrameCode
<1> PICK code : code = CodeOf(fr)
  OBVIOUS
<1>2. code \in Seq(Op) /\ code # <<>>
  BY <1>1 DEF WellMade, ByteFunc
<1>3. 0 < Len(code)
  BY <1>2, EmptySeq
<1>4. Heights(code)[0] = 0
  BY <1>2, HeightsFacts
<1> QED
  BY <1>1, <1>3, <1>4 DEF AtHeight, FrameHeight

\* The instruction the top frame is at, in well-made code.
LEMMA TopFacts ==
  ASSUME WrittenInv, AllWellMade, Running,
         NEW k, k = Top.ip, NEW i, i = CurOp, NEW h, h = Heights(Code)
  PROVE  /\ FramesTyped(frames) /\ StackTyped(eval_stack) /\ FrameTyped(Top)
         /\ Len(frames) \in Nat \ {0} /\ Top = frames[Len(frames)] /\ CallsPending(frames)
         /\ Code = CodeOf(Top) /\ k \in Nat /\ k < Len(Code) /\ Len(Code) \in Nat
         /\ Len(eval_stack) \in Nat /\ Top.base_sp \in 0..Len(eval_stack)
         /\ Depth = h[k] /\ h[k] \in Takes(i)..k /\ Takes(i) \in Nat
         /\ i \in Op /\ i.op # "ADD"
         /\ i.op \in {"PUSH_LOCAL", "STORE_LOCAL"} => Valid(i.a, Len(Top.locals))
         /\ i.op = "CALL" => i.b \in {-2, -1} \/ i.b >= 0
         /\ i.op # "RET" => k + 1 < Len(Code) /\ h[k + 1] = h[k] - Takes(i) + Gives(i)
         /\ i.op \in {"JMP", "JMP_IF_FALSE"} =>
              /\ i.a \in Nat /\ i.a < Len(Code) /\ h[i.a] = h[k] - Takes(i)
              /\ Target(i.a) = i.a
<1>1. /\ FramesTyped(frames) /\ StackTyped(eval_stack) /\ CallsPending(frames)
      /\ Len(frames) \in Nat \ {0} /\ Top = frames[Len(frames)]
      /\ Len(eval_stack) \in Nat /\ Top.base_sp \in 0..Len(eval_stack)
  BY TypeParts, RunningFacts DEF WrittenInv, HeightInv, AsWritten, TypeInv, Top, Last
<1>2. FrameTyped(Top)
  BY <1>1 DEF FramesTyped
<1>3. /\ funcs[Top.func + 1] \in ByteFunc /\ Len(funcs) \in Nat
      /\ WellMade(funcs[Top.func + 1], Len(funcs)) /\ Top.ip \in Nat
      /\ Code = funcs[Top.func + 1].code /\ Code = CodeOf(Top)
  BY <1>2, FrameCode DEF WrittenInv, Code, CodeOf
<1>4. AtHeight(Top, Len(eval_stack))
  BY <1>1 DEF WrittenInv, HeightInv, AsWritten
<1>5. k \in Nat /\ k < Len(Code) /\ Depth = h[k]
  BY <1>3, <1>4 DEF AtHeight, FrameHeight, Depth
<1>6. /\ Code \in Seq(Op) /\ Len(Code) \in Nat /\ i \in Op
      /\ h[k] \in Takes(i)..k /\ Takes(i) \in Nat
      /\ i.op # "ADD"
      /\ i.op \in {"PUSH_LOCAL", "STORE_LOCAL"} => Valid(i.a, funcs[Top.func + 1].locals)
      /\ i.op = "CALL" => i.b \in {-2, -1} \/ Valid(i.b, Len(funcs))
      /\ i.op # "RET" => k + 1 < Len(Code) /\ h[k + 1] = h[k] - Takes(i) + Gives(i)
      /\ i.op \in {"JMP", "JMP_IF_FALSE"} =>
           Valid(i.a, Len(Code)) /\ h[i.a] = h[k] - Takes(i)
  <2> PICK fn : fn = funcs[Top.func + 1]
    OBVIOUS
  <2>1. fn \in ByteFunc /\ WellMade(fn, Len(funcs)) /\ Code = fn.code
    BY <1>3
  <2>2. i = fn.code[k + 1] /\ h = Heights(fn.code) /\ k < Len(fn.code)
    BY <1>5, <2>1 DEF CurOp
  <2> PICK m \in Nat : m = Len(funcs)
    BY <1>3
  <2>3. WellMade(fn, m) /\ k \in Nat
    BY <1>5, <2>1
  <2>4. /\ fn.code \in Seq(Op) /\ Len(fn.code) \in Nat /\ i \in Op
        /\ h[k] \in Takes(i)..k /\ Takes(i) \in Nat
        /\ i.op # "ADD"
        /\ i.op \in {"PUSH_LOCAL", "STORE_LOCAL"} => Valid(i.a, fn.locals)
        /\ i.op = "CALL" => i.b \in {-2, -1} \/ Valid(i.b, m)
        /\ i.op # "RET" => k + 1 < Len(fn.code) /\ h[k + 1] = h[k] - Takes(i) + Gives(i)
        /\ i.op \in {"JMP", "JMP_IF_FALSE"} =>
             Valid(i.a, Len(fn.code)) /\ h[i.a] = h[k] - Takes(i)
    BY ONLY <2>1, <2>2, <2>3, WellMadeFacts
  <2> QED
    BY <2>1, <2>4
<1>7. Len(Top.locals) = funcs[Top.func + 1].locals
  BY <1>2 DEF FrameTyped
<1>8. i.op = "CALL" => i.b \in {-2, -1} \/ i.b >= 0
  BY <1>3, <1>6 DEF Valid
<1>9. i.op \in {"JMP", "JMP_IF_FALSE"} => i.a \in Nat /\ i.a < Len(Code) /\ Target(i.a) = i.a
  BY <1>6 DEF Valid, Target
<1> QED
  BY <1>1, <1>2, <1>3, <1>5, <1>6, <1>7, <1>8, <1>9

-----------------------------------------------------------------------------
(* What the parts of a step make                                            *)

\* What a step leaves is as written.
MakesWritten == AsWritten(frames', eval_stack')

\* The top frame goes on, or jumps.
LEMMA ContinueWritten ==
  ASSUME WrittenInv, AllWellMade, Running, NEW ip \in Nat, ip < Len(Code), NEW s,
         Len(s) - Top.base_sp = Heights(Code)[ip], Continue(ip, s)
  PROVE  MakesWritten
<1>1. /\ FramesTyped(frames) /\ Len(frames) \in Nat \ {0} /\ CallsPending(frames)
      /\ Top = frames[Len(frames)] /\ Code = CodeOf(Top)
  BY TopFacts
<1>2. frames' = [frames EXCEPT ![Len(frames)] = [@ EXCEPT !.ip = ip]] /\ eval_stack' = s
  BY DEF Continue
<1> PICK n : n = Len(frames)
  OBVIOUS
<1>3. /\ n \in Nat \ {0} /\ ip < Len(CodeOf(frames[n]))
      /\ Len(s) - frames[n].base_sp = Heights(CodeOf(frames[n]))[ip]
  BY <1>1
<1>4. AsWritten(frames', s)
  BY <1>1, <1>2, <1>3, FrameGoesOn
<1> QED
  BY <1>2, <1>4 DEF MakesWritten

\* The instruction's operands are replaced by a result.
LEMMA ResultWritten ==
  ASSUME WrittenInv, AllWellMade, Running, CurOp.op # "RET", Gives(CurOp) = 1,
         NEW s, StackTyped(s), Len(s) = Len(eval_stack) - Takes(CurOp),
         NEW v \in Value, PushTo(frames, s, v)
  PROVE  MakesWritten
<1> PICK k, i, h : k = Top.ip /\ i = CurOp /\ h = Heights(Code)
  OBVIOUS
<1>1. /\ FramesTyped(frames) /\ Len(frames) \in Nat \ {0} /\ CallsPending(frames)
      /\ Top = frames[Len(frames)] /\ Code = CodeOf(Top) /\ Depth = h[k]
      /\ h[k] \in Takes(i)..k /\ Takes(i) \in Nat /\ k \in Nat
      /\ k + 1 < Len(Code) /\ h[k + 1] = h[k] - Takes(i) + Gives(i)
      /\ Len(eval_stack) \in Nat /\ Top.base_sp \in 0..Len(eval_stack)
  BY TopFacts
<1>2. Len(s) + 1 - Top.base_sp = h[k + 1]
  <2> PICK t, m, b : t = Takes(i) /\ m = Len(eval_stack) /\ b = Top.base_sp
    OBVIOUS
  <2>1. t \in Nat /\ m \in Nat /\ b \in Nat /\ h[k] = m - b
    BY <1>1 DEF Depth
  <2>2. h[k + 1] = (m - b) - t + 1 /\ Len(s) = m - t
    BY <1>1, <2>1
  <2> QED
    BY <2>1, <2>2
<1> PICK n : n = Len(frames)
  OBVIOUS
<1>3. /\ frames[n].ip + 1 < Len(CodeOf(frames[n])) /\ n \in Nat \ {0}
      /\ Len(s) + 1 - frames[n].base_sp = Heights(CodeOf(frames[n]))[frames[n].ip + 1]
  BY <1>1, <1>2
<1> QED
  BY <1>1, <1>3, PushAsWritten DEF MakesWritten

\* The caller waits at its call; the callee is at its first instruction.
LEMMA CallWritten ==
  ASSUME WrittenInv, AllWellMade, Running, CurOp.op = "CALL",
         NEW s, StackTyped(s), Len(s) = Len(eval_stack) - Takes(CurOp),
         NEW f, NEW args \in Seq(Value), CallFunction(f, args, s)
  PROVE  MakesWritten
<1> PICK k, i, h : k = Top.ip /\ i = CurOp /\ h = Heights(Code)
  OBVIOUS
<1>1. /\ FramesTyped(frames) /\ Len(frames) \in Nat \ {0} /\ CallsPending(frames)
      /\ Top = frames[Len(frames)] /\ Code = CodeOf(Top) /\ Depth = h[k]
      /\ h[k] \in Takes(i)..k /\ Takes(i) \in Nat /\ k \in Nat /\ k < Len(Code)
      /\ Len(eval_stack) \in Nat /\ Top.base_sp \in 0..Len(eval_stack)
  BY TopFacts
<1>2. Gives(CurOp) = 1
  BY DEF Gives
<1>3. CASE ~Valid(f, Len(funcs))
  <2>1. PushTo(frames, s, Nil)
    BY <1>3 DEF CallFunction
  <2> QED
    BY <1>2, <2>1, ResultWritten, ValuesMade
<1>4. CASE Valid(f, Len(funcs)) /\ Len(frames) = MaxDepth
  BY <1>4, NoFrames DEF CallFunction, MakesWritten
<1>5. CASE Valid(f, Len(funcs)) /\ Len(frames) # MaxDepth
  <2> PICK fr : fr = NewFrame(f, args, Len(s))
    OBVIOUS
  <2>1. frames' = Append(frames, fr) /\ eval_stack' = s
    BY <1>5 DEF CallFunction
  <2>2. FrameTyped(fr) /\ fr.ip = 0 /\ fr.base_sp = Len(s)
    BY <1>5, NewFrameTyped, EmptyTyped DEF NewFrame, WrittenInv
  <2>3. AtHeight(fr, Len(s))
    BY <2>2, FirstInstruction DEF WrittenInv
  <2>4. InCall(Top, Len(s))
    <3>1. Len(s) - Top.base_sp = h[k] - Takes(i)
      BY <1>1 DEF Depth
    <3> QED
      BY <1>1, <3>1 DEF InCall, FrameHeight, OpOf, CurOp
  <2> PICK n : n = Len(frames)
    OBVIOUS
  <2>5. /\ Len(frames') = n + 1 /\ frames'[n + 1] = fr /\ n \in Nat \ {0}
        /\ \A j \in 1..n : frames'[j] = frames[j]
    BY <1>1, <2>1, <2>2, AppendProperties DEF FramesTyped, FrameTyped
  <2>6. ASSUME NEW j \in 1..n PROVE InCall(frames'[j], frames'[j + 1].base_sp)
    <3>1. CASE j = n
      BY <1>1, <2>2, <2>4, <2>5, <3>1
    <3>2. CASE j # n
      <4>1. j \in 1..n - 1 /\ j + 1 \in 1..n
        BY <2>5, <3>2
      <4>2. InCall(frames[j], frames[j + 1].base_sp)
        BY <1>1, <4>1 DEF CallsPending
      <4> QED
        BY <2>5, <4>1, <4>2
    <3> QED
      BY <3>1, <3>2
  <2>7. CallsPending(frames')
    <3>1. Len(frames') - 1 = n
      BY <2>5
    <3> QED
      BY <2>6, <3>1 DEF CallsPending
  <2>8. AtHeight(frames'[Len(frames')], Len(eval_stack'))
    BY <2>1, <2>3, <2>5
  <2> QED
    BY <2>7, <2>8 DEF MakesWritten, AsWritten
<1> QED
  BY <1>3, <1>4, <1>5

\* The caller finds the result of its call.
LEMMA ReturnWritten ==
  ASSUME WrittenInv, AllWellMade, Running, NEW v \in Value, Return(v)
  PROVE  MakesWritten
<1>1. /\ FramesTyped(frames) /\ Len(frames) \in Nat \ {0} /\ CallsPending(frames)
      /\ Top = frames[Len(frames)] /\ Top.base_sp \in 0..Len(eval_stack)
  BY TopFacts
<1>2. CASE Len(frames) = 1
  BY <1>2, NoFrames DEF Return, MakesWritten
<1>3. CASE Len(frames) # 1
  <2> PICK fs, s : fs = Front(frames) /\ s = CutTo(Top.base_sp)
    OBVIOUS
  <2>1. PushTo(fs, s, v)
    BY <1>3 DEF Return
  <2>2. Len(frames) > 1
    <3>1. \A k \in Nat \ {0} : k # 1 => k > 1
      OBVIOUS
    <3> QED
      BY <1>1, <1>3, <3>1
  <2> PICK n : n = Len(frames) - 1
    OBVIOUS
  <2>3. n \in Nat \ {0} /\ n \in 0..Len(frames) /\ n + 1 = Len(frames)
    BY <1>1, <2>2
  <2>4. FramesTyped(fs)
    BY <1>1, <2>2, FrontTyped
  <2>5. Len(fs) = n /\ \A j \in 1..n : fs[j] = frames[j]
    <3>1. IsSeq(frames) /\ Front(frames) = SubSeq(frames, 1, n)
      BY <1>1, AnySeq DEF FramesTyped, Front
    <3> QED
      BY <2>3, <3>1, CutFacts
  <2>6. \A j \in 1..n : InCall(frames[j], frames[j + 1].base_sp)
    BY <1>1, <2>3 DEF CallsPending
  <2>7. CallsPending(fs)
    <3> SUFFICES ASSUME NEW j \in 1..Len(fs) - 1 PROVE InCall(fs[j], fs[j + 1].base_sp)
      BY DEF CallsPending
    <3>1. j \in 1..n /\ j + 1 \in 1..n
      BY <2>3, <2>5
    <3>2. fs[j] = frames[j] /\ fs[j + 1] = frames[j + 1]
      BY <2>5, <3>1
    <3> QED
      BY <2>6, <3>1, <3>2
  <2>8. StackTyped(s) /\ Len(s) = Top.base_sp
    BY <1>1, CutTyped DEF WrittenInv
  <2> PICK fr : fr = fs[n]
    OBVIOUS
  <2>9. InCall(fr, Len(s)) /\ FrameTyped(fr)
    <3>1. n \in 1..n
      BY <2>3
    <3>2. fr = frames[n] /\ InCall(fr, frames[n + 1].base_sp)
      BY <2>5, <2>6, <3>1
    <3> QED
      BY <1>1, <2>3, <2>4, <2>5, <2>8, <3>1, <3>2 DEF FramesTyped
  <2> PICK k, i, h : k = fr.ip /\ i = OpOf(fr) /\ h = Heights(CodeOf(fr))
    OBVIOUS
  <2>10. /\ k \in Nat /\ k < Len(CodeOf(fr)) /\ i.op = "CALL" /\ Len(s) \in Nat
         /\ Len(s) - fr.base_sp = h[k] - Takes(i) /\ fr.base_sp \in Nat
    BY <2>8, <2>9, EmptyTyped, FrameCode DEF InCall, FrameHeight, WrittenInv
  <2>11. k + 1 < Len(CodeOf(fr)) /\ h[k + 1] = h[k] - Takes(i) + Gives(i)
         /\ h[k] \in Int /\ Takes(i) \in Int
    <3> PICK fn, m : fn = funcs[fr.func + 1] /\ m = Len(funcs)
      OBVIOUS
    <3>1. fn \in ByteFunc /\ m \in Nat /\ WellMade(fn, m) /\ CodeOf(fr) = fn.code
      BY <2>9, FrameCode DEF WrittenInv
    <3>2. k < Len(fn.code) /\ i = fn.code[k + 1] /\ h = Heights(fn.code) /\ i.op # "RET"
          /\ k \in Nat
      BY <2>10, <3>1 DEF OpOf
    <3>3. k + 1 < Len(fn.code) /\ h[k + 1] = h[k] - Takes(i) + Gives(i)
          /\ h[k] \in Takes(i)..k /\ Takes(i) \in Nat
      BY ONLY <3>1, <3>2, WellMadeFacts
    <3>4. h[k] \in Int /\ Takes(i) \in Int
      BY <2>10, <3>3
    <3> QED
      BY <3>1, <3>3, <3>4
  <2>12. Len(s) + 1 - fr.base_sp = h[k + 1]
    <3>1. Gives(i) = 1
      BY <2>10 DEF Gives
    <3> QED
      BY <2>10, <2>11, <3>1
  <2>13. /\ fs[n].ip + 1 < Len(CodeOf(fs[n])) /\ n = Len(fs) /\ n \in Nat \ {0}
         /\ Len(s) + 1 - fs[n].base_sp = Heights(CodeOf(fs[n]))[fs[n].ip + 1]
    BY <2>3, <2>5, <2>11, <2>12
  <2> QED
    BY <2>1, <2>4, <2>7, <2>8, <2>13, PushAsWritten DEF MakesWritten
<1> QED
  BY <1>2, <1>3

-----------------------------------------------------------------------------
(* The steps                                                                *)

\* One step of well-made code.
LEMMA StepWritten ==
  ASSUME WrittenInv, AllWellMade, Step
  PROVE  MakesWritten
<1>1. Running
  BY StepKinds DEF WrittenInv, TypeInv
<1> PICK k, i, h : k = Top.ip /\ i = CurOp /\ h = Heights(Code)
  OBVIOUS
<1>2. /\ StackTyped(eval_stack) /\ FrameTyped(Top) /\ Len(frames) \in Nat \ {0}
      /\ FramesTyped(frames) /\ CallsPending(frames) /\ Top = frames[Len(frames)]
      /\ Code = CodeOf(Top) /\ k \in Nat /\ k < Len(Code) /\ Len(Code) \in Nat
      /\ Len(eval_stack) \in Nat /\ Top.base_sp \in 0..Len(eval_stack)
      /\ Depth = h[k] /\ h[k] \in Takes(i)..k /\ Takes(i) \in Nat
      /\ i \in Op /\ i.op # "ADD"
      /\ i.op = "CALL" => i.b \in {-2, -1} \/ i.b >= 0
      /\ i.op # "RET" => k + 1 < Len(Code) /\ h[k + 1] = h[k] - Takes(i) + Gives(i)
      /\ i.op \in {"JMP", "JMP_IF_FALSE"} =>
           /\ i.a \in Nat /\ i.a < Len(Code) /\ h[i.a] = h[k] - Takes(i)
           /\ Target(i.a) = i.a
  BY <1>1, TopFacts
<1>3. PICK d, m, b : /\ d \in Nat /\ m \in Nat /\ b \in Nat
                     /\ m = Len(eval_stack) /\ b = Top.base_sp /\ d = m - b
                     /\ d = h[k] /\ d = Depth
  BY <1>2 DEF Depth
<1>4. PICK t \in Nat : t = Takes(i) /\ t <= d
  BY <1>2, <1>3
<1>5. /\ StackTyped(CutTo(m - t)) /\ Len(CutTo(m - t)) = m - t
      /\ t = 1 => Front(eval_stack) = CutTo(m - t)
  <2>1. m - t \in 0..Len(eval_stack)
    BY <1>2, <1>3, <1>4
  <2> QED
    BY <1>3, <2>1, CutTyped DEF WrittenInv, Front, CutTo
<1>6. Nil \in Value
  BY ValuesMade
<1>7. CASE PushConst \/ PushLocal
  <2>1. i.op \in {"PUSH_CONST", "PUSH_LOCAL"}
    BY <1>7 DEF PushConst, PushLocal, At
  <2>2. t = 0 /\ Gives(i) = 1 /\ i.op # "RET"
    BY <1>4, <2>1 DEF Takes, Gives
  <2>3. PICK v : PushTo(frames, eval_stack, v)
    BY <1>7 DEF PushConst, PushLocal, Push
  <2>4. v \in Value \/ frames' = <<>>
    <3>1. CASE Len(eval_stack) < MaxStack
      <4>1. eval_stack' = Append(eval_stack, v) /\ eval_stack' \in Seq(Value)
        BY <1>7, <2>3, <3>1, StepTyped DEF PushTo, WrittenInv, MakesTyped, StackTyped
      <4>2. Append(eval_stack, v)[m + 1] = v /\ Len(Append(eval_stack, v)) = m + 1
        BY <1>2, <1>3, AppendFacts, AnySeq DEF StackTyped
      <4>3. m + 1 \in 1..Len(eval_stack')
        BY <1>3, <4>1, <4>2
      <4> QED
        BY <4>1, <4>2, <4>3
    <3>2. CASE ~(Len(eval_stack) < MaxStack)
      BY <2>3, <3>2 DEF PushTo, Throw
    <3> QED
      BY <3>1, <3>2
  <2>5. Len(eval_stack) = Len(eval_stack) - Takes(CurOp)
    BY <1>2, <1>4, <2>2
  <2>6. CASE v \in Value
    BY <1>1, <1>2, <2>2, <2>3, <2>5, <2>6, ResultWritten
  <2>7. CASE frames' = <<>>
    BY <2>7, NoFrames DEF MakesWritten
  <2> QED
    BY <2>4, <2>6, <2>7
<1>8. CASE StoreLocal
  <2>1. i.op = "STORE_LOCAL" /\ t = 1 /\ Gives(i) = 0 /\ i.op # "RET"
    BY <1>4, <1>8 DEF StoreLocal, At, Takes, Gives
  <2>2. PICK fr, locals :
          /\ fr = [Top EXCEPT !.ip = Top.ip + 1, !.locals = locals]
          /\ frames' = [frames EXCEPT ![Len(frames)] = fr]
    BY <1>8 DEF StoreLocal
  <2>3. fr.func = Top.func /\ fr.ip = k + 1 /\ fr.base_sp = Top.base_sp
    BY <1>2, <2>2 DEF FrameTyped, Frame
  <2>4. eval_stack' = CutTo(m - t)
    BY <1>5, <1>8, <2>1 DEF StoreLocal
  <2>5. k + 1 < Len(Code) /\ h[k + 1] = (m - t) - b
    <3>1. h[k + 1] = d - t + 0 /\ k + 1 < Len(Code) /\ k + 1 \in Nat
      BY <1>2, <1>3, <1>4, <2>1
    <3>2. d - t + 0 = (m - t) - b
      BY <1>3, <1>4
    <3> QED
      BY <3>1, <3>2
  <2>6. AtHeight(fr, Len(eval_stack'))
    <3>1. CodeOf(fr) = Code
      BY <1>2, <2>3 DEF CodeOf
    <3>2. Len(eval_stack') = m - t /\ fr.base_sp = b
      BY <1>3, <1>5, <2>3, <2>4
    <3> QED
      BY <2>3, <2>5, <3>1, <3>2 DEF AtHeight, FrameHeight
  <2> PICK n : n = Len(frames)
    OBVIOUS
  <2>7. /\ n \in Nat \ {0} /\ Len(frames') = n /\ frames'[n] = fr
        /\ \A j \in 1..n : j < n => frames'[j] = frames[j]
    <3>1. frames \in Seq(Frame) /\ n \in Nat \ {0} /\ n \in 1..Len(frames)
      BY <1>2 DEF FramesTyped
    <3>2. Len(frames') = n /\ \A j \in 1..n : frames'[j] = IF j = n THEN fr ELSE frames[j]
      BY <2>2, <3>1, AnySeq DEF FramesTyped
    <3> QED
      BY <3>1, <3>2
  <2>8. frames'[n].base_sp = frames[n].base_sp /\ AtHeight(frames'[n], Len(eval_stack'))
    BY <1>2, <2>3, <2>6, <2>7
  <2> QED
    BY <1>2, <2>7, <2>8, LastGoesOn DEF MakesWritten
<1>9. CASE Pop
  <2>1. i.op = "POP" /\ t = i.a /\ Gives(i) = 0 /\ i.op # "RET"
    BY <1>4, <1>9 DEF Pop, At, Takes, Gives
  <2>2. Continue(k + 1, CutTo(m - t))
    <3>1. Continue(k + 1, CutTo(IF d > t THEN m - t ELSE b))
      <4>1. ~(i.a < 0)
        BY <1>4, <2>1
      <4> QED
        BY <1>3, <1>9, <2>1, <4>1 DEF Pop
    <3>2. ~(d > t) => b = m - t
      BY <1>3, <1>4
    <3> QED
      BY <3>1, <3>2
  <2>3. k + 1 \in Nat /\ k + 1 < Len(Code) /\ (m - t) - b = h[k + 1]
    <3>1. /\ h[k + 1] = h[k] - Takes(i) + Gives(i) /\ h[k] = d /\ Takes(i) = t
          /\ Gives(i) = 0 /\ k + 1 < Len(Code) /\ k + 1 \in Nat
      <4>1. i.op # "RET" /\ Gives(i) = 0
        BY <2>1
      <4>2. k + 1 < Len(Code) /\ h[k + 1] = h[k] - Takes(i) + Gives(i)
        BY <1>2, <4>1
      <4>3. h[k] = d /\ Takes(i) = t /\ k + 1 \in Nat
        BY <1>2, <1>3, <1>4
      <4> QED
        BY <4>1, <4>2, <4>3
    <3>2. d - t + 0 = (m - t) - b
      BY <1>3, <1>4
    <3>3. h[k + 1] = d - t + 0
      BY <3>1
    <3> QED
      BY <3>1, <3>2, <3>3
  <2>4. Len(CutTo(m - t)) - Top.base_sp = Heights(Code)[k + 1]
    BY <1>3, <1>5, <2>3
  <2> QED
    BY <1>1, <2>2, <2>3, <2>4, ContinueWritten
<1>10. ASSUME CallIgnored \/ Ignored \/ EndOfCode PROVE FALSE
  <2>1. CASE CallIgnored
    <3>1. i.op = "CALL" /\ (d < i.a + (IF i.b = -2 THEN 1 ELSE 0) \/ i.b < -2)
      BY <1>3, <2>1 DEF CallIgnored, At
    <3>2. t = i.a + (IF i.b = -2 THEN 1 ELSE 0)
      BY <1>4, <3>1 DEF Takes
    <3>3. i.b \in Int /\ ~(i.b < -2)
      BY <1>2, <3>1 DEF Op
    <3> QED
      BY <1>3, <1>4, <3>1, <3>2, <3>3
  <2>2. CASE Ignored
    <3>1. i.op \in {"STORE_LOCAL", "JMP_IF_FALSE"} /\ d = 0
      BY <1>2, <1>3, <2>2 DEF Ignored, At
    <3>2. t = 1
      BY <1>4, <3>1 DEF Takes
    <3> QED
      BY <1>4, <3>1, <3>2
  <2>3. CASE EndOfCode
    BY <1>2, <2>3 DEF EndOfCode
  <2> QED
    BY <1>10, <2>1, <2>2, <2>3
<1>11. CASE CallDynamic
  <2>1. i.op = "CALL" /\ i.b = -2 /\ Gives(i) = 1 /\ i.op # "RET" /\ t = i.a + 1 /\ i.a \in Int
    BY <1>2, <1>4, <1>11 DEF CallDynamic, At, Takes, Gives, Op
  <2>2. i.a \in Nat
    BY <1>1, <1>2, <2>1, OpFacts DEF WrittenInv, TypeInv
  <2>3. (m - 1) - i.a = m - t /\ m - 1 \in 0..m /\ m - t \in Nat
    <3> PICK a \in Nat : a = i.a /\ t = a + 1
      BY <2>1, <2>2
    <3>1. t <= m /\ m \in Nat
      BY <1>3, <1>4
    <3>2. (m - 1) - a = m - (a + 1) /\ m - 1 \in 0..m /\ m - (a + 1) \in Nat
      BY <3>1
    <3> QED
      BY <3>2
  <2>4. SubSeq(eval_stack, (m - t) + 1, m - 1) \in Seq(Value)
    BY <1>3, <2>3, ArgsTyped DEF WrittenInv
  <2>5. \/ \E f : CallFunction(f, SubSeq(eval_stack, (m - t) + 1, m - 1), CutTo(m - t))
        \/ PushTo(frames, CutTo(m - t), Nil)
    BY <1>3, <1>11, <2>3 DEF CallDynamic
  <2>6. Len(CutTo(m - t)) = Len(eval_stack) - Takes(CurOp)
    BY <1>3, <1>4, <1>5
  <2>7. ASSUME NEW f, CallFunction(f, SubSeq(eval_stack, (m - t) + 1, m - 1), CutTo(m - t))
        PROVE  MakesWritten
    BY <1>1, <1>5, <2>1, <2>4, <2>6, <2>7, CallWritten
  <2>8. CASE PushTo(frames, CutTo(m - t), Nil)
    BY <1>1, <1>5, <1>6, <2>1, <2>6, <2>8, ResultWritten
  <2> QED
    BY <2>5, <2>7, <2>8
<1>12. ASSUME At("CALL"), CurOp.b # -2
       PROVE  /\ Len(eval_stack) - CurOp.a = m - t /\ Args \in Seq(Value)
              /\ Gives(CurOp) = 1 /\ CurOp.op = "CALL"
              /\ Len(CutTo(m - t)) = Len(eval_stack) - Takes(CurOp)
  <2>1. i.op = "CALL" /\ t = i.a + 0 /\ i.a \in Int /\ Gives(i) = 1
    BY <1>2, <1>4, <1>12 DEF At, Takes, Gives, Op
  <2>2. i.a = t
    BY <2>1
  <2>3. m - t \in Nat /\ m \in 0..m
    BY <1>3, <1>4
  <2>4. Args \in Seq(Value)
    BY <1>3, <2>2, <2>3, ArgsTyped DEF Args, WrittenInv
  <2> QED
    BY <1>3, <1>4, <1>5, <2>1, <2>2, <2>4
<1>13. CASE CallStatic
  <2>1. At("CALL") /\ CurOp.b # -2 /\ CallFunction(CurOp.b, Args, CutTo(m - t))
    BY <1>2, <1>12, <1>13 DEF CallStatic, Op
  <2> QED
    BY <1>1, <1>5, <1>12, <2>1, CallWritten
<1>14. CASE CallHost
  <2>1. At("CALL") /\ CurOp.b # -2
    BY <1>14 DEF CallHost
  <2>2. CASE Throws(CurOp.s, Args)
    BY <1>14, <2>2, NoFrames DEF CallHost, Throw, MakesWritten
  <2>3. CASE ~Throws(CurOp.s, Args)
    <3>1. PushTo(frames, CutTo(m - t), call_function(CurOp.s, Args))
      BY <1>12, <1>14, <2>1, <2>3 DEF CallHost
    <3>2. call_function(CurOp.s, Args) \in Value
      BY <1>12, <2>1, ResultType
    <3> QED
      BY <1>1, <1>5, <1>12, <2>1, <3>1, <3>2, ResultWritten
  <2> QED
    BY <2>2, <2>3
<1>15. CASE Jmp
  <2>1. i.op = "JMP" /\ t = 0 /\ Continue(i.a, eval_stack)
    BY <1>2, <1>4, <1>15 DEF Jmp, At, Takes
  <2>2. i.a \in Nat /\ i.a < Len(Code) /\ h[i.a] = d - t
    BY <1>2, <1>3, <1>4, <2>1
  <2>3. Len(eval_stack) - Top.base_sp = Heights(Code)[i.a]
    BY <1>3, <2>1, <2>2
  <2> QED
    BY <1>1, <2>1, <2>2, <2>3, ContinueWritten
<1>16. CASE JmpIfFalse
  <2>1. i.op = "JMP_IF_FALSE" /\ t = 1 /\ Gives(i) = 0 /\ i.op # "RET"
    BY <1>2, <1>4, <1>16 DEF JmpIfFalse, At, Takes, Gives
  <2>2. PICK ip : ip \in {k + 1, i.a} /\ Continue(ip, CutTo(m - t))
    BY <1>2, <1>5, <1>16, <2>1 DEF JmpIfFalse
  <2>3. h[k + 1] = d - t + 0 /\ h[i.a] = d - t /\ k + 1 < Len(Code) /\ i.a < Len(Code)
        /\ i.a \in Nat
    BY <1>2, <1>3, <1>4, <2>1
  <2>4. ip \in Nat /\ ip < Len(Code) /\ h[ip] = d - t
    <3>1. d - t + 0 = d - t
      BY <1>3, <1>4
    <3> QED
      BY <1>2, <2>2, <2>3, <3>1
  <2>5. Len(CutTo(m - t)) - Top.base_sp = Heights(Code)[ip]
    BY <1>3, <1>4, <1>5, <2>4
  <2> QED
    BY <1>1, <2>2, <2>4, <2>5, ContinueWritten
<1>17. CASE Ret
  <2> PICK v : v = IF Depth > 0 THEN Last(eval_stack) ELSE Nil
    OBVIOUS
  <2>1. v \in Value
    BY <1>2, <1>6, TopValue DEF Depth, WrittenInv
  <2>2. Return(v)
    BY <1>17 DEF Ret
  <2> QED
    BY <1>1, <2>1, <2>2, ReturnWritten
<1> QED
  BY <1>7, <1>8, <1>9, <1>10, <1>11, <1>13, <1>14, <1>15, <1>16, <1>17 DEF Step

\* And of anything that may happen to the VM.
LEMMA HeightKept ==
  ASSUME WrittenInv, [Next]_vmVars
  PROVE  HeightInv'
<1>1. CASE Step
  <2>1. funcs' = funcs
    BY <1>1, StepKinds DEF WrittenInv, TypeInv
  <2>2. AllWellMade' <=> AllWellMade
    BY <2>1 DEF AllWellMade
  <2>3. MakesWritten => AsWritten(frames, eval_stack)'
    BY <2>1 DEF MakesWritten, AsWritten, CallsPending, InCall, AtHeight, OpOf, CodeOf,
                FrameHeight
  <2> QED
    BY <1>1, <2>2, <2>3, StepWritten DEF HeightInv
<1>2. ASSUME NEW f \in 0..Len(funcs), Execute(f), AllWellMade
      PROVE  MakesWritten
  <2>1. eval_stack' = eval_stack /\ frames = <<>>
    BY <1>2 DEF Execute, Running
  <2>2. CASE Valid(f, Len(funcs))
    <3> PICK fr : fr = NewFrame(f, <<>>, Len(eval_stack))
      OBVIOUS
    <3>1. frames' = <<fr>>
      BY <1>2, <2>2 DEF Execute
    <3>2. <<>> \in Seq(Value) /\ Len(eval_stack) \in Nat
      BY TypeParts, EmptyTyped DEF WrittenInv
    <3>3. FrameTyped(fr) /\ fr.ip = 0 /\ fr.base_sp = Len(eval_stack)
      BY <2>2, <3>2, NewFrameTyped DEF NewFrame, WrittenInv
    <3>4. AtHeight(fr, Len(eval_stack))
      BY <1>2, <3>3, FirstInstruction DEF WrittenInv
    <3>5. Len(<<fr>>) = 1 /\ <<fr>>[1] = fr
      OBVIOUS
    <3> QED
      BY <2>1, <3>1, <3>4, <3>5 DEF MakesWritten, AsWritten, CallsPending
  <2>3. CASE ~Valid(f, Len(funcs))
    BY <1>2, <2>1, <2>3, NoFrames DEF Execute, MakesWritten
  <2> QED
    BY <2>2, <2>3
<1>3. ASSUME NEW f \in 0..Len(funcs), Execute(f)
      PROVE  HeightInv'
  <2>1. funcs' = funcs
    BY <1>3 DEF Execute
  <2>2. AllWellMade' <=> AllWellMade
    BY <2>1 DEF AllWellMade
  <2>3. MakesWritten => AsWritten(frames, eval_stack)'
    BY <2>1 DEF MakesWritten, AsWritten, CallsPending, InCall, AtHeight, OpOf, CodeOf,
                FrameHeight
  <2> QED
    BY <1>2, <1>3, <2>2, <2>3 DEF HeightInv
<1>4. CASE Killed \/ UNCHANGED vmVars
  BY <1>4 DEF Killed, vmVars, WrittenInv, HeightInv, AllWellMade, AsWritten, CallsPending,
              InCall, AtHeight, OpOf, CodeOf, FrameHeight
<1> QED
  BY <1>1, <1>3, <1>4 DEF Next

LEMMA WrittenInit ==
  ASSUME VMInit, WellFormed(funcs)
  PROVE  WrittenInv
<1>1. TypeInv
  BY StackInit, TypeInit DEF TypeInv
<1>2. AsWritten(frames, eval_stack)
  BY NoFrames DEF VMInit
<1> QED
  BY <1>1, <1>2 DEF WrittenInv, HeightInv

LEMMA WrittenInductive == WrittenInv /\ [Next]_vmVars => WrittenInv'
  BY StackInductive, TypeKept, HeightKept DEF WrittenInv, TypeInv

LEMMA WrittenRuns == WrittenInv => WellMadeCodeRuns
<1> SUFFICES ASSUME WrittenInv, AllWellMade, Running PROVE NothingIgnored
  BY DEF WellMadeCodeRuns, NothingIgnored
<1> PICK k, i, h : k = Top.ip /\ i = CurOp /\ h = Heights(Code)
  OBVIOUS
<1>1. /\ k \in Nat /\ k < Len(Code) /\ Len(Code) \in Nat /\ i.op # "ADD"
      /\ Depth = h[k] /\ h[k] \in Takes(i)..k /\ Takes(i) \in Nat
      /\ i.op \in {"PUSH_LOCAL", "STORE_LOCAL"} => Valid(i.a, Len(Top.locals))
  BY TopFacts
<1>2. Depth \in Takes(i)..Len(Code)
  BY <1>1
<1> QED
  BY <1>1, <1>2 DEF NothingIgnored

\* Well-made code meets none of run_frame's guards: for every module, whichever
\* of its functions is executed, whatever earlier exceptions left on the stack.
THEOREM GuardsNotMet == Spec => []WellMadeCodeRuns
<1>1. Init => WrittenInv
  BY InitWellFormed, WrittenInit
<1> QED
  BY <1>1, WrittenInductive, WrittenRuns, PTL DEF Spec
=============================================================================
