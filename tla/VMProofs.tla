------------------------------ MODULE VMProofs ------------------------------
(***************************************************************************)
(* FramesNest, StackRestored and the refinement of PrivateStacks, for any  *)
(* bytecode.                                                               *)
(*                                                                         *)
(* None needs to know what the values are, so the invariant only says that *)
(* the stacks are sequences.  It adds to the first two properties that the *)
(* bases of the frames never decrease from the outermost to the innermost, *)
(* and that the outermost one is where the handler found the stack.  The   *)
(* kinds of step are, in this order, the actions Work, CallFunction, Return,*)
(* Throw and Finish of PrivateStacks.                                      *)
(***************************************************************************)
EXTENDS VMProperties, SequenceTheorems, TLAPS

IsSeq(s) == s \in Seq(Range(s))

\* fr runs one of n functions.
FrameOK(fr, n) ==
  fr \in [func: 0..n - 1, ip: Nat, locals: {fr.locals}, base_sp: Nat]

FramesOK ==
  /\ IsSeq(frames)
  /\ \A i \in 1..Len(frames) : FrameOK(frames[i], Len(funcs))

BasesRise ==
  \A i, j \in 1..Len(frames) : i <= j => frames[i].base_sp <= frames[j].base_sp

StackInv ==
  /\ WellFormed(funcs)
  /\ FramesOK
  /\ IsSeq(eval_stack) /\ IsSeq(before)
  /\ BasesRise
  /\ Running => /\ Top.base_sp <= Len(eval_stack)
                /\ frames[1].base_sp = Len(before)
                /\ outcome.status = "none"
  /\ IsPrefix(before, eval_stack)
  /\ outcome.status = "returned" => eval_stack = before

-----------------------------------------------------------------------------
(* Sequences of anything                                                    *)

LEMMA SeqFacts ==
  ASSUME NEW s, IsSeq(s)
  PROVE  /\ Len(s) \in Nat /\ DOMAIN s = 1..Len(s)
         /\ s = <<>> <=> Len(s) = 0
  BY LenProperties, EmptySeq DEF IsSeq

LEMMA AnySeq ==
  ASSUME NEW S, NEW s \in Seq(S)
  PROVE  IsSeq(s)
  BY SeqOfRange DEF IsSeq

LEMMA CutFacts ==
  ASSUME NEW s, IsSeq(s), NEW n \in 0..Len(s)
  PROVE  /\ IsSeq(SubSeq(s, 1, n)) /\ Len(SubSeq(s, 1, n)) = n
         /\ \A i \in 1..n : SubSeq(s, 1, n)[i] = s[i]
<1> Len(s) \in Nat /\ DOMAIN s = 1..Len(s)
  BY SeqFacts
<1>1. \A i \in 1..n : s[i] \in Range(s)
  BY DEF Range
<1>2. /\ SubSeq(s, 1, n) \in Seq(Range(s))
      /\ Len(SubSeq(s, 1, n)) = IF 1 <= n THEN n - 1 + 1 ELSE 0
      /\ \A i \in 1..n - 1 + 1 : SubSeq(s, 1, n)[i] = s[1 + i - 1]
  BY <1>1, SubSeqProperties
<1>3. IsSeq(SubSeq(s, 1, n))
  BY ONLY <1>2, AnySeq
<1> QED
  BY <1>2, <1>3

LEMMA AppendFacts ==
  ASSUME NEW s, IsSeq(s), NEW v
  PROVE  /\ IsSeq(Append(s, v)) /\ Len(Append(s, v)) = Len(s) + 1
         /\ \A i \in 1..Len(s) : Append(s, v)[i] = s[i]
         /\ Append(s, v)[Len(s) + 1] = v
<1> DEFINE S == Range(s) \cup {v}
<1>1. s \in Seq(S)
  BY SeqMonotonic DEF IsSeq
<1> v \in S
  OBVIOUS
<1> HIDE DEF S
<1>2. /\ Append(s, v) \in Seq(S) /\ Len(Append(s, v)) = Len(s) + 1
      /\ \A i \in 1..Len(s) : Append(s, v)[i] = s[i]
      /\ Append(s, v)[Len(s) + 1] = v
  BY <1>1, AppendProperties
<1>3. IsSeq(Append(s, v))
  BY ONLY <1>2, AnySeq
<1> QED
  BY <1>2, <1>3

LEMMA SameSeq ==
  ASSUME NEW s, IsSeq(s), NEW t, IsSeq(t), Len(s) = Len(t),
         \A i \in 1..Len(s) : s[i] = t[i]
  PROVE  s = t
<1> DEFINE S == Range(s) \cup Range(t)
<1>1. s \in Seq(S) /\ t \in Seq(S)
  BY SeqMonotonic DEF IsSeq
<1> HIDE DEF S
<1> QED
  BY <1>1, SeqEqual

\* t has all of s at its beginning.
LEMMA PrefixFacts ==
  ASSUME NEW s, IsSeq(s), NEW t, IsSeq(t)
  PROVE  IsPrefix(s, t) <=> Len(s) <= Len(t) /\ \A i \in 1..Len(s) : s[i] = t[i]
<1> Len(s) \in Nat /\ Len(t) \in Nat
  BY SeqFacts
<1>1. SubSeq(s, 1, Len(s)) = s
  BY SubSeqFull DEF IsSeq
<1>2. CASE Len(s) <= Len(t)
  <2>1. /\ IsSeq(SubSeq(t, 1, Len(s))) /\ Len(SubSeq(t, 1, Len(s))) = Len(s)
        /\ \A i \in 1..Len(s) : SubSeq(t, 1, Len(s))[i] = t[i]
    BY <1>2, CutFacts
  <2>2. s = SubSeq(t, 1, Len(s)) <=> \A i \in 1..Len(s) : s[i] = t[i]
    BY <2>1, SameSeq
  <2> QED
    BY <1>1, <1>2, <2>2 DEF IsPrefix
<1> QED
  BY <1>2 DEF IsPrefix

-----------------------------------------------------------------------------
(* What a step may do to the frames and the stack                           *)

\* stack has everything the frames below the top one, and the caller of the
\* VM, have pushed.
Kept(stack) ==
  /\ IsSeq(stack) /\ Top.base_sp <= Len(stack)
  /\ \A i \in 1..Top.base_sp : stack[i] = eval_stack[i]

\* fs are the n outermost frames, each with its base.
SameFrames(fs, n) ==
  /\ IsSeq(fs) /\ Len(fs) = n
  /\ \A i \in 1..n : FrameOK(fs[i], Len(funcs)) /\ fs[i].base_sp = frames[i].base_sp

Works ==
  SameFrames(frames', Len(frames)) /\ Kept(eval_stack') /\ outcome' = outcome

Calls ==
  \E fr, n :
    /\ n \in Top.base_sp..Len(eval_stack)
    /\ frames' = Append(frames, fr) /\ FrameOK(fr, Len(funcs)) /\ fr.base_sp = n
    /\ eval_stack' = CutTo(n) /\ outcome' = outcome

Returns ==
  /\ Len(frames) > 1 /\ SameFrames(frames', Len(frames) - 1)
  /\ \E v : eval_stack' = Append(CutTo(Top.base_sp), v)
  /\ outcome' = outcome

Raises ==
  frames' = <<>> /\ Kept(eval_stack') /\ outcome'.status \in {"threw", "overflow"}

Finishes ==
  /\ Len(frames) = 1 /\ frames' = <<>>
  /\ eval_stack' = CutTo(Top.base_sp) /\ outcome'.status = "returned"

OneOfThese == Works \/ Calls \/ Returns \/ Raises \/ Finishes

LEMMA RunningFacts ==
  ASSUME StackInv, Running
  PROVE  /\ Len(frames) \in Nat \ {0} /\ Len(eval_stack) \in Nat
         /\ FrameOK(Top, Len(funcs))
         /\ Top.base_sp \in 0..Len(eval_stack) /\ Top.ip \in Nat
         /\ Top.func \in 0..Len(funcs) - 1
         /\ Depth \in Nat
<1>1. Len(frames) \in Nat \ {0} /\ Len(eval_stack) \in Nat
  BY SeqFacts DEF StackInv, FramesOK, Running
<1>2. FrameOK(Top, Len(funcs))
  BY <1>1 DEF StackInv, FramesOK, Last, Top
<1> QED
  BY <1>1, <1>2 DEF StackInv, FrameOK, Depth

LEMMA CutKept ==
  ASSUME StackInv, Running, NEW n \in Top.base_sp..Len(eval_stack)
  PROVE  /\ Kept(CutTo(n)) /\ Len(CutTo(n)) = n /\ IsSeq(CutTo(n))
         /\ \A i \in 1..n : CutTo(n)[i] = eval_stack[i]
<1>1. n \in 0..Len(eval_stack) /\ Top.base_sp \in Nat
  BY RunningFacts
<1>2. IsSeq(eval_stack)
  BY DEF StackInv
<1> QED
  BY <1>1, <1>2, CutFacts DEF Kept, CutTo

LEMMA AllKept ==
  ASSUME StackInv, Running
  PROVE  Kept(eval_stack)
BY RunningFacts DEF Kept, StackInv

LEMMA PushKept ==
  ASSUME StackInv, Running, NEW s, Kept(s), NEW v
  PROVE  Kept(Append(s, v))
<1>1. Top.base_sp \in Nat /\ IsSeq(s) /\ Len(s) \in Nat
  BY RunningFacts, SeqFacts DEF Kept
<1> QED
  BY <1>1, AppendFacts DEF Kept

LEMMA FrameChanges ==
  ASSUME NEW fs, NEW n \in Nat, SameFrames(fs, n), n > 0,
         NEW fr, FrameOK(fr, Len(funcs)), fr.base_sp = fs[n].base_sp,
         NEW gs, gs = [fs EXCEPT ![n] = fr]
  PROVE  SameFrames(gs, n)
<1> DEFINE S == Range(fs) \cup {fr}
<1>1. fs \in Seq(S) /\ fr \in S /\ Len(fs) = n /\ n \in 1..Len(fs)
  BY SeqMonotonic DEF IsSeq, SameFrames
<1> HIDE DEF S
<1>2. gs \in Seq(S) /\ Len(gs) = n /\ \A i \in 1..n : gs[i] = IF i = n THEN fr ELSE fs[i]
  BY <1>1, ExceptSeq
<1>3. IsSeq(gs)
  BY ONLY <1>2, AnySeq
<1> QED
  BY <1>2, <1>3 DEF SameFrames

\* The last of some frames goes on at another instruction.
LEMMA FrameAdvances ==
  ASSUME NEW fs, NEW n \in Nat, SameFrames(fs, n), n > 0, NEW ip \in Nat,
         NEW gs, gs = [fs EXCEPT ![n] = [@ EXCEPT !.ip = ip]]
  PROVE  SameFrames(gs, n)
<1>1. FrameOK(fs[n], Len(funcs))
  BY DEF SameFrames
<1>2. /\ FrameOK([fs[n] EXCEPT !.ip = ip], Len(funcs))
      /\ [fs[n] EXCEPT !.ip = ip].base_sp = fs[n].base_sp
  BY <1>1 DEF FrameOK
<1> QED
  BY <1>2, FrameChanges

LEMMA FramesSame ==
  ASSUME StackInv
  PROVE  SameFrames(frames, Len(frames))
BY DEF StackInv, FramesOK, SameFrames

LEMMA ContinueEffect ==
  ASSUME StackInv, Running, NEW ip \in Nat, NEW s, Kept(s), Continue(ip, s)
  PROVE  Works
<1> DEFINE fs == [frames EXCEPT ![Len(frames)] = [@ EXCEPT !.ip = ip]]
<1>1. SameFrames(fs, Len(frames))
  BY RunningFacts, FramesSame, FrameAdvances
<1>2. frames' = fs
  BY DEF Continue
<1> QED
  BY <1>1, <1>2 DEF Continue, Works

LEMMA PushEffect ==
  ASSUME StackInv, Running, NEW v, Push(v)
  PROVE  Works \/ Raises
<1>1. CASE Len(eval_stack) < MaxStack
  <2> DEFINE fs == [frames EXCEPT ![Len(frames)] = [@ EXCEPT !.ip = Top.ip + 1]]
  <2>1. SameFrames(fs, Len(frames))
    <3>1. Top.ip + 1 \in Nat /\ Len(frames) \in Nat /\ Len(frames) > 0
      BY RunningFacts
    <3> QED
      BY <3>1, FramesSame, FrameAdvances
  <2>2. frames' = fs
    BY <1>1 DEF Push, PushTo, Top, Last
  <2>3. Kept(Append(eval_stack, v))
    BY AllKept, PushKept
  <2> QED
    BY <1>1, <2>1, <2>2, <2>3 DEF Push, PushTo, Works
<1>2. CASE ~(Len(eval_stack) < MaxStack)
  BY <1>2, AllKept DEF Push, PushTo, Throw, Ended, Raises
<1> QED
  BY <1>1, <1>2

\* A result in the place of operands.
LEMMA ResultEffect ==
  ASSUME StackInv, Running, NEW s, Kept(s), NEW v, PushTo(frames, s, v)
  PROVE  Works \/ Raises
<1>1. CASE Len(s) < MaxStack
  <2> DEFINE fs == [frames EXCEPT ![Len(frames)] = [@ EXCEPT !.ip = Top.ip + 1]]
  <2>1. SameFrames(fs, Len(frames))
    <3>1. Top.ip + 1 \in Nat /\ Len(frames) \in Nat /\ Len(frames) > 0
      BY RunningFacts
    <3> QED
      BY <3>1, FramesSame, FrameAdvances
  <2>2. frames' = fs
    BY <1>1 DEF PushTo, Top, Last
  <2>3. Kept(Append(s, v))
    BY PushKept
  <2> QED
    BY <1>1, <2>1, <2>2, <2>3 DEF PushTo, Works
<1>2. CASE ~(Len(s) < MaxStack)
  BY <1>2 DEF PushTo, Throw, Ended, Raises
<1> QED
  BY <1>1, <1>2

LEMMA ReturnEffect ==
  ASSUME StackInv, Running, NEW v, Return(v)
  PROVE  Returns \/ Raises \/ Finishes
<1> DEFINE stack == CutTo(Top.base_sp)
           n == Len(frames) - 1
           fs == Front(frames)
<1>1. Kept(stack)
  BY RunningFacts, CutKept
<1>2. CASE Len(frames) = 1
  BY <1>2 DEF Return, Ended, Finishes
<1>3. CASE Len(frames) # 1
  <2>1. Len(frames) \in Nat /\ Len(frames) > 1 /\ n \in Nat \ {0} /\ n \in 0..Len(frames)
    <3>1. \A k \in Nat \ {0} : k # 1 => k \in Nat /\ k > 1 /\ k - 1 \in Nat \ {0} /\ k - 1 \in 0..k
      OBVIOUS
    <3>2. Len(frames) \in Nat \ {0}
      BY RunningFacts
    <3> QED
      BY <1>3, <3>1, <3>2
  <2>2. SameFrames(fs, n)
    <3>1. IsSeq(fs) /\ Len(fs) = n /\ \A i \in 1..n : fs[i] = frames[i]
      BY <2>1, CutFacts DEF Front, StackInv, FramesOK
    <3>2. \A i \in 1..n : i \in 1..Len(frames)
      BY <2>1
    <3> QED
      BY <3>1, <3>2 DEF SameFrames, StackInv, FramesOK
  <2>3. PushTo(fs, stack, v)
    BY <1>3 DEF Return
  <2>4. CASE Len(stack) < MaxStack
    <3> DEFINE next == [fs EXCEPT ![n] = [@ EXCEPT !.ip = fs[n].ip + 1]]
    <3>1. fs[n].ip + 1 \in Nat /\ Len(fs) = n
      BY <2>1, <2>2 DEF SameFrames, FrameOK
    <3>2. SameFrames(next, n)
      BY <2>1, <2>2, <3>1, FrameAdvances
    <3>3. frames' = next /\ eval_stack' = Append(stack, v) /\ outcome' = outcome
      BY <2>3, <2>4, <3>1 DEF PushTo
    <3> QED
      BY <2>1, <3>2, <3>3 DEF Returns
  <2>5. CASE ~(Len(stack) < MaxStack)
    BY <1>1, <2>3, <2>5 DEF PushTo, Throw, Ended, Raises
  <2> QED
    BY <2>4, <2>5
<1> QED
  BY <1>2, <1>3

LEMMA ModuleFacts ==
  ASSUME StackInv
  PROVE  /\ funcs \in Seq(ByteFunc)
         /\ \A f \in DOMAIN funcs : funcs[f] \in ByteFunc
         /\ \A f \in DOMAIN funcs : \A i \in DOMAIN funcs[f].code :
              funcs[f].code[i].op = "CALL" => funcs[f].code[i].a >= 0
<1>1. WellFormed(funcs)
  BY DEF StackInv
<1> QED
  BY <1>1, ElementOfSeq, LenProperties DEF WellFormed

LEMMA OpFacts ==
  ASSUME StackInv, Running, Top.ip < Len(Code)
  PROVE  /\ CurOp \in Op /\ Len(Code) \in Nat
         /\ CurOp.op = "CALL" => CurOp.a \in Nat
<1>1. Top.func + 1 \in DOMAIN funcs
  BY RunningFacts, ModuleFacts, LenProperties
<1>2. Code \in Seq(Op)
  BY <1>1, ModuleFacts DEF ByteFunc, Code
<1>3. Top.ip + 1 \in DOMAIN Code /\ Len(Code) \in Nat
  BY <1>2, RunningFacts, LenProperties
<1>4. CurOp \in Op
  BY <1>2, <1>3, ElementOfSeq, LenProperties DEF CurOp
<1>5. CurOp.op = "CALL" => CurOp.a >= 0
  BY <1>1, <1>3, ModuleFacts DEF CurOp, Code
<1> QED
  BY <1>3, <1>4, <1>5 DEF Op

LEMMA CallEffect ==
  ASSUME StackInv, Running, NEW f, NEW args,
         NEW n \in Top.base_sp..Len(eval_stack), CallFunction(f, args, CutTo(n))
  PROVE  Works \/ Calls \/ Raises
<1> DEFINE s == CutTo(n)
<1>1. Kept(s) /\ Len(s) = n /\ n \in Nat
  BY CutKept, RunningFacts
<1>2. CASE ~Valid(f, Len(funcs))
  BY <1>1, <1>2, ResultEffect DEF CallFunction
<1>3. CASE Valid(f, Len(funcs)) /\ Len(frames) = MaxDepth
  BY <1>1, <1>3 DEF CallFunction, Ended, Raises
<1>4. CASE Valid(f, Len(funcs)) /\ Len(frames) # MaxDepth
  <2> DEFINE fr == NewFrame(f, args, n)
  <2>1. FrameOK(fr, Len(funcs)) /\ fr.base_sp = n
    BY <1>1, <1>4 DEF Valid, NewFrame, FrameOK
  <2>2. frames' = Append(frames, fr) /\ eval_stack' = s /\ outcome' = outcome
    BY <1>1, <1>4 DEF CallFunction
  <2> QED
    BY <2>1, <2>2 DEF Calls
<1> QED
  BY <1>2, <1>3, <1>4

\* Every instruction, with what follows it in the caller, is one of the five.
LEMMA StepKinds ==
  ASSUME StackInv, Step
  PROVE  Running /\ OneOfThese /\ UNCHANGED <<funcs, before>>
<1> USE DEF OneOfThese
<1>1. CASE PushConst
  <2>1. Running /\ UNCHANGED <<funcs, before>> /\ \E v : Push(v)
    BY <1>1 DEF PushConst, At
  <2> QED
    BY <2>1, PushEffect
<1>2. CASE PushLocal
  <2>1. Running /\ UNCHANGED <<funcs, before>> /\ \E v : Push(v)
    BY <1>2 DEF PushLocal, At
  <2> QED
    BY <2>1, PushEffect
<1>3. CASE StoreLocal
  <2>1. Running /\ Depth > 0
    BY <1>3 DEF StoreLocal, At
  <2> DEFINE n == Len(frames)
             k == Len(eval_stack) - 1
             locals == IF Valid(CurOp.a, Len(Top.locals))
                       THEN [Top.locals EXCEPT ![CurOp.a + 1] = Last(eval_stack)]
                       ELSE Top.locals
  <2> PICK fr : fr = [Top EXCEPT !.ip = Top.ip + 1, !.locals = locals]
    OBVIOUS
  <2>2. n \in Nat /\ n > 0 /\ FrameOK(Top, Len(funcs)) /\ Top = frames[n]
    BY <2>1, RunningFacts DEF Top, Last
  <2>4. frames' = [frames EXCEPT ![n] = fr]
    BY <1>3, <2>2 DEF StoreLocal
  <2> HIDE DEF locals
  <2>3. FrameOK(fr, Len(funcs)) /\ fr.base_sp = Top.base_sp
    <3>1. fr = [func |-> Top.func, ip |-> Top.ip + 1, locals |-> locals,
                base_sp |-> Top.base_sp]
      BY <2>2 DEF FrameOK
    <3>2. Top.func \in 0..Len(funcs) - 1 /\ Top.ip + 1 \in Nat /\ Top.base_sp \in Nat
      BY <2>1, RunningFacts
    <3> QED
      BY ONLY <3>1, <3>2 DEF FrameOK
  <2>5. SameFrames(frames', n)
    BY <2>2, <2>3, <2>4, FramesSame, FrameChanges
  <2>6. k \in Top.base_sp..Len(eval_stack) /\ eval_stack' = CutTo(k)
    BY <1>3, <2>1, RunningFacts DEF StoreLocal, Depth, CutTo, Front
  <2>7. Kept(eval_stack')
    BY <2>1, <2>6, CutKept
  <2> QED
    BY <1>3, <2>1, <2>5, <2>7 DEF StoreLocal, Works
<1>4. CASE Pop
  <2> DEFINE n == IF CurOp.a < 0 THEN 0 ELSE CurOp.a
             k == IF Depth > n THEN Len(eval_stack) - n ELSE Top.base_sp
  <2>1. Running /\ Top.ip < Len(Code) /\ Continue(Top.ip + 1, CutTo(k))
    BY <1>4 DEF Pop, At
  <2>2. n \in Nat
    BY <2>1, OpFacts DEF Op
  <2>3. k \in Top.base_sp..Len(eval_stack) /\ Top.ip + 1 \in Nat
    BY <2>1, <2>2, RunningFacts DEF Depth
  <2>4. Works
    BY <2>1, <2>3, CutKept, ContinueEffect
  <2> QED
    BY <1>4, <2>1, <2>4 DEF Pop
<1>5. CASE CallIgnored \/ Ignored
  <2>1. Running /\ Continue(Top.ip + 1, eval_stack) /\ UNCHANGED <<funcs, before>>
    BY <1>5 DEF CallIgnored, Ignored, At, Skip
  <2> QED
    BY <2>1, RunningFacts, AllKept, ContinueEffect
<1>6. CASE CallDynamic
  <2> DEFINE sp == Len(eval_stack) - 1
             k == sp - CurOp.a
             args == SubSeq(eval_stack, sp - CurOp.a + 1, sp)
  <2>1. Running /\ Top.ip < Len(Code) /\ CurOp.op = "CALL" /\ Depth > CurOp.a
    BY <1>6 DEF CallDynamic, At
  <2>2. k \in Top.base_sp..Len(eval_stack)
    BY <2>1, OpFacts, RunningFacts DEF Depth
  <2>3. \/ CallFunction(Last(eval_stack).num, args, CutTo(k))
        \/ PushTo(frames, CutTo(k), Nil)
    BY <1>6 DEF CallDynamic
  <2>4. OneOfThese
    BY <2>1, <2>2, <2>3, CutKept, CallEffect, ResultEffect
  <2> QED
    BY <1>6, <2>1, <2>4 DEF CallDynamic
<1>7. CASE CallStatic
  <2> DEFINE k == Len(eval_stack) - CurOp.a
  <2>1. /\ Running /\ Top.ip < Len(Code) /\ CurOp.op = "CALL" /\ Depth >= CurOp.a
        /\ CallFunction(CurOp.b, Args, CutTo(k))
    BY <1>7 DEF CallStatic, At
  <2>2. k \in Top.base_sp..Len(eval_stack)
    BY <2>1, OpFacts, RunningFacts DEF Depth
  <2>3. OneOfThese
    BY <2>1, <2>2, CallEffect
  <2> QED
    BY <1>7, <2>1, <2>3 DEF CallStatic
<1>8. CASE CallHost
  <2> DEFINE k == Len(eval_stack) - CurOp.a
  <2>1. Running /\ Top.ip < Len(Code) /\ CurOp.op = "CALL" /\ Depth >= CurOp.a
    BY <1>8 DEF CallHost, At
  <2>2. k \in Top.base_sp..Len(eval_stack)
    BY <2>1, OpFacts, RunningFacts DEF Depth
  <2>3. Kept(CutTo(k))
    BY <2>1, <2>2, CutKept
  <2>4. CASE Throws(CurOp.s, Args)
    <3>1. Throw(CutTo(k))
      BY <1>8, <2>4 DEF CallHost
    <3> QED
      BY <1>8, <2>1, <2>3, <3>1 DEF CallHost, Throw, Ended, Raises
  <2>5. CASE ~Throws(CurOp.s, Args)
    <3>1. \E v : PushTo(frames, CutTo(k), v)
      BY <1>8, <2>5 DEF CallHost
    <3> QED
      BY <1>8, <2>1, <2>3, <3>1, ResultEffect DEF CallHost
  <2> QED
    BY <2>4, <2>5
<1>9. CASE Jmp \/ JmpIfFalse
  <2>1. Running /\ Top.ip < Len(Code) /\ UNCHANGED <<funcs, before>>
    BY <1>9 DEF Jmp, JmpIfFalse, At
  <2>2. CurOp.a \in Int /\ Target(CurOp.a) \in Nat /\ Top.ip + 1 \in Nat
    BY <2>1, OpFacts, RunningFacts DEF Op, Target
  <2>3. CASE Jmp
    BY <2>1, <2>2, <2>3, AllKept, ContinueEffect DEF Jmp
  <2>4. CASE JmpIfFalse
    <3> DEFINE k == Len(eval_stack) - 1
    <3>1. k \in Top.base_sp..Len(eval_stack) /\ Front(eval_stack) = CutTo(k)
      BY <2>1, <2>4, RunningFacts DEF JmpIfFalse, Depth, Front, CutTo
    <3>2. Kept(Front(eval_stack))
      BY <2>1, <3>1, CutKept
    <3>3. \E ip \in Nat : Continue(ip, Front(eval_stack))
      BY <2>2, <2>4 DEF JmpIfFalse
    <3> QED
      BY <2>1, <3>2, <3>3, ContinueEffect
  <2> QED
    BY <1>9, <2>3, <2>4
<1>10. CASE Ret \/ EndOfCode
  <2>1. Running /\ (\E v : Return(v)) /\ UNCHANGED <<funcs, before>>
    BY <1>10 DEF Ret, EndOfCode, At
  <2> QED
    BY <2>1, ReturnEffect
<1> QED
  BY <1>1, <1>2, <1>3, <1>4, <1>5, <1>6, <1>7, <1>8, <1>9, <1>10 DEF Step

-----------------------------------------------------------------------------
(* The invariant                                                            *)

\* With the bases in order, the top frame keeps what all the others own.
LEMMA BelowTop ==
  ASSUME StackInv, Running
  PROVE  /\ \A i \in 1..Len(frames) : frames[i].base_sp \in 0..Top.base_sp
         /\ Len(before) \in 0..Top.base_sp
<1>1. Len(frames) \in Nat /\ 1 \in 1..Len(frames) /\ Len(frames) \in 1..Len(frames)
  BY RunningFacts
<1>2. \A i \in 1..Len(frames) : frames[i].base_sp \in 0..Top.base_sp
  BY <1>1, RunningFacts DEF StackInv, FramesOK, FrameOK, BasesRise, Top, Last
<1> QED
  BY <1>1, <1>2 DEF StackInv

LEMMA BeforeKept ==
  ASSUME StackInv, Running, NEW s, Kept(s)
  PROVE  IsPrefix(before, s)
<1>1. /\ IsSeq(before) /\ IsSeq(eval_stack) /\ IsSeq(s)
      /\ Len(before) \in 0..Top.base_sp /\ Len(s) \in Nat /\ Top.base_sp <= Len(s)
      /\ Top.base_sp \in Nat
  BY BelowTop, SeqFacts, RunningFacts DEF StackInv, Kept
<1>2. \A i \in 1..Len(before) : before[i] = eval_stack[i]
  BY <1>1, PrefixFacts DEF StackInv
<1>3. \A i \in 1..Len(before) : before[i] = s[i]
  BY <1>1, <1>2 DEF Kept
<1> QED
  BY <1>1, <1>3, PrefixFacts

LEMMA StackInit ==
  ASSUME VMInit, WellFormed(funcs)
  PROVE  StackInv
<1>1. frames = <<>> /\ eval_stack = <<>> /\ before = <<>> /\ outcome.status = "none"
  BY DEF VMInit, Ended
<1>2. IsSeq(<<>>) /\ Len(<<>>) = 0
  BY AnySeq, EmptySeq
<1>3. IsPrefix(<<>>, <<>>)
  BY <1>2, PrefixFacts
<1> QED
  BY <1>1, <1>2, <1>3 DEF StackInv, FramesOK, BasesRise, Running

\* What makes a state satisfy the invariant, when its frames are known to be
\* the n outermost ones.
LEMMA SameFramesInv ==
  ASSUME StackInv, Running, UNCHANGED <<funcs, before>>, outcome' = outcome,
         NEW n \in 1..Len(frames), SameFrames(frames', n),
         IsSeq(eval_stack'), frames[n].base_sp <= Len(eval_stack'),
         IsPrefix(before, eval_stack')
  PROVE  StackInv'
<1>1. n \in Nat /\ n > 0 /\ \A i \in 1..n : i \in 1..Len(frames)
  BY RunningFacts
<1>2. FramesOK' /\ BasesRise'
  BY <1>1 DEF SameFrames, FramesOK, BasesRise, StackInv
<1>3. Len(frames') = n /\ frames' # <<>>
  BY <1>1, SeqFacts DEF SameFrames
<1>4. Top'.base_sp = frames[n].base_sp /\ frames'[1].base_sp = frames[1].base_sp
  BY <1>1, <1>3 DEF SameFrames, Top, Last
<1> QED
  BY <1>2, <1>3, <1>4 DEF StackInv, Running

LEMMA StepKeeps ==
  ASSUME StackInv, Step
  PROVE  StackInv'
<1>1. Running /\ OneOfThese /\ UNCHANGED <<funcs, before>>
  BY StepKinds
<1>2. /\ Len(frames) \in Nat /\ Len(frames) > 0 /\ Top = frames[Len(frames)]
      /\ Len(eval_stack) \in Nat /\ Top.base_sp \in 0..Len(eval_stack)
  BY <1>1, RunningFacts DEF Top, Last
<1>3. CASE Works
  BY <1>1, <1>2, <1>3, SameFramesInv, BeforeKept DEF Works, Kept
<1>4. CASE Calls
  <2> PICK fr, n :
        /\ n \in Top.base_sp..Len(eval_stack)
        /\ frames' = Append(frames, fr) /\ FrameOK(fr, Len(funcs)) /\ fr.base_sp = n
        /\ eval_stack' = CutTo(n) /\ outcome' = outcome
    BY <1>4 DEF Calls
  <2> DEFINE m == Len(frames)
  <2>1. Kept(eval_stack') /\ Len(eval_stack') = n /\ IsSeq(eval_stack')
    BY <1>1, CutKept
  <2>2. /\ IsSeq(frames') /\ Len(frames') = m + 1
        /\ \A i \in 1..m : frames'[i] = frames[i]
        /\ frames'[m + 1] = fr
    BY AppendFacts DEF StackInv, FramesOK
  <2>3. \A i \in 1..m + 1 : i \in 1..m \/ i = m + 1
    BY <1>2
  <2>4. FramesOK'
    BY <1>1, <2>2, <2>3 DEF FramesOK, StackInv
  <2>5. \A i \in 1..m : frames[i].base_sp \in 0..Top.base_sp
    BY <1>1, BelowTop
  <2>6. BasesRise'
    BY <1>2, <2>2, <2>3, <2>5 DEF BasesRise, StackInv
  <2>7. frames' # <<>> /\ Top' = fr /\ frames'[1] = frames[1]
    BY <1>2, <2>2, SeqFacts DEF Top, Last
  <2>8. IsPrefix(before, eval_stack')
    BY <1>1, <2>1, BeforeKept
  <2> QED
    BY <1>1, <1>2, <2>1, <2>4, <2>6, <2>7, <2>8 DEF StackInv, Running
<1>5. CASE Returns
  <2> DEFINE n == Len(frames) - 1
             s == CutTo(Top.base_sp)
  <2>1. n \in 1..Len(frames) /\ SameFrames(frames', n) /\ outcome' = outcome
    BY <1>2, <1>5 DEF Returns
  <2>2. Kept(s) /\ Len(s) = Top.base_sp
    BY <1>1, <1>2, CutKept
  <2> PICK v : eval_stack' = Append(s, v)
    BY <1>5 DEF Returns
  <2>3. Kept(eval_stack') /\ Len(eval_stack') = Top.base_sp + 1
    BY <1>1, <2>2, PushKept, AppendFacts DEF Kept
  <2>4. frames[n].base_sp <= Len(eval_stack')
    BY <1>1, <1>2, <2>1, <2>3, BelowTop
  <2>5. IsPrefix(before, eval_stack') /\ IsSeq(eval_stack')
    BY <1>1, <2>3, BeforeKept DEF Kept
  <2> QED
    BY <1>1, <2>1, <2>4, <2>5, SameFramesInv
<1>6. CASE Raises \/ Finishes
  <2>1. frames' = <<>> /\ Kept(eval_stack')
    BY <1>1, <1>2, <1>6, CutKept DEF Raises, Finishes
  <2>2. FramesOK' /\ BasesRise'
    <3>1. IsSeq(<<>>) /\ Len(<<>>) = 0
      BY AnySeq, EmptySeq
    <3>2. 1..Len(frames') = {} /\ IsSeq(frames')
      BY <2>1, <3>1
    <3> QED
      BY <3>2 DEF FramesOK, BasesRise
  <2>3. outcome'.status = "returned" => eval_stack' = before
    <3>1. CASE Raises
      BY <3>1 DEF Raises
    <3>2. CASE Finishes
      <4>1. eval_stack' = SubSeq(eval_stack, 1, Len(before))
        BY <1>1, <3>2 DEF Finishes, StackInv, Top, Last, CutTo
      <4>2. SubSeq(before, 1, Len(before)) = before
        BY SubSeqFull DEF StackInv, IsSeq
      <4> QED
        BY <4>1, <4>2 DEF StackInv, IsPrefix
    <3> QED
      BY <1>6, <3>1, <3>2
  <2>4. IsPrefix(before, eval_stack')
    BY <1>1, <2>1, BeforeKept
  <2> QED
    BY <1>1, <2>1, <2>2, <2>3, <2>4 DEF StackInv, Running, Kept
<1> QED
  BY <1>1, <1>3, <1>4, <1>5, <1>6 DEF OneOfThese

LEMMA ExecuteKeeps ==
  ASSUME StackInv, NEW f \in 0..Len(funcs), Execute(f)
  PROVE  StackInv'
<1>1. /\ ~Running /\ frames = <<>> /\ before' = eval_stack
      /\ UNCHANGED <<funcs, eval_stack>>
  BY DEF Execute, Running
<1>2. IsPrefix(before', eval_stack') /\ IsSeq(before') /\ IsSeq(eval_stack')
  BY <1>1, PrefixFacts, SeqFacts DEF StackInv
<1>3. CASE Valid(f, Len(funcs))
  <2> DEFINE fr == NewFrame(f, <<>>, Len(eval_stack))
  <2>1. frames' = <<fr>> /\ outcome'.status = "none"
    BY <1>3 DEF Execute, Ended
  <2>2. Len(eval_stack) \in Nat
    BY SeqFacts DEF StackInv
  <2>3. FrameOK(fr, Len(funcs)) /\ fr.base_sp = Len(eval_stack)
    BY <1>3, <2>2 DEF Valid, NewFrame, FrameOK
  <2> HIDE DEF fr
  <2>4. <<fr>> \in Seq({fr}) /\ Len(<<fr>>) = 1 /\ <<fr>>[1] = fr /\ <<fr>> # <<>>
    OBVIOUS
  <2>5. IsSeq(<<fr>>)
    BY <2>4, AnySeq
  <2>6. FramesOK' /\ BasesRise'
    BY <1>1, <2>1, <2>2, <2>3, <2>4, <2>5 DEF FramesOK, BasesRise
  <2> QED
    BY <1>1, <1>2, <2>1, <2>2, <2>3, <2>4, <2>6 DEF StackInv, Running, Top, Last
<1>4. CASE ~Valid(f, Len(funcs))
  <2>1. UNCHANGED frames
    BY <1>4 DEF Execute
  <2> QED
    BY <1>1, <1>2, <2>1 DEF StackInv, FramesOK, BasesRise, Running
<1> QED
  BY <1>3, <1>4

LEMMA StackInductive == StackInv /\ [Next]_vmVars => StackInv'
<1> SUFFICES ASSUME StackInv, [Next]_vmVars PROVE StackInv'
  OBVIOUS
<1>1. CASE Killed \/ UNCHANGED vmVars
  BY <1>1 DEF Killed, vmVars, StackInv, FramesOK, BasesRise, Running, Top
<1> QED
  BY <1>1, StepKeeps, ExecuteKeeps DEF Next

LEMMA InitWellFormed == Init => VMInit /\ WellFormed(funcs)
  BY VMAssumption DEF Init

LEMMA StackInvHolds == Spec => []StackInv
<1>1. Init => StackInv
  BY InitWellFormed, StackInit
<1> QED
  BY <1>1, StackInductive, PTL DEF Spec

-----------------------------------------------------------------------------
(* The properties                                                           *)

\* Whatever the bytecode, no frame has taken an operand of a frame below it.
THEOREM FramesNested == Spec => []FramesNest
<1>1. StackInv => FramesNest
  <2> SUFFICES ASSUME StackInv, NEW i \in DOMAIN frames
               PROVE  frames[i].base_sp <=
                        (IF i < Len(frames) THEN frames[i + 1].base_sp
                         ELSE Len(eval_stack))
    BY DEF FramesNest
  <2>1. Len(frames) \in Nat /\ i \in 1..Len(frames)
    BY SeqFacts DEF StackInv, FramesOK
  <2>2. CASE i < Len(frames)
    BY <2>1, <2>2 DEF StackInv, BasesRise
  <2>3. CASE i = Len(frames)
    BY <2>1, <2>3, SeqFacts DEF StackInv, Running, Top, Last
  <2> QED
    BY <2>1, <2>2, <2>3
<1> QED
  BY <1>1, StackInvHolds, PTL

\* Whatever the bytecode, a handler leaves what it found on the stack, and if
\* it returns nothing else.
THEOREM StackIsRestored == Spec => []StackRestored
<1>1. StackInv => StackRestored
  BY DEF StackInv, StackRestored
<1> QED
  BY <1>1, StackInvHolds, PTL

-----------------------------------------------------------------------------
(* The shares of eval_stack                                                 *)

ShareOf(fs, s, i) ==
  SubSeq(s, fs[i].base_sp + 1, IF i < Len(fs) THEN fs[i + 1].base_sp ELSE Len(s))

\* fs divide s among themselves.
Divides(fs, s) ==
  /\ IsSeq(fs) /\ IsSeq(s)
  /\ \A i \in 1..Len(fs) : fs[i].base_sp \in 0..Len(s)
  /\ \A i, j \in 1..Len(fs) : i <= j => fs[i].base_sp <= fs[j].base_sp

\* S are their shares of it.
AreShares(S, fs, s) ==
  /\ Divides(fs, s)
  /\ IsSeq(S) /\ Len(S) = Len(fs)
  /\ \A i \in 1..Len(fs) : S[i] = ShareOf(fs, s, i)

-----------------------------------------------------------------------------
(* Slices of a sequence                                                     *)

LEMMA SliceFacts ==
  ASSUME NEW s, IsSeq(s), NEW b \in 0..Len(s), NEW a \in 0..b
  PROVE  /\ IsSeq(SubSeq(s, a + 1, b)) /\ Len(SubSeq(s, a + 1, b)) = b - a
         /\ \A i \in 1..b - a : SubSeq(s, a + 1, b)[i] = s[a + i]
<1> Len(s) \in Nat /\ DOMAIN s = 1..Len(s)
  BY SeqFacts
<1>1. \A i \in a + 1..b : s[i] \in Range(s)
  BY DEF Range
<1>2. /\ SubSeq(s, a + 1, b) \in Seq(Range(s))
      /\ Len(SubSeq(s, a + 1, b)) = IF a + 1 <= b THEN b - (a + 1) + 1 ELSE 0
      /\ \A i \in 1..b - (a + 1) + 1 : SubSeq(s, a + 1, b)[i] = s[a + 1 + i - 1]
  BY <1>1, SubSeqProperties
<1>3. IsSeq(SubSeq(s, a + 1, b))
  BY ONLY <1>2, AnySeq
<1> QED
  BY <1>2, <1>3

LEMMA SliceSame ==
  ASSUME NEW s, IsSeq(s), NEW t, IsSeq(t), NEW b \in 0..Len(s), b <= Len(t),
         NEW a \in 0..b, \A i \in 1..b : s[i] = t[i]
  PROVE  SubSeq(s, a + 1, b) = SubSeq(t, a + 1, b)
<1>1. Len(s) \in Nat /\ Len(t) \in Nat /\ b \in 0..Len(t)
  BY SeqFacts
<1>2. /\ IsSeq(SubSeq(s, a + 1, b)) /\ Len(SubSeq(s, a + 1, b)) = b - a
      /\ \A i \in 1..b - a : SubSeq(s, a + 1, b)[i] = s[a + i]
  BY SliceFacts
<1>3. /\ IsSeq(SubSeq(t, a + 1, b)) /\ Len(SubSeq(t, a + 1, b)) = b - a
      /\ \A i \in 1..b - a : SubSeq(t, a + 1, b)[i] = t[a + i]
  BY <1>1, SliceFacts
<1>4. \A i \in 1..b - a : a + i \in 1..b
  BY <1>1
<1> QED
  BY <1>2, <1>3, <1>4, SameSeq

\* Two sequences are equal up to their last elements.
LEMMA FrontSame ==
  ASSUME NEW s, IsSeq(s), NEW t, IsSeq(t), NEW n \in Nat, n > 0,
         Len(s) >= n, Len(t) = n, \A i \in 1..n - 1 : s[i] = t[i]
  PROVE  SubSeq(s, 1, n - 1) = Front(t)
<1>1. n - 1 \in 0..Len(s) /\ n - 1 \in 0..Len(t) /\ Len(s) \in Nat
  BY SeqFacts
<1>2. /\ IsSeq(SubSeq(s, 1, n - 1)) /\ Len(SubSeq(s, 1, n - 1)) = n - 1
      /\ \A i \in 1..n - 1 : SubSeq(s, 1, n - 1)[i] = s[i]
  BY <1>1, CutFacts
<1>3. /\ IsSeq(SubSeq(t, 1, n - 1)) /\ Len(SubSeq(t, 1, n - 1)) = n - 1
      /\ \A i \in 1..n - 1 : SubSeq(t, 1, n - 1)[i] = t[i]
  BY <1>1, CutFacts
<1>4. SubSeq(s, 1, n - 1) = SubSeq(t, 1, n - 1)
  BY <1>2, <1>3, SameSeq
<1> QED
  BY <1>4 DEF Front

LEMMA FunctionIsSeq ==
  ASSUME NEW n \in Nat, NEW s, DOMAIN s = 1..n, s = [i \in 1..n |-> s[i]]
  PROVE  IsSeq(s) /\ Len(s) = n
<1> DEFINE S == {s[i] : i \in 1..n}
<1>1. s \in [1..n -> S]
  OBVIOUS
<1>2. s \in Seq(S) /\ Len(s) = n
  BY <1>1
<1> QED
  BY <1>2, AnySeq

-----------------------------------------------------------------------------
(* The shares of the frames                                                 *)

LEMMA ShareFacts ==
  ASSUME NEW fs, NEW s, Divides(fs, s), NEW shares,
         shares = [i \in DOMAIN fs |-> ShareOf(fs, s, i)]
  PROVE  /\ IsSeq(shares) /\ Len(shares) = Len(fs)
         /\ \A i \in 1..Len(fs) : shares[i] = ShareOf(fs, s, i)
<1>1. Len(fs) \in Nat /\ DOMAIN fs = 1..Len(fs)
  BY SeqFacts DEF Divides
<1>2. DOMAIN shares = 1..Len(fs) /\ shares = [i \in 1..Len(fs) |-> shares[i]]
  BY <1>1
<1>3. IsSeq(shares) /\ Len(shares) = Len(fs)
  BY <1>1, <1>2, FunctionIsSeq
<1> QED
  BY <1>1, <1>3

LEMMA RisingDivides ==
  ASSUME NEW fs, NEW s, IsSeq(fs), IsSeq(s), NEW n, n = Len(fs),
         \A i \in 1..n : FrameOK(fs[i], Len(funcs)),
         \A i, j \in 1..n : i <= j => fs[i].base_sp <= fs[j].base_sp,
         fs # <<>> => fs[n].base_sp <= Len(s)
  PROVE  Divides(fs, s)
<1>1. n \in Nat /\ Len(s) \in Nat
  BY SeqFacts
<1>2. ASSUME NEW i \in 1..n PROVE fs[i].base_sp \in 0..Len(s)
  <2>1. n \in 1..n /\ i <= n /\ fs # <<>>
    BY <1>1, SeqFacts
  <2>2. fs[i].base_sp \in Nat /\ fs[n].base_sp \in Nat
    BY <2>1 DEF FrameOK
  <2>3. fs[i].base_sp <= fs[n].base_sp /\ fs[n].base_sp <= Len(s)
    BY <2>1
  <2> QED
    BY <1>1, <2>2, <2>3
<1> QED
  BY <1>2 DEF Divides

LEMMA DividedNow ==
  ASSUME StackInv
  PROVE  Divides(frames, eval_stack)
<1>1. frames # <<>> => frames[Len(frames)].base_sp <= Len(eval_stack)
  BY DEF StackInv, Running, Top, Last
<1>2. /\ IsSeq(frames) /\ IsSeq(eval_stack)
      /\ \A i \in 1..Len(frames) : FrameOK(frames[i], Len(funcs))
      /\ \A i, j \in 1..Len(frames) : i <= j => frames[i].base_sp <= frames[j].base_sp
  BY DEF StackInv, FramesOK, BasesRise
<1> QED
  BY <1>1, <1>2, RisingDivides

LEMMA DividedThen ==
  ASSUME StackInv', UNCHANGED funcs
  PROVE  Divides(frames', eval_stack')
<1>1. frames' # <<>> => frames'[Len(frames')].base_sp <= Len(eval_stack')
  BY DEF StackInv, Running, Top, Last
<1>2. /\ IsSeq(frames') /\ IsSeq(eval_stack')
      /\ \A i \in 1..Len(frames') : FrameOK(frames'[i], Len(funcs))
      /\ \A i, j \in 1..Len(frames') : i <= j => frames'[i].base_sp <= frames'[j].base_sp
  BY DEF StackInv, FramesOK, BasesRise
<1> QED
  BY <1>1, <1>2, RisingDivides

\* Below all the frames is what the handler found.
LEMMA PrefixCut ==
  ASSUME NEW s, IsSeq(s), NEW t, IsPrefix(s, t)
  PROVE  SubSeq(t, 1, Len(s)) = s
BY SubSeqFull DEF IsSeq, IsPrefix

LEMMA LeftNow ==
  ASSUME StackInv, Running
  PROVE  BelowFrames = before
<1>1. BelowFrames = SubSeq(eval_stack, 1, Len(before))
  BY DEF BelowFrames, CutTo, StackInv
<1> QED
  BY <1>1, PrefixCut DEF StackInv

LEMMA LeftThen ==
  ASSUME StackInv', Running'
  PROVE  BelowFrames' = before'
<1>1. BelowFrames' = SubSeq(eval_stack', 1, Len(before'))
  BY DEF BelowFrames, CutTo, StackInv
<1> QED
  BY <1>1, PrefixCut DEF StackInv

\* The shares before and after a step of a frame that runs.
LEMMA SharesNow ==
  ASSUME StackInv
  PROVE  AreShares(SharesOfStack, frames, eval_stack)
<1>1. SharesOfStack = [i \in DOMAIN frames |-> ShareOf(frames, eval_stack, i)]
  BY DEF SharesOfStack, ShareOf
<1> QED
  BY <1>1, DividedNow, ShareFacts DEF AreShares

LEMMA SharesThen ==
  ASSUME StackInv', UNCHANGED funcs
  PROVE  AreShares(SharesOfStack', frames', eval_stack')
<1>1. SharesOfStack' = [i \in DOMAIN frames' |-> ShareOf(frames', eval_stack', i)]
  BY DEF SharesOfStack, ShareOf
<1> QED
  BY <1>1, DividedThen, ShareFacts DEF AreShares

\* Frames that keep their bases, and what is between them, keep their shares.
LEMMA ShareSame ==
  ASSUME NEW fs, NEW s, Divides(fs, s), NEW gs, NEW t, Divides(gs, t),
         NEW n \in Nat, n <= Len(fs), n <= Len(gs),
         \A i \in 1..n : gs[i].base_sp = fs[i].base_sp,
         NEW i \in 1..n - 1,
         \A k \in 1..fs[n].base_sp : t[k] = s[k]
  PROVE  ShareOf(fs, s, i) = ShareOf(gs, t, i)
<1> DEFINE a == fs[i].base_sp
           b == fs[i + 1].base_sp
<1>1. /\ Len(fs) \in Nat /\ Len(gs) \in Nat /\ Len(s) \in Nat /\ Len(t) \in Nat
      /\ IsSeq(s) /\ IsSeq(t)
  BY SeqFacts DEF Divides
<1>2. /\ i \in 1..Len(fs) /\ i + 1 \in 1..Len(fs) /\ n \in 1..Len(fs) /\ i + 1 <= n
      /\ i < Len(fs) /\ i < Len(gs) /\ i \in 1..n /\ i + 1 \in 1..n /\ i + 1 \in 1..Len(gs)
  BY <1>1
<1>3. a \in 0..b /\ b \in 0..Len(s) /\ b <= fs[n].base_sp /\ fs[n].base_sp \in Nat
  <2>1. a \in 0..Len(s) /\ b \in 0..Len(s) /\ fs[n].base_sp \in 0..Len(s)
    BY <1>2 DEF Divides
  <2>2. i <= i + 1 => a <= b
    BY <1>2 DEF Divides
  <2>3. b <= fs[n].base_sp
    BY <1>2 DEF Divides
  <2> QED
    BY <1>1, <2>1, <2>2, <2>3
<1>4. gs[i].base_sp = a /\ gs[i + 1].base_sp = b /\ b <= Len(t)
  BY <1>1, <1>2 DEF Divides
<1>5. \A k \in 1..b : s[k] = t[k]
  BY <1>3
<1>6. SubSeq(s, a + 1, b) = SubSeq(t, a + 1, b)
  <2> HIDE DEF a, b
  <2> QED
    BY <1>1, <1>3, <1>4, <1>5, SliceSame
<1> QED
  BY <1>2, <1>4, <1>6 DEF ShareOf

-----------------------------------------------------------------------------
(* Each step of the VM                                                      *)

LEMMA WorksMaps ==
  ASSUME StackInv, StackInv', Running, Works, UNCHANGED <<funcs, before>>
  PROVE  Private!Work
<1> DEFINE n == Len(frames)
<1>1. n \in Nat /\ n > 0 /\ Len(frames') = n /\ frames' # <<>>
  BY RunningFacts, SeqFacts DEF Works, SameFrames
<1>2. /\ \A i \in 1..n : frames'[i].base_sp = frames[i].base_sp
      /\ \A k \in 1..frames[n].base_sp : eval_stack'[k] = eval_stack[k]
  BY DEF Works, SameFrames, Kept, Top, Last
<1>3. Divides(frames, eval_stack) /\ Divides(frames', eval_stack')
  BY DividedNow, DividedThen
<1>4. \A i \in 1..n - 1 :
        ShareOf(frames, eval_stack, i) = ShareOf(frames', eval_stack', i)
  BY <1>1, <1>2, <1>3, ShareSame
<1>5. \A i \in 1..n - 1 : SharesOfStack[i] = SharesOfStack'[i]
  BY <1>1, <1>4, SharesNow, SharesThen DEF AreShares
<1>6. Front(SharesOfStack') = Front(SharesOfStack)
  <2>1. SubSeq(SharesOfStack, 1, n - 1) = Front(SharesOfStack')
    BY <1>1, <1>5, SharesNow, SharesThen, FrontSame DEF AreShares
  <2> QED
    BY <2>1, SharesNow DEF Front, AreShares
<1>7. SharesOfStack # <<>> /\ Len(SharesOfStack') = Len(SharesOfStack)
  BY <1>1, SharesNow, SharesThen, SeqFacts DEF AreShares
<1>8. BelowFrames' = BelowFrames
  <2>1. Running' /\ BelowFrames = before
    BY <1>1, LeftNow DEF Running
  <2>2. BelowFrames' = before'
    BY <2>1, LeftThen
  <2> QED
    BY <2>1, <2>2
<1> QED
  BY <1>6, <1>7, <1>8 DEF Private!Work, Private!CallersKept, Private!Front, Front

\* The top frame's share, with fewer of its operands.
LEMMA ShareCut ==
  ASSUME NEW s, IsSeq(s), NEW n \in 0..Len(s), NEW b \in 0..n, NEW t,
         IsSeq(t), Len(t) = n, \A i \in 1..n : t[i] = s[i]
  PROVE  SubSeq(SubSeq(s, b + 1, Len(s)), 1, n - b) = SubSeq(t, b + 1, n)
<1>1. Len(s) \in 0..Len(s) /\ b \in 0..Len(s) /\ Len(s) \in Nat /\ n \in 0..Len(t)
  BY SeqFacts
<1> DEFINE u == SubSeq(s, b + 1, Len(s))
           v == SubSeq(t, b + 1, n)
<1>2. IsSeq(u) /\ Len(u) = Len(s) - b /\ \A i \in 1..Len(s) - b : u[i] = s[b + i]
  BY <1>1, SliceFacts
<1>3. IsSeq(v) /\ Len(v) = n - b /\ \A i \in 1..n - b : v[i] = t[b + i]
  BY <1>1, SliceFacts
<1>4. \A i \in 1..n - b : i \in 1..Len(s) - b /\ b + i \in 1..n
  BY <1>1
<1> HIDE DEF u, v
<1>5. n - b \in 0..Len(u)
  BY <1>1, <1>2
<1>6. /\ IsSeq(SubSeq(u, 1, n - b)) /\ Len(SubSeq(u, 1, n - b)) = n - b
      /\ \A i \in 1..n - b : SubSeq(u, 1, n - b)[i] = u[i]
  BY <1>2, <1>5, CutFacts
<1>7. \A i \in 1..n - b : SubSeq(u, 1, n - b)[i] = v[i]
  BY <1>2, <1>3, <1>4, <1>6
<1>8. SubSeq(u, 1, n - b) = v
  BY <1>3, <1>6, <1>7, SameSeq
<1> QED
  BY <1>8 DEF u, v

\* What a call does to the shares.
LEMMA CallShares ==
  ASSUME NEW fs, NEW s, NEW S, AreShares(S, fs, s),
         NEW gs, NEW t, NEW T, AreShares(T, gs, t),
         Len(fs) \in Nat, Len(fs) > 0, Len(gs) = Len(fs) + 1,
         \A i \in 1..Len(fs) : gs[i].base_sp = fs[i].base_sp,
         Len(t) \in Nat, gs[Len(fs) + 1].base_sp = Len(t),
         fs[Len(fs)].base_sp <= Len(t), Len(t) <= Len(s),
         \A k \in 1..Len(t) : t[k] = s[k]
  PROVE  /\ Len(t) - fs[Len(fs)].base_sp \in 0..Len(S[Len(fs)])
         /\ \A i \in 1..Len(fs) - 1 : T[i] = S[i]
         /\ T[Len(fs)] = SubSeq(S[Len(fs)], 1, Len(t) - fs[Len(fs)].base_sp)
         /\ T[Len(fs) + 1] = <<>>
<1>types. fs[Len(fs)].base_sp \in Nat /\ Len(s) \in Nat
  BY SeqFacts DEF AreShares, Divides
<1> PICK m \in Nat, n \in Nat, b \in Nat :
      m = Len(fs) /\ n = Len(t) /\ b = fs[Len(fs)].base_sp
  BY <1>types
<1>bases. \A i \in 1..m : gs[i].base_sp = fs[i].base_sp
  OBVIOUS
<1>given. /\ m > 0 /\ Len(gs) = m + 1 /\ b = fs[m].base_sp /\ n \in b..Len(s)
          /\ gs[m + 1].base_sp = n
          /\ \A k \in 1..n : t[k] = s[k]
  BY <1>types
<1>0. /\ Divides(fs, s) /\ Divides(gs, t)
      /\ \A i \in 1..m : S[i] = ShareOf(fs, s, i)
      /\ \A i \in 1..m + 1 : T[i] = ShareOf(gs, t, i)
  BY <1>given DEF AreShares
<1>1. IsSeq(s) /\ IsSeq(t) /\ Len(s) \in Nat /\ b \in 0..Len(s)
  <2>1. IsSeq(s) /\ IsSeq(t) /\ m \in 1..m
    BY <1>0 DEF Divides
  <2> QED
    BY <1>0, <2>1, SeqFacts DEF Divides
<1>2. n \in 0..Len(s) /\ b \in 0..n /\ n \in Nat /\ b \in Nat
  BY <1>1
<1>3. \A i \in 1..m - 1 : T[i] = S[i]
  <2>1. \A k \in 1..fs[m].base_sp : t[k] = s[k]
    BY <1>2
  <2>2. m <= Len(fs) /\ m <= Len(gs)
    BY <1>given
  <2>3. \A i \in 1..m - 1 : ShareOf(fs, s, i) = ShareOf(gs, t, i)
    BY ONLY <1>0, <1>bases, <2>1, <2>2, ShareSame, m \in Nat
  <2>4. \A i \in 1..m - 1 : i \in 1..m /\ i \in 1..m + 1
    OBVIOUS
  <2> QED
    BY ONLY <1>0, <2>3, <2>4
<1>4. S[m] = SubSeq(s, b + 1, Len(s))
  <2>1. S[m] = ShareOf(fs, s, m) /\ ~(m < Len(fs)) /\ fs[m].base_sp = b
    BY <1>0
  <2> QED
    BY ONLY <2>1 DEF ShareOf
<1>5. T[m] = SubSeq(S[m], 1, n - b)
  <2>1. T[m] = SubSeq(t, b + 1, n)
    <3>1. gs[m].base_sp = b /\ m < Len(gs) /\ m \in 1..m + 1
      OBVIOUS
    <3> QED
      BY <1>0, <3>1 DEF ShareOf
  <2>2. SubSeq(SubSeq(s, b + 1, Len(s)), 1, n - b) = SubSeq(t, b + 1, n)
    BY ONLY <1>1, <1>2, ShareCut, n = Len(t), \A k \in 1..n : t[k] = s[k]
  <2> QED
    BY <1>4, <2>1, <2>2
<1>6. T[m + 1] = <<>>
  <2>1. T[m + 1] = SubSeq(t, n + 1, n)
    BY <1>0 DEF ShareOf
  <2> QED
    BY <1>2, <2>1, SubSeqEmpty
<1>7. n - b \in 0..Len(S[m])
  <2>1. Len(S[m]) = Len(s) - b
    <3>1. Len(s) \in 0..Len(s) /\ b \in 0..Len(s)
      BY <1>1
    <3> QED
      BY <1>1, <1>4, <3>1, SliceFacts
  <2> QED
    BY <1>1, <1>2, <2>1
<1> QED
  BY <1>3, <1>5, <1>6, <1>7

LEMMA CallsMaps ==
  ASSUME StackInv, StackInv', Running, Calls, UNCHANGED <<funcs, before>>
  PROVE  Private!CallFunction
<1> PICK n \in Nat : \E fr :
      /\ n \in Top.base_sp..Len(eval_stack)
      /\ frames' = Append(frames, fr) /\ fr.base_sp = n
      /\ eval_stack' = CutTo(n)
  BY RunningFacts DEF Calls
<1> PICK fr :
      /\ n \in Top.base_sp..Len(eval_stack)
      /\ frames' = Append(frames, fr) /\ fr.base_sp = n
      /\ eval_stack' = CutTo(n)
  OBVIOUS
<1> PICK m \in Nat, b \in Nat : m = Len(frames) /\ b = Top.base_sp
  BY RunningFacts
<1>1. m > 0 /\ frames[m].base_sp = b
  BY RunningFacts DEF Top, Last
<1>2. /\ Len(frames') = m + 1 /\ \A i \in 1..m : frames'[i] = frames[i]
      /\ frames'[m + 1] = fr /\ frames' # <<>>
  BY <1>1, AppendFacts, SeqFacts DEF StackInv, FramesOK
<1>3. Len(eval_stack') = n /\ \A k \in 1..n : eval_stack'[k] = eval_stack[k]
  BY CutKept
<1>4. /\ AreShares(SharesOfStack, frames, eval_stack)
      /\ AreShares(SharesOfStack', frames', eval_stack')
  BY SharesNow, SharesThen
<1>5. IsSeq(SharesOfStack) /\ Len(SharesOfStack) = m
  BY <1>4 DEF AreShares
<1>6. IsSeq(SharesOfStack') /\ Len(SharesOfStack') = m + 1
  BY <1>2, <1>4 DEF AreShares
<1>7. /\ n - b \in 0..Len(SharesOfStack[m])
      /\ \A i \in 1..m - 1 : SharesOfStack'[i] = SharesOfStack[i]
      /\ SharesOfStack'[m] = SubSeq(SharesOfStack[m], 1, n - b)
      /\ SharesOfStack'[m + 1] = <<>>
  <2>1. /\ m \in Nat /\ m > 0 /\ m = Len(frames) /\ Len(frames') = m + 1
        /\ b = frames[m].base_sp /\ n \in b..Len(eval_stack) /\ b \in Nat /\ n \in Nat
        /\ frames'[m + 1].base_sp = n
        /\ \A i \in 1..m : frames'[i].base_sp = frames[i].base_sp
    BY <1>1, <1>2, RunningFacts
  <2> PICK S, T, s, t, gs :
        /\ S = SharesOfStack /\ T = SharesOfStack' /\ s = eval_stack /\ t = eval_stack'
        /\ gs = frames'
    OBVIOUS
  <2>2. AreShares(S, frames, s) /\ AreShares(T, gs, t)
    BY <1>4
  <2>3. n = Len(t) /\ (\A k \in 1..n : t[k] = s[k])
    BY <1>3
  <2>4. /\ m = Len(frames) /\ m > 0 /\ Len(gs) = m + 1
        /\ \A i \in 1..m : gs[i].base_sp = frames[i].base_sp
        /\ b = frames[m].base_sp /\ n \in b..Len(s) /\ gs[m + 1].base_sp = n
    BY <2>1
  <2>5. /\ n - b \in 0..Len(S[m])
        /\ \A i \in 1..m - 1 : T[i] = S[i]
        /\ T[m] = SubSeq(S[m], 1, n - b) /\ T[m + 1] = <<>>
    <3>1. /\ Len(frames) \in Nat /\ Len(frames) > 0 /\ Len(gs) = Len(frames) + 1
          /\ \A i \in 1..Len(frames) : gs[i].base_sp = frames[i].base_sp
          /\ Len(t) \in Nat /\ gs[Len(frames) + 1].base_sp = Len(t)
          /\ frames[Len(frames)].base_sp <= Len(t) /\ Len(t) <= Len(s)
          /\ \A k \in 1..Len(t) : t[k] = s[k]
      BY ONLY <2>3, <2>4, m \in Nat, n \in Nat, b \in Nat
    <3>2. /\ Len(t) - frames[Len(frames)].base_sp \in 0..Len(S[Len(frames)])
          /\ \A i \in 1..Len(frames) - 1 : T[i] = S[i]
          /\ T[Len(frames)] = SubSeq(S[Len(frames)], 1, Len(t) - frames[Len(frames)].base_sp)
          /\ T[Len(frames) + 1] = <<>>
      BY ONLY <2>2, <3>1, CallShares
    <3> QED
      BY ONLY <2>3, <2>4, <3>2
  <2> QED
    BY <2>5
<1> PICK v, R : /\ v = SubSeq(SharesOfStack[m], 1, n - b)
                /\ R = [SharesOfStack EXCEPT ![m] = v]
  OBVIOUS
<1>8. IsSeq(R) /\ Len(R) = m /\ \A i \in 1..m : R[i] = IF i = m THEN v ELSE SharesOfStack[i]
  <2> DEFINE All == Range(SharesOfStack) \cup {v}
  <2>1. SharesOfStack \in Seq(All) /\ v \in All /\ m \in 1..Len(SharesOfStack)
    BY <1>1, <1>5, SeqMonotonic DEF IsSeq
  <2> HIDE DEF All
  <2>2. R \in Seq(All) /\ Len(R) = m
        /\ \A i \in 1..m : R[i] = IF i = m THEN v ELSE SharesOfStack[i]
    BY <1>5, <2>1, ExceptSeq
  <2>3. IsSeq(R)
    BY ONLY <2>2, AnySeq
  <2> QED
    BY <2>2, <2>3
<1>9. /\ IsSeq(Append(R, <<>>)) /\ Len(Append(R, <<>>)) = m + 1
      /\ \A i \in 1..m : Append(R, <<>>)[i] = R[i]
      /\ Append(R, <<>>)[m + 1] = <<>>
  BY <1>8, AppendFacts
<1>10. \A i \in 1..m + 1 : SharesOfStack'[i] = Append(R, <<>>)[i]
  <2>1. \A i \in 1..m + 1 : i \in 1..m - 1 \/ i = m \/ i = m + 1
    BY <1>1
  <2> QED
    <3>1. \A i \in 1..m - 1 : i \in 1..m /\ i # m
      BY <1>1
    <3>2. m \in 1..m
      BY <1>1
    <3> QED
      BY ONLY <1>7, <1>8, <1>9, <2>1, <3>1, <3>2, v = SubSeq(SharesOfStack[m], 1, n - b)
<1>11. SharesOfStack' = Append(R, <<>>)
  BY <1>6, <1>9, <1>10, SameSeq
<1>12. SharesOfStack # <<>>
  BY <1>1, <1>5, SeqFacts
<1>13. BelowFrames' = BelowFrames
  BY <1>2, LeftNow, LeftThen DEF Running
<1> QED
  BY <1>5, <1>7, <1>11, <1>12, <1>13
     DEF Private!CallFunction, Private!Current, Private!Last

\* What a return into a caller does to the shares.
LEMMA ReturnShares ==
  ASSUME NEW fs, NEW s, NEW S, AreShares(S, fs, s),
         NEW gs, NEW t, NEW T, AreShares(T, gs, t),
         Len(gs) \in Nat, Len(gs) > 0, Len(fs) = Len(gs) + 1,
         \A i \in 1..Len(gs) : gs[i].base_sp = fs[i].base_sp,
         Len(t) = fs[Len(fs)].base_sp + 1,
         \A k \in 1..fs[Len(fs)].base_sp : t[k] = s[k]
  PROVE  /\ \A i \in 1..Len(gs) - 1 : T[i] = S[i]
         /\ SubSeq(T[Len(gs)], 1, Len(T[Len(gs)]) - 1) = S[Len(gs)]
<1>types. fs[Len(fs)].base_sp \in 0..Len(s) /\ Len(s) \in Nat
  BY SeqFacts DEF AreShares, Divides
<1> PICK m \in Nat, b \in Nat : m = Len(gs) /\ b = fs[Len(fs)].base_sp
  BY <1>types
<1>bases. \A i \in 1..m : gs[i].base_sp = fs[i].base_sp
  OBVIOUS
<1>given. /\ m > 0 /\ Len(fs) = m + 1 /\ b = fs[m + 1].base_sp /\ b \in 0..Len(s)
          /\ Len(t) = b + 1 /\ \A k \in 1..b : t[k] = s[k]
  BY <1>types
<1>0. /\ Divides(fs, s) /\ Divides(gs, t)
      /\ \A i \in 1..m + 1 : S[i] = ShareOf(fs, s, i)
      /\ \A i \in 1..m : T[i] = ShareOf(gs, t, i)
  BY <1>given DEF AreShares
<1>1. IsSeq(s) /\ IsSeq(t) /\ m \in 1..m + 1 /\ m \in 1..m /\ m + 1 \in 1..m + 1
  BY <1>0, <1>given DEF Divides
<1>2. fs[m].base_sp \in 0..b /\ fs[m].base_sp \in Nat
  <2>1. fs[m].base_sp \in 0..Len(s) /\ (m <= m + 1 => fs[m].base_sp <= fs[m + 1].base_sp)
    BY <1>0, <1>1, <1>given DEF Divides
  <2> QED
    BY <1>given, <1>types, <2>1
<1>3. \A i \in 1..m - 1 : T[i] = S[i]
  <2>1. \A k \in 1..fs[m].base_sp : t[k] = s[k]
    <3>1. \A k \in 1..b : t[k] = s[k]
      BY <1>given
    <3> QED
      BY ONLY <1>2, <3>1, b \in Nat
  <2>2. m <= Len(fs) /\ m <= Len(gs)
    BY <1>given
  <2>3. \A i \in 1..m - 1 : ShareOf(fs, s, i) = ShareOf(gs, t, i)
    BY ONLY <1>0, <1>bases, <2>1, <2>2, ShareSame, m \in Nat
  <2>4. \A i \in 1..m - 1 : i \in 1..m /\ i \in 1..m + 1
    OBVIOUS
  <2> QED
    BY ONLY <1>0, <2>3, <2>4
<1> PICK c \in Nat : c = fs[m].base_sp
  BY <1>2
<1>4. S[m] = SubSeq(s, c + 1, b)
  <2>1. S[m] = ShareOf(fs, s, m) /\ m < Len(fs) /\ fs[m + 1].base_sp = b
    BY <1>0, <1>1, <1>given
  <2> QED
    BY <2>1 DEF ShareOf
<1>5. T[m] = SubSeq(t, c + 1, b + 1)
  <2>1. T[m] = ShareOf(gs, t, m) /\ ~(m < Len(gs)) /\ gs[m].base_sp = c
    BY <1>0, <1>1, <1>bases
  <2> QED
    BY <1>given, <2>1 DEF ShareOf
<1>6. Len(T[m]) - 1 = b - c
  <2>1. b + 1 \in 0..Len(t) /\ c \in 0..b + 1
    BY <1>2, <1>given
  <2> QED
    <3>1. Len(SubSeq(t, c + 1, b + 1)) = b + 1 - c
      BY ONLY <1>1, <2>1, SliceFacts
    <3> QED
      BY ONLY <1>5, <3>1, b \in Nat, c \in Nat
<1>7. SubSeq(SubSeq(t, c + 1, b + 1), 1, b - c) = SubSeq(s, c + 1, b)
  <2> DEFINE u == SubSeq(t, 1, b)
  <2>1. IsSeq(u) /\ Len(u) = b /\ \A k \in 1..b : u[k] = t[k]
    BY <1>1, <1>given, CutFacts
  <2> HIDE DEF u
  <2>2. b \in 0..Len(t) /\ c \in 0..b /\ Len(t) = b + 1
    BY <1>2, <1>given
  <2>3. SubSeq(SubSeq(t, c + 1, Len(t)), 1, b - c) = SubSeq(u, c + 1, b)
    BY ONLY <1>1, <2>1, <2>2, ShareCut
  <2>4. \A k \in 1..b : u[k] = s[k]
    BY <1>given, <2>1
  <2>5. SubSeq(u, c + 1, b) = SubSeq(s, c + 1, b)
    <3>1. b \in 0..Len(u) /\ b <= Len(s)
      BY <1>given, <2>1
    <3> QED
      BY ONLY <1>1, <2>1, <2>2, <2>4, <3>1, SliceSame
  <2> QED
    BY <2>2, <2>3, <2>5
<1> QED
  BY <1>3, <1>4, <1>5, <1>6, <1>7

LEMMA ReturnsMaps ==
  ASSUME StackInv, StackInv', Running, Returns, UNCHANGED <<funcs, before>>
  PROVE  Private!Return
<1> PICK S, T : S = SharesOfStack /\ T = SharesOfStack'
  OBVIOUS
<1> PICK m \in Nat : Len(frames) = m + 1
  <2>1. Len(frames) - 1 \in Nat /\ Len(frames) = Len(frames) - 1 + 1
    BY RunningFacts
  <2> QED
    BY <2>1
<1>1. /\ m > 0 /\ Len(frames') = m /\ frames' # <<>>
      /\ \A i \in 1..m : frames'[i].base_sp = frames[i].base_sp
      /\ Top = frames[Len(frames)] /\ Top.base_sp \in Nat
  BY RunningFacts, SeqFacts DEF Returns, SameFrames, Top, Last
<1> PICK v : eval_stack' = Append(CutTo(Top.base_sp), v)
  BY DEF Returns
<1>2. /\ Len(eval_stack') = Top.base_sp + 1
      /\ \A k \in 1..Top.base_sp : eval_stack'[k] = eval_stack[k]
  <2>1. Top.base_sp \in Top.base_sp..Len(eval_stack)
    BY RunningFacts
  <2>2. /\ IsSeq(CutTo(Top.base_sp)) /\ Len(CutTo(Top.base_sp)) = Top.base_sp
        /\ \A k \in 1..Top.base_sp : CutTo(Top.base_sp)[k] = eval_stack[k]
    BY <2>1, CutKept
  <2> QED
    BY <2>2, AppendFacts
<1>3. AreShares(S, frames, eval_stack) /\ AreShares(T, frames', eval_stack')
  BY SharesNow, SharesThen
<1>4. IsSeq(S) /\ Len(S) = m + 1 /\ IsSeq(T) /\ Len(T) = m
  BY <1>1, <1>3 DEF AreShares
<1>5. /\ \A i \in 1..m - 1 : T[i] = S[i]
      /\ SubSeq(T[m], 1, Len(T[m]) - 1) = S[m]
  <2>1. /\ Len(frames') \in Nat /\ Len(frames') > 0 /\ Len(frames) = Len(frames') + 1
        /\ \A i \in 1..Len(frames') : frames'[i].base_sp = frames[i].base_sp
        /\ Len(eval_stack') = frames[Len(frames)].base_sp + 1
        /\ \A k \in 1..frames[Len(frames)].base_sp : eval_stack'[k] = eval_stack[k]
    BY <1>1, <1>2
  <2>2. /\ \A i \in 1..Len(frames') - 1 : T[i] = S[i]
        /\ SubSeq(T[Len(frames')], 1, Len(T[Len(frames')]) - 1) = S[Len(frames')]
    BY ONLY <1>3, <2>1, ReturnShares
  <2> QED
    BY <1>1, <2>2
<1>6. Private!Front(S) = SubSeq(S, 1, m) /\ Private!Front(T) = SubSeq(T, 1, m - 1)
  BY <1>4 DEF Private!Front
<1>7. /\ IsSeq(SubSeq(S, 1, m)) /\ Len(SubSeq(S, 1, m)) = m
      /\ \A i \in 1..m : SubSeq(S, 1, m)[i] = S[i]
  <2>1. m \in 0..Len(S)
    BY <1>4
  <2> QED
    BY <1>4, <2>1, CutFacts
<1>8. Private!Last(SubSeq(S, 1, m)) = S[m]
  BY <1>1, <1>7 DEF Private!Last
<1>9. Private!Front(SubSeq(S, 1, m)) = SubSeq(T, 1, m - 1)
  <2>1. \A i \in 1..m - 1 : i \in 1..m
    OBVIOUS
  <2>2. \A i \in 1..m - 1 : T[i] = SubSeq(S, 1, m)[i]
    BY <1>5, <1>7, <2>1
  <2>3. SubSeq(T, 1, m - 1) = Front(SubSeq(S, 1, m))
    <3> PICK U : U = SubSeq(S, 1, m)
      OBVIOUS
    <3>1. IsSeq(U) /\ Len(U) = m /\ IsSeq(T) /\ Len(T) >= m /\ m > 0
      BY <1>1, <1>4, <1>7
    <3>2. \A i \in 1..m - 1 : T[i] = U[i]
      BY <2>2
    <3>3. SubSeq(T, 1, m - 1) = Front(U)
      BY ONLY <3>1, <3>2, m \in Nat, FrontSame
    <3> QED
      BY <3>3
  <2> QED
    BY <2>3 DEF Front, Private!Front
<1>10. Private!Front(Private!Last(T)) = S[m]
  BY <1>4, <1>5 DEF Private!Front, Private!Last
<1>11. BelowFrames' = BelowFrames
  BY <1>1, LeftNow, LeftThen DEF Running
<1>12. Len(S) > 1 /\ Len(T) = Len(S) - 1
  BY <1>1, <1>4
<1> QED
  BY <1>6, <1>8, <1>9, <1>10, <1>11, <1>12 DEF Private!Return

LEMMA EndsMap ==
  ASSUME StackInv, StackInv', Running, Raises \/ Finishes, UNCHANGED <<funcs, before>>
  PROVE  Private!Throw \/ Private!Finish
<1>1. SharesOfStack # <<>> /\ Len(SharesOfStack) = Len(frames)
  BY RunningFacts, SharesNow, SeqFacts DEF AreShares
<1>2. frames' = <<>> /\ ~Running'
  BY DEF Raises, Finishes, Running
<1>3. SharesOfStack' = <<>>
  BY <1>2, SharesThen, SeqFacts DEF AreShares
<1>4. BelowFrames = before /\ BelowFrames' = eval_stack'
  BY <1>2, LeftNow DEF BelowFrames
<1>5. CASE Raises
  <2>1. IsPrefix(before, eval_stack')
    BY <1>5, BeforeKept DEF Raises
  <2> QED
    BY <1>1, <1>3, <1>4, <2>1 DEF Private!Throw, Private!IsPrefix, IsPrefix
<1>6. CASE Finishes
  <2>1. eval_stack' = before
    BY <1>6 DEF Finishes, StackInv
  <2> QED
    BY <1>1, <1>3, <1>4, <1>6, <2>1 DEF Private!Finish, Finishes
<1> QED
  BY <1>5, <1>6

LEMMA ExecuteMaps ==
  ASSUME StackInv, StackInv', NEW f \in 0..Len(funcs), Execute(f)
  PROVE  Private!Begin \/ UNCHANGED Private!privateStacksVars
<1>1. frames = <<>> /\ ~Running /\ UNCHANGED <<funcs, eval_stack>>
  BY DEF Execute, Running
<1>2. SharesOfStack = <<>>
  BY <1>1, SharesNow, SeqFacts DEF AreShares
<1>3. CASE Valid(f, Len(funcs))
  <2> PICK fr : frames' = <<fr>> /\ fr.base_sp = Len(eval_stack)
    BY <1>3 DEF Execute, NewFrame
  <2>1. Len(frames') = 1 /\ frames'[1] = fr /\ frames' # <<>> /\ Len(eval_stack) \in Nat
    BY SeqFacts DEF StackInv
  <2>2. SharesOfStack'[1] = <<>>
    <3>1. SharesOfStack'[1] = ShareOf(frames', eval_stack', 1)
      BY <1>1, <2>1, SharesThen DEF AreShares
    <3>2. ShareOf(frames', eval_stack', 1)
            = SubSeq(eval_stack, Len(eval_stack) + 1, Len(eval_stack))
      BY <1>1, <2>1 DEF ShareOf
    <3> QED
      BY <2>1, <3>1, <3>2, SubSeqEmpty
  <2>3. SharesOfStack' = << <<>> >>
    <3>1. IsSeq(SharesOfStack') /\ Len(SharesOfStack') = 1
      BY <1>1, <2>1, SharesThen DEF AreShares
    <3>2. << <<>> >> \in Seq({<<>>}) /\ Len(<< <<>> >>) = 1 /\ << <<>> >>[1] = <<>>
      OBVIOUS
    <3>3. IsSeq(<< <<>> >>)
      BY <3>2, AnySeq
    <3>4. \A i \in 1..1 : SharesOfStack'[i] = << <<>> >>[i]
      BY <2>2, <3>2
    <3> QED
      BY <3>1, <3>2, <3>3, <3>4, SameSeq
  <2>4. BelowFrames' = BelowFrames
    <3>1. BelowFrames' = SubSeq(eval_stack, 1, Len(eval_stack)) /\ BelowFrames = eval_stack
      BY <1>1, <2>1 DEF BelowFrames, Running, CutTo
    <3> QED
      BY <3>1, SubSeqFull DEF StackInv, IsSeq
  <2> QED
    BY <1>2, <2>3, <2>4 DEF Private!Begin
<1>4. CASE ~Valid(f, Len(funcs))
  <2>1. UNCHANGED frames
    BY <1>4 DEF Execute
  <2> QED
    BY <1>1, <2>1
       DEF Private!privateStacksVars, SharesOfStack, BelowFrames, Running, CutTo
<1> QED
  BY <1>3, <1>4

-----------------------------------------------------------------------------

\* Whatever the bytecode, the one stack is as good as one for each frame: the
\* VM's steps are those of PrivateStacks, or leave all the stacks as they are.
THEOREM StacksArePrivate == Spec => ImplementsPrivateStacks
<1>1. Init => Private!PrivateStacksInit
  <2> SUFFICES ASSUME Init PROVE Private!PrivateStacksInit
    OBVIOUS
  <2>1. StackInv /\ frames = <<>> /\ eval_stack = <<>>
    BY InitWellFormed, StackInit DEF VMInit
  <2>2. SharesOfStack = <<>> /\ BelowFrames = <<>>
    BY <2>1, SharesNow, SeqFacts DEF AreShares, BelowFrames, Running
  <2> QED
    BY <2>2 DEF Private!PrivateStacksInit
<1>2. StackInv /\ StackInv' /\ [Next]_vmVars
        => [Private!PrivateStacksNext]_(Private!privateStacksVars)
  <2> SUFFICES ASSUME StackInv, StackInv', [Next]_vmVars
               PROVE  Private!PrivateStacksNext \/ UNCHANGED Private!privateStacksVars
    OBVIOUS
  <2>1. CASE Step
    <3>1. Running /\ OneOfThese /\ UNCHANGED <<funcs, before>>
      BY <2>1, StepKinds
    <3> QED
      BY <3>1, WorksMaps, CallsMaps, ReturnsMaps, EndsMap
         DEF OneOfThese, Private!PrivateStacksNext
  <2>2. CASE \E f \in 0..Len(funcs) : Execute(f)
    BY <2>2, ExecuteMaps DEF Private!PrivateStacksNext
  <2>3. CASE Killed \/ UNCHANGED vmVars
    BY <2>3
       DEF Killed, vmVars, Private!privateStacksVars, SharesOfStack, BelowFrames, Running,
           CutTo
  <2> QED
    BY <2>1, <2>2, <2>3 DEF Next
<1> QED
  BY <1>1, <1>2, StackInvHolds, PTL
     DEF Spec, ImplementsPrivateStacks, Private!PrivateStacksSpec
=============================================================================
