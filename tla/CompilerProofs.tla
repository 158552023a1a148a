--------------------------- MODULE CompilerProofs ---------------------------
(***************************************************************************)
(* What compile_unit makes is well made, for every syntax tree.            *)
(*                                                                         *)
(* The argument follows the text of a function being compiled.  Sound says *)
(* that each instruction emitted so far finds its operands, and that a jump*)
(* goes to a place of the same height; a jump that is not patched yet has  *)
(* the target 0, where the height is 0.  An expression adds one operand to *)
(* the height, a statement none, and what was emitted before them stays.   *)
(***************************************************************************)
EXTENDS ScriptRuns, VMGuards

\* The height at the end of the code.
Height(bf) == Heights(bf.code)[Here(bf)]

Jumps == {"JMP", "JMP_IF_FALSE"}

\* What is asked of instruction i when there are h operands and the code before
\* it is that of bf.
Fits(bf, i, h) ==
  /\ i.op # "ADD" /\ Takes(i) \in 0..h
  /\ i.op = "PUSH_CONST" => Valid(i.a, Len(bf.consts))
  /\ i.op \in {"PUSH_LOCAL", "STORE_LOCAL"} => Valid(i.a, Len(bf.locals))
  /\ i.op = "CALL" => i.b \in {-2, -1} /\ i.a \in Nat
  /\ i.op \in Jumps =>
       i.a \in 0..Len(bf.code) /\ Heights(bf.code)[i.a] = NextHeight(i, h)

Sound(bf) == \A k \in 1..Len(bf.code) : Fits(bf, bf.code[k], Heights(bf.code)[k - 1])

\* Unless compile_unit has thrown, the code is sound and ends at height h.
Stands(bf, h) == bf \in Func /\ (bf.ok => Sound(bf) /\ Height(bf) = h)

\* out extends bf.
Grows(bf, out) ==
  /\ bf \in Func /\ out \in Func /\ (out.ok => bf.ok)
  /\ Len(bf.code) <= Len(out.code)
  /\ \A k \in 1..Len(bf.code) : out.code[k] = bf.code[k]
  /\ Len(bf.consts) <= Len(out.consts) /\ Len(bf.locals) <= Len(out.locals)

\* What is compiled with h operands on the stack leaves k.
Leads(bf, h, out, k) == Grows(bf, out) /\ (Stands(bf, h) => Stands(out, k))

\* A jump at position pos with no operands behind it.
Jump(bf, pos) ==
  /\ pos \in 1..Here(bf) /\ bf.code[pos].op \in Jumps
  /\ bf.ok => Heights(bf.code)[pos] = 0

-----------------------------------------------------------------------------
(* Functions being compiled                                                 *)

LEMMA FuncFacts ==
  ASSUME NEW bf \in Func
  PROVE  /\ bf.ok \in BOOLEAN /\ bf.code \in Seq(Op) /\ bf.consts \in Seq(Value)
         /\ bf.locals \in Seq(STRING)
         /\ Len(bf.code) \in Nat /\ Len(bf.consts) \in Nat /\ Len(bf.locals) \in Nat
         /\ \A k \in 1..Len(bf.code) : bf.code[k] \in Op
<1>1. /\ bf.ok \in BOOLEAN /\ bf.code \in Seq(Op) /\ bf.consts \in Seq(Value)
      /\ bf.locals \in Seq(STRING)
  BY DEF Func
<1>2. Len(bf.code) \in Nat /\ Len(bf.consts) \in Nat /\ Len(bf.locals) \in Nat
  BY <1>1, LenProperties
<1> QED
  BY <1>1, <1>2, ElementOfSeq

LEMMA GrowsSame == \A bf \in Func : Grows(bf, bf)
  BY FuncFacts DEF Grows

LEMMA GrowsOn ==
  ASSUME NEW x, NEW y, NEW z, Grows(x, y), Grows(y, z)
  PROVE  Grows(x, z)
<1>1. x \in Func /\ y \in Func /\ z \in Func
  BY DEF Grows
<1>2. /\ Len(x.code) \in Nat /\ Len(y.code) \in Nat /\ Len(z.code) \in Nat
      /\ Len(x.consts) \in Nat /\ Len(y.consts) \in Nat /\ Len(z.consts) \in Nat
      /\ Len(x.locals) \in Nat /\ Len(y.locals) \in Nat /\ Len(z.locals) \in Nat
  BY <1>1, FuncFacts
<1>3. \A k \in 1..Len(x.code) : z.code[k] = x.code[k]
  <2> TAKE k \in 1..Len(x.code)
  <2>1. k \in 1..Len(y.code)
    BY <1>2 DEF Grows
  <2>2. y.code[k] = x.code[k] /\ z.code[k] = y.code[k]
    BY <2>1 DEF Grows
  <2> QED
    BY <2>2
<1>4. z.ok => x.ok
  BY DEF Grows
<1>5. /\ Len(x.code) <= Len(z.code) /\ Len(x.consts) <= Len(z.consts)
      /\ Len(x.locals) <= Len(z.locals)
  <2>1. /\ Len(x.code) <= Len(y.code) /\ Len(y.code) <= Len(z.code)
        /\ Len(x.consts) <= Len(y.consts) /\ Len(y.consts) <= Len(z.consts)
        /\ Len(x.locals) <= Len(y.locals) /\ Len(y.locals) <= Len(z.locals)
    BY DEF Grows
  <2> QED
    BY ONLY <1>2, <2>1
<1> QED
  BY <1>1, <1>3, <1>4, <1>5 DEF Grows

\* Code of the same shape has the same heights: targets of jumps do not matter.
LEMMA SameHeights ==
  ASSUME NEW c \in Seq(Op), NEW d \in Seq(Op), NEW n \in Nat, n <= Len(c), n <= Len(d),
         \A k \in 1..n : d[k].op = c[k].op /\ Takes(d[k]) = Takes(c[k])
  PROVE  \A k \in 0..n : Heights(d)[k] = Heights(c)[k]
<1>1. Len(c) \in Nat /\ Len(d) \in Nat
  BY LenProperties
<1>2. /\ Heights(c)[0] = 0 /\ Heights(d)[0] = 0
      /\ \A k \in 1..Len(c) : Heights(c)[k] = NextHeight(c[k], Heights(c)[k - 1])
      /\ \A k \in 1..Len(d) : Heights(d)[k] = NextHeight(d[k], Heights(d)[k - 1])
  BY HeightsFacts
<1> DEFINE T == {k \in Nat : k <= n => Heights(d)[k] = Heights(c)[k]}
<1>3. 0 \in T
  BY <1>2
<1>4. ASSUME NEW k \in Nat, k \in T PROVE k + 1 \in T
  <2> SUFFICES ASSUME k + 1 <= n PROVE Heights(d)[k + 1] = Heights(c)[k + 1]
    OBVIOUS
  <2>1. k + 1 \in 1..n /\ k + 1 \in 1..Len(c) /\ k + 1 \in 1..Len(d) /\ (k + 1) - 1 = k
    BY <1>1
  <2>2. Heights(d)[k] = Heights(c)[k]
    BY <1>4, <2>1
  <2>3. /\ Heights(c)[k + 1] = NextHeight(c[k + 1], Heights(c)[k])
        /\ Heights(d)[k + 1] = NextHeight(d[k + 1], Heights(d)[k])
    BY <1>2, <2>1
  <2>4. d[k + 1].op = c[k + 1].op /\ Takes(d[k + 1]) = Takes(c[k + 1])
    BY <2>1
  <2> QED
    BY <2>2, <2>3, <2>4 DEF NextHeight, Gives
<1> HIDE DEF T
<1>5. \A k \in Nat : k \in T
  BY <1>3, <1>4, FromZero
<1> QED
  BY <1>5 DEF T

\* What is emitted later does not change the heights before.
LEMMA GrownHeights ==
  ASSUME NEW bf, NEW out, Grows(bf, out)
  PROVE  \A k \in 0..Len(bf.code) : Heights(out.code)[k] = Heights(bf.code)[k]
<1>1. bf.code \in Seq(Op) /\ out.code \in Seq(Op) /\ Len(bf.code) \in Nat
  BY FuncFacts DEF Grows
<1>2. Len(bf.code) <= Len(out.code) /\ \A k \in 1..Len(bf.code) : out.code[k] = bf.code[k]
  BY DEF Grows
<1>3. \A k \in 1..Len(bf.code) :
        out.code[k].op = bf.code[k].op /\ Takes(out.code[k]) = Takes(bf.code[k])
  BY <1>2
<1> QED
  BY <1>1, <1>2, <1>3, SameHeights

\* An instruction that fits still fits when the function grows.
LEMMA FitsOn ==
  ASSUME NEW bf, NEW out, Grows(bf, out), NEW i, NEW h, Fits(bf, i, h)
  PROVE  Fits(out, i, h)
<1>1. /\ Len(bf.code) \in Nat /\ Len(out.code) \in Nat /\ Len(bf.consts) \in Nat
      /\ Len(out.consts) \in Nat /\ Len(bf.locals) \in Nat /\ Len(out.locals) \in Nat
      /\ Len(bf.code) <= Len(out.code) /\ Len(bf.consts) <= Len(out.consts)
      /\ Len(bf.locals) <= Len(out.locals)
  BY FuncFacts DEF Grows
<1>2. i.op \in Jumps =>
        i.a \in 0..Len(out.code) /\ Heights(out.code)[i.a] = NextHeight(i, h)
  BY <1>1, GrownHeights DEF Fits
<1> QED
  BY <1>1, <1>2 DEF Fits, Valid

\* Of a function that has grown, the old part is still sound.
LEMMA OldPartFits ==
  ASSUME NEW bf, NEW out, Grows(bf, out), Sound(bf)
  PROVE  \A k \in 1..Len(bf.code) : Fits(out, out.code[k], Heights(out.code)[k - 1])
<1> TAKE k \in 1..Len(bf.code)
<1>1. Len(bf.code) \in Nat
  BY FuncFacts DEF Grows
<1>2. k - 1 \in 0..Len(bf.code)
  BY <1>1
<1>3. out.code[k] = bf.code[k] /\ Heights(out.code)[k - 1] = Heights(bf.code)[k - 1]
  BY <1>2, GrownHeights DEF Grows
<1>4. Fits(bf, bf.code[k], Heights(bf.code)[k - 1])
  BY DEF Sound
<1> QED
  BY <1>3, <1>4, FitsOn

\* Constants and locals are added, or compile_unit throws.
LEMMA Extended ==
  ASSUME NEW bf \in Func, NEW out \in Func, out.ok => bf.ok, out.code = bf.code,
         Len(bf.consts) <= Len(out.consts), Len(bf.locals) <= Len(out.locals)
  PROVE  Grows(bf, out) /\ \A h : Stands(bf, h) => Stands(out, h)
<1>1. Grows(bf, out)
  BY FuncFacts DEF Grows
<1>2. ASSUME NEW h, Stands(bf, h), out.ok PROVE Sound(out) /\ Height(out) = h
  <2>1. Sound(bf) /\ Height(bf) = h
    BY <1>2 DEF Stands
  <2> QED
    BY <1>1, <2>1, OldPartFits DEF Sound, Height, Here
<1> QED
  BY <1>1, <1>2 DEF Stands

\* An instruction is emitted.
LEMMA Emitted ==
  ASSUME NEW bf \in Func, NEW i \in Op, NEW out, out = [bf EXCEPT !.code = Append(@, i)]
  PROVE  /\ Grows(bf, out) /\ Len(out.code) = Len(bf.code) + 1
         /\ out.code[Len(bf.code) + 1] = i
         /\ \A h \in Nat : Stands(bf, h) /\ (bf.ok => Fits(bf, i, h))
                             => Stands(out, NextHeight(i, h))
<1> PICK n \in Nat : n = Len(bf.code)
  BY FuncFacts
<1>1. bf.code \in Seq(Op)
  BY FuncFacts
<1>2. /\ Append(bf.code, i) \in Seq(Op) /\ Len(Append(bf.code, i)) = n + 1
      /\ Append(bf.code, i)[n + 1] = i
      /\ \A k \in 1..n : Append(bf.code, i)[k] = bf.code[k]
  BY <1>1, AppendProperties
<1>3. /\ out \in Func /\ out.code = Append(bf.code, i) /\ out.ok = bf.ok
      /\ out.consts = bf.consts /\ out.locals = bf.locals
  BY <1>2 DEF Func
<1>4. Grows(bf, out)
  BY <1>2, <1>3, FuncFacts DEF Grows
<1>5. ASSUME NEW h \in Nat, Stands(bf, h), Fits(bf, i, h), bf.ok
      PROVE  Sound(out) /\ Height(out) = NextHeight(i, h)
  <2>1. Sound(bf) /\ Height(bf) = h
    BY <1>5 DEF Stands
  <2>2. Heights(out.code)[n] = h
    <3>1. n \in 0..Len(bf.code) /\ Heights(bf.code)[n] = h
      BY <2>1 DEF Height, Here
    <3> QED
      BY <1>4, <3>1, GrownHeights
  <2>3. out.code[n + 1] = i /\ Len(out.code) = n + 1 /\ (n + 1) - 1 = n
    BY <1>2, <1>3
  <2>4. Heights(out.code)[n + 1] = NextHeight(i, h)
    <3>1. \A k \in 1..Len(out.code) :
            Heights(out.code)[k] = NextHeight(out.code[k], Heights(out.code)[k - 1])
      BY <1>3, FuncFacts, HeightsFacts
    <3>2. n + 1 \in 1..Len(out.code)
      BY <2>3
    <3> QED
      BY <2>2, <2>3, <3>1, <3>2
  <2>5. Fits(out, i, h)
    BY <1>4, <1>5, FitsOn
  <2>6. \A k \in 1..n : Fits(out, out.code[k], Heights(out.code)[k - 1])
    BY <1>4, <2>1, OldPartFits
  <2>7. \A k \in 1..n + 1 : k \in 1..n \/ k = n + 1
    OBVIOUS
  <2>8. Sound(out)
    BY <2>2, <2>3, <2>5, <2>6, <2>7 DEF Sound
  <2> QED
    BY <2>3, <2>4, <2>8 DEF Height, Here
<1>6. ASSUME NEW h \in Nat, Stands(bf, h), bf.ok => Fits(bf, i, h)
      PROVE  Stands(out, NextHeight(i, h))
  BY <1>3, <1>5, <1>6 DEF Stands
<1> QED
  BY <1>2, <1>3, <1>4, <1>6

-----------------------------------------------------------------------------
(* What the compiler emits                                                  *)

LEMMA LeadsOn ==
  ASSUME NEW x, NEW i, NEW y, NEW j, NEW z, NEW k, Leads(x, i, y, j), Leads(y, j, z, k)
  PROVE  Leads(x, i, z, k)
<1>1. Grows(x, z)
  BY GrowsOn DEF Leads
<1> QED
  BY <1>1 DEF Leads

\* Emit makes an instruction.
LEMMA EmitMakes ==
  ASSUME NEW op \in OpCodes, NEW a \in Int
  PROVE  /\ [op |-> op, a |-> a, b |-> 0, s |-> NoName] \in Op
         /\ [op |-> op, a |-> a, b |-> 0, s |-> NoName].op = op
         /\ [op |-> op, a |-> a, b |-> 0, s |-> NoName].a = a
<1>1. NoName \in STRING
  BY NamesAssumption DEF LiteralNames
<1> QED
  BY <1>1 DEF Op

\* An instruction that is not a jump: what it takes was there, what it gives is there.
LEMMA EmitLeads ==
  ASSUME NEW bf \in Func, NEW op \in OpCodes \ Jumps, op \notin {"CALL", "ADD"}, NEW a \in Int,
         NEW h \in Nat, NEW i, i = [op |-> op, a |-> a, b |-> 0, s |-> NoName], Takes(i) \in 0..h,
         op = "PUSH_CONST" => Valid(a, Len(bf.consts)),
         op \in {"PUSH_LOCAL", "STORE_LOCAL"} => Valid(a, Len(bf.locals))
  PROVE  Leads(bf, h, Emit(bf, op, a), NextHeight(i, h))
<1>1. i \in Op /\ i.op = op /\ i.a = a
  BY EmitMakes
<1>2. Fits(bf, i, h)
  BY <1>1 DEF Fits
<1>3. Emit(bf, op, a) = [bf EXCEPT !.code = Append(@, i)]
  BY DEF Emit
<1> QED
  BY <1>1, <1>2, <1>3, Emitted DEF Leads

LEMMA ConstLeads ==
  ASSUME NEW bf \in Func, NEW v \in Value, NEW h \in Nat
  PROVE  Leads(bf, h, EmitConst(bf, v), h + 1)
<1> PICK n \in Nat : n = Len(bf.consts)
  BY FuncFacts
<1> DEFINE d == [bf EXCEPT !.consts = Append(@, v)]
           i == [op |-> "PUSH_CONST", a |-> n, b |-> 0, s |-> NoName]
<1>1. /\ bf.consts \in Seq(Value) /\ Append(bf.consts, v) \in Seq(Value)
      /\ Len(Append(bf.consts, v)) = n + 1
  BY FuncFacts, AppendProperties
<1>2. /\ d \in Func /\ d.ok = bf.ok /\ d.code = bf.code /\ Len(d.consts) = n + 1
      /\ d.locals = bf.locals
  BY <1>1 DEF Func
<1>3. Leads(bf, h, d, h)
  <2>1. /\ (d.ok => bf.ok) /\ Len(bf.consts) <= Len(d.consts)
        /\ Len(bf.locals) <= Len(d.locals)
    BY <1>2, FuncFacts
  <2> QED
    BY <1>2, <2>1, Extended DEF Leads
<1>4. EmitConst(bf, v) = Emit(d, "PUSH_CONST", n)
  BY DEF EmitConst
<1>5. Takes(i) = 0 /\ NextHeight(i, h) = h + 1
  BY DEF Takes, NextHeight, Gives
<1> HIDE DEF d
<1>6. Leads(d, h, Emit(d, "PUSH_CONST", n), NextHeight(i, h))
  <2>1. Valid(n, Len(d.consts))
    BY <1>2 DEF Valid
  <2>2. "PUSH_CONST" \in OpCodes \ Jumps
    BY DEF OpCodes, Jumps
  <2>3. Takes(i) \in 0..h
    BY <1>5
  <2> QED
    BY <1>2, <2>1, <2>2, <2>3, EmitLeads
<1> QED
  BY <1>3, <1>4, <1>5, <1>6, LeadsOn

\* The compiler finds a local where it is.
LEMMA SlotIs ==
  ASSUME NEW bf \in Func, NEW name, IsLocal(bf, name)
  PROVE  Valid(Slot(bf, name), Len(bf.locals)) /\ Slot(bf, name) \in Int
<1>1. \E i \in DOMAIN bf.locals : bf.locals[i] = name
  BY DEF IsLocal, ToSet
<1>2. PICK i : i = (CHOOSE j \in DOMAIN bf.locals : bf.locals[j] = name)
  OBVIOUS
<1>3. i \in DOMAIN bf.locals
  BY <1>1, <1>2
<1>4. i \in 1..Len(bf.locals) /\ Len(bf.locals) \in Nat
  BY <1>3, FuncFacts, LenProperties
<1>5. Slot(bf, name) = i - 1
  BY <1>2 DEF Slot
<1> QED
  BY <1>4, <1>5 DEF Valid

LEMMA FailLeads ==
  ASSUME NEW bf \in Func, NEW failed, NEW h
  PROVE  Leads(bf, h, FailIf(bf, failed), h)
<1> DEFINE d == FailIf(bf, failed)
<1>1. /\ d \in Func /\ (d.ok => bf.ok)
      /\ d.code = bf.code /\ d.consts = bf.consts /\ d.locals = bf.locals
  BY DEF FailIf, Func
<1>2. Len(bf.consts) <= Len(d.consts) /\ Len(bf.locals) <= Len(d.locals)
  BY <1>1, FuncFacts
<1> HIDE DEF d
<1>3. Leads(bf, h, d, h)
  BY <1>1, <1>2, Extended DEF Leads
<1> QED
  BY <1>3 DEF d

\* When the compiler has thrown, nothing is asked of the code.
LEMMA FailedLeads ==
  ASSUME NEW bf \in Func, NEW h, NEW k
  PROVE  Leads(bf, h, FailIf(bf, TRUE), k)
<1> DEFINE d == FailIf(bf, TRUE)
<1>1. ~d.ok
  BY DEF FailIf, Func
<1>2. Grows(bf, d)
  BY FailLeads DEF Leads
<1> HIDE DEF d
<1>3. Stands(d, k)
  BY <1>1, <1>2 DEF Stands, Grows
<1> QED
  BY <1>2, <1>3 DEF Leads, d

LEMMA NameLeads ==
  ASSUME NEW bf \in Func, NEW name, NEW h \in Nat
  PROVE  Leads(bf, h, PushName(bf, name), h + 1)
<1>1. CASE IsLocal(bf, name)
  <2> DEFINE a == Slot(bf, name)
             i == [op |-> "PUSH_LOCAL", a |-> a, b |-> 0, s |-> NoName]
  <2>1. Valid(a, Len(bf.locals)) /\ a \in Int
    BY <1>1, SlotIs
  <2> HIDE DEF a
  <2>2. Takes(i) = 0 /\ NextHeight(i, h) = h + 1
    BY DEF Takes, NextHeight, Gives
  <2>3. "PUSH_LOCAL" \in OpCodes \ Jumps /\ Takes(i) \in 0..h
    BY <2>2 DEF OpCodes, Jumps
  <2>4. Leads(bf, h, Emit(bf, "PUSH_LOCAL", a), NextHeight(i, h))
    BY <2>1, <2>3, EmitLeads
  <2> QED
    BY <1>1, <2>2, <2>4 DEF PushName, a
<1> QED
  BY <1>1, FailedLeads DEF PushName

LEMMA StoreLeads ==
  ASSUME NEW bf \in Func, NEW name, IsLocal(bf, name), NEW h \in Nat
  PROVE  Leads(bf, h + 1, Emit(bf, "STORE_LOCAL", Slot(bf, name)), h)
<1> DEFINE a == Slot(bf, name)
           i == [op |-> "STORE_LOCAL", a |-> a, b |-> 0, s |-> NoName]
<1>1. Valid(a, Len(bf.locals)) /\ a \in Int
  BY SlotIs
<1> HIDE DEF a
<1>2. Takes(i) = 1 /\ NextHeight(i, h + 1) = h
  BY DEF Takes, NextHeight, Gives
<1>3. Leads(bf, h + 1, Emit(bf, "STORE_LOCAL", a), h)
  BY <1>1, <1>2, EmitLeads DEF OpCodes, Jumps
<1> QED
  BY <1>3 DEF a

LEMMA AddLeads ==
  ASSUME NEW bf \in Func, NEW name \in STRING, NEW h
  PROVE  /\ Leads(bf, h, AddLocal(bf, name), h) /\ AddLocal(bf, name) \in Func
         /\ IsLocal(AddLocal(bf, name), name)
<1> DEFINE d == [bf EXCEPT !.locals = Append(@, name)]
<1>1. CASE IsLocal(bf, name)
  BY <1>1, GrowsSame DEF AddLocal, Leads
<1>2. CASE ~IsLocal(bf, name)
  <2>1. PICK S : S = STRING
    OBVIOUS
  <2>2. bf.locals \in Seq(S) /\ name \in S
    BY <2>1, FuncFacts
  <2>3. /\ Append(bf.locals, name) \in Seq(S)
        /\ Len(Append(bf.locals, name)) = Len(bf.locals) + 1
        /\ Append(bf.locals, name)[Len(bf.locals) + 1] = name
    BY ONLY <2>2, AppendProperties
  <2>4. /\ d \in Func /\ d.ok = bf.ok /\ d.code = bf.code /\ d.consts = bf.consts
        /\ d.locals = Append(bf.locals, name)
    BY <2>1, <2>3 DEF Func
  <2>5. Leads(bf, h, d, h)
    <3>1. /\ (d.ok => bf.ok) /\ Len(bf.consts) <= Len(d.consts)
          /\ Len(bf.locals) <= Len(d.locals)
      BY <2>3, <2>4, FuncFacts
    <3> QED
      BY <2>4, <3>1, Extended DEF Leads
  <2>6. Len(bf.locals) + 1 \in DOMAIN Append(bf.locals, name)
    BY <2>2, <2>3, FuncFacts, LenProperties
  <2>7. IsLocal(d, name)
    BY <2>3, <2>4, <2>6 DEF IsLocal, ToSet
  <2> QED
    BY <1>2, <2>4, <2>5, <2>7 DEF AddLocal
<1> QED
  BY <1>1, <1>2

LEMMA NewLeads ==
  ASSUME NEW bf \in Func, NEW name \in STRING, NEW h \in Nat
  PROVE  Leads(bf, h + 1, StoreNew(bf, name), h)
<1> DEFINE d == AddLocal(bf, name)
<1>1. Leads(bf, h + 1, d, h + 1) /\ d \in Func /\ IsLocal(d, name)
  BY AddLeads
<1> HIDE DEF d
<1>2. Leads(d, h + 1, Emit(d, "STORE_LOCAL", Slot(d, name)), h)
  BY <1>1, StoreLeads
<1>3. StoreNew(bf, name) = Emit(d, "STORE_LOCAL", Slot(d, name))
  BY DEF StoreNew, d
<1> QED
  BY <1>1, <1>2, <1>3, LeadsOn

LEMMA PopLeads ==
  ASSUME NEW bf \in Func
  PROVE  Leads(bf, 1, Emit(bf, "POP", 1), 0)
<1> DEFINE i == [op |-> "POP", a |-> 1, b |-> 0, s |-> NoName]
<1>1. Takes(i) = 1 /\ NextHeight(i, 1) = 0
  BY DEF Takes, NextHeight, Gives
<1> QED
  BY <1>1, EmitLeads DEF OpCodes, Jumps

LEMMA RetLeads ==
  ASSUME NEW bf \in Func, NEW h \in Nat
  PROVE  Leads(bf, h, Emit(bf, "RET", 0), 0)
<1> DEFINE i == [op |-> "RET", a |-> 0, b |-> 0, s |-> NoName]
<1>1. Takes(i) = 0 /\ NextHeight(i, h) = 0
  BY DEF Takes, NextHeight
<1> QED
  BY <1>1, EmitLeads DEF OpCodes, Jumps

\* A call of n arguments, of a function a local holds if kind is -2.
LEMMA CallLeads ==
  ASSUME NEW bf \in Func, NEW n \in Nat, NEW kind \in {-2, -1}, NEW name \in STRING,
         NEW h \in Nat, NEW t, t = n + (IF kind = -2 THEN 1 ELSE 0)
  PROVE  Leads(bf, h + t, EmitCall(bf, n, kind, name), h + 1)
<1> DEFINE i == [op |-> "CALL", a |-> n, b |-> kind, s |-> name]
<1>1. i \in Op /\ i.op = "CALL" /\ i.a = n /\ i.b = kind
  BY DEF Op, OpCodes
<1>2. Takes(i) = t /\ t \in Nat /\ h + t \in Nat /\ t \in 0..(h + t)
  BY DEF Takes
<1>3. NextHeight(i, h + t) = h + 1
  BY <1>1, <1>2 DEF NextHeight, Gives
<1>4. Fits(bf, i, h + t)
  BY <1>1, <1>2 DEF Fits, Jumps
<1>5. EmitCall(bf, n, kind, name) = [bf EXCEPT !.code = Append(@, i)]
  BY DEF EmitCall
<1> QED
  BY <1>1, <1>2, <1>3, <1>4, <1>5, Emitted DEF Leads
-----------------------------------------------------------------------------
(* Jumps and where they land                                                *)

LEMMA JumpKept ==
  ASSUME NEW bf, NEW out, Grows(bf, out), NEW pos, Jump(bf, pos)
  PROVE  Jump(out, pos)
<1>1. Here(bf) \in Nat /\ Here(out) \in Nat /\ Here(bf) <= Here(out)
  BY FuncFacts DEF Grows, Here
<1>2. pos \in 1..Here(out) /\ pos \in 0..Here(bf) /\ pos \in 1..Here(bf)
  BY <1>1 DEF Jump
<1>3. out.code[pos] = bf.code[pos] /\ (out.ok => bf.ok)
  BY <1>2 DEF Grows, Here
<1>4. Heights(out.code)[pos] = Heights(bf.code)[pos]
  BY <1>2, GrownHeights DEF Here
<1> QED
  BY <1>2, <1>3, <1>4 DEF Jump

\* A test has a condition on the stack, a jump has nothing; both go to a place
\* where nothing is.
LEMMA JumpLeads ==
  ASSUME NEW bf \in Func, NEW op \in Jumps, NEW h, h = (IF op = "JMP" THEN 0 ELSE 1),
         NEW a \in 0..Here(bf), NEW out, out = Emit(bf, op, a)
  PROVE  /\ Grows(bf, out) /\ Here(out) = Here(bf) + 1 /\ out.code[Here(out)].op \in Jumps
         /\ Stands(bf, h) /\ (bf.ok => Heights(bf.code)[a] = 0) =>
              Stands(out, 0) /\ Jump(out, Here(out))
<1> DEFINE i == [op |-> op, a |-> a, b |-> 0, s |-> NoName]
<1>1. op \in OpCodes /\ op \notin {"CALL", "ADD", "PUSH_CONST", "PUSH_LOCAL", "STORE_LOCAL"}
  BY DEF OpCodes, Jumps
<1>2. Here(bf) \in Nat /\ a \in Int
  BY FuncFacts DEF Here
<1>3. i \in Op /\ i.op = op /\ i.a = a
  BY <1>1, <1>2, EmitMakes
<1>4. out = [bf EXCEPT !.code = Append(@, i)]
  BY DEF Emit
<1>5. Takes(i) = h /\ NextHeight(i, h) = 0 /\ h \in Nat
  BY DEF Takes, NextHeight, Gives, Jumps
<1> HIDE DEF i
<1>6. /\ Grows(bf, out) /\ Here(out) = Here(bf) + 1 /\ out.code[Here(bf) + 1] = i
      /\ \A k \in Nat : Stands(bf, k) /\ (bf.ok => Fits(bf, i, k))
                          => Stands(out, NextHeight(i, k))
  BY <1>3, <1>4, Emitted DEF Here
<1>7. ASSUME Stands(bf, h), bf.ok => Heights(bf.code)[a] = 0
      PROVE  Stands(out, 0) /\ Jump(out, Here(out))
  <2>1. bf.ok => Fits(bf, i, h)
    BY <1>1, <1>3, <1>5, <1>7 DEF Fits, Here
  <2>2. Stands(out, 0)
    BY <1>5, <1>6, <1>7, <2>1
  <2>3. out.ok => Heights(out.code)[Here(out)] = 0
    BY <2>2 DEF Stands, Height
  <2>4. Here(out) \in 1..Here(out)
    BY <1>2, <1>6
  <2> QED
    BY <1>3, <1>6, <2>2, <2>3, <2>4 DEF Jump
<1> QED
  BY <1>3, <1>6, <1>7

\* Land changes the target of one instruction.
LEMMA LandFacts ==
  ASSUME NEW bf \in Func, NEW pos \in 1..Here(bf), NEW out, out = Land(bf, pos)
  PROVE  /\ out \in Func /\ out.ok = bf.ok /\ out.consts = bf.consts /\ out.locals = bf.locals
         /\ Here(out) = Here(bf)
         /\ \A k \in 1..Here(bf) : k # pos => out.code[k] = bf.code[k]
         /\ out.code[pos].op = bf.code[pos].op /\ out.code[pos].b = bf.code[pos].b
         /\ out.code[pos].a = Here(bf)
<1> DEFINE i == [bf.code[pos] EXCEPT !.a = Here(bf)]
           code == [bf.code EXCEPT ![pos] = i]
<1> PICK n \in Nat : n = Here(bf)
  BY FuncFacts DEF Here
<1>1. bf.code[pos] \in Op /\ bf.code \in Seq(Op) /\ Len(bf.code) = n
  BY FuncFacts DEF Here
<1>2. i \in Op /\ i.op = bf.code[pos].op /\ i.b = bf.code[pos].b /\ i.a = n
  <2> PICK o \in Op : o = bf.code[pos]
    BY <1>1
  <2>1. i = [o EXCEPT !.a = n] /\ n \in Int
    OBVIOUS
  <2> HIDE DEF i
  <2>2. i \in Op /\ i.op = o.op /\ i.b = o.b /\ i.a = n
    BY <2>1 DEF Op
  <2> QED
    BY <2>2
<1>3. out = [bf EXCEPT !.code = code]
  BY DEF Land
<1> HIDE DEF i
<1>4. /\ code \in Seq(Op) /\ Len(code) = n /\ code[pos] = i
      /\ \A k \in 1..n : k # pos => code[k] = bf.code[k]
  BY <1>1, <1>2, ExceptSeq
<1> HIDE DEF code
<1>5. /\ out \in Func /\ out.code = code /\ out.ok = bf.ok /\ out.consts = bf.consts
      /\ out.locals = bf.locals
  BY <1>3, <1>4 DEF Func
<1> QED
  BY <1>2, <1>4, <1>5 DEF Here

\* A jump emitted after base does not change what base is.
LEMMA LandGrows ==
  ASSUME NEW base, NEW bf, Grows(base, bf), NEW pos \in Here(base) + 1..Here(bf)
  PROVE  /\ Grows(base, Land(bf, pos)) /\ Land(bf, pos) \in Func
         /\ Here(Land(bf, pos)) = Here(bf)
<1> PICK out : out = Land(bf, pos)
  OBVIOUS
<1>1. bf \in Func /\ base \in Func
  BY DEF Grows
<1>2. Here(base) \in Nat /\ Here(bf) \in Nat
  BY <1>1, FuncFacts DEF Here
<1>3. pos \in 1..Here(bf) /\ \A k \in 1..Here(base) : k \in 1..Here(bf) /\ k # pos
  BY <1>2
<1>4. /\ out \in Func /\ out.ok = bf.ok /\ out.consts = bf.consts /\ out.locals = bf.locals
      /\ Here(out) = Here(bf)
      /\ \A k \in 1..Here(bf) : k # pos => out.code[k] = bf.code[k]
  BY <1>1, <1>3, LandFacts
<1>5. \A k \in 1..Here(base) : out.code[k] = base.code[k]
  BY <1>3, <1>4 DEF Grows, Here
<1> QED
  BY <1>1, <1>4, <1>5 DEF Grows, Here

\* A jump may land where nothing is on the stack.
LEMMA LandStands ==
  ASSUME NEW bf, Stands(bf, 0), NEW pos, Jump(bf, pos)
  PROVE  /\ Stands(Land(bf, pos), 0)
         /\ \A p : Jump(bf, p) => Jump(Land(bf, pos), p)
<1> PICK out : out = Land(bf, pos)
  OBVIOUS
<1> PICK n \in Nat : n = Here(bf)
  BY FuncFacts DEF Stands, Here
<1>1. bf \in Func /\ pos \in 1..n /\ bf.code[pos].op \in Jumps
  BY DEF Stands, Jump
<1>2. /\ out \in Func /\ out.ok = bf.ok /\ out.consts = bf.consts /\ out.locals = bf.locals
      /\ Here(out) = n /\ \A k \in 1..n : k # pos => out.code[k] = bf.code[k]
      /\ out.code[pos].op = bf.code[pos].op /\ out.code[pos].b = bf.code[pos].b
      /\ out.code[pos].a = n
  BY <1>1, LandFacts
<1>3. \A k \in 1..n : out.code[k].op = bf.code[k].op /\ Takes(out.code[k]) = Takes(bf.code[k])
  BY <1>1, <1>2 DEF Takes, Jumps
<1>4. \A k \in 0..n : Heights(out.code)[k] = Heights(bf.code)[k]
  <2>1. /\ bf.code \in Seq(Op) /\ out.code \in Seq(Op) /\ n <= Len(bf.code)
        /\ n <= Len(out.code)
    BY <1>1, <1>2, FuncFacts DEF Here
  <2> QED
    BY <1>3, <2>1, SameHeights
<1>5. ASSUME bf.ok PROVE Sound(out) /\ Height(out) = 0
  <2>1. Sound(bf) /\ Heights(bf.code)[n] = 0 /\ Heights(bf.code)[pos] = 0
    BY <1>5 DEF Stands, Height, Jump
  <2>2. Height(out) = 0
    BY <1>2, <1>4, <2>1 DEF Height
  <2>3. ASSUME NEW k \in 1..n
        PROVE  Fits(out, out.code[k], Heights(out.code)[k - 1])
    <3>1. /\ Fits(bf, bf.code[k], Heights(bf.code)[k - 1])
          /\ Heights(out.code)[k - 1] = Heights(bf.code)[k - 1]
      BY <1>4, <2>1 DEF Sound, Here
    <3>2. CASE k # pos
      <4>1. out.code[k] = bf.code[k]
        BY <1>2, <3>2
      <4>2. bf.code[k].op \in Jumps =>
              bf.code[k].a \in 0..n
              /\ Heights(out.code)[bf.code[k].a] = Heights(bf.code)[bf.code[k].a]
        BY <1>4, <3>1 DEF Fits, Here
      <4> QED
        BY <1>2, <3>1, <4>1, <4>2 DEF Fits, Here
    <3>3. CASE k = pos
      <4> PICK i : i = out.code[k]
        OBVIOUS
      <4> PICK h : h = Heights(bf.code)[k - 1]
        OBVIOUS
      <4>1. i.op \in Jumps /\ Takes(i) = Takes(bf.code[k]) /\ i.a = n
        BY <1>1, <1>2, <1>3, <3>3
      <4>2. NextHeight(i, h) = 0
        <5>1. Heights(out.code)[k] = NextHeight(out.code[k], Heights(out.code)[k - 1])
          BY <1>2, FuncFacts, HeightsFacts DEF Here
        <5> QED
          BY <1>4, <2>1, <3>1, <3>3, <5>1
      <4>3. Takes(i) \in 0..h
        BY <3>1, <4>1 DEF Fits
      <4>4. Heights(out.code)[n] = 0 /\ n \in 0..Len(out.code)
        BY <1>2, <1>4, <2>1 DEF Here
      <4>5. Fits(out, i, h)
        BY <4>1, <4>2, <4>3, <4>4 DEF Fits, Jumps
      <4> QED
        BY <3>1, <4>5
    <3> QED
      BY <3>2, <3>3
  <2>4. Sound(out)
    BY <1>2, <2>3 DEF Sound, Here
  <2> QED
    BY <2>2, <2>4
<1>6. Stands(out, 0)
  BY <1>2, <1>5 DEF Stands
<1>7. ASSUME NEW p, Jump(bf, p) PROVE Jump(out, p)
  BY <1>2, <1>3, <1>4, <1>7 DEF Jump
<1> QED
  BY <1>6, <1>7
-----------------------------------------------------------------------------
(* Trees one after the other                                                *)

\* What InOrder goes through.
Goes(u, map, start, trees) ==
  /\ u[0] = start
  /\ \A i \in 1..Len(trees) : u[i] = map[trees[i]][u[i - 1]]
  /\ InOrder(map, start, trees) = u[Len(trees)]

LEMMA InOrderGoes ==
  ASSUME NEW map, NEW start, NEW trees, IsSeq(trees)
  PROVE  \E u : Goes(u, map, start, trees)
<1> PICK n \in Nat : n = Len(trees)
  BY SeqFacts
<1> DEFINE body(f, i) == IF i = 0 THEN start ELSE map[trees[i]][f[i - 1]]
           T == {k \in Nat : \E f : f = [i \in 0..k |-> body(f, i)]}
<1>1. 0 \in T
  <2> PICK f : f = [i \in 0..0 |-> start]
    OBVIOUS
  <2>1. f = [i \in 0..0 |-> body(f, i)]
    OBVIOUS
  <2> QED
    BY <2>1
<1>2. ASSUME NEW k \in Nat, k \in T PROVE k + 1 \in T
  <2>1. PICK f : f = [i \in 0..k |-> body(f, i)]
    BY <1>2
  <2> PICK last : last = body(f, k + 1)
    OBVIOUS
  <2>2. PICK g : g = [i \in 0..k + 1 |-> IF i = k + 1 THEN last ELSE f[i]]
    OBVIOUS
  <2>3. \A i \in 0..k : g[i] = f[i] /\ f[i] = body(f, i)
    BY <2>1, <2>2
  <2>4. \A i \in 0..k + 1 : g[i] = body(g, i)
    <3> TAKE i \in 0..k + 1
    <3>1. i # 0 => i - 1 \in 0..k /\ g[i - 1] = f[i - 1]
      <4>1. i # 0 => i - 1 \in 0..k
        OBVIOUS
      <4> QED
        BY <2>3, <4>1
    <3>2. body(g, i) = body(f, i)
      BY <3>1
    <3>3. CASE i = k + 1
      BY <2>2, <3>2, <3>3
    <3>4. CASE i # k + 1
      <4>1. i \in 0..k
        BY <3>4
      <4> QED
        BY <2>3, <3>2, <4>1
    <3> QED
      BY <3>3, <3>4
  <2>5. g = [i \in 0..k + 1 |-> body(g, i)]
    <3>1. DOMAIN g = 0..k + 1 /\ g = [i \in DOMAIN g |-> g[i]]
      BY <2>2
    <3> QED
      BY <2>4, <3>1
  <2> QED
    BY <2>5
<1> HIDE DEF T
<1>3. n \in T
  BY <1>1, <1>2, FromZero
<1>4. PICK f : f = [i \in 0..n |-> body(f, i)]
  BY <1>3 DEF T
<1> DEFINE P(g) == g = [i \in 0..n |-> body(g, i)]
<1>5. PICK u : u = CHOOSE g : P(g)
  OBVIOUS
<1>6. u = [i \in 0..n |-> body(u, i)]
  <2>1. P(f)
    BY <1>4
  <2> HIDE DEF P
  <2>2. P(u)
    BY <1>5, <2>1
  <2> QED
    BY <2>2 DEF P
<1>7. InOrder(map, start, trees) = u[n]
  BY <1>5 DEF InOrder
<1>8. u[0] = start
  <2>1. 0 \in 0..n
    OBVIOUS
  <2> QED
    BY <1>6, <2>1
<1>9. \A i \in 1..n : u[i] = map[trees[i]][u[i - 1]]
  <2> TAKE i \in 1..n
  <2>1. i \in 0..n /\ i # 0
    OBVIOUS
  <2> QED
    BY <1>6, <2>1
<1> QED
  BY <1>7, <1>8, <1>9 DEF Goes

\* The heights between the trees are those of h.
LEMMA InOrderLeads ==
  ASSUME NEW compile, NEW bf \in Func, NEW trees, IsSeq(trees), NEW h,
         \A i \in 1..Len(trees) : \A b \in Func :
           Leads(b, h[i - 1], compile[trees[i]][b], h[i])
  PROVE  Leads(bf, h[0], InOrder(compile, bf, trees), h[Len(trees)])
<1> PICK n \in Nat : n = Len(trees)
  BY SeqFacts
<1>2. PICK u : Goes(u, compile, bf, trees)
  BY InOrderGoes
<1>3. /\ u[0] = bf /\ \A i \in 1..n : u[i] = compile[trees[i]][u[i - 1]]
      /\ InOrder(compile, bf, trees) = u[n]
  BY <1>2 DEF Goes
<1> DEFINE T == {i \in Nat : i <= n => Leads(bf, h[0], u[i], h[i])}
<1>4. 0 \in T
  BY <1>3, GrowsSame DEF Leads
<1>5. ASSUME NEW i \in Nat, i \in T PROVE i + 1 \in T
  <2> SUFFICES ASSUME i + 1 <= n PROVE Leads(bf, h[0], u[i + 1], h[i + 1])
    OBVIOUS
  <2>1. i + 1 \in 1..n /\ (i + 1) - 1 = i /\ i \in 0..n
    BY <1>5
  <2>2. Leads(bf, h[0], u[i], h[i])
    BY <1>5, <2>1
  <2>3. u[i + 1] = compile[trees[i + 1]][u[i]]
    BY <1>3, <2>1
  <2>4. u[i] \in Func
    BY <2>2 DEF Leads, Grows
  <2>5. Leads(u[i], h[i], u[i + 1], h[i + 1])
    BY <2>1, <2>3, <2>4
  <2> QED
    BY <2>2, <2>5, LeadsOn
<1> HIDE DEF T
<1>6. n \in T
  BY <1>4, <1>5, FromZero
<1> QED
  BY <1>3, <1>6 DEF T

\* c compiles the trees of t: an expression leaves one operand, a statement none.
CompilesWell(c, t) ==
  /\ \A e \in t.expr : \A bf \in Func : \A h \in Nat : Leads(bf, h, c.expr[e][bf], h + 1)
  /\ \A s \in t.stmt : \A bf \in Func : Leads(bf, 0, c.stmt[s][bf], 0)

LEMMA ArgsLead ==
  ASSUME NEW c, NEW t, CompilesWell(c, t), NEW bf \in Func, NEW args \in Seq(t.expr),
         NEW h \in Nat
  PROVE  Leads(bf, h, InOrder(c.expr, bf, args), h + Len(args))
<1> PICK n \in Nat : n = Len(args)
  BY LenProperties
<1> DEFINE hs == [i \in 0..n |-> h + i]
<1>1. IsSeq(args) /\ \A i \in 1..n : args[i] \in t.expr
  BY AnySeq, ElementOfSeq
<1>2. hs[0] = h /\ hs[n] = h + n
  OBVIOUS
<1>3. \A i \in 1..n : hs[i - 1] \in Nat /\ hs[i] = hs[i - 1] + 1
  OBVIOUS
<1> HIDE DEF hs
<1>4. \A i \in 1..n : \A b \in Func : Leads(b, hs[i - 1], c.expr[args[i]][b], hs[i])
  BY <1>1, <1>3 DEF CompilesWell
<1>5. Leads(bf, hs[0], InOrder(c.expr, bf, args), hs[n])
  BY <1>1, <1>4, InOrderLeads
<1> QED
  BY <1>2, <1>5

\* Trees that leave nothing on the stack.
LEMMA LevelLeads ==
  ASSUME NEW compile, NEW bf \in Func, NEW trees, IsSeq(trees),
         \A i \in 1..Len(trees) : \A b \in Func : Leads(b, 0, compile[trees[i]][b], 0)
  PROVE  Leads(bf, 0, InOrder(compile, bf, trees), 0)
<1> PICK n \in Nat : n = Len(trees)
  BY SeqFacts
<1> DEFINE hs == [i \in 0..n |-> 0]
<1>1. hs[0] = 0 /\ hs[n] = 0 /\ \A i \in 1..n : hs[i - 1] = 0 /\ hs[i] = 0
  OBVIOUS
<1> HIDE DEF hs
<1>2. \A i \in 1..n : \A b \in Func : Leads(b, hs[i - 1], compile[trees[i]][b], hs[i])
  BY <1>1
<1>3. Leads(bf, hs[0], InOrder(compile, bf, trees), hs[n])
  BY <1>2, InOrderLeads
<1> QED
  BY <1>1, <1>3

LEMMA BlockLeads ==
  ASSUME NEW c, NEW t, CompilesWell(c, t), NEW bf \in Func, NEW body \in Seq(t.stmt)
  PROVE  Leads(bf, 0, CompileBlock(c, bf, body), 0)
<1>1. IsSeq(body) /\ \A i \in 1..Len(body) : body[i] \in t.stmt
  BY AnySeq, ElementOfSeq
<1>2. \A i \in 1..Len(body) : \A b \in Func : Leads(b, 0, c.stmt[body[i]][b], 0)
  BY <1>1 DEF CompilesWell
<1> QED
  BY <1>1, <1>2, LevelLeads DEF CompileBlock

-----------------------------------------------------------------------------
(* Expressions                                                              *)

LEMMA CompileCallLeads ==
  ASSUME NEW c, NEW t, CompilesWell(c, t), NEW bf \in Func, NEW e, NEW h \in Nat,
         e.call_name \in STRING, e.args \in Seq(t.expr)
  PROVE  Leads(bf, h, CompileCall(c, bf, e), h + 1)
<1> PICK n \in Nat : n = Len(e.args)
  BY LenProperties
<1> PICK args : args = InOrder(c.expr, bf, e.args)
  OBVIOUS
<1>1. Leads(bf, h, args, h + n)
  BY ArgsLead
<1>2. args \in Func
  BY <1>1 DEF Leads, Grows
<1>3. CASE IsLocal(bf, e.call_name)
  <2> PICK name : name = PushName(args, e.call_name)
    OBVIOUS
  <2>1. Leads(args, h + n, name, (h + n) + 1)
    BY <1>2, NameLeads
  <2>2. name \in Func
    BY <2>1 DEF Leads, Grows
  <2>3. NoName \in STRING
    BY NamesAssumption DEF LiteralNames
  <2>4. Leads(name, h + (n + 1), EmitCall(name, n, -2, NoName), h + 1)
    BY <2>2, <2>3, CallLeads
  <2>5. (h + n) + 1 = h + (n + 1)
    OBVIOUS
  <2>6. CompileCall(c, bf, e) = EmitCall(name, n, -2, NoName)
    BY <1>3 DEF CompileCall
  <2> QED
    BY <1>1, <2>1, <2>4, <2>5, <2>6, LeadsOn
<1>4. CASE ~IsLocal(bf, e.call_name)
  <2> PICK known : known = FailIf(args, e.call_name \notin HostNames)
    OBVIOUS
  <2>1. Leads(args, h + n, known, h + n)
    BY <1>2, FailLeads
  <2>2. known \in Func
    BY <2>1 DEF Leads, Grows
  <2>3. Leads(known, h + n, EmitCall(known, n, -1, e.call_name), h + 1)
    <3>1. n = n + (IF -1 = -2 THEN 1 ELSE 0)
      OBVIOUS
    <3> QED
      BY <2>2, <3>1, CallLeads
  <2>4. CompileCall(c, bf, e) = EmitCall(known, n, -1, e.call_name)
    BY <1>4 DEF CompileCall
  <2> QED
    BY <1>1, <2>1, <2>3, <2>4, LeadsOn
<1> QED
  BY <1>3, <1>4

LEMMA ExprLeads ==
  ASSUME NEW c, NEW t, CompilesWell(c, t), NEW bf \in Func, NEW e \in ExprsOver(t),
         NEW h \in Nat
  PROVE  Leads(bf, h, CompileExpr(c, bf, e), h + 1)
<1>1. CASE e \in [kind: {"Const"}, value: Value]
  <2>1. e.kind = "Const" /\ e.value \in Value
    BY <1>1
  <2>2. CompileExpr(c, bf, e) = EmitConst(bf, e.value)
    BY <2>1 DEF CompileExpr
  <2> QED
    BY <2>1, <2>2, ConstLeads
<1>2. CASE e \in [kind: {"Ident"}, ident: STRING]
  <2>1. e.kind = "Ident"
    BY <1>2
  <2>2. CompileExpr(c, bf, e) = PushName(bf, e.ident)
    BY <2>1 DEF CompileExpr
  <2> QED
    BY <2>2, NameLeads
<1>3. CASE e \in [kind: {"Call"}, call_name: STRING, args: Seq(t.expr)]
  <2>1. e.kind = "Call" /\ e.call_name \in STRING /\ e.args \in Seq(t.expr)
    BY <1>3
  <2>2. CompileExpr(c, bf, e) = CompileCall(c, bf, e)
    BY <2>1 DEF CompileExpr
  <2> QED
    BY <2>1, <2>2, CompileCallLeads
<1>4. CASE e \in [kind: {"FuncLiteral"}, params: Seq(STRING), body: Seq(t.stmt)]
  <2>1. e.kind = "FuncLiteral"
    BY <1>4
  <2>2. CompileExpr(c, bf, e) = FailIf(bf, TRUE)
    BY <2>1 DEF CompileExpr
  <2> QED
    BY <2>2, FailedLeads
<1> QED
  BY <1>1, <1>2, <1>3, <1>4 DEF ExprsOver

-----------------------------------------------------------------------------
(* Statements                                                               *)

\* The expression of a statement, on an empty stack.
LEMMA FirstLeads ==
  ASSUME NEW c, NEW t, CompilesWell(c, t), NEW bf \in Func, NEW e \in t.expr
  PROVE  Leads(bf, 0, c.expr[e][bf], 1) /\ c.expr[e][bf] \in Func
<1>1. Leads(bf, 0, c.expr[e][bf], 0 + 1)
  BY DEF CompilesWell
<1> QED
  BY <1>1 DEF Leads, Grows

LEMMA LocalLeads ==
  ASSUME NEW c, NEW t, CompilesWell(c, t), NEW bf \in Func, NEW st,
         st.local_name \in STRING, st.local_init \in Optional(t.expr)
  PROVE  Leads(bf, 0, CompileLocal(c, bf, st), 0)
<1> PICK named : named = FailIf(bf, st.local_name = NoName)
  OBVIOUS
<1> PICK init : init = IF st.local_init = <<>> THEN EmitConst(named, Nil)
                                               ELSE c.expr[st.local_init[1]][named]
  OBVIOUS
<1>0. Leads(bf, 0, named, 0) /\ named \in Func
  BY FailLeads DEF Leads, Grows
<1>1. Leads(named, 0, init, 1)
  <2>1. CASE st.local_init = <<>>
    <3>1. Nil \in Value
      BY DEF Value
    <3>2. Leads(named, 0, EmitConst(named, Nil), 0 + 1)
      BY <1>0, <3>1, ConstLeads
    <3> QED
      BY <2>1, <3>2
  <2>2. CASE st.local_init # <<>>
    <3>1. st.local_init[1] \in t.expr
      BY <2>2 DEF Optional
    <3> QED
      BY <1>0, <2>2, <3>1, FirstLeads
  <2> QED
    BY <2>1, <2>2
<1>2. init \in Func
  BY <1>1 DEF Leads, Grows
<1>3. Leads(init, 0 + 1, StoreNew(init, st.local_name), 0)
  BY <1>2, NewLeads
<1>4. CompileLocal(c, bf, st) = StoreNew(init, st.local_name)
  BY DEF CompileLocal
<1> QED
  BY <1>0, <1>1, <1>3, <1>4, LeadsOn

LEMMA AssignLeads ==
  ASSUME NEW c, NEW t, CompilesWell(c, t), NEW bf \in Func, NEW st, st.rhs \in t.expr
  PROVE  Leads(bf, 0, CompileAssign(c, bf, st), 0)
<1> PICK named : named = FailIf(bf, st.lhs = NoName)
  OBVIOUS
<1> PICK rhs : rhs = c.expr[st.rhs][named]
  OBVIOUS
<1>0. Leads(bf, 0, named, 0) /\ named \in Func
  BY FailLeads DEF Leads, Grows
<1>1. Leads(bf, 0, rhs, 1) /\ rhs \in Func
  <2>1. Leads(named, 0, rhs, 1) /\ rhs \in Func
    BY <1>0, FirstLeads
  <2> QED
    BY ONLY <1>0, <2>1, LeadsOn
<1>2. CASE IsLocal(rhs, st.lhs)
  <2>1. Leads(rhs, 0 + 1, Emit(rhs, "STORE_LOCAL", Slot(rhs, st.lhs)), 0)
    BY <1>1, <1>2, StoreLeads
  <2>2. CompileAssign(c, bf, st) = Emit(rhs, "STORE_LOCAL", Slot(rhs, st.lhs))
    BY <1>2 DEF CompileAssign
  <2> QED
    BY <1>1, <2>1, <2>2, LeadsOn
<1>3. CASE ~IsLocal(rhs, st.lhs)
  <2> PICK d : d = FailIf(rhs, TRUE)
    OBVIOUS
  <2>1. Leads(rhs, 1, d, 0)
    BY <1>1, FailedLeads
  <2>2. CompileAssign(c, bf, st) = d
    BY <1>3 DEF CompileAssign
  <2>3. Leads(bf, 0, d, 0)
    BY ONLY <1>1, <2>1, LeadsOn
  <2> QED
    BY ONLY <2>2, <2>3
<1> QED
  BY <1>2, <1>3

LEMMA ExprStmtLeads ==
  ASSUME NEW c, NEW t, CompilesWell(c, t), NEW bf \in Func, NEW st, st.expr \in t.expr
  PROVE  Leads(bf, 0, CompileExprStmt(c, bf, st), 0)
<1> PICK d : d = FailIf(bf, st.expr.kind # "Call")
  OBVIOUS
<1>1. Leads(bf, 0, d, 0)
  BY FailLeads
<1>2. d \in Func
  BY <1>1 DEF Leads, Grows
<1> PICK e : e = c.expr[st.expr][d]
  OBVIOUS
<1>3. Leads(d, 0, e, 1) /\ e \in Func
  BY <1>2, FirstLeads
<1>4. Leads(e, 1, Emit(e, "POP", 1), 0)
  BY <1>3, PopLeads
<1>5. CompileExprStmt(c, bf, st) = Emit(e, "POP", 1)
  BY DEF CompileExprStmt
<1> QED
  BY <1>1, <1>3, <1>4, <1>5, LeadsOn

LEMMA ReturnLeads ==
  ASSUME NEW c, NEW t, CompilesWell(c, t), NEW bf \in Func, NEW st, st.expr \in t.expr
  PROVE  Leads(bf, 0, CompileReturn(c, bf, st), 0)
<1> PICK e : e = c.expr[st.expr][bf]
  OBVIOUS
<1>1. Leads(bf, 0, e, 1) /\ e \in Func
  BY FirstLeads
<1>2. Leads(e, 1, Emit(e, "RET", 0), 0)
  BY <1>1, RetLeads
<1> QED
  BY <1>1, <1>2, LeadsOn DEF CompileReturn
-----------------------------------------------------------------------------
(* Statements with jumps                                                    *)

LEMMA TestJumps ==
  ASSUME NEW bf \in Func, NEW out, out = Emit(bf, "JMP_IF_FALSE", 0)
  PROVE  /\ Grows(bf, out) /\ out \in Func /\ Here(out) = Here(bf) + 1
         /\ Stands(bf, 1) => Stands(out, 0) /\ Jump(out, Here(out))
<1>1. Heights(bf.code)[0] = 0 /\ 0 \in 0..Here(bf) /\ "JMP_IF_FALSE" \in Jumps
  BY FuncFacts, HeightsFacts DEF Here, Jumps
<1>2. /\ Grows(bf, out) /\ Here(out) = Here(bf) + 1
      /\ Stands(bf, 1) /\ (bf.ok => Heights(bf.code)[0] = 0) =>
           Stands(out, 0) /\ Jump(out, Here(out))
  BY <1>1, JumpLeads
<1> QED
  BY <1>1, <1>2 DEF Grows

\* A jump back to where start ended.
LEMMA BackJumps ==
  ASSUME NEW start, NEW bf, Grows(start, bf), NEW out, out = Emit(bf, "JMP", Here(start))
  PROVE  /\ Grows(bf, out) /\ out \in Func /\ Here(out) = Here(bf) + 1
         /\ Stands(start, 0) /\ Stands(bf, 0) => Stands(out, 0) /\ Jump(out, Here(out))
<1> PICK a : a = Here(start)
  OBVIOUS
<1>1. a \in 0..Here(bf) /\ "JMP" \in Jumps /\ bf \in Func
  BY FuncFacts DEF Grows, Here, Jumps
<1>2. /\ Grows(bf, out) /\ Here(out) = Here(bf) + 1
      /\ Stands(bf, 0) /\ (bf.ok => Heights(bf.code)[a] = 0) =>
           Stands(out, 0) /\ Jump(out, Here(out))
  BY <1>1, JumpLeads
<1>3. ASSUME Stands(start, 0), bf.ok PROVE Heights(bf.code)[a] = 0
  <2>1. start.ok /\ start \in Func
    BY <1>3 DEF Grows
  <2>2. Heights(start.code)[a] = 0
    BY <1>3, <2>1 DEF Stands, Height
  <2>3. a \in 0..Len(start.code)
    BY <2>1, FuncFacts DEF Here
  <2> QED
    BY <2>2, <2>3, GrownHeights
<1> QED
  BY <1>2, <1>3 DEF Grows

\* A jump that is to land later: its target is 0 until then.
LEMMA OpenJumps ==
  ASSUME NEW bf \in Func, NEW out, out = Emit(bf, "JMP", 0)
  PROVE  /\ Grows(bf, out) /\ out \in Func /\ Here(out) = Here(bf) + 1
         /\ Stands(bf, 0) => Stands(out, 0) /\ Jump(out, Here(out))
<1>1. Heights(bf.code)[0] = 0 /\ 0 \in 0..Here(bf) /\ "JMP" \in Jumps
  BY FuncFacts, HeightsFacts DEF Here, Jumps
<1>2. /\ Grows(bf, out) /\ Here(out) = Here(bf) + 1
      /\ Stands(bf, 0) /\ (bf.ok => Heights(bf.code)[0] = 0) =>
           Stands(out, 0) /\ Jump(out, Here(out))
  BY <1>1, JumpLeads
<1> QED
  BY <1>1, <1>2 DEF Grows

LEMMA HereRises ==
  ASSUME NEW bf, NEW out, Grows(bf, out)
  PROVE  Here(bf) \in Nat /\ Here(out) \in Nat /\ Here(bf) <= Here(out)
  BY FuncFacts DEF Grows, Here

LEMMA ArmLeads ==
  ASSUME NEW c, NEW t, CompilesWell(c, t), NEW bf \in Func, NEW cond \in t.expr,
         NEW body \in Seq(t.stmt), NEW arm, arm = CompileArm(c, bf, cond, body)
  PROVE  /\ Grows(bf, arm) /\ arm \in Func /\ Here(bf) < Here(arm)
         /\ Stands(bf, 0) => Stands(arm, 0) /\ Jump(arm, Here(arm))
<1> PICK e : e = c.expr[cond][bf]
  OBVIOUS
<1>1. Leads(bf, 0, e, 1) /\ e \in Func
  BY FirstLeads
<1> PICK test : test = Emit(e, "JMP_IF_FALSE", 0)
  OBVIOUS
<1>2. /\ Grows(e, test) /\ test \in Func /\ Here(test) = Here(e) + 1
      /\ Stands(e, 1) => Stands(test, 0) /\ Jump(test, Here(test))
  BY <1>1, TestJumps
<1> PICK block : block = CompileBlock(c, test, body)
  OBVIOUS
<1>3. Leads(test, 0, block, 0) /\ Grows(test, block) /\ block \in Func
  BY <1>2, BlockLeads DEF Leads, Grows
<1> PICK jump : jump = Emit(block, "JMP", 0)
  OBVIOUS
<1>4. /\ Grows(block, jump) /\ jump \in Func /\ Here(jump) = Here(block) + 1
      /\ Stands(block, 0) => Stands(jump, 0) /\ Jump(jump, Here(jump))
  BY <1>3, OpenJumps
<1>5. arm = Land(jump, Here(test))
  BY DEF CompileArm
<1>6. Grows(bf, e) /\ Grows(test, jump) /\ Grows(bf, jump)
  BY <1>1, <1>2, <1>3, <1>4, GrowsOn DEF Leads
<1>7. Here(test) \in Here(bf) + 1..Here(jump) /\ Here(bf) < Here(jump)
  <2>1. /\ Here(bf) \in Nat /\ Here(e) \in Nat /\ Here(test) \in Nat /\ Here(jump) \in Nat
        /\ Here(bf) <= Here(e) /\ Here(test) <= Here(jump)
    BY <1>6, HereRises
  <2> QED
    BY <1>2, <2>1
<1>8. Grows(bf, arm) /\ arm \in Func /\ Here(arm) = Here(jump)
  BY <1>5, <1>6, <1>7, LandGrows
<1>9. ASSUME Stands(bf, 0) PROVE Stands(arm, 0) /\ Jump(arm, Here(arm))
  <2>1. Stands(test, 0) /\ Jump(test, Here(test))
    BY <1>1, <1>2, <1>9 DEF Leads
  <2>2. Stands(jump, 0) /\ Jump(jump, Here(jump))
    BY <1>3, <1>4, <2>1 DEF Leads
  <2>3. Jump(jump, Here(test))
    BY <1>6, <2>1, JumpKept
  <2>4. Stands(arm, 0) /\ Jump(arm, Here(jump))
    BY <1>5, <2>2, <2>3, LandStands
  <2> QED
    BY <1>8, <2>4
<1> QED
  BY <1>7, <1>8, <1>9

LEMMA ElseifLeads ==
  ASSUME NEW c, NEW t, CompilesWell(c, t), NEW bf \in Func, NEW part \in PartsOver(t)
  PROVE  Leads(bf, 0, CompileElseif(c, bf, part), 0)
<1> PICK arm : arm = CompileArm(c, bf, part.cond, part.body)
  OBVIOUS
<1>1. part.cond \in t.expr /\ part.body \in Seq(t.stmt)
  BY DEF PartsOver
<1>2. /\ Grows(bf, arm) /\ arm \in Func /\ Here(bf) < Here(arm)
      /\ Stands(bf, 0) => Stands(arm, 0) /\ Jump(arm, Here(arm))
  BY <1>1, ArmLeads
<1>3. CompileElseif(c, bf, part) = Land(arm, Here(arm))
  BY DEF CompileElseif
<1>4. Here(arm) \in Here(bf) + 1..Here(arm)
  BY <1>2, HereRises
<1>5. Grows(bf, Land(arm, Here(arm)))
  BY <1>2, <1>4, LandGrows
<1>6. Stands(bf, 0) => Stands(Land(arm, Here(arm)), 0)
  BY <1>2, LandStands
<1> QED
  BY <1>3, <1>5, <1>6 DEF Leads

LEMMA IfLeads ==
  ASSUME NEW c, NEW t, CompilesWell(c, t), NEW bf \in Func, NEW st, st.cond \in t.expr,
         st.then_body \in Seq(t.stmt), st.elseif_parts \in Seq(PartsOver(t)),
         st.else_body \in Seq(t.stmt)
  PROVE  Leads(bf, 0, CompileIf(c, bf, st), 0)
<1> PICK first : first = CompileArm(c, bf, st.cond, st.then_body)
  OBVIOUS
<1>1. /\ Grows(bf, first) /\ first \in Func /\ Here(bf) < Here(first)
      /\ Stands(bf, 0) => Stands(first, 0) /\ Jump(first, Here(first))
  BY ArmLeads
<1> PICK elseif : elseif = [p \in ToSet(st.elseif_parts) |->
                             [x \in Func |-> CompileElseif(c, x, p)]]
  OBVIOUS
<1> PICK parts : parts = InOrder(elseif, first, st.elseif_parts)
  OBVIOUS
<1>2. Leads(first, 0, parts, 0)
  <2> PICK n \in Nat : n = Len(st.elseif_parts) /\ DOMAIN st.elseif_parts = 1..n
    BY LenProperties
  <2>1. \A i \in 1..n : st.elseif_parts[i] \in PartsOver(t)
    BY ElementOfSeq
  <2>2. \A i \in 1..n : st.elseif_parts[i] \in ToSet(st.elseif_parts)
    BY DEF ToSet
  <2>3. \A i \in 1..n : \A b \in Func :
          elseif[st.elseif_parts[i]][b] = CompileElseif(c, b, st.elseif_parts[i])
    BY <2>2
  <2>4. \A i \in 1..n : \A b \in Func : Leads(b, 0, elseif[st.elseif_parts[i]][b], 0)
    BY <2>1, <2>3, ElseifLeads
  <2>5. IsSeq(st.elseif_parts)
    BY AnySeq
  <2> QED
    BY <1>1, <2>4, <2>5, LevelLeads
<1>3. parts \in Func
  BY <1>2 DEF Leads, Grows
<1> PICK block : block = CompileBlock(c, parts, st.else_body)
  OBVIOUS
<1>4. Leads(parts, 0, block, 0)
  BY <1>3, BlockLeads
<1>5. Leads(first, 0, block, 0)
  BY <1>2, <1>4, LeadsOn
<1>6. Grows(first, block) /\ Grows(bf, block)
  BY <1>1, <1>5, GrowsOn DEF Leads
<1>7. Here(first) \in Here(bf) + 1..Here(block)
  BY <1>1, <1>6, HereRises
<1>8. Grows(bf, Land(block, Here(first)))
  BY <1>6, <1>7, LandGrows
<1>9. ASSUME Stands(bf, 0) PROVE Stands(Land(block, Here(first)), 0)
  <2>1. Stands(block, 0) /\ Jump(first, Here(first))
    BY <1>1, <1>5, <1>9 DEF Leads
  <2>2. Jump(block, Here(first))
    BY <1>6, <2>1, JumpKept
  <2> QED
    BY <2>1, <2>2, LandStands
<1>10. CompileIf(c, bf, st) = Land(block, Here(first))
  BY DEF CompileIf
<1> QED
  BY <1>8, <1>9, <1>10 DEF Leads

\* A loop: a test, a body, a jump back to where start ended, and out of the loop.
LEMMA LoopLeads ==
  ASSUME NEW start, NEW less, Leads(start, 0, less, 1), NEW test,
         test = Emit(less, "JMP_IF_FALSE", 0), NEW body, Leads(test, 0, body, 0)
  PROVE  Leads(start, 0, Land(Emit(body, "JMP", Here(start)), Here(test)), 0)
<1> PICK back : back = Emit(body, "JMP", Here(start))
  OBVIOUS
<1>1. Grows(start, less) /\ less \in Func /\ Grows(test, body)
  BY DEF Leads, Grows
<1>2. /\ Grows(less, test) /\ Here(test) = Here(less) + 1
      /\ Stands(less, 1) => Stands(test, 0) /\ Jump(test, Here(test))
  BY <1>1, TestJumps
<1>3. Grows(start, test) /\ Grows(start, body)
  BY <1>1, <1>2, GrowsOn
<1>4. /\ Grows(body, back)
      /\ Stands(start, 0) /\ Stands(body, 0) => Stands(back, 0)
  BY <1>3, BackJumps
<1>5. Grows(test, back) /\ Grows(start, back)
  BY <1>1, <1>3, <1>4, GrowsOn
<1>6. Here(test) \in Here(start) + 1..Here(back)
  <2>1. /\ Here(start) \in Nat /\ Here(less) \in Nat /\ Here(test) \in Nat
        /\ Here(back) \in Nat /\ Here(start) <= Here(less) /\ Here(test) <= Here(back)
    BY <1>1, <1>5, HereRises
  <2> QED
    BY <1>2, <2>1
<1>7. Grows(start, Land(back, Here(test)))
  BY <1>5, <1>6, LandGrows
<1>8. ASSUME Stands(start, 0) PROVE Stands(Land(back, Here(test)), 0)
  <2>1. Stands(test, 0) /\ Jump(test, Here(test))
    BY <1>2, <1>8 DEF Leads
  <2>2. Stands(back, 0)
    BY <1>4, <1>8, <2>1 DEF Leads
  <2>3. Jump(back, Here(test))
    BY <1>5, <2>1, JumpKept
  <2> QED
    BY <2>2, <2>3, LandStands
<1> QED
  BY <1>7, <1>8 DEF Leads

LEMMA WhileLeads ==
  ASSUME NEW c, NEW t, CompilesWell(c, t), NEW bf \in Func, NEW st, st.cond \in t.expr,
         st.then_body \in Seq(t.stmt)
  PROVE  Leads(bf, 0, CompileWhile(c, bf, st), 0)
<1> PICK e : e = c.expr[st.cond][bf]
  OBVIOUS
<1>1. Leads(bf, 0, e, 1) /\ e \in Func
  BY FirstLeads
<1> PICK test : test = Emit(e, "JMP_IF_FALSE", 0)
  OBVIOUS
<1>2. test \in Func
  BY <1>1, TestJumps
<1> PICK body : body = CompileBlock(c, test, st.then_body)
  OBVIOUS
<1>3. Leads(test, 0, body, 0)
  BY <1>2, BlockLeads
<1>4. CompileWhile(c, bf, st) = Land(Emit(body, "JMP", Here(bf)), Here(test))
  BY DEF CompileWhile
<1> QED
  BY <1>1, <1>3, <1>4, LoopLeads

LEMMA ForeachWords ==
  /\ "__foreach_seq" \in STRING /\ "__foreach_idx" \in STRING /\ "strlen" \in STRING
  /\ "lt" \in STRING /\ "str_char_at" \in STRING /\ "add" \in STRING
  BY NamesAssumption DEF LiteralNames

\* A call of a host function, on what is its arguments.
LEMMA HostCallLeads ==
  ASSUME NEW bf \in Func, NEW n \in Nat, NEW name \in STRING
  PROVE  Leads(bf, n, EmitCall(bf, n, -1, name), 1)
<1>1. n = n + (IF -1 = -2 THEN 1 ELSE 0) /\ -1 \in {-2, -1}
  OBVIOUS
<1> PICK out : out = EmitCall(bf, n, -1, name)
  OBVIOUS
<1>2. Leads(bf, 0 + n, out, 0 + 1)
  BY <1>1, CallLeads
<1>3. 0 + n = n /\ 0 + 1 = 1
  OBVIOUS
<1>4. Leads(bf, n, out, 1)
  BY ONLY <1>2, <1>3
<1> QED
  BY <1>4

\* What foreach does with the value of its expression.
LEMMA StartLeads ==
  ASSUME NEW e \in Func, NEW seq, seq = StoreNew(e, "__foreach_seq"),
         NEW idx, idx = AddLocal(seq, "__foreach_idx"), NEW zero, zero = EmitConst(idx, Number(0)),
         NEW start, start = StoreNew(zero, "__foreach_idx")
  PROVE  Leads(e, 1, start, 0)
<1>1. Leads(e, 0 + 1, seq, 0)
  BY ForeachWords, NewLeads
<1>2. seq \in Func
  BY <1>1 DEF Leads, Grows
<1>3. Leads(seq, 0, idx, 0) /\ idx \in Func
  BY <1>2, ForeachWords, AddLeads
<1>4. Number(0) \in Value
  BY DEF Number, Value
<1>5. Leads(idx, 0, zero, 0 + 1)
  BY <1>3, <1>4, ConstLeads
<1>6. zero \in Func
  BY <1>5 DEF Leads, Grows
<1>7. Leads(zero, 0 + 1, start, 0)
  BY <1>6, ForeachWords, NewLeads
<1>8. Leads(e, 0 + 1, idx, 0)
  BY ONLY <1>1, <1>3, LeadsOn
<1>9. Leads(idx, 0, start, 0)
  BY ONLY <1>5, <1>7, LeadsOn
<1> QED
  BY <1>8, <1>9, LeadsOn

\* Its test.
LEMMA LessLeads ==
  ASSUME NEW start \in Func, NEW str, str = PushName(start, "__foreach_seq"),
         NEW len, len = EmitCall(str, 1, -1, "strlen"),
         NEW pos, pos = PushName(len, "__foreach_idx"),
         NEW less, less = EmitCall(pos, 2, -1, "lt")
  PROVE  Leads(start, 0, less, 1)
<1>1. Leads(start, 0, str, 0 + 1)
  BY NameLeads
<1>2. str \in Func
  BY <1>1 DEF Leads, Grows
<1>3. Leads(str, 1, len, 1)
  BY <1>2, ForeachWords, HostCallLeads
<1>4. len \in Func
  BY <1>3 DEF Leads, Grows
<1>5. Leads(len, 1, pos, 1 + 1)
  BY <1>4, NameLeads
<1>6. pos \in Func
  BY <1>5 DEF Leads, Grows
<1>7. Leads(pos, 2, less, 1)
  BY <1>6, ForeachWords, HostCallLeads
<1>8. Leads(start, 0, len, 1)
  BY <1>1, <1>3, LeadsOn
<1>9. Leads(len, 1, less, 1)
  BY <1>5, <1>7, LeadsOn
<1> QED
  BY <1>8, <1>9, LeadsOn

\* The item of one round.
LEMMA ItemLeads ==
  ASSUME NEW test \in Func, NEW one, one = PushName(test, "__foreach_seq"),
         NEW both, both = PushName(one, "__foreach_idx"),
         NEW char, char = EmitCall(both, 2, -1, "str_char_at"),
         NEW name \in STRING, NEW item, item = StoreNew(char, name)
  PROVE  Leads(test, 0, item, 0)
<1>1. Leads(test, 0, one, 0 + 1)
  BY NameLeads
<1>2. one \in Func
  BY <1>1 DEF Leads, Grows
<1>3. Leads(one, 1, both, 1 + 1)
  BY <1>2, NameLeads
<1>4. both \in Func
  BY <1>3 DEF Leads, Grows
<1>5. Leads(both, 2, char, 1)
  BY <1>4, ForeachWords, HostCallLeads
<1>6. char \in Func
  BY <1>5 DEF Leads, Grows
<1>7. Leads(char, 1, item, 0)
  <2>1. Leads(char, 0 + 1, item, 0)
    BY <1>6, NewLeads
  <2> QED
    BY <2>1
<1>8. Leads(test, 0, both, 2)
  BY <1>1, <1>3, LeadsOn
<1>9. Leads(both, 2, item, 0)
  BY ONLY <1>5, <1>7, LeadsOn
<1> QED
  BY <1>8, <1>9, LeadsOn

\* The index of the next round.
LEMMA NextLeads ==
  ASSUME NEW body \in Func, NEW now, now = PushName(body, "__foreach_idx"),
         NEW inc, inc = EmitConst(now, Number(1)), NEW sum, sum = EmitCall(inc, 2, -1, "add"),
         NEW next, next = StoreNew(sum, "__foreach_idx")
  PROVE  Leads(body, 0, next, 0)
<1>1. Leads(body, 0, now, 0 + 1)
  BY NameLeads
<1>2. now \in Func
  BY <1>1 DEF Leads, Grows
<1>3. Number(1) \in Value
  BY DEF Number, Value
<1>4. Leads(now, 1, inc, 1 + 1)
  BY <1>2, <1>3, ConstLeads
<1>5. inc \in Func
  BY <1>4 DEF Leads, Grows
<1>6. Leads(inc, 2, sum, 1)
  BY <1>5, ForeachWords, HostCallLeads
<1>7. sum \in Func
  BY <1>6 DEF Leads, Grows
<1>8. Leads(sum, 1, next, 0)
  <2>1. Leads(sum, 0 + 1, next, 0)
    BY <1>7, ForeachWords, NewLeads
  <2> QED
    BY <2>1
<1>9. Leads(body, 0, inc, 2)
  BY <1>1, <1>4, LeadsOn
<1>10. Leads(inc, 2, next, 0)
  BY ONLY <1>6, <1>8, LeadsOn
<1> QED
  BY <1>9, <1>10, LeadsOn

LEMMA ForeachLeads ==
  ASSUME NEW c, NEW t, CompilesWell(c, t), NEW bf \in Func, NEW st,
         st.iter_name \in STRING, st.iter_expr \in t.expr, st.foreach_body \in Seq(t.stmt)
  PROVE  Leads(bf, 0, CompileForeach(c, bf, st), 0)
<1> PICK e : e = c.expr[st.iter_expr][bf]
  OBVIOUS
<1> PICK seq : seq = StoreNew(e, "__foreach_seq")
  OBVIOUS
<1> PICK start : start = StoreNew(EmitConst(AddLocal(seq, "__foreach_idx"), Number(0)),
                                  "__foreach_idx")
  OBVIOUS
<1> PICK len : len = EmitCall(PushName(start, "__foreach_seq"), 1, -1, "strlen")
  OBVIOUS
<1> PICK less : less = EmitCall(PushName(len, "__foreach_idx"), 2, -1, "lt")
  OBVIOUS
<1> PICK test : test = Emit(less, "JMP_IF_FALSE", 0)
  OBVIOUS
<1> PICK both : both = PushName(PushName(test, "__foreach_seq"), "__foreach_idx")
  OBVIOUS
<1> PICK item : item = StoreNew(EmitCall(both, 2, -1, "str_char_at"), st.iter_name)
  OBVIOUS
<1> PICK body : body = CompileBlock(c, item, st.foreach_body)
  OBVIOUS
<1> PICK sum : sum = EmitCall(EmitConst(PushName(body, "__foreach_idx"), Number(1)), 2, -1, "add")
  OBVIOUS
<1> PICK next : next = StoreNew(sum, "__foreach_idx")
  OBVIOUS
<1>1. Leads(bf, 0, e, 1) /\ e \in Func
  BY FirstLeads
<1>2. Leads(e, 1, start, 0)
  BY <1>1, StartLeads
<1>3. start \in Func
  BY <1>2 DEF Leads, Grows
<1>4. Leads(start, 0, less, 1)
  BY <1>3, LessLeads
<1>5. less \in Func
  BY <1>4 DEF Leads, Grows
<1>6. test \in Func
  BY <1>5, TestJumps
<1>7. Leads(test, 0, item, 0)
  BY <1>6, ItemLeads
<1>8. item \in Func
  BY <1>7 DEF Leads, Grows
<1>9. Leads(item, 0, body, 0)
  BY <1>8, BlockLeads
<1>10. body \in Func
  BY <1>9 DEF Leads, Grows
<1>11. Leads(body, 0, next, 0)
  BY <1>10, NextLeads
<1>12. Leads(test, 0, body, 0)
  BY ONLY <1>7, <1>9, LeadsOn
<1>13. Leads(test, 0, next, 0)
  BY ONLY <1>11, <1>12, LeadsOn
<1>14. Leads(bf, 0, start, 0)
  BY ONLY <1>1, <1>2, LeadsOn
<1> PICK loop : loop = Land(Emit(next, "JMP", Here(start)), Here(test))
  OBVIOUS
<1>15. Leads(start, 0, loop, 0)
  BY <1>4, <1>13, LoopLeads
<1>16. Leads(bf, 0, loop, 0)
  BY ONLY <1>14, <1>15, LeadsOn
<1>17. CompileForeach(c, bf, st) = loop
  BY DEF CompileForeach
<1> QED
  BY ONLY <1>16, <1>17

LEMMA StmtLeads ==
  ASSUME NEW c, NEW t, CompilesWell(c, t), NEW bf \in Func, NEW st \in StmtsOver(t)
  PROVE  Leads(bf, 0, CompileStmt(c, bf, st), 0)
<1>1. CASE st \in [kind: {"Local"}, local_name: STRING, local_init: Optional(t.expr)]
  <2>1. st.kind = "Local" /\ st.local_name \in STRING /\ st.local_init \in Optional(t.expr)
    BY <1>1
  <2>2. CompileStmt(c, bf, st) = CompileLocal(c, bf, st)
    BY <2>1 DEF CompileStmt
  <2> QED
    BY <2>1, <2>2, LocalLeads
<1>2. CASE st \in [kind: {"Assign"}, lhs: STRING, rhs: t.expr]
  <2>1. st.kind = "Assign" /\ st.rhs \in t.expr
    BY <1>2
  <2>2. CompileStmt(c, bf, st) = CompileAssign(c, bf, st)
    BY <2>1 DEF CompileStmt
  <2> QED
    BY <2>1, <2>2, AssignLeads
<1>3. CASE st \in [kind: {"Expr", "Return"}, expr: t.expr]
  <2>1. st.kind \in {"Expr", "Return"} /\ st.expr \in t.expr
    BY <1>3
  <2>2. st.kind = "Expr" => CompileStmt(c, bf, st) = CompileExprStmt(c, bf, st)
    BY DEF CompileStmt
  <2>3. st.kind = "Return" => CompileStmt(c, bf, st) = CompileReturn(c, bf, st)
    BY DEF CompileStmt
  <2> QED
    BY <2>1, <2>2, <2>3, ExprStmtLeads, ReturnLeads
<1>4. CASE st \in [kind: {"If"}, cond: t.expr, then_body: Seq(t.stmt),
                   elseif_parts: Seq(PartsOver(t)), else_body: Seq(t.stmt)]
  <2>1. /\ st.kind = "If" /\ st.cond \in t.expr /\ st.then_body \in Seq(t.stmt)
        /\ st.elseif_parts \in Seq(PartsOver(t)) /\ st.else_body \in Seq(t.stmt)
    BY <1>4
  <2>2. CompileStmt(c, bf, st) = CompileIf(c, bf, st)
    BY <2>1 DEF CompileStmt
  <2> QED
    BY <2>1, <2>2, IfLeads
<1>5. CASE st \in [kind: {"While"}, cond: t.expr, then_body: Seq(t.stmt)]
  <2>1. st.kind = "While" /\ st.cond \in t.expr /\ st.then_body \in Seq(t.stmt)
    BY <1>5
  <2>2. CompileStmt(c, bf, st) = CompileWhile(c, bf, st)
    BY <2>1 DEF CompileStmt
  <2> QED
    BY <2>1, <2>2, WhileLeads
<1>6. CASE st \in [kind: {"Foreach"}, iter_name: STRING, iter_expr: t.expr,
                   foreach_body: Seq(t.stmt)]
  <2>1. /\ st.kind = "Foreach" /\ st.iter_name \in STRING /\ st.iter_expr \in t.expr
        /\ st.foreach_body \in Seq(t.stmt)
    BY <1>6
  <2>2. CompileStmt(c, bf, st) = CompileForeach(c, bf, st)
    BY <2>1 DEF CompileStmt
  <2> QED
    BY <2>1, <2>2, ForeachLeads
<1> QED
  BY <1>1, <1>2, <1>3, <1>4, <1>5, <1>6 DEF StmtsOver
-----------------------------------------------------------------------------
(* Trees of any number of levels                                            *)

\* What the two functions of Ast and Compiler have to satisfy.
TreesBody(f, d) ==
  IF d = 0 THEN [expr |-> {}, stmt |-> {}]
  ELSE [expr |-> ExprsOver(f[d - 1]), stmt |-> StmtsOver(f[d - 1])]

CompileBody(f, d) ==
  [expr |-> [e \in TreesUpTo[d].expr |-> [bf \in Func |-> CompileExpr(f[d - 1], bf, e)]],
   stmt |-> [s \in TreesUpTo[d].stmt |-> [bf \in Func |-> CompileStmt(f[d - 1], bf, s)]]]

LEMMA TreesExist == \A n \in Nat : \E f : f = [d \in 0..n |-> TreesBody(f, d)]
<1> DEFINE T == {n \in Nat : \E f : f = [d \in 0..n |-> TreesBody(f, d)]}
<1>1. 0 \in T
  <2> PICK f : f = [d \in 0..0 |-> [expr |-> {}, stmt |-> {}]]
    OBVIOUS
  <2>1. \A d \in 0..0 : TreesBody(f, d) = [expr |-> {}, stmt |-> {}]
    BY DEF TreesBody
  <2>2. f = [d \in 0..0 |-> TreesBody(f, d)]
    BY <2>1
  <2> QED
    BY <2>2
<1>2. ASSUME NEW n \in Nat, n \in T PROVE n + 1 \in T
  <2>1. PICK f : f = [d \in 0..n |-> TreesBody(f, d)]
    BY <1>2
  <2> PICK last : last = TreesBody(f, n + 1)
    OBVIOUS
  <2>2. PICK g : g = [d \in 0..n + 1 |-> IF d = n + 1 THEN last ELSE f[d]]
    OBVIOUS
  <2>3. \A d \in 0..n : g[d] = f[d] /\ f[d] = TreesBody(f, d)
    BY <2>1, <2>2
  <2>4. \A d \in 0..n + 1 : g[d] = TreesBody(g, d)
    <3> TAKE d \in 0..n + 1
    <3>1. d # 0 => d - 1 \in 0..n
      OBVIOUS
    <3>2. TreesBody(g, d) = TreesBody(f, d)
      BY <2>3, <3>1 DEF TreesBody
    <3>3. CASE d = n + 1
      BY <2>2, <3>2, <3>3
    <3>4. CASE d # n + 1
      <4>1. d \in 0..n
        BY <3>4
      <4> QED
        BY <2>3, <3>2, <4>1
    <3> QED
      BY <3>3, <3>4
  <2>5. g = [d \in 0..n + 1 |-> TreesBody(g, d)]
    <3>1. DOMAIN g = 0..n + 1 /\ g = [d \in DOMAIN g |-> g[d]]
      BY <2>2
    <3> QED
      BY <2>4, <3>1
  <2> QED
    BY <2>5
<1> HIDE DEF T
<1>3. \A n \in Nat : n \in T
  BY <1>1, <1>2, FromZero
<1> QED
  BY <1>3 DEF T

LEMMA TreesFacts ==
  /\ TreesUpTo[0] = [expr |-> {}, stmt |-> {}]
  /\ \A d \in 1..MaxNesting :
       TreesUpTo[d] = [expr |-> ExprsOver(TreesUpTo[d - 1]), stmt |-> StmtsOver(TreesUpTo[d - 1])]
<1> PICK n \in Nat : n = MaxNesting
  BY NestingAssumption
<1>1. PICK f : f = [d \in 0..n |-> TreesBody(f, d)]
  BY TreesExist
<1>2. PICK u : u = CHOOSE g : g = [d \in 0..n |-> TreesBody(g, d)]
  OBVIOUS
<1>3. u = [d \in 0..n |-> TreesBody(u, d)]
  BY <1>1, <1>2
<1>4. TreesUpTo = [d \in 0..n |-> u[d]]
  BY <1>2 DEF TreesUpTo, TreesBody
<1>5. \A d \in 0..n : TreesUpTo[d] = u[d] /\ u[d] = TreesBody(u, d)
  BY <1>3, <1>4
<1>6. TreesUpTo[0] = [expr |-> {}, stmt |-> {}]
  <2>1. 0 \in 0..n
    OBVIOUS
  <2>2. TreesUpTo[0] = TreesBody(u, 0)
    BY <1>5, <2>1
  <2> QED
    BY <2>2 DEF TreesBody
<1>7. \A d \in 1..n :
        TreesUpTo[d] = [expr |-> ExprsOver(TreesUpTo[d - 1]), stmt |-> StmtsOver(TreesUpTo[d - 1])]
  <2> TAKE d \in 1..n
  <2>1. d \in 0..n /\ d - 1 \in 0..n /\ d # 0
    OBVIOUS
  <2>2. TreesUpTo[d] = TreesBody(u, d) /\ u[d - 1] = TreesUpTo[d - 1]
    BY <1>5, <2>1
  <2> QED
    BY <2>1, <2>2 DEF TreesBody
<1> QED
  BY <1>6, <1>7

LEMMA CompileExists ==
  \A n \in Nat : n <= MaxNesting => \E f : f = [d \in 0..n |-> CompileBody(f, d)]
<1> DEFINE T == {n \in Nat : \E f : f = [d \in 0..n |-> CompileBody(f, d)]}
<1>0. \A f, g : CompileBody(f, 0) = CompileBody(g, 0)
  <2> TAKE f, g
  <2>1. TreesUpTo[0].expr = {} /\ TreesUpTo[0].stmt = {}
    BY TreesFacts
  <2>2. [e \in TreesUpTo[0].expr |-> [bf \in Func |-> CompileExpr(f[0 - 1], bf, e)]]
          = [e \in TreesUpTo[0].expr |-> [bf \in Func |-> CompileExpr(g[0 - 1], bf, e)]]
    BY <2>1
  <2>3. [s \in TreesUpTo[0].stmt |-> [bf \in Func |-> CompileStmt(f[0 - 1], bf, s)]]
          = [s \in TreesUpTo[0].stmt |-> [bf \in Func |-> CompileStmt(g[0 - 1], bf, s)]]
    BY <2>1
  <2> QED
    BY <2>2, <2>3 DEF CompileBody
<1>1. 0 \in T
  <2> PICK f : f = [d \in 0..0 |-> CompileBody(<<>>, 0)]
    OBVIOUS
  <2>1. \A d \in 0..0 : CompileBody(f, d) = CompileBody(<<>>, 0)
    <3> TAKE d \in 0..0
    <3>1. d = 0
      OBVIOUS
    <3> QED
      BY <1>0, <3>1
  <2>2. f = [d \in 0..0 |-> CompileBody(f, d)]
    BY <2>1
  <2> QED
    BY <2>2
<1>2. ASSUME NEW n \in Nat, n \in T PROVE n + 1 \in T
  <2>1. PICK f : f = [d \in 0..n |-> CompileBody(f, d)]
    BY <1>2
  <2> PICK last : last = CompileBody(f, n + 1)
    OBVIOUS
  <2>2. PICK g : g = [d \in 0..n + 1 |-> IF d = n + 1 THEN last ELSE f[d]]
    OBVIOUS
  <2>3. \A d \in 0..n : g[d] = f[d] /\ f[d] = CompileBody(f, d)
    BY <2>1, <2>2
  <2>4. \A d \in 0..n + 1 : g[d] = CompileBody(g, d)
    <3> TAKE d \in 0..n + 1
    <3>1. CompileBody(g, d) = CompileBody(f, d)
      <4>1. CASE d = 0
        BY <1>0, <4>1
      <4>2. CASE d # 0
        <5>1. d - 1 \in 0..n
          BY <4>2
        <5>2. g[d - 1] = f[d - 1]
          BY <2>3, <5>1
        <5> QED
          BY <5>2 DEF CompileBody
      <4> QED
        BY <4>1, <4>2
    <3>2. CASE d = n + 1
      BY <2>2, <3>1, <3>2
    <3>3. CASE d # n + 1
      <4>1. d \in 0..n
        BY <3>3
      <4> QED
        BY <2>3, <3>1, <4>1
    <3> QED
      BY <3>2, <3>3
  <2>5. g = [d \in 0..n + 1 |-> CompileBody(g, d)]
    <3>1. DOMAIN g = 0..n + 1 /\ g = [d \in DOMAIN g |-> g[d]]
      BY <2>2
    <3> QED
      BY <2>4, <3>1
  <2> QED
    BY <2>5
<1> HIDE DEF T
<1>3. \A n \in Nat : n \in T
  BY <1>1, <1>2, FromZero
<1> QED
  BY <1>3 DEF T

LEMMA CompileFacts == \A d \in 0..MaxNesting : Compile[d] = CompileBody(Compile, d)
<1> PICK n \in Nat : n = MaxNesting
  BY NestingAssumption
<1>1. PICK f : f = [d \in 0..n |-> CompileBody(f, d)]
  BY CompileExists
<1>2. Compile = CHOOSE g : g = [d \in 0..n |-> CompileBody(g, d)]
  BY DEF Compile, CompileBody
<1>3. Compile = [d \in 0..n |-> CompileBody(Compile, d)]
  BY <1>1, <1>2
<1> QED
  BY <1>3

\* Every tree is compiled well.
LEMMA LevelsCompileWell == \A d \in 0..MaxNesting : CompilesWell(Compile[d], TreesUpTo[d])
<1> PICK n \in Nat : n = MaxNesting
  BY NestingAssumption
<1> DEFINE T == {d \in Nat : d <= n => CompilesWell(Compile[d], TreesUpTo[d])}
<1>1. 0 \in T
  BY TreesFacts DEF CompilesWell
<1>2. ASSUME NEW d \in Nat, d \in T PROVE d + 1 \in T
  <2> SUFFICES ASSUME d + 1 <= n PROVE CompilesWell(Compile[d + 1], TreesUpTo[d + 1])
    OBVIOUS
  <2> PICK k : k = d + 1
    OBVIOUS
  <2>1. k \in 1..n /\ k \in 0..n /\ k - 1 = d
    OBVIOUS
  <2> PICK c, t : c = Compile[d] /\ t = TreesUpTo[d]
    OBVIOUS
  <2>2. CompilesWell(c, t)
    BY <1>2, <2>1
  <2>3. TreesUpTo[k].expr = ExprsOver(t) /\ TreesUpTo[k].stmt = StmtsOver(t)
    <3>1. TreesUpTo[k] = [expr |-> ExprsOver(TreesUpTo[k - 1]), stmt |-> StmtsOver(TreesUpTo[k - 1])]
      BY <2>1, TreesFacts
    <3>2. TreesUpTo[k - 1] = t
      BY <2>1
    <3> QED
      BY <3>1, <3>2
  <2>4. /\ Compile[k].expr = [e \in ExprsOver(t) |-> [bf \in Func |-> CompileExpr(c, bf, e)]]
        /\ Compile[k].stmt = [s \in StmtsOver(t) |-> [bf \in Func |-> CompileStmt(c, bf, s)]]
    <3>1. Compile[k] = CompileBody(Compile, k)
      BY <2>1, CompileFacts
    <3>2. Compile[k - 1] = c
      BY <2>1
    <3>3. /\ CompileBody(Compile, k).expr
                = [e \in TreesUpTo[k].expr |-> [bf \in Func |-> CompileExpr(Compile[k - 1], bf, e)]]
          /\ CompileBody(Compile, k).stmt
                = [s \in TreesUpTo[k].stmt |-> [bf \in Func |-> CompileStmt(Compile[k - 1], bf, s)]]
      BY DEF CompileBody
    <3> QED
      BY <2>3, <3>1, <3>2, <3>3
  <2>5. ASSUME NEW e \in TreesUpTo[k].expr, NEW bf \in Func, NEW h \in Nat
        PROVE  Leads(bf, h, Compile[k].expr[e][bf], h + 1)
    <3>1. Compile[k].expr[e][bf] = CompileExpr(c, bf, e) /\ e \in ExprsOver(t)
      BY <2>3, <2>4
    <3> QED
      BY <2>2, <3>1, ExprLeads
  <2>6. ASSUME NEW s \in TreesUpTo[k].stmt, NEW bf \in Func
        PROVE  Leads(bf, 0, Compile[k].stmt[s][bf], 0)
    <3>1. Compile[k].stmt[s][bf] = CompileStmt(c, bf, s) /\ s \in StmtsOver(t)
      BY <2>3, <2>4
    <3> QED
      BY <2>2, <3>1, StmtLeads
  <2>7. CompilesWell(Compile[k], TreesUpTo[k])
    BY <2>5, <2>6 DEF CompilesWell
  <2> QED
    BY <2>7
<1> HIDE DEF T
<1>3. \A d \in Nat : d \in T
  BY <1>1, <1>2, FromZero
<1> QED
  BY <1>3 DEF T
-----------------------------------------------------------------------------
(* Handlers and units                                                       *)

LEMMA NewStands == Stands(NewFunc, 0)
<1>1. "_tmp" \in STRING
  BY NamesAssumption DEF LiteralNames
<1>2. PICK S : S = STRING
  OBVIOUS
<1>3. <<"_tmp">> \in Seq(S)
  BY <1>1, <1>2
<1>4. <<>> \in Seq(Op) /\ <<>> \in Seq(Value) /\ Len(<<>>) = 0
  OBVIOUS
<1>5. NewFunc \in Func /\ NewFunc.code = <<>>
  BY <1>2, <1>3, <1>4 DEF NewFunc, Func
<1>6. Sound(NewFunc)
  BY <1>4, <1>5 DEF Sound
<1>7. Height(NewFunc) = 0
  BY <1>4, <1>5, HeightsFacts DEF Height, Here
<1> QED
  BY <1>5, <1>6, <1>7 DEF Stands

\* What compile_unit makes of a function.
Made(bf) == [code |-> bf.code, consts |-> bf.consts, locals |-> Len(bf.locals)]

\* A handler is compiled to well-made code, or compile_unit throws.
LEMMA HandlerWellMade ==
  ASSUME NEW h \in HandlerDecl, CompileHandler(h).ok, NEW n
  PROVE  /\ Made(CompileHandler(h)) \in ByteFunc
         /\ \A k \in DOMAIN CompileHandler(h).code :
              CompileHandler(h).code[k].op = "CALL" => CompileHandler(h).code[k].a >= 0
         /\ WellMade(Made(CompileHandler(h)), n)
<1> PICK block : block = CompileBlock(Compile[MaxNesting], NewFunc, h.body)
  OBVIOUS
<1> PICK out : out = CompileHandler(h)
  OBVIOUS
<1> DEFINE ret == [op |-> "RET", a |-> 0, b |-> 0, s |-> NoName]
<1>1. Leads(NewFunc, 0, block, 0)
  <2>1. h.body \in Seq(TreesUpTo[MaxNesting].stmt)
    BY DEF HandlerDecl
  <2>2. CompilesWell(Compile[MaxNesting], TreesUpTo[MaxNesting])
    BY NestingAssumption, LevelsCompileWell
  <2>3. NewFunc \in Func
    BY NewStands DEF Stands
  <2> QED
    BY <2>1, <2>2, <2>3, BlockLeads
<1>2. Stands(block, 0) /\ block \in Func
  BY <1>1, NewStands DEF Leads, Stands
<1>3. ret \in Op /\ ret.op = "RET"
  BY EmitMakes DEF OpCodes
<1>4. out = Emit(block, "RET", 0)
  BY DEF CompileHandler
<1>5. out = [block EXCEPT !.code = Append(@, ret)]
  BY <1>4 DEF Emit
<1> HIDE DEF ret
<1> PICK m \in Nat : m = Len(block.code)
  BY <1>2, FuncFacts
<1>6. Grows(block, out) /\ Len(out.code) = m + 1 /\ out.code[m + 1] = ret
  BY <1>2, <1>3, <1>5, Emitted
<1>7. out \in Func /\ out.ok /\ block.ok
  BY <1>6 DEF Grows
<1>8. Sound(block) /\ Heights(block.code)[m] = 0
  BY <1>2, <1>7 DEF Stands, Height, Here
<1> PICK code : code = out.code
  OBVIOUS
<1>9. /\ code \in Seq(Op) /\ out.consts \in Seq(Value) /\ Len(out.locals) \in Nat
      /\ DOMAIN code = 1..m + 1 /\ Len(code) = m + 1
  BY <1>6, <1>7, FuncFacts, LenProperties
<1>10. \A k \in 0..m : Heights(code)[k] = Heights(block.code)[k]
  BY <1>6, GrownHeights
<1> PICK fn : fn = Made(out)
  OBVIOUS
<1>11. /\ fn \in ByteFunc /\ fn.code = code /\ fn.consts = out.consts
       /\ fn.locals = Len(out.locals)
  BY <1>9 DEF Made, ByteFunc
<1>12. Takes(ret) = 0
  BY <1>3 DEF Takes
<1>13. ASSUME NEW k \in 1..m + 1
       PROVE  /\ code[k].op # "ADD" /\ Takes(code[k]) \in 0..Heights(code)[k - 1]
              /\ code[k].op = "PUSH_CONST" => Valid(code[k].a, Len(out.consts))
              /\ code[k].op \in {"PUSH_LOCAL", "STORE_LOCAL"} => Valid(code[k].a, Len(out.locals))
              /\ code[k].op = "CALL" => code[k].b \in {-2, -1} /\ code[k].a >= 0
              /\ code[k].op \in {"JMP", "JMP_IF_FALSE"} =>
                   Valid(code[k].a, m + 1) /\ Heights(code)[code[k].a] = Heights(code)[k]
  <2> PICK i : i = code[k]
    OBVIOUS
  <2> PICK g : g = Heights(code)[k - 1]
    OBVIOUS
  <2>1. CASE k = m + 1
    <3>1. i = ret /\ g = 0
      BY <1>6, <1>8, <1>10, <2>1
    <3> QED
      BY <1>3, <1>12, <3>1
  <2>2. CASE k # m + 1
    <3>1. k \in 1..m /\ k \in 0..m
      BY <2>2
    <3>2. Fits(block, i, g)
      <4>1. i = block.code[k] /\ g = Heights(block.code)[k - 1]
        <5>1. k - 1 \in 0..m /\ k \in 1..Len(block.code)
          BY <3>1
        <5>2. code[k] = block.code[k]
          BY <1>6, <5>1 DEF Grows
        <5> QED
          BY <1>10, <5>1, <5>2
      <4> QED
        BY <1>8, <3>1, <4>1 DEF Sound
    <3>3. Fits(out, i, g)
      BY <1>6, <3>2, FitsOn
    <3>4. /\ i.op # "ADD" /\ Takes(i) \in 0..g
          /\ i.op = "PUSH_CONST" => Valid(i.a, Len(out.consts))
          /\ i.op \in {"PUSH_LOCAL", "STORE_LOCAL"} => Valid(i.a, Len(out.locals))
          /\ i.op = "CALL" => i.b \in {-2, -1} /\ i.a \in Nat
      BY <3>3 DEF Fits
    <3>5. ASSUME i.op \in {"JMP", "JMP_IF_FALSE"}
          PROVE  Valid(i.a, m + 1) /\ Heights(code)[i.a] = Heights(code)[k]
      <4>1. i.a \in 0..m /\ Heights(block.code)[i.a] = NextHeight(i, g)
        BY <3>2, <3>5 DEF Fits, Jumps
      <4>2. Heights(code)[k] = NextHeight(i, g)
        BY <1>9, HeightsFacts
      <4>3. Valid(i.a, m + 1)
        BY <4>1 DEF Valid
      <4> QED
        BY <1>10, <4>1, <4>2, <4>3
    <3> QED
      BY <3>4, <3>5
  <2> QED
    BY <2>1, <2>2
<1>14. code # <<>> /\ Last(code).op = "RET"
  <2>1. Last(code) = code[m + 1]
    BY <1>9 DEF Last
  <2> QED
    BY <1>3, <1>6, <1>9, <2>1, EmptySeq
<1>15. WellMade(fn, n)
  <2> PICK height : height = Heights(code)
    OBVIOUS
  <2>1. \A k \in DOMAIN code :
          LET i == code[k] IN
          /\ i.op # "ADD" /\ Takes(i) \in 0..height[k - 1]
          /\ i.op = "PUSH_CONST" => Valid(i.a, Len(fn.consts))
          /\ i.op \in {"PUSH_LOCAL", "STORE_LOCAL"} => Valid(i.a, fn.locals)
          /\ i.op = "CALL" => i.b \in {-2, -1} \/ Valid(i.b, n)
          /\ i.op \in {"JMP", "JMP_IF_FALSE"} =>
               Valid(i.a, Len(code)) /\ height[i.a] = height[k]
    BY <1>9, <1>11, <1>13
  <2> QED
    BY <1>11, <1>14, <2>1 DEF WellMade
<1> QED
  BY <1>9, <1>11, <1>13, <1>15

LEMMA UnitWellMade ==
  ASSUME NEW u \in Seq(HandlerDecl), Compiles(u)
  PROVE  /\ WellFormed(compile_unit(u)) /\ Len(compile_unit(u)) = Len(u)
         /\ \A f \in DOMAIN compile_unit(u) :
              WellMade(compile_unit(u)[f], Len(compile_unit(u)))
<1> PICK n \in Nat : n = Len(u) /\ DOMAIN u = 1..n
  BY LenProperties
<1> PICK fs : fs = compile_unit(u)
  OBVIOUS
<1>1. \A f \in 1..n : u[f] \in HandlerDecl
  BY ElementOfSeq
<1>2. \A f \in 1..n : CompileHandler(u[f]).ok
  BY DEF Compiles
<1>3. fs = [f \in 1..n |-> Made(CompileHandler(u[f]))]
  BY DEF compile_unit, Made
<1>4. \A f \in 1..n : fs[f] = Made(CompileHandler(u[f])) /\ fs[f] \in ByteFunc
  BY <1>1, <1>2, <1>3, HandlerWellMade
<1>5. fs \in Seq(ByteFunc) /\ Len(fs) = n /\ DOMAIN fs = 1..n
  <2>1. fs \in [1..n -> ByteFunc]
    BY <1>3, <1>4
  <2> QED
    BY <2>1
<1>6. \A f \in 1..n : WellMade(fs[f], n)
  BY <1>1, <1>2, <1>4, HandlerWellMade
<1>7. \A f \in 1..n : \A i \in DOMAIN fs[f].code :
        fs[f].code[i].op = "CALL" => fs[f].code[i].a >= 0
  <2> TAKE f \in 1..n
  <2>1. fs[f].code = CompileHandler(u[f]).code
    <3> PICK bf : bf = CompileHandler(u[f])
      OBVIOUS
    <3>1. fs[f] = Made(bf)
      BY <1>4
    <3> QED
      BY <3>1 DEF Made
  <2> QED
    BY <1>1, <1>2, <2>1, HandlerWellMade
<1> QED
  BY <1>5, <1>6, <1>7 DEF WellFormed

\* A handler that is found is a function of the unit.
LEMMA IndexInUnit ==
  ASSUME NEW u, IsSeq(u), NEW i \in DOMAIN u
  PROVE  handler_index(u, u[i].name) \in 0..Len(u)
<1> PICK n \in Nat : n = Len(u) /\ DOMAIN u = 1..n
  BY SeqFacts
<1> DEFINE found == {j \in DOMAIN u : u[j].name = u[i].name}
           T == {m \in Nat : n - m \in found}
<1>1. T # {}
  <2>1. n - i \in Nat /\ n - (n - i) = i /\ i \in found
    OBVIOUS
  <2> QED
    BY <2>1
<1>2. PICK m \in T : \A y \in T : m <= y
  BY <1>1, Least
<1>3. n - m \in found /\ \A j \in found : j <= n - m
  <2>1. ASSUME NEW j \in found PROVE j <= n - m
    <3>1. n - j \in T
      <4>1. n - j \in Nat /\ n - (n - j) = j
        OBVIOUS
      <4> QED
        BY <4>1
    <3>2. m <= n - j
      BY <1>2, <3>1
    <3>3. m \in Nat /\ j \in 1..n
      BY <1>2
    <3> QED
      BY <3>2, <3>3
  <2> QED
    BY <2>1
<1>4. PICK x : x = CHOOSE k \in found : \A j \in found : j <= k
  OBVIOUS
<1>5. x \in found
  BY <1>3, <1>4
<1>6. handler_index(u, u[i].name) = x - 1
  BY <1>4 DEF handler_index
<1> QED
  BY <1>5, <1>6

-----------------------------------------------------------------------------
(* Scripts that are compiled and executed                                   *)

\* The VM's invariant, of well-made code with a function for each handler.
ScriptInv ==
  /\ WrittenInv /\ AllWellMade
  /\ IsSeq(unit) /\ (funcs # <<>> => Len(funcs) = Len(unit))

LEMMA ScriptInvInit == ScriptInit => ScriptInv
<1> SUFFICES ASSUME ScriptInit PROVE ScriptInv
  OBVIOUS
<1>1. unit \in Seq(HandlerDecl)
  BY ScriptAssumption DEF ScriptInit
<1>2. IsSeq(unit)
  BY <1>1, AnySeq
<1>3. CASE Compiles(unit)
  <2>1. funcs = compile_unit(unit)
    BY <1>3 DEF ScriptInit
  <2>2. WellFormed(funcs) /\ Len(funcs) = Len(unit) /\ AllWellMade
    BY <1>1, <1>3, <2>1, UnitWellMade DEF AllWellMade
  <2> QED
    BY <1>2, <2>2, WrittenInit DEF ScriptInit, ScriptInv
<1>4. CASE ~Compiles(unit)
  <2>1. funcs = <<>>
    BY <1>4 DEF ScriptInit
  <2>2. funcs \in Seq(ByteFunc) /\ DOMAIN funcs = {}
    BY <2>1
  <2>3. WellFormed(funcs) /\ AllWellMade
    BY <2>2 DEF WellFormed, AllWellMade
  <2> QED
    BY <1>2, <2>1, <2>3, WrittenInit DEF ScriptInit, ScriptInv
<1> QED
  BY <1>3, <1>4

\* A script uses the VM as anyone may, and leaves the module alone.
LEMMA ScriptSteps ==
  ASSUME ScriptInv, [ScriptNext]_scriptVars
  PROVE  [Next]_vmVars /\ funcs' = funcs /\ unit' = unit
<1>1. CASE Step /\ UNCHANGED <<unit, handler>>
  <2>1. funcs' = funcs
    BY <1>1, StepKinds DEF ScriptInv, WrittenInv, TypeInv
  <2> QED
    BY <1>1, <2>1 DEF Next
<1>2. ASSUME NEW i \in DOMAIN unit, ExecuteHandler(unit[i].name)
      PROVE  Next /\ funcs' = funcs /\ unit' = unit
  <2>1. Len(funcs) = Len(unit)
    BY <1>2 DEF ExecuteHandler, ScriptInv
  <2>2. handler_index(unit, unit[i].name) \in 0..Len(funcs)
    BY <2>1, IndexInUnit DEF ScriptInv
  <2>3. Execute(handler_index(unit, unit[i].name)) /\ unit' = unit
    BY <1>2 DEF ExecuteHandler
  <2> QED
    BY <2>2, <2>3 DEF Next, Execute
<1>3. CASE NothingToDo \/ UNCHANGED scriptVars
  BY <1>3 DEF NothingToDo, scriptVars, vmVars
<1> QED
  BY <1>1, <1>2, <1>3 DEF ScriptNext

LEMMA ScriptInvInductive == ScriptInv /\ [ScriptNext]_scriptVars => ScriptInv'
<1> SUFFICES ASSUME ScriptInv, [ScriptNext]_scriptVars PROVE ScriptInv'
  OBVIOUS
<1>1. [Next]_vmVars /\ funcs' = funcs /\ unit' = unit
  BY ScriptSteps
<1>2. WrittenInv'
  BY <1>1, WrittenInductive DEF ScriptInv
<1> QED
  BY <1>1, <1>2 DEF ScriptInv, AllWellMade

\* Whatever the syntax tree, compile_unit throws or makes well-made code: its
\* operands are where the VM looks for them, and its jumps land where the
\* stack is as the code they skip leaves it.
THEOREM CompilesWellMade == ScriptSpec => []CompiledIsWellMade
<1>1. ScriptInv => CompiledIsWellMade
  BY DEF ScriptInv, CompiledIsWellMade
<1> QED
  BY <1>1, ScriptInvInit, ScriptInvInductive, PTL DEF ScriptSpec

\* So no script that is compiled makes the VM read past its stack, leave a
\* local out, run off its code or ignore an opcode, however its handlers are
\* executed and whatever a handler that threw has left.
THEOREM ScriptsIgnoreNothing == ScriptSpec => []NothingIgnored
<1>1. ScriptInv => NothingIgnored
  BY WrittenRuns DEF ScriptInv, WellMadeCodeRuns
<1> QED
  BY <1>1, ScriptInvInit, ScriptInvInductive, PTL DEF ScriptSpec
=============================================================================
