---------------------------- MODULE NamesProofs -----------------------------
(***************************************************************************)
(* compile_unit accepts a handler exactly if its names resolve, for every  *)
(* syntax tree.                                                            *)
(*                                                                         *)
(* The compiler looks a name up in a table of locals that it fills as it   *)
(* goes along; Names lists what the text says of names and asks of each    *)
(* use that a declaration comes before it.  Tree by tree the two agree: the*)
(* compiler has thrown exactly if a name so far does not resolve, and      *)
(* unless it has, its table holds the names declared so far.               *)
(***************************************************************************)
EXTENDS CompilerProofs

\* The text so far has a declaration of name.
Declared(names, name) == \E j \in 1..Len(names) : names[j] = Declaration(name)

\* Mention m resolves after the text so far.
Resolves(names, m) ==
  \/ m.as = "declaration"
  \/ m.as = "function" /\ m.name \in HostNames
  \/ m.as \in {"variable", "function"} /\ Declared(names, m.name)

Agree(bf, names) ==
  /\ bf \in Func /\ names \in Seq(Mention)
  /\ bf.ok <=> AllResolved(names)
  /\ bf.ok => \A n : IsLocal(bf, n) <=> Declared(names, n)

\* The locals of bf stay.
Keeps(bf, out) == \A n : IsLocal(bf, n) => IsLocal(out, n)

\* Code is emitted, and nothing is learnt of names.
Silent(bf, out) == out \in Func /\ out.ok = bf.ok /\ out.locals = bf.locals

-----------------------------------------------------------------------------
(* The text                                                                 *)

LEMMA OneMore ==
  ASSUME NEW names \in Seq(Mention), NEW m \in Mention, NEW ns, ns = Append(names, m)
  PROVE  /\ ns \in Seq(Mention)
         /\ AllResolved(ns) <=> AllResolved(names) /\ Resolves(names, m)
         /\ \A n : Declared(ns, n) <=> Declared(names, n) \/ m = Declaration(n)
<1> PICK k \in Nat : k = Len(names) /\ DOMAIN names = 1..k
  BY LenProperties
<1>1. /\ ns \in Seq(Mention) /\ Len(ns) = k + 1 /\ DOMAIN ns = 1..k + 1
      /\ ns[k + 1] = m /\ \A i \in 1..k : ns[i] = names[i]
  BY AppendProperties, LenProperties
<1>2. \A i \in 1..k : ResolvedAt(ns, i) <=> ResolvedAt(names, i)
  <2> TAKE i \in 1..k
  <2>1. \A j \in 1..i - 1 : j \in 1..k
    OBVIOUS
  <2>2. \A j \in 1..i - 1 : ns[j] = names[j]
    BY <1>1, <2>1
  <2>3. ns[i] = names[i]
    BY <1>1
  <2> QED
    BY <2>2, <2>3 DEF ResolvedAt
<1>3. ResolvedAt(ns, k + 1) <=> Resolves(names, m)
  <2>1. (k + 1) - 1 = k
    OBVIOUS
  <2>2. (\E j \in 1..k : ns[j] = Declaration(m.name))
          <=> \E j \in 1..k : names[j] = Declaration(m.name)
    BY <1>1
  <2> QED
    BY <1>1, <2>1, <2>2 DEF ResolvedAt, Resolves, Declared
<1>4. \A i \in 1..k + 1 : i \in 1..k \/ i = k + 1
  OBVIOUS
<1>5. 1..k \subseteq 1..k + 1 /\ k + 1 \in 1..k + 1
  OBVIOUS
<1>6. AllResolved(ns) <=> AllResolved(names) /\ Resolves(names, m)
  BY <1>1, <1>2, <1>3, <1>4, <1>5 DEF AllResolved
<1>7. \A n : Declared(ns, n) <=> Declared(names, n) \/ m = Declaration(n)
  BY <1>1, <1>4, <1>5 DEF Declared
<1> QED
  BY <1>1, <1>6, <1>7

LEMMA Mentions ==
  /\ \A n \in STRING : /\ Declaration(n) \in Mention /\ Variable(n) \in Mention
                       /\ Callee(n) \in Mention
  /\ Unsupported \in Mention
<1>1. NoName \in STRING
  BY NamesAssumption DEF LiteralNames
<1> QED
  BY <1>1 DEF Mention, Declaration, Variable, Callee, Unsupported

\* What each mention asks for, and that only a declaration declares.
LEMMA MentionFacts ==
  ASSUME NEW names, NEW name
  PROVE  /\ Resolves(names, Declaration(name))
         /\ Resolves(names, Variable(name)) <=> Declared(names, name)
         /\ Resolves(names, Callee(name)) <=> name \in HostNames \/ Declared(names, name)
         /\ ~Resolves(names, Unsupported)
         /\ \A n : /\ Variable(name) # Declaration(n) /\ Callee(name) # Declaration(n)
                   /\ Unsupported # Declaration(n)
                   /\ Declaration(name) = Declaration(n) <=> name = n
<1>1. /\ Declaration(name).as = "declaration" /\ Variable(name).as = "variable"
      /\ Callee(name).as = "function" /\ Unsupported.as = "unsupported"
      /\ Declaration(name).name = name /\ Variable(name).name = name
      /\ Callee(name).name = name
  BY DEF Declaration, Variable, Callee, Unsupported
<1>2. \A n : Declaration(n).as = "declaration" /\ Declaration(n).name = n
  BY DEF Declaration
<1> QED
  BY <1>1, <1>2 DEF Resolves

-----------------------------------------------------------------------------
(* What the compiler emits                                                  *)

LEMMA SameLocals ==
  ASSUME NEW bf, NEW out, out.locals = bf.locals
  PROVE  Keeps(bf, out) /\ \A n : IsLocal(out, n) <=> IsLocal(bf, n)
  BY DEF Keeps, IsLocal

LEMMA SilentAgrees ==
  ASSUME NEW bf, NEW names, Agree(bf, names), NEW out, Silent(bf, out)
  PROVE  Agree(out, names) /\ Keeps(bf, out)
  BY SameLocals DEF Agree, Silent

\* A mention: the compiler throws exactly if it does not resolve.
LEMMA MentionAgrees ==
  ASSUME NEW bf, NEW names, Agree(bf, names), NEW m \in Mention, NEW out \in Func,
         out.ok <=> bf.ok /\ Resolves(names, m),
         bf.ok => \A n : IsLocal(out, n) <=> IsLocal(bf, n) \/ m = Declaration(n)
  PROVE  Agree(out, Append(names, m))
<1> PICK ns : ns = Append(names, m)
  OBVIOUS
<1>1. names \in Seq(Mention) /\ (bf.ok <=> AllResolved(names))
      /\ (bf.ok => \A n : IsLocal(bf, n) <=> Declared(names, n))
  BY DEF Agree
<1>2. /\ ns \in Seq(Mention)
      /\ AllResolved(ns) <=> AllResolved(names) /\ Resolves(names, m)
      /\ \A n : Declared(ns, n) <=> Declared(names, n) \/ m = Declaration(n)
  BY <1>1, OneMore
<1>3. out.ok <=> AllResolved(ns)
  BY <1>1, <1>2
<1>4. ASSUME out.ok PROVE \A n : IsLocal(out, n) <=> Declared(ns, n)
  BY <1>1, <1>2, <1>4
<1> QED
  BY <1>2, <1>3, <1>4 DEF Agree

LEMMA EmitSame ==
  ASSUME NEW bf \in Func, NEW op \in OpCodes, NEW a \in Int, NEW out, out = Emit(bf, op, a)
  PROVE  Silent(bf, out)
<1> DEFINE i == [op |-> op, a |-> a, b |-> 0, s |-> NoName]
<1>1. i \in Op
  BY EmitMakes
<1>2. out = [bf EXCEPT !.code = Append(@, i)]
  BY DEF Emit
<1> HIDE DEF i
<1> PICK code : code = Append(bf.code, i)
  OBVIOUS
<1>3. code \in Seq(Op)
  BY <1>1, FuncFacts, AppendProperties
<1>4. out = [bf EXCEPT !.code = code]
  BY <1>2
<1> QED
  BY <1>3, <1>4 DEF Func, Silent

LEMMA CallSame ==
  ASSUME NEW bf \in Func, NEW n \in Nat, NEW kind \in Int, NEW name \in STRING,
         NEW out, out = EmitCall(bf, n, kind, name)
  PROVE  Silent(bf, out)
<1> DEFINE i == [op |-> "CALL", a |-> n, b |-> kind, s |-> name]
<1>1. i \in Op
  BY DEF Op, OpCodes
<1>2. out = [bf EXCEPT !.code = Append(@, i)]
  BY DEF EmitCall
<1> HIDE DEF i
<1> PICK code : code = Append(bf.code, i)
  OBVIOUS
<1>3. code \in Seq(Op)
  BY <1>1, FuncFacts, AppendProperties
<1>4. out = [bf EXCEPT !.code = code]
  BY <1>2
<1> QED
  BY <1>3, <1>4 DEF Func, Silent

LEMMA ConstSame ==
  ASSUME NEW bf \in Func, NEW v \in Value, NEW out, out = EmitConst(bf, v)
  PROVE  Silent(bf, out)
<1> PICK d : d = [bf EXCEPT !.consts = Append(@, v)]
  OBVIOUS
<1>1. Append(bf.consts, v) \in Seq(Value)
  BY FuncFacts, AppendProperties
<1>2. d \in Func /\ d.ok = bf.ok /\ d.locals = bf.locals
  BY <1>1 DEF Func
<1> PICK n \in Int : n = Len(bf.consts)
  BY FuncFacts
<1>3. "PUSH_CONST" \in OpCodes
  BY DEF OpCodes
<1>4. out = Emit(d, "PUSH_CONST", n)
  BY DEF EmitConst
<1>5. Silent(d, out)
  <2>1. n \in Int
    OBVIOUS
  <2> QED
    BY ONLY <1>2, <1>3, <1>4, <2>1, EmitSame
<1> QED
  BY <1>2, <1>5 DEF Silent

\* Where the jump lands does not matter, nor whether there is one.
LEMMA LandSame ==
  ASSUME NEW bf \in Func, NEW pos, NEW out, out = Land(bf, pos)
  PROVE  Silent(bf, out)
<1>1. bf.code \in Seq(Op) /\ DOMAIN bf.code = 1..Here(bf)
  BY FuncFacts, LenProperties DEF Here
<1>2. CASE pos \in 1..Here(bf)
  BY <1>2, LandFacts DEF Silent
<1>3. CASE pos \notin 1..Here(bf)
  <2> PICK code : code = bf.code
    OBVIOUS
  <2> PICK i : i = [code[pos] EXCEPT !.a = Here(bf)]
    OBVIOUS
  <2>1. code = [k \in DOMAIN code |-> code[k]] /\ pos \notin DOMAIN code
    <3>1. PICK n \in Nat : code \in [1..n -> Op]
      BY ONLY <1>1, code = bf.code, SeqDef
    <3>2. code = [k \in DOMAIN code |-> code[k]]
      BY ONLY <3>1
    <3> QED
      BY <1>1, <1>3, <3>2
  <2>2. [code EXCEPT ![pos] = i] = code
    BY <2>1
  <2>3. out = [bf EXCEPT !.code = code]
    BY <2>2 DEF Land
  <2> QED
    BY <1>1, <2>3 DEF Func, Silent
<1> QED
  BY <1>2, <1>3

LEMMA KnownSame ==
  ASSUME NEW bf \in Func, NEW name, IsLocal(bf, name), NEW out, out = PushName(bf, name)
  PROVE  Silent(bf, out)
<1> PICK a \in Int : a = Slot(bf, name)
  BY SlotIs
<1>1. out = Emit(bf, "PUSH_LOCAL", a) /\ "PUSH_LOCAL" \in OpCodes
  BY DEF PushName, OpCodes
<1> QED
  BY <1>1, EmitSame

LEMMA SilentOn ==
  ASSUME NEW x, NEW y, NEW z, Silent(x, y), Silent(y, z)
  PROVE  Silent(x, z)
  BY DEF Silent

LEMMA KeepsOn ==
  ASSUME NEW x, NEW y, NEW z, Keeps(x, y), Keeps(y, z)
  PROVE  Keeps(x, z)
  BY DEF Keeps

LEMMA FailFacts ==
  ASSUME NEW bf \in Func, NEW failed \in BOOLEAN, NEW out, out = FailIf(bf, failed)
  PROVE  out \in Func /\ (out.ok <=> bf.ok /\ ~failed) /\ out.locals = bf.locals
  BY DEF FailIf, Func

LEMMA NameLocals ==
  ASSUME NEW bf \in Func, NEW name, NEW out, out = PushName(bf, name)
  PROVE  out \in Func /\ out.locals = bf.locals
<1>1. CASE IsLocal(bf, name)
  BY <1>1, KnownSame DEF Silent
<1>2. CASE ~IsLocal(bf, name)
  <2>1. out = FailIf(bf, TRUE)
    BY <1>2 DEF PushName
  <2> QED
    BY <2>1, FailFacts
<1> QED
  BY <1>1, <1>2

LEMMA FailAgrees ==
  ASSUME NEW bf, NEW names, Agree(bf, names), NEW failed \in BOOLEAN
  PROVE  Agree(FailIf(bf, failed), NoCodeIf(names, failed))
<1> PICK out : out = FailIf(bf, failed)
  OBVIOUS
<1>1. /\ bf \in Func /\ out \in Func /\ (out.ok <=> bf.ok /\ ~failed)
      /\ out.locals = bf.locals
  BY FailFacts DEF Agree
<1>2. CASE ~failed
  <2>1. out.ok = bf.ok
    BY <1>1, <1>2 DEF Func
  <2>2. NoCodeIf(names, failed) = names
    BY <1>2 DEF NoCodeIf
  <2> QED
    BY <1>1, <2>1, <2>2, SilentAgrees DEF Silent
<1>3. CASE failed
  <2>1. NoCodeIf(names, failed) = Append(names, Unsupported)
    BY <1>3 DEF NoCodeIf
  <2>2. out.ok <=> bf.ok /\ Resolves(names, Unsupported)
    BY <1>1, <1>3, MentionFacts
  <2>3. \A n : IsLocal(out, n) <=> IsLocal(bf, n) \/ Unsupported = Declaration(n)
    BY <1>1, SameLocals, MentionFacts
  <2>4. Unsupported \in Mention
    BY Mentions
  <2>5. Agree(out, Append(names, Unsupported))
    BY <1>1, <2>2, <2>3, <2>4, MentionAgrees
  <2> QED
    BY <2>1, <2>5
<1> QED
  BY <1>2, <1>3

\* A variable is used: it has to be in the table.
LEMMA PushAgrees ==
  ASSUME NEW bf, NEW names, Agree(bf, names), NEW name \in STRING, NEW out,
         out = PushName(bf, name)
  PROVE  Agree(out, Append(names, Variable(name))) /\ out.locals = bf.locals
<1> PICK m : m = Variable(name)
  OBVIOUS
<1>1. bf \in Func /\ (bf.ok => (IsLocal(bf, name) <=> Declared(names, name)))
  BY DEF Agree
<1>2. /\ out \in Func /\ (out.ok <=> bf.ok /\ IsLocal(bf, name))
      /\ out.locals = bf.locals
  <2>1. CASE IsLocal(bf, name)
    BY <1>1, <2>1, KnownSame DEF Silent
  <2>2. CASE ~IsLocal(bf, name)
    <3>1. out = FailIf(bf, TRUE)
      BY <2>2 DEF PushName
    <3> QED
      BY <1>1, <2>2, <3>1, FailFacts
  <2> QED
    BY <2>1, <2>2
<1>3. /\ m \in Mention /\ (Resolves(names, m) <=> Declared(names, name))
      /\ \A n : m # Declaration(n)
  BY Mentions, MentionFacts
<1>4. out.ok <=> bf.ok /\ Resolves(names, m)
  BY <1>1, <1>2, <1>3
<1>5. \A n : IsLocal(out, n) <=> IsLocal(bf, n) \/ m = Declaration(n)
  BY <1>2, <1>3, SameLocals
<1> QED
  BY <1>2, <1>3, <1>4, <1>5, MentionAgrees

\* A local is declared, or has been before.
LEMMA AddAgrees ==
  ASSUME NEW bf, NEW names, Agree(bf, names), NEW name \in STRING, NEW out,
         out = AddLocal(bf, name)
  PROVE  Agree(out, Append(names, Declaration(name))) /\ Keeps(bf, out) /\ IsLocal(out, name)
<1> PICK m : m = Declaration(name)
  OBVIOUS
<1>1. bf \in Func /\ out \in Func /\ IsLocal(out, name)
  BY AddLeads DEF Agree
<1>2. (out.ok <=> bf.ok) /\ \A n : IsLocal(out, n) <=> IsLocal(bf, n) \/ n = name
  <2>1. CASE IsLocal(bf, name)
    BY <2>1 DEF AddLocal
  <2>2. CASE ~IsLocal(bf, name)
    <3>1. PICK S : S = STRING
      OBVIOUS
    <3> PICK k \in Nat : k = Len(bf.locals) /\ DOMAIN bf.locals = 1..k
      BY <1>1, <3>1, FuncFacts, LenProperties
    <3> PICK locals : locals = Append(bf.locals, name)
      OBVIOUS
    <3>2. bf.locals \in Seq(S) /\ name \in S
      BY <1>1, <3>1, FuncFacts
    <3>3. /\ Len(locals) = k + 1 /\ DOMAIN locals = 1..k + 1 /\ locals[k + 1] = name
          /\ \A i \in 1..k : locals[i] = bf.locals[i]
      BY <3>2, AppendProperties, LenProperties
    <3>4. out = [bf EXCEPT !.locals = locals]
      BY <2>2 DEF AddLocal
    <3>5. out.ok = bf.ok /\ out.locals = locals
      BY <1>1, <3>4 DEF Func
    <3>6. 1..k \subseteq 1..k + 1 /\ k + 1 \in 1..k + 1
          /\ \A i \in 1..k + 1 : i \in 1..k \/ i = k + 1
      OBVIOUS
    <3>7. \A n : (\E i \in 1..k + 1 : locals[i] = n)
                   <=> (\E i \in 1..k : bf.locals[i] = n) \/ n = name
      BY <3>3, <3>6
    <3>8. \A n : IsLocal(out, n) <=> IsLocal(bf, n) \/ n = name
      BY <3>3, <3>5, <3>7 DEF IsLocal, ToSet
    <3> QED
      BY <3>5, <3>8
  <2> QED
    BY <2>1, <2>2
<1>3. /\ m \in Mention /\ Resolves(names, m)
      /\ \A n : m = Declaration(n) <=> n = name
  BY Mentions, MentionFacts
<1>4. Agree(out, Append(names, m))
  BY <1>1, <1>2, <1>3, MentionAgrees
<1> QED
  BY <1>1, <1>2, <1>4 DEF Keeps

LEMMA StoreAgrees ==
  ASSUME NEW bf, NEW names, Agree(bf, names), NEW name \in STRING, NEW out,
         out = StoreNew(bf, name)
  PROVE  Agree(out, Append(names, Declaration(name))) /\ Keeps(bf, out) /\ IsLocal(out, name)
<1> PICK d : d = AddLocal(bf, name)
  OBVIOUS
<1>1. Agree(d, Append(names, Declaration(name))) /\ Keeps(bf, d) /\ IsLocal(d, name)
  BY AddAgrees
<1> PICK a : a = Slot(d, name)
  OBVIOUS
<1>2. d \in Func /\ a \in Int /\ "STORE_LOCAL" \in OpCodes
  BY <1>1, SlotIs DEF Agree, OpCodes
<1>3. out = Emit(d, "STORE_LOCAL", a)
  BY DEF StoreNew
<1>4. Silent(d, out)
  BY <1>2, <1>3, EmitSame
<1> QED
  BY <1>1, <1>4, SilentAgrees, SameLocals, KeepsOn DEF Silent

-----------------------------------------------------------------------------
(* Trees one after the other                                                *)

LEMMA InOrderAgrees ==
  ASSUME NEW compile, NEW bf, NEW list, NEW names, Agree(bf, names), NEW trees, IsSeq(trees),
         \A i \in 1..Len(trees) : \A b, ns : Agree(b, ns) =>
           Agree(compile[trees[i]][b], list[trees[i]][ns]) /\ Keeps(b, compile[trees[i]][b])
  PROVE  /\ Agree(InOrder(compile, bf, trees), InOrder(list, names, trees))
         /\ Keeps(bf, InOrder(compile, bf, trees))
<1> PICK n \in Nat : n = Len(trees)
  BY SeqFacts
<1>1. PICK u : Goes(u, compile, bf, trees)
  BY InOrderGoes
<1>2. PICK v : Goes(v, list, names, trees)
  BY InOrderGoes
<1>3. /\ u[0] = bf /\ \A i \in 1..n : u[i] = compile[trees[i]][u[i - 1]]
      /\ InOrder(compile, bf, trees) = u[n]
  BY <1>1 DEF Goes
<1>4. /\ v[0] = names /\ \A i \in 1..n : v[i] = list[trees[i]][v[i - 1]]
      /\ InOrder(list, names, trees) = v[n]
  BY <1>2 DEF Goes
<1> DEFINE T == {i \in Nat : i <= n => Agree(u[i], v[i]) /\ Keeps(bf, u[i])}
<1>5. 0 \in T
  BY <1>3, <1>4 DEF Keeps
<1>6. ASSUME NEW i \in Nat, i \in T PROVE i + 1 \in T
  <2> SUFFICES ASSUME i + 1 <= n PROVE Agree(u[i + 1], v[i + 1]) /\ Keeps(bf, u[i + 1])
    OBVIOUS
  <2>1. i + 1 \in 1..n /\ (i + 1) - 1 = i
    OBVIOUS
  <2>2. Agree(u[i], v[i]) /\ Keeps(bf, u[i])
    BY <1>6
  <2>3. u[i + 1] = compile[trees[i + 1]][u[i]] /\ v[i + 1] = list[trees[i + 1]][v[i]]
    BY <1>3, <1>4, <2>1
  <2>4. Agree(u[i + 1], v[i + 1]) /\ Keeps(u[i], u[i + 1])
    BY <2>1, <2>2, <2>3
  <2> QED
    BY <2>2, <2>4, KeepsOn
<1> HIDE DEF T
<1>7. n \in T
  BY <1>5, <1>6, FromZero
<1> QED
  BY <1>3, <1>4, <1>7 DEF T

LEMMA InOrderLocals ==
  ASSUME NEW compile, NEW bf \in Func, NEW trees, IsSeq(trees),
         \A i \in 1..Len(trees) : \A b \in Func :
           compile[trees[i]][b] \in Func /\ compile[trees[i]][b].locals = b.locals
  PROVE  InOrder(compile, bf, trees).locals = bf.locals
<1> PICK n \in Nat : n = Len(trees)
  BY SeqFacts
<1>1. PICK u : Goes(u, compile, bf, trees)
  BY InOrderGoes
<1>2. /\ u[0] = bf /\ \A i \in 1..n : u[i] = compile[trees[i]][u[i - 1]]
      /\ InOrder(compile, bf, trees) = u[n]
  BY <1>1 DEF Goes
<1> DEFINE T == {i \in Nat : i <= n => u[i] \in Func /\ u[i].locals = bf.locals}
<1>3. 0 \in T
  BY <1>2
<1>4. ASSUME NEW i \in Nat, i \in T PROVE i + 1 \in T
  <2> SUFFICES ASSUME i + 1 <= n PROVE u[i + 1] \in Func /\ u[i + 1].locals = bf.locals
    OBVIOUS
  <2>1. i + 1 \in 1..n /\ (i + 1) - 1 = i
    OBVIOUS
  <2>2. u[i] \in Func /\ u[i].locals = bf.locals
    BY <1>4
  <2>3. u[i + 1] = compile[trees[i + 1]][u[i]]
    BY <1>2, <2>1
  <2> QED
    BY <2>1, <2>2, <2>3
<1> HIDE DEF T
<1>5. n \in T
  BY <1>3, <1>4, FromZero
<1> QED
  BY <1>2, <1>5 DEF T

\* For the trees of t, the compilers c do what the lists d say.
Agreeing(c, d, t) ==
  /\ CompilesWell(c, t)
  /\ \A e \in t.expr : \A bf \in Func : c.expr[e][bf].locals = bf.locals
  /\ \A e \in t.expr : \A bf, names :
       Agree(bf, names) => Agree(c.expr[e][bf], d.expr[e][names])
  /\ \A s \in t.stmt : \A bf, names :
       Agree(bf, names) => /\ Agree(c.stmt[s][bf], d.stmt[s][names])
                           /\ Keeps(bf, c.stmt[s][bf])

LEMMA ExprAgrees ==
  ASSUME NEW c, NEW d, NEW t, Agreeing(c, d, t), NEW bf, NEW names, Agree(bf, names),
         NEW e \in t.expr
  PROVE  /\ Agree(c.expr[e][bf], d.expr[e][names]) /\ c.expr[e][bf].locals = bf.locals
         /\ Keeps(bf, c.expr[e][bf])
<1>1. Agree(c.expr[e][bf], d.expr[e][names]) /\ c.expr[e][bf].locals = bf.locals
  BY DEF Agreeing, Agree
<1> QED
  BY <1>1, SameLocals

LEMMA ArgsLocals ==
  ASSUME NEW c, NEW d, NEW t, Agreeing(c, d, t), NEW bf \in Func, NEW es \in Seq(t.expr)
  PROVE  InOrder(c.expr, bf, es) \in Func /\ InOrder(c.expr, bf, es).locals = bf.locals
<1>1. IsSeq(es) /\ \A i \in 1..Len(es) : es[i] \in t.expr
  BY AnySeq, ElementOfSeq
<1>2. ASSUME NEW i \in 1..Len(es), NEW b \in Func
      PROVE  c.expr[es[i]][b] \in Func /\ c.expr[es[i]][b].locals = b.locals
  <2>1. CompilesWell(c, t) /\ c.expr[es[i]][b].locals = b.locals
    BY <1>1 DEF Agreeing
  <2>2. c.expr[es[i]][b] \in Func
    BY <1>1, <2>1, FirstLeads
  <2> QED
    BY <2>1, <2>2
<1>3. InOrder(c.expr, bf, es).locals = bf.locals
  BY <1>1, <1>2, InOrderLocals
<1>4. Leads(bf, 0, InOrder(c.expr, bf, es), 0 + Len(es))
  BY ArgsLead DEF Agreeing
<1> QED
  BY <1>3, <1>4 DEF Leads, Grows

LEMMA ExprsAgree ==
  ASSUME NEW c, NEW d, NEW t, Agreeing(c, d, t), NEW bf, NEW names, Agree(bf, names),
         NEW es \in Seq(t.expr)
  PROVE  /\ Agree(InOrder(c.expr, bf, es), InOrder(d.expr, names, es))
         /\ InOrder(c.expr, bf, es).locals = bf.locals
<1>1. IsSeq(es) /\ \A i \in 1..Len(es) : es[i] \in t.expr
  BY AnySeq, ElementOfSeq
<1>2. \A i \in 1..Len(es) : \A b, ns : Agree(b, ns) =>
        Agree(c.expr[es[i]][b], d.expr[es[i]][ns]) /\ Keeps(b, c.expr[es[i]][b])
  BY <1>1, ExprAgrees
<1>3. Agree(InOrder(c.expr, bf, es), InOrder(d.expr, names, es))
  BY <1>1, <1>2, InOrderAgrees
<1> QED
  BY <1>3, ArgsLocals DEF Agree

LEMMA BlockAgrees ==
  ASSUME NEW c, NEW d, NEW t, Agreeing(c, d, t), NEW bf, NEW names, Agree(bf, names),
         NEW body \in Seq(t.stmt)
  PROVE  /\ Agree(CompileBlock(c, bf, body), InOrder(d.stmt, names, body))
         /\ Keeps(bf, CompileBlock(c, bf, body))
<1>1. IsSeq(body) /\ \A i \in 1..Len(body) : body[i] \in t.stmt
  BY AnySeq, ElementOfSeq
<1>2. \A i \in 1..Len(body) : \A b, ns : Agree(b, ns) =>
        Agree(c.stmt[body[i]][b], d.stmt[body[i]][ns]) /\ Keeps(b, c.stmt[body[i]][b])
  BY <1>1 DEF Agreeing
<1> QED
  BY <1>1, <1>2, InOrderAgrees DEF CompileBlock

-----------------------------------------------------------------------------
(* Expressions                                                              *)

\* The compiler asks for the name of a call before its arguments are compiled,
\* the text has it behind them: arguments declare nothing.
LEMMA CallAgrees ==
  ASSUME NEW c, NEW d, NEW t, Agreeing(c, d, t), NEW bf, NEW names, Agree(bf, names), NEW e,
         e.call_name \in STRING, e.args \in Seq(t.expr), NEW out, out = CompileCall(c, bf, e)
  PROVE  Agree(out, Append(InOrder(d.expr, names, e.args), Callee(e.call_name)))
<1> PICK name \in STRING : name = e.call_name
  OBVIOUS
<1> PICK n \in Nat : n = Len(e.args)
  BY LenProperties
<1> PICK args : args = InOrder(c.expr, bf, e.args)
  OBVIOUS
<1> PICK ns : ns = InOrder(d.expr, names, e.args)
  OBVIOUS
<1> PICK m : m = Callee(name)
  OBVIOUS
<1>1. Agree(args, ns) /\ args.locals = bf.locals
  BY ExprsAgree
<1>2. /\ args \in Func /\ (args.ok => (IsLocal(args, name) <=> Declared(ns, name)))
      /\ (IsLocal(args, name) <=> IsLocal(bf, name))
  BY <1>1, SameLocals DEF Agree
<1>3. /\ out \in Func /\ out.locals = args.locals
      /\ (out.ok <=> args.ok /\ (name \in HostNames \/ IsLocal(args, name)))
  <2>1. CASE IsLocal(bf, name)
    <3> PICK push : push = PushName(args, name)
      OBVIOUS
    <3>1. Silent(args, push)
      BY <1>2, <2>1, KnownSame
    <3>2. NoName \in STRING /\ -2 \in Int
      BY NamesAssumption DEF LiteralNames
    <3>3. out = EmitCall(push, n, -2, NoName)
      BY <2>1 DEF CompileCall
    <3>4. push \in Func
      BY <3>1 DEF Silent
    <3>5. Silent(push, out)
      BY <3>2, <3>3, <3>4, CallSame
    <3> QED
      BY <1>2, <2>1, <3>1, <3>5 DEF Silent
  <2>2. CASE ~IsLocal(bf, name)
    <3> PICK failed \in BOOLEAN : failed <=> name \notin HostNames
      OBVIOUS
    <3> PICK known : known = FailIf(args, failed)
      OBVIOUS
    <3>1. /\ known \in Func /\ (known.ok <=> args.ok /\ ~failed)
          /\ known.locals = args.locals
      BY <1>2, FailFacts
    <3>2. out = EmitCall(known, n, -1, name)
      <4>1. failed = (name \notin HostNames)
        OBVIOUS
      <4> QED
        BY <2>2, <4>1 DEF CompileCall
    <3>3. -1 \in Int
      OBVIOUS
    <3>4. Silent(known, out)
      BY <3>1, <3>2, <3>3, CallSame
    <3> QED
      BY <1>2, <2>2, <3>1, <3>4 DEF Silent
  <2> QED
    BY <2>1, <2>2
<1>4. /\ m \in Mention /\ \A k : m # Declaration(k)
      /\ (Resolves(ns, m) <=> name \in HostNames \/ Declared(ns, name))
  BY Mentions, MentionFacts
<1>5. out.ok <=> args.ok /\ Resolves(ns, m)
  BY <1>2, <1>3, <1>4
<1>6. \A k : IsLocal(out, k) <=> IsLocal(args, k) \/ m = Declaration(k)
  BY <1>3, <1>4, SameLocals
<1> QED
  BY <1>1, <1>3, <1>4, <1>5, <1>6, MentionAgrees

\* Expressions declare nothing, whatever is compiled before them.
LEMMA TreeLocals ==
  ASSUME NEW c, NEW d, NEW t, Agreeing(c, d, t), NEW bf \in Func, NEW e \in ExprsOver(t),
         NEW out, out = CompileExpr(c, bf, e)
  PROVE  out.locals = bf.locals
<1>1. CASE e \in [kind: {"Const"}, value: Value]
  <2>1. e.kind = "Const" /\ e.value \in Value
    BY <1>1
  <2>2. out = EmitConst(bf, e.value)
    BY <2>1 DEF CompileExpr
  <2> QED
    BY <2>1, <2>2, ConstSame DEF Silent
<1>2. CASE e \in [kind: {"Ident"}, ident: STRING]
  <2>1. e.kind = "Ident"
    BY <1>2
  <2>2. out = PushName(bf, e.ident)
    BY <2>1 DEF CompileExpr
  <2> QED
    BY <2>2, NameLocals
<1>3. CASE e \in [kind: {"Call"}, call_name: STRING, args: Seq(t.expr)]
  <2> PICK name \in STRING : name = e.call_name
    BY <1>3
  <2> PICK n \in Nat : n = Len(e.args)
    BY <1>3, LenProperties
  <2>1. e.kind = "Call" /\ e.args \in Seq(t.expr)
    BY <1>3
  <2> PICK args : args = InOrder(c.expr, bf, e.args)
    OBVIOUS
  <2>2. args \in Func /\ args.locals = bf.locals
    BY <2>1, ArgsLocals
  <2>3. CASE IsLocal(bf, name)
    <3> PICK push : push = PushName(args, name)
      OBVIOUS
    <3>1. push \in Func /\ push.locals = args.locals
      BY <2>2, NameLocals
    <3>2. out = EmitCall(push, n, -2, NoName)
      BY <2>1, <2>3 DEF CompileExpr, CompileCall
    <3>3. NoName \in STRING /\ -2 \in Int
      BY NamesAssumption DEF LiteralNames
    <3>4. Silent(push, out)
      BY <3>1, <3>2, <3>3, CallSame
    <3> QED
      BY <2>2, <3>1, <3>4 DEF Silent
  <2>4. CASE ~IsLocal(bf, name)
    <3> PICK failed \in BOOLEAN : failed = (name \notin HostNames)
      OBVIOUS
    <3> PICK known : known = FailIf(args, failed)
      OBVIOUS
    <3>1. known \in Func /\ known.locals = args.locals
      BY <2>2, FailFacts
    <3>2. out = EmitCall(known, n, -1, name)
      BY <2>1, <2>4 DEF CompileExpr, CompileCall
    <3>3. -1 \in Int
      OBVIOUS
    <3>4. Silent(known, out)
      BY <3>1, <3>2, <3>3, CallSame
    <3> QED
      BY <2>2, <3>1, <3>4 DEF Silent
  <2> QED
    BY <2>3, <2>4
<1>4. CASE e \in [kind: {"FuncLiteral"}, params: Seq(STRING), body: Seq(t.stmt)]
  <2>1. e.kind = "FuncLiteral"
    BY <1>4
  <2>2. out = FailIf(bf, TRUE)
    BY <2>1 DEF CompileExpr
  <2> QED
    BY <2>2, FailFacts
<1> QED
  BY <1>1, <1>2, <1>3, <1>4 DEF ExprsOver

LEMMA TreeAgrees ==
  ASSUME NEW c, NEW d, NEW t, Agreeing(c, d, t), NEW bf, NEW names, Agree(bf, names),
         NEW e \in ExprsOver(t), NEW out, out = CompileExpr(c, bf, e)
  PROVE  Agree(out, ExprNames(d, names, e))
<1>0. bf \in Func
  BY DEF Agree
<1>1. CASE e \in [kind: {"Const"}, value: Value]
  <2>1. e.kind = "Const" /\ e.value \in Value
    BY <1>1
  <2>2. out = EmitConst(bf, e.value) /\ ExprNames(d, names, e) = names
    BY <2>1 DEF CompileExpr, ExprNames
  <2>3. Silent(bf, out)
    BY <1>0, <2>1, <2>2, ConstSame
  <2> QED
    BY <2>2, <2>3, SilentAgrees
<1>2. CASE e \in [kind: {"Ident"}, ident: STRING]
  <2>1. e.kind = "Ident" /\ e.ident \in STRING
    BY <1>2
  <2>2. out = PushName(bf, e.ident) /\ ExprNames(d, names, e) = Append(names, Variable(e.ident))
    BY <2>1 DEF CompileExpr, ExprNames
  <2> QED
    BY <2>1, <2>2, PushAgrees
<1>3. CASE e \in [kind: {"Call"}, call_name: STRING, args: Seq(t.expr)]
  <2>1. e.kind = "Call" /\ e.call_name \in STRING /\ e.args \in Seq(t.expr)
    BY <1>3
  <2>2. /\ out = CompileCall(c, bf, e)
        /\ ExprNames(d, names, e)
             = Append(InOrder(d.expr, names, e.args), Callee(e.call_name))
    BY <2>1 DEF CompileExpr, ExprNames
  <2> QED
    BY <2>1, <2>2, CallAgrees
<1>4. CASE e \in [kind: {"FuncLiteral"}, params: Seq(STRING), body: Seq(t.stmt)]
  <2>1. e.kind = "FuncLiteral"
    BY <1>4
  <2>2. out = FailIf(bf, TRUE) /\ ExprNames(d, names, e) = NoCodeIf(names, TRUE)
    BY <2>1 DEF CompileExpr, ExprNames
  <2> QED
    BY <2>2, FailAgrees
<1> QED
  BY <1>1, <1>2, <1>3, <1>4 DEF ExprsOver

-----------------------------------------------------------------------------
(* Statements                                                               *)

LEMMA InOrderShort ==
  ASSUME NEW map, NEW start, NEW trees, IsSeq(trees)
  PROVE  /\ Len(trees) = 0 => InOrder(map, start, trees) = start
         /\ Len(trees) = 1 => InOrder(map, start, trees) = map[trees[1]][start]
<1>1. PICK u : Goes(u, map, start, trees)
  BY InOrderGoes
<1>2. /\ u[0] = start /\ \A i \in 1..Len(trees) : u[i] = map[trees[i]][u[i - 1]]
      /\ InOrder(map, start, trees) = u[Len(trees)]
  BY <1>1 DEF Goes
<1>3. 1 \in 1..1 /\ 1 - 1 = 0
  OBVIOUS
<1> QED
  BY <1>2, <1>3

LEMMA OptionalFacts ==
  ASSUME NEW S, NEW p \in Optional(S)
  PROVE  /\ IsSeq(p)
         /\ p = <<>> => Len(p) = 0
         /\ p # <<>> => Len(p) = 1 /\ p[1] \in S
<1>1. CASE p \in [1..0 -> S]
  <2>1. p = <<>>
    BY <1>1
  <2>2. p \in Seq(S)
    BY <2>1
  <2> QED
    BY <2>1, <2>2, AnySeq
<1>2. CASE p \in [1..1 -> S]
  <2> PICK n \in Nat : n = 1
    OBVIOUS
  <2>1. p \in Seq(S) /\ Len(p) = n
    <3>1. p \in [1..n -> S]
      BY <1>2
    <3> QED
      BY ONLY <3>1, n \in Nat
  <2>2. p[n] \in S
    BY <1>2
  <2>3. p # <<>>
    BY <2>1, EmptySeq
  <2> QED
    BY <2>1, <2>2, <2>3, AnySeq
<1> QED
  BY <1>1, <1>2 DEF Optional

LEMMA LocalAgrees ==
  ASSUME NEW c, NEW d, NEW t, Agreeing(c, d, t), NEW bf, NEW names, Agree(bf, names), NEW st,
         st.local_name \in STRING, st.local_init \in Optional(t.expr),
         NEW out, out = CompileLocal(c, bf, st)
  PROVE  Agree(out, LocalNames(d, names, st)) /\ Keeps(bf, out)
<1> PICK failed \in BOOLEAN : failed = (st.local_name = NoName)
  OBVIOUS
<1> PICK named : named = FailIf(bf, failed)
  OBVIOUS
<1> PICK ns : ns = NoCodeIf(names, failed)
  OBVIOUS
<1> PICK e : e = st.local_init
  OBVIOUS
<1> PICK init : init = IF e = <<>> THEN EmitConst(named, Nil) ELSE c.expr[e[1]][named]
  OBVIOUS
<1> PICK inits : inits = InOrder(d.expr, ns, e)
  OBVIOUS
<1>1. Agree(named, ns) /\ named.locals = bf.locals
  BY FailAgrees, FailFacts DEF Agree
<1>2. Agree(init, inits) /\ init.locals = named.locals
  <2>1. CASE e = <<>>
    <3>1. inits = ns
      BY <2>1, OptionalFacts, InOrderShort
    <3>2. Nil \in Value /\ named \in Func /\ init = EmitConst(named, Nil)
      BY <1>1, <2>1 DEF Value, Agree
    <3>3. Silent(named, init)
      BY <3>2, ConstSame
    <3> QED
      BY <1>1, <3>1, <3>3, SilentAgrees DEF Silent
  <2>2. CASE e # <<>>
    <3>1. inits = d.expr[e[1]][ns] /\ e[1] \in t.expr
      BY <2>2, OptionalFacts, InOrderShort
    <3>2. init = c.expr[e[1]][named]
      BY <2>2
    <3> QED
      BY <1>1, <3>1, <3>2, ExprAgrees
  <2> QED
    BY <2>1, <2>2
<1>3. out = StoreNew(init, st.local_name)
  BY DEF CompileLocal
<1>4. LocalNames(d, names, st) = Append(inits, Declaration(st.local_name))
  BY DEF LocalNames
<1>5. Agree(out, Append(inits, Declaration(st.local_name))) /\ Keeps(init, out)
  BY <1>2, <1>3, StoreAgrees
<1>6. Keeps(bf, init)
  BY <1>1, <1>2, SameLocals
<1> QED
  BY <1>4, <1>5, <1>6, KeepsOn

LEMMA AssignAgrees ==
  ASSUME NEW c, NEW d, NEW t, Agreeing(c, d, t), NEW bf, NEW names, Agree(bf, names), NEW st,
         st.lhs \in STRING, st.rhs \in t.expr, NEW out, out = CompileAssign(c, bf, st)
  PROVE  Agree(out, AssignNames(d, names, st)) /\ Keeps(bf, out)
<1> PICK failed \in BOOLEAN : failed = (st.lhs = NoName)
  OBVIOUS
<1> PICK named : named = FailIf(bf, failed)
  OBVIOUS
<1> PICK ns : ns = NoCodeIf(names, failed)
  OBVIOUS
<1> PICK rhs : rhs = c.expr[st.rhs][named]
  OBVIOUS
<1> PICK words : words = d.expr[st.rhs][ns]
  OBVIOUS
<1> PICK m : m = Variable(st.lhs)
  OBVIOUS
<1>1. Agree(named, ns) /\ named.locals = bf.locals
  BY FailAgrees, FailFacts DEF Agree
<1>2. Agree(rhs, words) /\ rhs.locals = named.locals
  BY <1>1, ExprAgrees
<1>3. rhs \in Func /\ (rhs.ok => (IsLocal(rhs, st.lhs) <=> Declared(words, st.lhs)))
  BY <1>2 DEF Agree
<1>4. /\ out \in Func /\ out.locals = rhs.locals
      /\ (out.ok <=> rhs.ok /\ IsLocal(rhs, st.lhs))
  <2>1. CASE IsLocal(rhs, st.lhs)
    <3> PICK a \in Int : a = Slot(rhs, st.lhs)
      BY <1>3, <2>1, SlotIs
    <3>1. out = Emit(rhs, "STORE_LOCAL", a) /\ "STORE_LOCAL" \in OpCodes
      BY <2>1 DEF CompileAssign, OpCodes
    <3>2. Silent(rhs, out)
      BY <1>3, <3>1, EmitSame
    <3> QED
      BY <2>1, <3>2 DEF Silent
  <2>2. CASE ~IsLocal(rhs, st.lhs)
    <3>1. out = FailIf(rhs, TRUE)
      BY <2>2 DEF CompileAssign
    <3>2. out \in Func /\ ~out.ok /\ out.locals = rhs.locals
      BY <1>3, <3>1, FailFacts
    <3> QED
      BY <2>2, <3>2
  <2> QED
    BY <2>1, <2>2
<1>5. /\ m \in Mention /\ (Resolves(words, m) <=> Declared(words, st.lhs))
      /\ \A n : m # Declaration(n)
  BY Mentions, MentionFacts
<1>6. out.ok <=> rhs.ok /\ Resolves(words, m)
  BY <1>3, <1>4, <1>5
<1>7. \A n : IsLocal(out, n) <=> IsLocal(rhs, n) \/ m = Declaration(n)
  BY <1>4, <1>5, SameLocals
<1>8. Agree(out, Append(words, m))
  BY <1>2, <1>4, <1>5, <1>6, <1>7, MentionAgrees
<1>9. AssignNames(d, names, st) = Append(words, m)
  BY DEF AssignNames
<1> QED
  BY <1>1, <1>2, <1>4, <1>8, <1>9, SameLocals

LEMMA ExprStmtAgrees ==
  ASSUME NEW c, NEW d, NEW t, Agreeing(c, d, t), NEW bf, NEW names, Agree(bf, names), NEW st,
         st.expr \in t.expr, NEW out, out = CompileExprStmt(c, bf, st)
  PROVE  /\ Agree(out, d.expr[st.expr][NoCodeIf(names, st.expr.kind # "Call")])
         /\ Keeps(bf, out)
<1> PICK failed \in BOOLEAN : failed = (st.expr.kind # "Call")
  OBVIOUS
<1> PICK call : call = FailIf(bf, failed)
  OBVIOUS
<1> PICK ns : ns = NoCodeIf(names, failed)
  OBVIOUS
<1> PICK e : e = c.expr[st.expr][call]
  OBVIOUS
<1>1. Agree(call, ns) /\ call.locals = bf.locals
  BY FailAgrees, FailFacts DEF Agree
<1>2. Agree(e, d.expr[st.expr][ns]) /\ e.locals = call.locals
  BY <1>1, ExprAgrees
<1>3. out = Emit(e, "POP", 1) /\ "POP" \in OpCodes /\ 1 \in Int /\ e \in Func
  BY <1>2 DEF CompileExprStmt, OpCodes, Agree
<1>4. Silent(e, out)
  BY <1>3, EmitSame
<1>5. Agree(out, d.expr[st.expr][ns])
  BY <1>2, <1>4, SilentAgrees
<1>6. out.locals = bf.locals
  BY <1>1, <1>2, <1>4 DEF Silent
<1> QED
  BY <1>5, <1>6, SameLocals

LEMMA ReturnAgrees ==
  ASSUME NEW c, NEW d, NEW t, Agreeing(c, d, t), NEW bf, NEW names, Agree(bf, names), NEW st,
         st.expr \in t.expr, NEW out, out = CompileReturn(c, bf, st)
  PROVE  Agree(out, d.expr[st.expr][names]) /\ Keeps(bf, out)
<1> PICK e : e = c.expr[st.expr][bf]
  OBVIOUS
<1>1. Agree(e, d.expr[st.expr][names]) /\ Keeps(bf, e)
  BY ExprAgrees
<1>2. out = Emit(e, "RET", 0) /\ "RET" \in OpCodes /\ 0 \in Int /\ e \in Func
  BY <1>1 DEF CompileReturn, OpCodes, Agree
<1>3. Silent(e, out)
  BY <1>2, EmitSame
<1> QED
  BY <1>1, <1>3, SilentAgrees, KeepsOn

-----------------------------------------------------------------------------
(* Statements with jumps                                                    *)

\* A test, the end of a body, or the jump back of a loop.
LEMMA JumpAgrees ==
  ASSUME NEW bf, NEW names, Agree(bf, names), NEW op \in Jumps, NEW a \in Int, NEW out,
         out = Emit(bf, op, a)
  PROVE  Agree(out, names) /\ Keeps(bf, out)
<1>1. bf \in Func /\ op \in OpCodes
  BY DEF Agree, OpCodes, Jumps
<1>2. Silent(bf, out)
  BY <1>1, EmitSame
<1> QED
  BY <1>2, SilentAgrees

LEMMA LandAgrees ==
  ASSUME NEW bf, NEW names, Agree(bf, names), NEW pos
  PROVE  Agree(Land(bf, pos), names) /\ Keeps(bf, Land(bf, pos))
<1>1. Silent(bf, Land(bf, pos))
  BY LandSame DEF Agree
<1> QED
  BY <1>1, SilentAgrees

LEMMA ArmAgrees ==
  ASSUME NEW c, NEW d, NEW t, Agreeing(c, d, t), NEW bf, NEW names, Agree(bf, names),
         NEW cond \in t.expr, NEW body \in Seq(t.stmt)
  PROVE  /\ Agree(CompileArm(c, bf, cond, body), ArmNames(d, names, cond, body))
         /\ Keeps(bf, CompileArm(c, bf, cond, body))
<1> PICK e : e = c.expr[cond][bf]
  OBVIOUS
<1> PICK ns : ns = d.expr[cond][names]
  OBVIOUS
<1> PICK test : test = Emit(e, "JMP_IF_FALSE", 0)
  OBVIOUS
<1> PICK block : block = CompileBlock(c, test, body)
  OBVIOUS
<1> PICK words : words = InOrder(d.stmt, ns, body)
  OBVIOUS
<1> PICK jump : jump = Emit(block, "JMP", 0)
  OBVIOUS
<1>0. "JMP" \in Jumps /\ "JMP_IF_FALSE" \in Jumps /\ 0 \in Int
  BY DEF Jumps
<1>1. Agree(e, ns) /\ Keeps(bf, e)
  BY ExprAgrees
<1>2. Agree(test, ns) /\ Keeps(e, test)
  BY <1>0, <1>1, JumpAgrees
<1>3. Agree(block, words) /\ Keeps(test, block)
  BY <1>2, BlockAgrees
<1>4. Agree(jump, words) /\ Keeps(block, jump)
  BY <1>0, <1>3, JumpAgrees
<1> PICK pos : pos = Here(test)
  OBVIOUS
<1>5. Agree(Land(jump, pos), words) /\ Keeps(jump, Land(jump, pos))
  BY <1>4, LandAgrees
<1>6. Keeps(bf, Land(jump, pos))
  BY <1>1, <1>2, <1>3, <1>4, <1>5, KeepsOn
<1>7. /\ CompileArm(c, bf, cond, body) = Land(jump, pos)
      /\ ArmNames(d, names, cond, body) = words
  BY DEF CompileArm, ArmNames
<1> QED
  BY <1>5, <1>6, <1>7

LEMMA ElseifAgrees ==
  ASSUME NEW c, NEW d, NEW t, Agreeing(c, d, t), NEW bf, NEW names, Agree(bf, names),
         NEW part \in PartsOver(t)
  PROVE  /\ Agree(CompileElseif(c, bf, part), ArmNames(d, names, part.cond, part.body))
         /\ Keeps(bf, CompileElseif(c, bf, part))
<1> PICK arm : arm = CompileArm(c, bf, part.cond, part.body)
  OBVIOUS
<1> PICK ns : ns = ArmNames(d, names, part.cond, part.body)
  OBVIOUS
<1>1. part.cond \in t.expr /\ part.body \in Seq(t.stmt)
  BY DEF PartsOver
<1>2. Agree(arm, ns) /\ Keeps(bf, arm)
  BY <1>1, ArmAgrees
<1> PICK pos : pos = Here(arm)
  OBVIOUS
<1>3. Agree(Land(arm, pos), ns) /\ Keeps(arm, Land(arm, pos))
  BY <1>2, LandAgrees
<1>4. CompileElseif(c, bf, part) = Land(arm, pos)
  BY DEF CompileElseif
<1> QED
  BY <1>2, <1>3, <1>4, KeepsOn

LEMMA IfAgrees ==
  ASSUME NEW c, NEW d, NEW t, Agreeing(c, d, t), NEW bf, NEW names, Agree(bf, names), NEW st,
         st.cond \in t.expr, st.then_body \in Seq(t.stmt),
         st.elseif_parts \in Seq(PartsOver(t)), st.else_body \in Seq(t.stmt)
  PROVE  Agree(CompileIf(c, bf, st), IfNames(d, names, st)) /\ Keeps(bf, CompileIf(c, bf, st))
<1> PICK first : first = CompileArm(c, bf, st.cond, st.then_body)
  OBVIOUS
<1> PICK ns : ns = ArmNames(d, names, st.cond, st.then_body)
  OBVIOUS
<1> PICK ps : ps = st.elseif_parts
  OBVIOUS
<1> PICK compile : compile = [p \in ToSet(ps) |-> [x \in Func |-> CompileElseif(c, x, p)]]
  OBVIOUS
<1> PICK list : list = [p \in ToSet(ps) |->
                         [x \in Seq(Mention) |-> ArmNames(d, x, p.cond, p.body)]]
  OBVIOUS
<1> PICK parts : parts = InOrder(compile, first, ps)
  OBVIOUS
<1> PICK words : words = InOrder(list, ns, ps)
  OBVIOUS
<1> PICK block : block = CompileBlock(c, parts, st.else_body)
  OBVIOUS
<1> PICK all : all = InOrder(d.stmt, words, st.else_body)
  OBVIOUS
<1>1. Agree(first, ns) /\ Keeps(bf, first)
  BY ArmAgrees
<1>2. Agree(parts, words) /\ Keeps(first, parts)
  <2> PICK n \in Nat : n = Len(ps) /\ DOMAIN ps = 1..n
    BY LenProperties
  <2>1. IsSeq(ps) /\ \A i \in 1..n : ps[i] \in PartsOver(t) /\ ps[i] \in ToSet(ps)
    BY AnySeq, ElementOfSeq DEF ToSet
  <2>2. ASSUME NEW i \in 1..n, NEW b, NEW x, Agree(b, x)
        PROVE  Agree(compile[ps[i]][b], list[ps[i]][x]) /\ Keeps(b, compile[ps[i]][b])
    <3> PICK p : p = ps[i]
      OBVIOUS
    <3>1. b \in Func /\ x \in Seq(Mention) /\ p \in PartsOver(t) /\ p \in ToSet(ps)
      BY <2>1, <2>2 DEF Agree
    <3>2. compile[p][b] = CompileElseif(c, b, p) /\ list[p][x] = ArmNames(d, x, p.cond, p.body)
      BY <3>1
    <3> QED
      BY <2>2, <3>1, <3>2, ElseifAgrees
  <2> QED
    BY <1>1, <2>1, <2>2, InOrderAgrees
<1>3. Agree(block, all) /\ Keeps(parts, block)
  BY <1>2, BlockAgrees
<1> PICK pos : pos = Here(first)
  OBVIOUS
<1>4. Agree(Land(block, pos), all) /\ Keeps(block, Land(block, pos))
  BY <1>3, LandAgrees
<1>5. Keeps(bf, Land(block, pos))
  BY <1>1, <1>2, <1>3, <1>4, KeepsOn
<1>6. CompileIf(c, bf, st) = Land(block, pos)
  BY DEF CompileIf
<1>7. IfNames(d, names, st) = all
  BY DEF IfNames
<1> QED
  BY <1>4, <1>5, <1>6, <1>7

LEMMA WhileAgrees ==
  ASSUME NEW c, NEW d, NEW t, Agreeing(c, d, t), NEW bf, NEW names, Agree(bf, names), NEW st,
         st.cond \in t.expr, st.then_body \in Seq(t.stmt)
  PROVE  /\ Agree(CompileWhile(c, bf, st), ArmNames(d, names, st.cond, st.then_body))
         /\ Keeps(bf, CompileWhile(c, bf, st))
<1> PICK e : e = c.expr[st.cond][bf]
  OBVIOUS
<1> PICK ns : ns = d.expr[st.cond][names]
  OBVIOUS
<1> PICK test : test = Emit(e, "JMP_IF_FALSE", 0)
  OBVIOUS
<1> PICK block : block = CompileBlock(c, test, st.then_body)
  OBVIOUS
<1> PICK words : words = InOrder(d.stmt, ns, st.then_body)
  OBVIOUS
<1> PICK back \in Int : back = Here(bf)
  BY FuncFacts DEF Agree, Here
<1> PICK jump : jump = Emit(block, "JMP", back)
  OBVIOUS
<1> PICK pos : pos = Here(test)
  OBVIOUS
<1>0. "JMP" \in Jumps /\ "JMP_IF_FALSE" \in Jumps /\ 0 \in Int
  BY DEF Jumps
<1>1. Agree(e, ns) /\ Keeps(bf, e)
  BY ExprAgrees
<1>2. Agree(test, ns) /\ Keeps(e, test)
  BY <1>0, <1>1, JumpAgrees
<1>3. Agree(block, words) /\ Keeps(test, block)
  BY <1>2, BlockAgrees
<1>4. Agree(jump, words) /\ Keeps(block, jump)
  BY <1>0, <1>3, JumpAgrees
<1>5. Agree(Land(jump, pos), words) /\ Keeps(jump, Land(jump, pos))
  BY <1>4, LandAgrees
<1>6. Keeps(bf, Land(jump, pos))
  BY <1>1, <1>2, <1>3, <1>4, <1>5, KeepsOn
<1>7. /\ CompileWhile(c, bf, st) = Land(jump, pos)
      /\ ArmNames(d, names, st.cond, st.then_body) = words
  BY DEF CompileWhile, ArmNames
<1> QED
  BY <1>5, <1>6, <1>7

-----------------------------------------------------------------------------
(* Foreach                                                                  *)

LEMMA ThenEmit ==
  ASSUME NEW base, NEW bf, Silent(base, bf), NEW op \in OpCodes, NEW a \in Int
  PROVE  Silent(base, Emit(bf, op, a))
<1>1. Silent(bf, Emit(bf, op, a))
  BY EmitSame DEF Silent
<1> QED
  BY <1>1, SilentOn

LEMMA ThenCall ==
  ASSUME NEW base, NEW bf, Silent(base, bf), NEW n \in Nat, NEW name \in STRING
  PROVE  Silent(base, EmitCall(bf, n, -1, name))
<1>1. bf \in Func /\ -1 \in Int
  BY DEF Silent
<1>2. Silent(bf, EmitCall(bf, n, -1, name))
  BY <1>1, CallSame
<1> QED
  BY <1>2, SilentOn

LEMMA ThenConst ==
  ASSUME NEW base, NEW bf, Silent(base, bf), NEW v \in Value
  PROVE  Silent(base, EmitConst(bf, v))
<1>1. Silent(bf, EmitConst(bf, v))
  BY ConstSame DEF Silent
<1> QED
  BY <1>1, SilentOn

LEMMA ThenPush ==
  ASSUME NEW base, NEW bf, Silent(base, bf), NEW name, IsLocal(base, name)
  PROVE  Silent(base, PushName(bf, name))
<1>1. bf \in Func /\ IsLocal(bf, name)
  BY SameLocals DEF Silent
<1>2. Silent(bf, PushName(bf, name))
  BY <1>1, KnownSame
<1> QED
  BY <1>2, SilentOn

LEMMA ThenStore ==
  ASSUME NEW base, NEW bf, Silent(base, bf), NEW name, IsLocal(base, name)
  PROVE  Silent(base, StoreNew(bf, name))
<1>1. bf \in Func /\ IsLocal(bf, name)
  BY SameLocals DEF Silent
<1> PICK a \in Int : a = Slot(bf, name)
  BY <1>1, SlotIs
<1>2. StoreNew(bf, name) = Emit(bf, "STORE_LOCAL", a) /\ "STORE_LOCAL" \in OpCodes
  BY <1>1 DEF StoreNew, AddLocal, OpCodes
<1> QED
  BY <1>2, ThenEmit

LEMMA ForeachAgrees ==
  ASSUME NEW c, NEW d, NEW t, Agreeing(c, d, t), NEW bf, NEW names, Agree(bf, names), NEW st,
         st.iter_name \in STRING, st.iter_expr \in t.expr, st.foreach_body \in Seq(t.stmt)
  PROVE  /\ Agree(CompileForeach(c, bf, st), ForeachNames(d, names, st))
         /\ Keeps(bf, CompileForeach(c, bf, st))
<1>number. Number(0) \in Value /\ Number(1) \in Value
  BY DEF Number, Value
<1> PICK zero, one : zero = Number(0) /\ one = Number(1)
  OBVIOUS
<1> PICK sn, in : sn = "__foreach_seq" /\ in = "__foreach_idx"
  OBVIOUS
<1> PICK e : e = c.expr[st.iter_expr][bf]
  OBVIOUS
<1> PICK words : words = d.expr[st.iter_expr][names]
  OBVIOUS
<1> PICK seq : seq = StoreNew(e, sn)
  OBVIOUS
<1> PICK s1 : s1 = Append(words, Declaration(sn))
  OBVIOUS
<1> PICK idx : idx = AddLocal(seq, in)
  OBVIOUS
<1> PICK s2 : s2 = Append(s1, Declaration(in))
  OBVIOUS
<1> PICK start : start = StoreNew(EmitConst(idx, zero), in)
  OBVIOUS
<1> PICK len : len = EmitCall(PushName(start, sn), 1, -1, "strlen")
  OBVIOUS
<1> PICK less : less = EmitCall(PushName(len, in), 2, -1, "lt")
  OBVIOUS
<1> PICK test : test = Emit(less, "JMP_IF_FALSE", 0)
  OBVIOUS
<1> PICK both : both = PushName(PushName(test, sn), in)
  OBVIOUS
<1> PICK char : char = EmitCall(both, 2, -1, "str_char_at")
  OBVIOUS
<1> PICK item : item = StoreNew(char, st.iter_name)
  OBVIOUS
<1> PICK s3 : s3 = Append(s2, Declaration(st.iter_name))
  OBVIOUS
<1> PICK body : body = CompileBlock(c, item, st.foreach_body)
  OBVIOUS
<1> PICK all : all = InOrder(d.stmt, s3, st.foreach_body)
  OBVIOUS
<1> PICK now : now = PushName(body, in)
  OBVIOUS
<1> PICK inc : inc = EmitConst(now, one)
  OBVIOUS
<1> PICK sum : sum = EmitCall(inc, 2, -1, "add")
  OBVIOUS
<1> PICK next : next = StoreNew(sum, in)
  OBVIOUS
<1> PICK back : back = Here(start)
  OBVIOUS
<1> PICK loop : loop = Emit(next, "JMP", back)
  OBVIOUS
<1> PICK pos : pos = Here(test)
  OBVIOUS
<1>0. /\ sn \in STRING /\ in \in STRING /\ "strlen" \in STRING /\ "lt" \in STRING
      /\ "str_char_at" \in STRING /\ "add" \in STRING
  BY ForeachWords
<1>1. /\ "JMP" \in OpCodes /\ "JMP_IF_FALSE" \in OpCodes /\ 0 \in Int /\ 1 \in Nat /\ 2 \in Nat
      /\ zero \in Value /\ one \in Value
  <2>1. "JMP" \in OpCodes /\ "JMP_IF_FALSE" \in OpCodes
    BY ONLY DEF OpCodes
  <2>2. 0 \in Int /\ 1 \in Nat /\ 2 \in Nat
    BY ONLY TRUE
  <2> QED
    BY <1>number, <2>1, <2>2
<1>2. Agree(e, words) /\ Keeps(bf, e)
  BY ExprAgrees
<1>3. Agree(seq, s1) /\ Keeps(e, seq) /\ IsLocal(seq, sn)
  BY <1>0, <1>2, StoreAgrees
<1>4. Agree(idx, s2) /\ Keeps(seq, idx) /\ IsLocal(idx, in) /\ IsLocal(idx, sn)
  <2>1. Agree(idx, s2) /\ Keeps(seq, idx) /\ IsLocal(idx, in)
    BY <1>0, <1>3, AddAgrees
  <2> QED
    BY <1>3, <2>1 DEF Keeps
<1>5. Silent(idx, idx)
  BY <1>4 DEF Silent, Agree
<1>6. Silent(idx, start)
  BY <1>1, <1>4, <1>5, ThenConst, ThenStore
<1>7. Silent(idx, len)
  BY <1>0, <1>1, <1>4, <1>6, ThenPush, ThenCall
<1>8. Silent(idx, less)
  BY <1>0, <1>1, <1>4, <1>7, ThenPush, ThenCall
<1>9. Silent(idx, test)
  BY <1>1, <1>8, ThenEmit
<1>10. Silent(idx, both)
  BY <1>4, <1>9, ThenPush
<1>11. Silent(idx, char)
  BY <1>0, <1>1, <1>10, ThenCall
<1>12. Agree(char, s2) /\ Keeps(idx, char)
  BY <1>4, <1>11, SilentAgrees
<1>13. Agree(item, s3) /\ Keeps(char, item)
  BY <1>12, StoreAgrees
<1>14. Agree(body, all) /\ Keeps(item, body)
  BY <1>13, BlockAgrees
<1>15. Keeps(idx, body) /\ Keeps(bf, body)
  BY <1>2, <1>3, <1>4, <1>12, <1>13, <1>14, KeepsOn
<1>16. Silent(body, body) /\ IsLocal(body, in)
  BY <1>4, <1>14, <1>15 DEF Silent, Agree, Keeps
<1>17. Silent(body, next)
  <2>1. Silent(body, now)
    BY <1>16, ThenPush
  <2>2. Silent(body, inc)
    BY <1>1, <2>1, ThenConst
  <2>3. Silent(body, sum)
    BY ONLY <1>0, <1>1, <2>2, ThenCall, sum = EmitCall(inc, 2, -1, "add")
  <2> QED
    BY <1>16, <2>3, ThenStore
<1>18. Silent(body, loop)
  <2>1. start \in Func
    BY <1>6 DEF Silent
  <2>2. back \in Int
    BY ONLY <2>1, FuncFacts, back = Here(start) DEF Here
  <2> QED
    BY ONLY <1>1, <1>17, <2>2, ThenEmit, loop = Emit(next, "JMP", back)
<1>19. Agree(loop, all) /\ Keeps(body, loop)
  BY <1>14, <1>18, SilentAgrees
<1>20. Agree(Land(loop, pos), all) /\ Keeps(loop, Land(loop, pos))
  BY ONLY <1>19, LandAgrees
<1>21. Keeps(bf, Land(loop, pos))
  BY <1>15, <1>19, <1>20, KeepsOn
<1>22. CompileForeach(c, bf, st) = Land(loop, pos)
  BY DEF CompileForeach
<1>23. ForeachNames(d, names, st) = all
  BY DEF ForeachNames
<1> QED
  BY <1>20, <1>21, <1>22, <1>23

LEMMA StmtAgrees ==
  ASSUME NEW c, NEW d, NEW t, Agreeing(c, d, t), NEW bf, NEW names, Agree(bf, names),
         NEW st \in StmtsOver(t)
  PROVE  Agree(CompileStmt(c, bf, st), StmtNames(d, names, st))
         /\ Keeps(bf, CompileStmt(c, bf, st))
<1>1. CASE st \in [kind: {"Local"}, local_name: STRING, local_init: Optional(t.expr)]
  <2>1. st.kind = "Local" /\ st.local_name \in STRING /\ st.local_init \in Optional(t.expr)
    BY <1>1
  <2>2. /\ CompileStmt(c, bf, st) = CompileLocal(c, bf, st)
        /\ StmtNames(d, names, st) = LocalNames(d, names, st)
    BY <2>1 DEF CompileStmt, StmtNames
  <2> QED
    BY <2>1, <2>2, LocalAgrees
<1>2. CASE st \in [kind: {"Assign"}, lhs: STRING, rhs: t.expr]
  <2>1. st.kind = "Assign" /\ st.lhs \in STRING /\ st.rhs \in t.expr
    BY <1>2
  <2>2. /\ CompileStmt(c, bf, st) = CompileAssign(c, bf, st)
        /\ StmtNames(d, names, st) = AssignNames(d, names, st)
    BY <2>1 DEF CompileStmt, StmtNames
  <2> QED
    BY <2>1, <2>2, AssignAgrees
<1>3. CASE st \in [kind: {"Expr", "Return"}, expr: t.expr]
  <2>1. st.kind \in {"Expr", "Return"} /\ st.expr \in t.expr
    BY <1>3
  <2>2. CASE st.kind = "Expr"
    <3>1. /\ CompileStmt(c, bf, st) = CompileExprStmt(c, bf, st)
          /\ StmtNames(d, names, st) = d.expr[st.expr][NoCodeIf(names, st.expr.kind # "Call")]
      BY <2>2 DEF CompileStmt, StmtNames
    <3> QED
      BY <2>1, <3>1, ExprStmtAgrees
  <2>3. CASE st.kind = "Return"
    <3>1. /\ CompileStmt(c, bf, st) = CompileReturn(c, bf, st)
          /\ StmtNames(d, names, st) = d.expr[st.expr][names]
      BY <2>3 DEF CompileStmt, StmtNames
    <3> QED
      BY <2>1, <3>1, ReturnAgrees
  <2> QED
    BY <2>1, <2>2, <2>3
<1>4. CASE st \in [kind: {"If"}, cond: t.expr, then_body: Seq(t.stmt),
                   elseif_parts: Seq(PartsOver(t)), else_body: Seq(t.stmt)]
  <2>1. /\ st.kind = "If" /\ st.cond \in t.expr /\ st.then_body \in Seq(t.stmt)
        /\ st.elseif_parts \in Seq(PartsOver(t)) /\ st.else_body \in Seq(t.stmt)
    BY <1>4
  <2>2. /\ CompileStmt(c, bf, st) = CompileIf(c, bf, st)
        /\ StmtNames(d, names, st) = IfNames(d, names, st)
    BY <2>1 DEF CompileStmt, StmtNames
  <2> QED
    BY <2>1, <2>2, IfAgrees
<1>5. CASE st \in [kind: {"While"}, cond: t.expr, then_body: Seq(t.stmt)]
  <2>1. st.kind = "While" /\ st.cond \in t.expr /\ st.then_body \in Seq(t.stmt)
    BY <1>5
  <2>2. /\ CompileStmt(c, bf, st) = CompileWhile(c, bf, st)
        /\ StmtNames(d, names, st) = ArmNames(d, names, st.cond, st.then_body)
    BY <2>1 DEF CompileStmt, StmtNames
  <2> QED
    BY <2>1, <2>2, WhileAgrees
<1>6. CASE st \in [kind: {"Foreach"}, iter_name: STRING, iter_expr: t.expr,
                   foreach_body: Seq(t.stmt)]
  <2>1. /\ st.kind = "Foreach" /\ st.iter_name \in STRING /\ st.iter_expr \in t.expr
        /\ st.foreach_body \in Seq(t.stmt)
    BY <1>6
  <2>2. /\ CompileStmt(c, bf, st) = CompileForeach(c, bf, st)
        /\ StmtNames(d, names, st) = ForeachNames(d, names, st)
    BY <2>1 DEF CompileStmt, StmtNames
  <2> QED
    BY <2>1, <2>2, ForeachAgrees
<1> QED
  BY <1>1, <1>2, <1>3, <1>4, <1>5, <1>6 DEF StmtsOver

-----------------------------------------------------------------------------
(* Trees of any number of levels                                            *)

\* What NamesOf has to satisfy.
NamesBody(f, d) ==
  [expr |-> [e \in TreesUpTo[d].expr |->
              [names \in Seq(Mention) |-> ExprNames(f[d - 1], names, e)]],
   stmt |-> [s \in TreesUpTo[d].stmt |->
              [names \in Seq(Mention) |-> StmtNames(f[d - 1], names, s)]]]

LEMMA NamesExist ==
  \A n \in Nat : n <= MaxNesting => \E f : f = [d \in 0..n |-> NamesBody(f, d)]
<1> DEFINE T == {n \in Nat : \E f : f = [d \in 0..n |-> NamesBody(f, d)]}
<1>0. \A f, g : NamesBody(f, 0) = NamesBody(g, 0)
  <2> TAKE f, g
  <2>1. TreesUpTo[0].expr = {} /\ TreesUpTo[0].stmt = {}
    BY TreesFacts
  <2>2. [e \in TreesUpTo[0].expr |-> [names \in Seq(Mention) |-> ExprNames(f[0 - 1], names, e)]]
          = [e \in TreesUpTo[0].expr |-> [names \in Seq(Mention) |-> ExprNames(g[0 - 1], names, e)]]
    BY <2>1
  <2>3. [s \in TreesUpTo[0].stmt |-> [names \in Seq(Mention) |-> StmtNames(f[0 - 1], names, s)]]
          = [s \in TreesUpTo[0].stmt |-> [names \in Seq(Mention) |-> StmtNames(g[0 - 1], names, s)]]
    BY <2>1
  <2> QED
    BY <2>2, <2>3 DEF NamesBody
<1>1. 0 \in T
  <2> PICK f : f = [d \in 0..0 |-> NamesBody(<<>>, 0)]
    OBVIOUS
  <2>1. \A d \in 0..0 : NamesBody(f, d) = NamesBody(<<>>, 0)
    <3> TAKE d \in 0..0
    <3>1. d = 0
      OBVIOUS
    <3> QED
      BY <1>0, <3>1
  <2>2. f = [d \in 0..0 |-> NamesBody(f, d)]
    BY <2>1
  <2> QED
    BY <2>2
<1>2. ASSUME NEW n \in Nat, n \in T PROVE n + 1 \in T
  <2>1. PICK f : f = [d \in 0..n |-> NamesBody(f, d)]
    BY <1>2
  <2> PICK last : last = NamesBody(f, n + 1)
    OBVIOUS
  <2>2. PICK g : g = [d \in 0..n + 1 |-> IF d = n + 1 THEN last ELSE f[d]]
    OBVIOUS
  <2>3. \A d \in 0..n : g[d] = f[d] /\ f[d] = NamesBody(f, d)
    BY <2>1, <2>2
  <2>4. \A d \in 0..n + 1 : g[d] = NamesBody(g, d)
    <3> TAKE d \in 0..n + 1
    <3>1. NamesBody(g, d) = NamesBody(f, d)
      <4>1. CASE d = 0
        BY <1>0, <4>1
      <4>2. CASE d # 0
        <5>1. d - 1 \in 0..n
          BY <4>2
        <5>2. g[d - 1] = f[d - 1]
          BY <2>3, <5>1
        <5> QED
          BY <5>2 DEF NamesBody
      <4> QED
        BY <4>1, <4>2
    <3>2. CASE d = n + 1
      BY <2>2, <3>1, <3>2
    <3>3. CASE d # n + 1
      <4>1. d \in 0..n
        BY <3>3
      <4> QED
        BY <2>3, <3>1, <4>1
    <3> QED
      BY <3>2, <3>3
  <2>5. g = [d \in 0..n + 1 |-> NamesBody(g, d)]
    <3>1. DOMAIN g = 0..n + 1 /\ g = [d \in DOMAIN g |-> g[d]]
      BY <2>2
    <3> QED
      BY <2>4, <3>1
  <2> QED
    BY <2>5
<1> HIDE DEF T
<1>3. \A n \in Nat : n \in T
  BY <1>1, <1>2, FromZero
<1> QED
  BY <1>3 DEF T

LEMMA NamesFacts == \A d \in 0..MaxNesting : NamesOf[d] = NamesBody(NamesOf, d)
<1> PICK n \in Nat : n = MaxNesting
  BY NestingAssumption
<1>1. PICK f : f = [d \in 0..n |-> NamesBody(f, d)]
  BY NamesExist
<1>2. NamesOf = CHOOSE g : g = [d \in 0..n |-> NamesBody(g, d)]
  BY DEF NamesOf, NamesBody
<1>3. NamesOf = [d \in 0..n |-> NamesBody(NamesOf, d)]
  BY <1>1, <1>2
<1> QED
  BY <1>3

\* Of every tree the compiler and the text say the same.
LEMMA LevelsAgree ==
  \A d \in 0..MaxNesting : Agreeing(Compile[d], NamesOf[d], TreesUpTo[d])
<1> PICK n \in Nat : n = MaxNesting
  BY NestingAssumption
<1> DEFINE T == {d \in Nat : d <= n => Agreeing(Compile[d], NamesOf[d], TreesUpTo[d])}
<1>1. 0 \in T
  BY TreesFacts DEF Agreeing, CompilesWell
<1>2. ASSUME NEW d \in Nat, d \in T PROVE d + 1 \in T
  <2> SUFFICES ASSUME d + 1 <= n
               PROVE  Agreeing(Compile[d + 1], NamesOf[d + 1], TreesUpTo[d + 1])
    OBVIOUS
  <2> PICK k : k = d + 1
    OBVIOUS
  <2>1. k \in 1..n /\ k \in 0..n /\ k - 1 = d /\ k - 1 \in 0..n
    OBVIOUS
  <2> PICK c, w, t : c = Compile[d] /\ w = NamesOf[d] /\ t = TreesUpTo[d]
    OBVIOUS
  <2>2. Agreeing(c, w, t)
    BY <1>2, <2>1
  <2>3. TreesUpTo[k].expr = ExprsOver(t) /\ TreesUpTo[k].stmt = StmtsOver(t)
    <3>1. TreesUpTo[k] = [expr |-> ExprsOver(TreesUpTo[k - 1]), stmt |-> StmtsOver(TreesUpTo[k - 1])]
      BY <2>1, TreesFacts
    <3>2. TreesUpTo[k - 1] = t
      BY <2>1
    <3> QED
      BY <3>1, <3>2
  <2>4. /\ Compile[k].expr = [e \in ExprsOver(t) |-> [bf \in Func |-> CompileExpr(c, bf, e)]]
        /\ Compile[k].stmt = [s \in StmtsOver(t) |-> [bf \in Func |-> CompileStmt(c, bf, s)]]
    <3>1. Compile[k] = CompileBody(Compile, k)
      BY <2>1, CompileFacts
    <3>2. Compile[k - 1] = c
      BY <2>1
    <3>3. /\ CompileBody(Compile, k).expr
                = [e \in TreesUpTo[k].expr |-> [bf \in Func |-> CompileExpr(Compile[k - 1], bf, e)]]
          /\ CompileBody(Compile, k).stmt
                = [s \in TreesUpTo[k].stmt |-> [bf \in Func |-> CompileStmt(Compile[k - 1], bf, s)]]
      BY DEF CompileBody
    <3> QED
      BY <2>3, <3>1, <3>2, <3>3
  <2>5. /\ NamesOf[k].expr
             = [e \in ExprsOver(t) |-> [names \in Seq(Mention) |-> ExprNames(w, names, e)]]
        /\ NamesOf[k].stmt
             = [s \in StmtsOver(t) |-> [names \in Seq(Mention) |-> StmtNames(w, names, s)]]
    <3>1. NamesOf[k] = NamesBody(NamesOf, k)
      BY <2>1, NamesFacts
    <3>2. NamesOf[k - 1] = w
      BY <2>1
    <3>3. /\ NamesBody(NamesOf, k).expr
                = [e \in TreesUpTo[k].expr |->
                    [names \in Seq(Mention) |-> ExprNames(NamesOf[k - 1], names, e)]]
          /\ NamesBody(NamesOf, k).stmt
                = [s \in TreesUpTo[k].stmt |->
                    [names \in Seq(Mention) |-> StmtNames(NamesOf[k - 1], names, s)]]
      BY DEF NamesBody
    <3> QED
      BY <2>3, <3>1, <3>2, <3>3
  <2> PICK x, y, z : x = Compile[k] /\ y = NamesOf[k] /\ z = TreesUpTo[k]
    OBVIOUS
  <2>6. CompilesWell(x, z)
    BY <2>1, LevelsCompileWell
  <2>7. ASSUME NEW e \in z.expr, NEW bf \in Func
        PROVE  x.expr[e][bf] = CompileExpr(c, bf, e) /\ e \in ExprsOver(t)
    BY <2>3, <2>4
  <2>8. ASSUME NEW e \in z.expr, NEW bf, NEW names, Agree(bf, names)
        PROVE  Agree(x.expr[e][bf], y.expr[e][names])
    <3>1. /\ bf \in Func /\ names \in Seq(Mention) /\ e \in ExprsOver(t)
      BY <2>7, <2>8 DEF Agree
    <3>2. x.expr[e][bf] = CompileExpr(c, bf, e) /\ y.expr[e][names] = ExprNames(w, names, e)
      BY <2>4, <2>5, <3>1
    <3> QED
      BY <2>2, <2>8, <3>1, <3>2, TreeAgrees
  <2>9. ASSUME NEW s \in z.stmt, NEW bf, NEW names, Agree(bf, names)
        PROVE  Agree(x.stmt[s][bf], y.stmt[s][names]) /\ Keeps(bf, x.stmt[s][bf])
    <3>1. /\ bf \in Func /\ names \in Seq(Mention) /\ s \in StmtsOver(t)
      BY <2>3, <2>9 DEF Agree
    <3>2. x.stmt[s][bf] = CompileStmt(c, bf, s) /\ y.stmt[s][names] = StmtNames(w, names, s)
      BY <2>4, <2>5, <3>1
    <3> QED
      BY <2>2, <2>9, <3>1, <3>2, StmtAgrees
  <2>10. ASSUME NEW e \in z.expr, NEW bf \in Func PROVE x.expr[e][bf].locals = bf.locals
    <3>1. x.expr[e][bf] = CompileExpr(c, bf, e) /\ e \in ExprsOver(t)
      BY <2>7
    <3> QED
      BY <2>2, <3>1, TreeLocals
  <2>11. Agreeing(x, y, z)
    BY <2>6, <2>8, <2>9, <2>10 DEF Agreeing
  <2> QED
    BY <2>11
<1> HIDE DEF T
<1>3. \A d \in Nat : d \in T
  BY <1>1, <1>2, FromZero
<1> QED
  BY <1>3 DEF T

-----------------------------------------------------------------------------
(* Handlers and units                                                       *)

\* A handler begins with the local _tmp, as its text does.
LEMMA NewAgrees == Agree(NewFunc, <<Declaration("_tmp")>>)
<1> PICK tmp \in STRING : tmp = "_tmp"
  BY NamesAssumption DEF LiteralNames
<1> PICK names : names = <<Declaration(tmp)>>
  OBVIOUS
<1>1. NewFunc \in Func
  BY NewStands DEF Stands
<1>2. NewFunc.ok = TRUE /\ NewFunc.locals = <<tmp>>
  BY DEF NewFunc
<1>3. Declaration(tmp) \in Mention /\ \A n : Declaration(tmp) = Declaration(n) <=> tmp = n
  BY Mentions, MentionFacts
<1>4. names \in Seq(Mention) /\ DOMAIN names = 1..1 /\ Len(names) = 1
      /\ names[1] = Declaration(tmp)
  BY <1>3
<1>5. \A i \in 1..1 : i = 1
  OBVIOUS
<1>6. AllResolved(names)
  <2>1. names[1].as = "declaration"
    BY <1>4 DEF Declaration
  <2> QED
    BY <1>4, <1>5, <2>1 DEF AllResolved, ResolvedAt
<1>7. \A n : IsLocal(NewFunc, n) <=> n = tmp
  <2>1. DOMAIN <<tmp>> = 1..1 /\ <<tmp>>[1] = tmp
    OBVIOUS
  <2> QED
    BY <1>2, <1>5, <2>1 DEF IsLocal, ToSet
<1>8. 1 \in 1..1
  OBVIOUS
<1>9. \A n : Declared(names, n) <=> tmp = n
  BY <1>3, <1>4, <1>5, <1>8 DEF Declared
<1> QED
  BY <1>1, <1>2, <1>4, <1>6, <1>7, <1>9 DEF Agree

\* compile_unit does not look at the parameters of a handler.
LEMMA HandlerAgrees ==
  ASSUME NEW h \in HandlerDecl
  PROVE  CompileHandler(h).ok <=> AllResolved(HandlerNames(<<>>, h.body))
<1> PICK c, d, t : c = Compile[MaxNesting] /\ d = NamesOf[MaxNesting]
                   /\ t = TreesUpTo[MaxNesting]
  OBVIOUS
<1> PICK block : block = CompileBlock(c, NewFunc, h.body)
  OBVIOUS
<1> PICK names : names = HandlerNames(<<>>, h.body)
  OBVIOUS
<1>1. Agreeing(c, d, t)
  BY NestingAssumption, LevelsAgree
<1>2. h.body \in Seq(t.stmt)
  BY DEF HandlerDecl
<1>3. names = InOrder(d.stmt, <<Declaration("_tmp")>>, h.body)
  <2> PICK m : m = Declaration("_tmp")
    OBVIOUS
  <2>1. <<m>> \o [i \in DOMAIN <<>> |-> Declaration(<<>>[i])] = <<m>>
    <3>1. [i \in DOMAIN <<>> |-> Declaration(<<>>[i])] = <<>>
      OBVIOUS
    <3>2. <<m>> \o <<>> = <<m>>
      OBVIOUS
    <3> QED
      BY <3>1, <3>2
  <2> QED
    BY <2>1 DEF HandlerNames
<1>4. Agree(block, names)
  BY <1>1, <1>2, <1>3, NewAgrees, BlockAgrees
<1>5. CompileHandler(h) = Emit(block, "RET", 0)
  BY DEF CompileHandler
<1>6. block \in Func /\ "RET" \in OpCodes /\ 0 \in Int
  BY <1>4 DEF Agree, OpCodes
<1>7. CompileHandler(h).ok = block.ok
  BY <1>5, <1>6, EmitSame DEF Silent
<1> QED
  BY <1>4, <1>7 DEF Agree

-----------------------------------------------------------------------------
(* Scripts that are loaded                                                  *)

\* compile_unit accepts a unit exactly if the names in its handlers resolve,
\* their parameters not being declared.
AcceptsIffDeclared ==
  unit # <<>> =>
    (funcs # <<>> <=> \A i \in DOMAIN unit : AllResolved(HandlerNames(<<>>, unit[i].body)))

NamesInv == ScriptInv /\ unit \in Sources /\ AcceptsIffDeclared

LEMMA NamesInvInit == ScriptInit => NamesInv
<1> SUFFICES ASSUME ScriptInit PROVE NamesInv
  OBVIOUS
<1>1. unit \in Seq(HandlerDecl) /\ unit \in Sources
  BY ScriptAssumption DEF ScriptInit
<1>2. \A i \in DOMAIN unit :
        CompileHandler(unit[i]).ok <=> AllResolved(HandlerNames(<<>>, unit[i].body))
  <2> TAKE i \in DOMAIN unit
  <2>1. unit[i] \in HandlerDecl
    BY <1>1, ElementOfSeq, LenProperties
  <2> QED
    BY <2>1, HandlerAgrees
<1>3. ASSUME unit # <<>> PROVE funcs # <<>> <=> Compiles(unit)
  <2>1. DOMAIN compile_unit(unit) = DOMAIN unit
    BY DEF compile_unit
  <2>2. DOMAIN unit # {} /\ DOMAIN <<>> = {}
    <3> PICK n \in Nat : n = Len(unit) /\ DOMAIN unit = 1..n
      BY <1>1, LenProperties
    <3>1. n # 0
      BY <1>1, <1>3, EmptySeq
    <3>2. 1 \in 1..n
      BY <3>1
    <3> QED
      BY <3>2
  <2>3. compile_unit(unit) # <<>>
    BY <2>1, <2>2
  <2> QED
    BY <2>3 DEF ScriptInit
<1>4. AcceptsIffDeclared
  BY <1>2, <1>3 DEF AcceptsIffDeclared, Compiles
<1> QED
  BY <1>1, <1>4, ScriptInvInit DEF NamesInv

LEMMA NamesInvInductive == NamesInv /\ [ScriptNext]_scriptVars => NamesInv'
<1> SUFFICES ASSUME NamesInv, [ScriptNext]_scriptVars PROVE NamesInv'
  OBVIOUS
<1>1. ScriptInv'
  BY ScriptInvInductive DEF NamesInv
<1>2. funcs' = funcs /\ unit' = unit
  BY ScriptSteps DEF NamesInv
<1> QED
  BY <1>1, <1>2 DEF NamesInv, AcceptsIffDeclared

\* Whatever the syntax tree, compile_unit accepts a unit exactly if it has code
\* for all that is in it, and each name is declared before it in the text or is
\* that of a host function that is called.  A parameter is no declaration.
THEOREM AcceptsDeclared == ScriptSpec => []AcceptsIffDeclared
<1>1. NamesInv => AcceptsIffDeclared
  BY DEF NamesInv
<1> QED
  BY <1>1, NamesInvInit, NamesInvInductive, PTL DEF ScriptSpec

\* So units without parameters are accepted exactly if their names resolve, the
\* parameters counting as declared.
THEOREM AcceptsResolved ==
  ASSUME \A u \in Sources : \A i \in DOMAIN u : u[i].params = <<>>
  PROVE  ScriptSpec => []AcceptsIffResolved
<1>1. NamesInv => AcceptsIffResolved
  <2> SUFFICES ASSUME NamesInv PROVE AcceptsIffResolved
    OBVIOUS
  <2>1. \A i \in DOMAIN unit : unit[i].params = <<>>
    BY DEF NamesInv
  <2> QED
    BY <2>1 DEF NamesInv, AcceptsIffDeclared, AcceptsIffResolved, Resolved
<1> QED
  BY <1>1, NamesInvInit, NamesInvInductive, PTL DEF ScriptSpec
=============================================================================
