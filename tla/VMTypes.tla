------------------------------- MODULE VMTypes ------------------------------
(***************************************************************************)
(* TypeOK of the VM, for any bytecode: what the host functions return are  *)
(* values, so the stack, the locals and the output keep their types.       *)
(*                                                                         *)
(* A number is printed by a recursive function on its digits.  That such a *)
(* function exists and returns text takes an induction over Nat, which     *)
(* rests on the least element of a set of naturals.                        *)
(***************************************************************************)
EXTENDS VMProofs, WellFoundedInduction

-----------------------------------------------------------------------------
(* Induction and recursion over Nat                                         *)

LEMMA Least ==
  ASSUME NEW T \in SUBSET Nat, T # {}
  PROVE  \E x \in T : \A y \in T : x <= y
<1> DEFINE R == {ss \in Nat \X Nat : ss[1] < ss[2]}
<1>1. IsWellFoundedOn(R, Nat)
  BY NatLessThanWellFounded DEF OpToRel
<1>2. \A x, y \in Nat : <<y, x>> \in R <=> y < x
  OBVIOUS
<1> HIDE DEF R
<1>3. PICK x \in T : \A y \in T : ~ (<<y, x>> \in R)
  BY <1>1, WFMin
<1>4. \A y \in T : x \in Nat /\ y \in Nat /\ ~(y < x)
  BY <1>2, <1>3
<1> QED
  BY <1>4

\* Induction, for a set of naturals.
LEMMA FromZero ==
  ASSUME NEW T, 0 \in T, \A n \in Nat : n \in T => n + 1 \in T
  PROVE  \A n \in Nat : n \in T
<1> SUFFICES ASSUME Nat \ T # {} PROVE FALSE
  OBVIOUS
<1>1. PICK x \in Nat \ T : \A y \in Nat \ T : x <= y
  BY Least
<1>2. x # 0 /\ x - 1 \in Nat
  BY <1>1
<1>3. x - 1 \in T
  BY <1>1, <1>2
<1> QED
  BY <1>1, <1>2, <1>3

\* f starts with a and makes n steps, each a function of G, in S.
Walks(f, S, a, n, G) ==
  f \in [0..n -> S] /\ f[0] = a /\ \A i \in 1..n : f[i] = G[i][f[i - 1]]

\* A function defined by recursion from i - 1 to i exists, and has its values
\* in S, if its first value is in S and each step stays in S.
LEMMA StepByStep ==
  ASSUME NEW S, NEW a \in S, NEW n \in Nat, NEW G \in [1..n -> [S -> S]]
  PROVE  \E f : Walks(f, S, a, n, G)
<1> DEFINE Upto(m) == {f \in [0..m -> S] : f[0] = a /\ \A i \in 1..m : f[i] = G[i][f[i - 1]]}
           T == {m \in Nat : m <= n => Upto(m) # {}}
<1>1. 0 \in T
  <2>1. [i \in 0..0 |-> a] \in Upto(0)
    OBVIOUS
  <2> QED
    BY <2>1
<1>2. ASSUME NEW m \in Nat, m \in T PROVE m + 1 \in T
  <2> SUFFICES ASSUME m + 1 <= n PROVE Upto(m + 1) # {}
    OBVIOUS
  <2>1. PICK f \in [0..m -> S] : f[0] = a /\ \A i \in 1..m : f[i] = G[i][f[i - 1]]
    BY <1>2
  <2> DEFINE g == [i \in 0..m + 1 |-> IF i = m + 1 THEN G[m + 1][f[m]] ELSE f[i]]
  <2>2. m + 1 \in 1..n /\ f[m] \in S /\ G[m + 1][f[m]] \in S
    OBVIOUS
  <2>3. g \in [0..m + 1 -> S]
    BY <2>2
  <2>4. g[0] = a /\ \A i \in 1..m : g[i] = f[i] /\ g[i - 1] = f[i - 1]
    BY <2>1
  <2>5. g[m + 1] = G[m + 1][f[m]] /\ g[m] = f[m]
    OBVIOUS
  <2>6. \A i \in 1..m + 1 : i \in 1..m \/ i = m + 1
    OBVIOUS
  <2> HIDE DEF g
  <2>7. \A i \in 1..m + 1 : g[i] = G[i][g[i - 1]]
    <3> TAKE i \in 1..m + 1
    <3>1. CASE i \in 1..m
      BY <2>1, <2>4, <3>1
    <3>2. CASE i = m + 1
      <4>1. i - 1 = m
        BY <3>2
      <4> QED
        BY <2>5, <3>2, <4>1
    <3> QED
      BY <2>6, <3>1, <3>2
  <2>8. g \in Upto(m + 1)
    BY <2>3, <2>4, <2>7
  <2> QED
    BY <2>8
<1> HIDE DEF T
<1>3. n \in T
  BY <1>1, <1>2, FromZero
<1>4. Upto(n) # {}
  BY <1>3 DEF T
<1> QED
  BY <1>4 DEF Walks

-----------------------------------------------------------------------------
(* Digits                                                                   *)

\* A string of the model.
Chars == Seq(STRING)

\* What Digits has to satisfy, up to n.
DigitsUpto(f, n) ==
  /\ f \in [0..n -> Chars]
  /\ \A k \in 0..n :
       f[k] = IF k < 10 THEN <<Digit[k + 1]>> ELSE Append(f[k \div 10], Digit[(k % 10) + 1])

LEMMA Tenth ==
  ASSUME NEW n \in Nat
  PROVE  /\ n \div 10 \in Nat /\ n \div 10 <= n /\ n % 10 \in 0..9
         /\ n >= 10 => n \div 10 < n
  OBVIOUS

LEMMA DigitType == \A i \in 1..10 : Digit[i] \in STRING
<1>1. \A i \in 1..10 : Digit[i] \in {"0", "1", "2", "3", "4", "5", "6", "7", "8", "9"}
  BY DEF Digit
<1> QED
  BY <1>1, LiteralAssumption DEF LiteralChars

\* One number more: its digits are those of a tenth of it and the last.
LEMMA DigitsExtend ==
  ASSUME NEW n \in Nat, NEW f, DigitsUpto(f, n)
  PROVE  \E g : DigitsUpto(g, n + 1) /\ \A k \in 0..n : g[k] = f[k]
<1> DEFINE m == n + 1
           last == IF m < 10 THEN <<Digit[m + 1]>>
                   ELSE Append(f[m \div 10], Digit[(m % 10) + 1])
           g == [k \in 0..m |-> IF k = m THEN last ELSE f[k]]
<1>1. m \in Nat /\ m >= 10 => m \div 10 \in 0..n /\ m % 10 \in 0..9
  BY Tenth
<1>2. last \in Chars
  <2>1. CASE m < 10
    <3>1. m + 1 \in 1..10
      BY <2>1
    <3> QED
      BY <2>1, <3>1, DigitType DEF Chars
  <2>2. CASE m >= 10
    <3>1. (m % 10) + 1 \in 1..10 /\ m \div 10 \in 0..n
      BY <1>1, <2>2
    <3>2. f[m \div 10] \in Chars /\ Digit[(m % 10) + 1] \in STRING
      BY <3>1, DigitType DEF DigitsUpto
    <3>3. Append(f[m \div 10], Digit[(m % 10) + 1]) \in Chars
      BY <3>2, AppendProperties DEF Chars
    <3> QED
      BY <2>2, <3>3
  <2> QED
    BY <2>1, <2>2
<1> HIDE DEF last
<1>3. g \in [0..m -> Chars] /\ \A k \in 0..n : g[k] = f[k]
  BY <1>2 DEF DigitsUpto
<1>4. g[m] = last
  OBVIOUS
<1>5. ASSUME NEW k \in 0..m
      PROVE  g[k] = IF k < 10 THEN <<Digit[k + 1]>>
                    ELSE Append(g[k \div 10], Digit[(k % 10) + 1])
  <2>1. k >= 10 => k \div 10 \in 0..n
    BY Tenth
  <2>2. CASE k = m
    <3>1. k >= 10 => g[k \div 10] = f[k \div 10]
      BY <1>3, <2>1
    <3> QED
      BY <1>4, <2>2, <3>1 DEF last
  <2>3. CASE k \in 0..n
    <3>1. f[k] = IF k < 10 THEN <<Digit[k + 1]>>
                 ELSE Append(f[k \div 10], Digit[(k % 10) + 1])
      BY <2>3 DEF DigitsUpto
    <3>2. k >= 10 => g[k \div 10] = f[k \div 10]
      BY <1>3, <2>1
    <3> QED
      BY <1>3, <2>3, <3>1, <3>2
  <2> QED
    BY <2>2, <2>3
<1> HIDE DEF g
<1>6. DigitsUpto(g, m)
  BY <1>3, <1>5 DEF DigitsUpto
<1> QED
  BY <1>3, <1>6

LEMMA DigitsEach == \A n \in Nat : \E f : DigitsUpto(f, n)
<1> DEFINE T == {n \in Nat : \E f : DigitsUpto(f, n)}
<1>1. 0 \in T
  <2> DEFINE f == [k \in 0..0 |-> <<Digit[k + 1]>>]
  <2>1. f \in [0..0 -> Chars] /\ f[0] = <<Digit[0 + 1]>>
    BY DigitType DEF Chars
  <2>2. \A k \in 0..0 : k = 0 /\ k < 10
    OBVIOUS
  <2> HIDE DEF f
  <2>3. DigitsUpto(f, 0)
    BY <2>1, <2>2 DEF DigitsUpto
  <2> QED
    BY <2>3
<1>2. \A n \in Nat : n \in T => n + 1 \in T
  BY DigitsExtend
<1> HIDE DEF T
<1>3. \A n \in Nat : n \in T
  BY <1>1, <1>2, FromZero
<1> QED
  BY <1>3 DEF T

\* Functions that satisfy it agree, so they can be joined into one on Nat.
LEMMA DigitsAgree ==
  ASSUME NEW m \in Nat, NEW n \in Nat, NEW f, DigitsUpto(f, m), NEW g, DigitsUpto(g, n)
  PROVE  \A k \in Nat : k <= m /\ k <= n => f[k] = g[k]
<1> DEFINE T == {k \in Nat : k <= m /\ k <= n /\ f[k] # g[k]}
<1> SUFFICES ASSUME T # {} PROVE FALSE
  OBVIOUS
<1>1. PICK k \in T : \A j \in T : k <= j
  BY Least
<1>2. k \in 0..m /\ k \in 0..n
  BY <1>1
<1>3. k >= 10 => k \div 10 \in Nat /\ k \div 10 < k
  BY <1>2, Tenth
<1>4. k >= 10 => f[k \div 10] = g[k \div 10]
  BY <1>1, <1>2, <1>3
<1>5. /\ f[k] = IF k < 10 THEN <<Digit[k + 1]>> ELSE Append(f[k \div 10], Digit[(k % 10) + 1])
      /\ g[k] = IF k < 10 THEN <<Digit[k + 1]>> ELSE Append(g[k \div 10], Digit[(k % 10) + 1])
  BY <1>2 DEF DigitsUpto
<1>6. f[k] = g[k]
  BY <1>2, <1>4, <1>5
<1> QED
  BY <1>1, <1>6

\* The digits of a number: there is such a function, and its values are strings.
LEMMA DigitsType == \A n \in Nat : Digits[n] \in Chars
<1> DEFINE At10(f, n) == IF n < 10 THEN <<Digit[n + 1]>>
                         ELSE Append(f[n \div 10], Digit[(n % 10) + 1])
           pick == [n \in Nat |-> CHOOSE f : DigitsUpto(f, n)]
           F == [n \in Nat |-> pick[n][n]]
<1>1. \A n \in Nat : DigitsUpto(pick[n], n)
  BY DigitsEach
<1> HIDE DEF pick
<1>2. \A n \in Nat : F[n] \in Chars /\ F[n] = pick[n][n]
  BY <1>1 DEF DigitsUpto
<1>3. ASSUME NEW n \in Nat PROVE F[n] = At10(F, n)
  <2>1. pick[n][n] = At10(pick[n], n)
    BY <1>1 DEF DigitsUpto
  <2>2. ASSUME n >= 10 PROVE pick[n][n \div 10] = F[n \div 10]
    <3>1. n \div 10 \in Nat /\ n \div 10 <= n
      BY Tenth
    <3> PICK k \in Nat : k = n \div 10
      BY <3>1
    <3>2. DigitsUpto(pick[n], n) /\ DigitsUpto(pick[k], k)
      BY <1>1
    <3>3. k <= n /\ k <= k
      BY <3>1
    <3>4. pick[n][k] = pick[k][k]
      BY ONLY <3>2, <3>3, DigitsAgree
    <3> QED
      BY <1>2, <3>4
  <2> HIDE DEF F
  <2> QED
    BY <1>2, <2>1, <2>2
<1>4. F = [n \in Nat |-> At10(F, n)]
  BY <1>3
<1> HIDE DEF F
<1>5. Digits = [n \in Nat |-> At10(Digits, n)]
  BY <1>4 DEF Digits
<1> DEFINE T == {n \in Nat : Digits[n] \notin Chars}
<1> SUFFICES ASSUME T # {} PROVE FALSE
  OBVIOUS
<1>6. PICK n \in T : \A j \in T : n <= j
  BY Least
<1>7. Digits[n] = At10(Digits, n)
  BY <1>5
<1>8. CASE n < 10
  <2>1. n + 1 \in 1..10
    BY <1>8
  <2>2. Digits[n] = <<Digit[n + 1]>> /\ Digit[n + 1] \in STRING
    BY <1>7, <1>8, <2>1, DigitType
  <2>3. Digits[n] \in Chars
    BY <2>2 DEF Chars
  <2> QED
    BY <1>6, <2>3
<1>9. CASE n >= 10
  <2>1. n \div 10 \in Nat /\ n \div 10 < n /\ (n % 10) + 1 \in 1..10
    BY <1>9, Tenth
  <2>2. Digits[n \div 10] \in Chars
    BY <1>6, <2>1
  <2>3. Digits[n] = Append(Digits[n \div 10], Digit[(n % 10) + 1])
    BY <1>7, <1>9
  <2>4. Digit[(n % 10) + 1] \in STRING
    BY <2>1, DigitType
  <2>5. Digits[n] \in Chars
    BY <2>2, <2>3, <2>4, AppendProperties DEF Chars
  <2> QED
    BY <1>6, <2>5
<1> QED
  BY <1>6, <1>8, <1>9

-----------------------------------------------------------------------------
(* What the host functions return                                           *)

LEMMA ValueKinds ==
  ASSUME NEW v \in Value
  PROVE  /\ v.tag \in {"Nil", "Boolean", "Number", "String"}
         /\ v.tag = "Number" => v.num \in Int
         /\ v.tag = "String" => v.s \in Chars
         /\ v.tag = "Boolean" => v.boolean \in BOOLEAN
  BY DEF Value, Nil, Chars

LEMMA ValuesMade ==
  /\ Nil \in Value
  /\ \A n \in Int : Number(n) \in Value /\ Number(n).tag = "Number" /\ Number(n).num = n
  /\ \A s \in Chars : String(s) \in Value
  BY DEF Value, Nil, Number, String, Chars

LEMMA Tuples ==
  ASSUME NEW S
  PROVE  /\ <<>> \in Seq(S) /\ \A a \in S : <<a>> \in Seq(S)
         /\ \A a, b, c \in S : <<a, b, c>> \in Seq(S)
         /\ \A a, b, c, d \in S : <<a, b, c, d>> \in Seq(S)
         /\ \A a, b, c, d, e \in S : <<a, b, c, d, e>> \in Seq(S)
         /\ \A a, b, c, d, e, f \in S : <<a, b, c, d, e, f>> \in Seq(S)
         /\ \A a, b, c, d, e, f, g \in S : <<a, b, c, d, e, f, g>> \in Seq(S)
         /\ \A s, t \in Seq(S) : s \o t \in Seq(S)
  OBVIOUS

LEMMA Strung ==
  /\ <<>> \in Chars
  /\ \A a \in STRING : <<a>> \in Chars
  /\ \A a, b, c \in STRING : <<a, b, c>> \in Chars
  /\ \A a, b, c, d \in STRING : <<a, b, c, d>> \in Chars
  /\ \A a, b, c, d, e \in STRING : <<a, b, c, d, e>> \in Chars
  /\ \A a, b, c, d, e, f \in STRING : <<a, b, c, d, e, f>> \in Chars
  /\ \A a, b, c, d, e, f, g \in STRING : <<a, b, c, d, e, f, g>> \in Chars
  /\ \A s, t \in Chars : s \o t \in Chars
<1> PICK S : S = STRING
  OBVIOUS
<1>1. Chars = Seq(S)
  BY DEF Chars
<1> QED
  BY <1>1, Tuples

LEMMA Letters ==
  /\ "n" \in STRING /\ "i" \in STRING /\ "l" \in STRING /\ "t" \in STRING
  /\ "r" \in STRING /\ "u" \in STRING /\ "e" \in STRING /\ "f" \in STRING
  /\ "a" \in STRING /\ "s" \in STRING /\ "b" \in STRING /\ "o" \in STRING
  /\ "g" \in STRING /\ "m" \in STRING
  /\ "-" \in STRING /\ " " \in STRING /\ "\n" \in STRING
  BY LiteralAssumption DEF LiteralChars

\* The words the functions print.
LEMMA Words ==
  /\ <<>> \in Chars /\ <<"-">> \in Chars /\ <<" ">> \in Chars /\ <<"\n">> \in Chars
  /\ <<"n", "i", "l">> \in Chars /\ <<"t", "r", "u", "e">> \in Chars
  /\ <<"f", "a", "l", "s", "e">> \in Chars
  /\ \A s, t \in Chars : s \o t \in Chars
  BY Strung, Letters

LEMMA TypeNames ==
  \A tag \in {"Nil", "Boolean", "Number", "String"} : TypeName[tag] \in Chars
<1>1. <<"n", "u", "m", "b", "e", "r">> \in Chars /\ <<"s", "t", "r", "i", "n", "g">> \in Chars
  BY Strung, Letters
<1>2. <<"b", "o", "o", "l", "e", "a", "n">> \in Chars /\ <<"n", "i", "l">> \in Chars
  BY Strung, Letters
<1> QED
  BY <1>1, <1>2 DEF TypeName

\* Every value can be printed.
LEMMA TextType == \A v \in Value : fast_to_string(v) \in Chars
<1> TAKE v \in Value
<1>1. CASE v.tag = "Nil" \/ v.tag = "Boolean"
  BY <1>1, ValueKinds, Words DEF fast_to_string
<1>2. CASE v.tag = "String"
  BY <1>2, ValueKinds DEF fast_to_string
<1>3. CASE v.tag = "Number"
  <2>1. v.num \in Int
    BY <1>3, ValueKinds
  <2>2. CASE v.num < 0
    <3>1. -v.num \in Nat
      BY <2>1, <2>2
    <3>2. fast_to_string(v) = <<"-">> \o Digits[-v.num]
      BY <1>3, <2>2 DEF fast_to_string
    <3>3. Digits[-v.num] \in Chars
      BY <3>1, DigitsType
    <3> QED
      BY <3>2, <3>3, Words
  <2>3. CASE ~(v.num < 0)
    <3>1. fast_to_string(v) = Digits[v.num] /\ v.num \in Nat
      BY <1>3, <2>1, <2>3 DEF fast_to_string
    <3> QED
      BY <3>1, DigitsType
  <2> QED
    BY <2>2, <2>3
<1> QED
  BY <1>1, <1>2, <1>3, ValueKinds

LEMMA ArgFacts ==
  ASSUME NEW args \in Seq(Value)
  PROVE  /\ Len(args) \in Nat
         /\ \A i \in Nat \ {0} : i <= Len(args) => args[i] \in Value
         /\ \A i \in Nat \ {0} : IsNumber(args, i) => args[i].num \in Int
         /\ \A i \in Nat \ {0} : IsString(args, i) => args[i].s \in Chars
<1>1. /\ Len(args) \in Nat
      /\ \A i \in Nat \ {0} : i <= Len(args) => args[i] \in Value
  OBVIOUS
<1> QED
  BY <1>1, ValueKinds DEF IsNumber, IsString

\* The arithmetic and the comparisons.
LEMMA NumericType ==
  ASSUME NEW args \in Seq(Value)
  PROVE  /\ strlen(args) \in Value /\ add(args) \in Value
         /\ sub(args) \in Value /\ mul(args) \in Value
         /\ lt(args) \in Value /\ gt(args) \in Value
         /\ eq(args) \in Value /\ neq(args) \in Value
<1>1. 1 \in Nat \ {0} /\ 2 \in Nat \ {0}
  OBVIOUS
<1>2. TwoNumbers(args) => args[1].num \in Int /\ args[2].num \in Int
  BY <1>1, ArgFacts DEF TwoNumbers
<1>3. \A n \in Int : Number(n) \in Value
  BY ValuesMade
<1>4. strlen(args) \in Value
  <2>1. IsString(args, 1) => Len(args[1].s) \in Int
    BY <1>1, ArgFacts DEF Chars
  <2> QED
    BY <1>3, <2>1 DEF strlen
<1>5. add(args) \in Value
  <2>1. CASE TwoNumbers(args)
    BY <1>2, <1>3, <2>1 DEF add
  <2>2. CASE ~TwoNumbers(args) /\ Len(args) < 2
    BY <1>3, <2>2 DEF add
  <2>3. CASE ~TwoNumbers(args) /\ ~(Len(args) < 2)
    <3>1. args[1] \in Value /\ args[2] \in Value
      BY <1>1, <2>3, ArgFacts
    <3>2. fast_to_string(args[1]) \o fast_to_string(args[2]) \in Chars
      BY <3>1, TextType, Words
    <3> QED
      BY <2>3, <3>2, ValuesMade DEF add
  <2> QED
    BY <2>1, <2>2, <2>3
<1>6. sub(args) \in Value /\ mul(args) \in Value
  BY <1>2, <1>3 DEF sub, mul
<1>7. lt(args) \in Value /\ gt(args) \in Value
  BY <1>3 DEF lt, gt
<1>8. eq(args) \in Value /\ neq(args) \in Value
  BY <1>3 DEF eq, neq
<1> QED
  BY <1>4, <1>5, <1>6, <1>7, <1>8

LEMMA SubSeqChars ==
  ASSUME NEW s \in Chars, NEW m \in Nat \ {0}, NEW n \in Int, n <= Len(s)
  PROVE  SubSeq(s, m, n) \in Chars
<1>1. \A i \in m..n : s[i] \in STRING
  BY DEF Chars
<1> QED
  BY <1>1, SubSeqProperties DEF Chars

\* The functions on strings.
LEMMA StringType ==
  ASSUME NEW args \in Seq(Value)
  PROVE  /\ str_char_at(args) \in Value /\ substr(args) \in Value
         /\ tostring(args) \in Value /\ typeof(args) \in Value
         /\ index_of(args) \in Value
<1>1. 1 \in Nat \ {0} /\ 2 \in Nat \ {0} /\ 3 \in Nat \ {0}
  OBVIOUS
<1>2. \A s \in Chars : String(s) \in Value
  BY ValuesMade
<1>3. \A n \in Int : Number(n) \in Value
  BY ValuesMade
<1>4. str_char_at(args) \in Value
  <2>1. CASE /\ IsString(args, 1) /\ IsNumber(args, 2)
             /\ args[2].num \in 0..Len(args[1].s) - 1
    <3>1. args[1].s \in Chars /\ args[2].num \in Int
      BY <1>1, <2>1, ArgFacts
    <3>2. args[1].s[args[2].num + 1] \in STRING
      BY <2>1, <3>1 DEF Chars
    <3>3. <<args[1].s[args[2].num + 1]>> \in Chars
      BY <3>2 DEF Chars
    <3> QED
      BY <1>2, <2>1, <3>3 DEF str_char_at
  <2>2. CASE ~(/\ IsString(args, 1) /\ IsNumber(args, 2)
               /\ args[2].num \in 0..Len(args[1].s) - 1)
    BY <1>2, <2>2, Words DEF str_char_at
  <2> QED
    BY <2>1, <2>2
<1>5. substr(args) \in Value
  <2>1. CASE ~(IsString(args, 1) /\ IsNumber(args, 2))
    BY <1>2, <2>1, Words DEF substr
  <2>2. CASE IsString(args, 1) /\ IsNumber(args, 2)
    <3>1. PICK s \in Chars : s = args[1].s
      BY <1>1, <2>2, ArgFacts
    <3>2. PICK start \in Nat : start = IF args[2].num < 0 THEN 0 ELSE args[2].num
      BY <1>1, <2>2, ArgFacts
    <3>3. IsNumber(args, 3) => args[3].num \in Int
      BY <1>1, ArgFacts
    <3>4. Len(s) \in Nat
      BY DEF Chars
    <3>5. PICK end \in Nat : end = IF IsNumber(args, 3) /\ args[3].num >= 0
                                   THEN start + args[3].num ELSE Len(s)
      BY <3>3, <3>4
    <3>6. PICK n \in Nat : n = (IF end < Len(s) THEN end ELSE Len(s)) /\ n <= Len(s)
      BY <3>4
    <3>7. substr(args) = String(SubSeq(s, start + 1, n))
      BY <2>2, <3>1, <3>2, <3>5, <3>6 DEF substr
    <3>8. SubSeq(s, start + 1, n) \in Chars
      BY <3>6, SubSeqChars
    <3> QED
      BY <1>2, <3>7, <3>8
  <2> QED
    BY <2>1, <2>2
<1>6. tostring(args) \in Value
  <2>1. args # <<>> => Len(args) >= 1
    BY EmptySeq
  <2>2. args # <<>> => args[1] \in Value
    BY <1>1, <2>1, ArgFacts
  <2> QED
    BY <1>2, <2>2, TextType, Words DEF tostring
<1>7. typeof(args) \in Value
  <2>1. args # <<>> => Len(args) >= 1
    BY EmptySeq
  <2>2. args # <<>> => args[1].tag \in {"Nil", "Boolean", "Number", "String"}
    BY <1>1, <2>1, ArgFacts, ValueKinds
  <2>3. TypeName.Nil \in Chars
    BY TypeNames
  <2> QED
    BY <1>2, <2>2, <2>3, TypeNames DEF typeof
<1>8. index_of(args) \in Value
  <2>1. CASE ~(IsString(args, 1) /\ IsString(args, 2))
    BY <1>3, <2>1 DEF index_of
  <2>2. CASE IsString(args, 1) /\ IsString(args, 2)
    <3>1. PICK found : found = {i \in 0..Len(args[1].s) :
              substr(<<args[1], Number(i), Number(Len(args[2].s))>>) = args[2]}
      OBVIOUS
    <3>2. found \in SUBSET Nat
      <4>1. Len(args[1].s) \in Nat
        BY <1>1, <2>2, ArgFacts DEF Chars
      <4> QED
        BY <3>1, <4>1
    <3>3. index_of(args) =
            Number(IF found = {} THEN -1 ELSE CHOOSE i \in found : \A j \in found : i <= j)
      BY <2>2, <3>1 DEF index_of
    <3>4. CASE found = {}
      BY <1>3, <3>3, <3>4
    <3>5. CASE found # {}
      <4>1. \E i \in found : \A j \in found : i <= j
        BY <3>2, <3>5, Least
      <4>2. PICK k \in found : k = CHOOSE i \in found : \A j \in found : i <= j
        BY <4>1
      <4>3. k \in Int
        <5>1. \A i \in found : i \in Nat
          BY <3>2
        <5> QED
          BY <5>1
      <4>4. index_of(args) = Number(k)
        BY <3>3, <3>5, <4>2
      <4> QED
        BY <1>3, <4>3, <4>4
    <3> QED
      BY <3>4, <3>5
  <2> QED
    BY <2>1, <2>2
<1> QED
  BY <1>4, <1>5, <1>6, <1>7, <1>8

\* Every host function gives a value.
LEMMA ResultType ==
  ASSUME NEW args \in Seq(Value), NEW name
  PROVE  call_function(name, args) \in Value
<1>1. String(<<>>) \in Value /\ Nil \in Value
  BY ValuesMade, Words
<1> QED
  BY <1>1, NumericType, StringType DEF call_function

\* What the arguments are printed as.
LEMMA PrintType ==
  ASSUME NEW args \in Seq(Value)
  PROVE  print_multi(args) \in Chars
<1>1. PICK n : n \in Nat /\ n = Len(args) /\ \A i \in 1..n : args[i] \in Value
  BY ArgFacts
<1> DEFINE sep(i) == IF i = 1 THEN <<>> ELSE <<" ">>
           body(f, i) == IF i = 0 THEN <<>> ELSE f[i - 1] \o sep(i) \o fast_to_string(args[i])
           G == [i \in 1..n |-> [s \in Chars |-> s \o sep(i) \o fast_to_string(args[i])]]
<1>2. \A i \in 1..n : \A s \in Chars : s \o sep(i) \o fast_to_string(args[i]) \in Chars
  <2> TAKE i \in 1..n
  <2>1. sep(i) \in Chars /\ fast_to_string(args[i]) \in Chars
    BY <1>1, Words, TextType
  <2> HIDE DEF sep
  <2> QED
    BY <2>1, Words
<1> HIDE DEF sep
<1>3. G \in [1..n -> [Chars -> Chars]]
  BY <1>2
<1>4. \A i \in 1..n : \A s \in Chars : G[i][s] = s \o sep(i) \o fast_to_string(args[i])
  OBVIOUS
<1> HIDE DEF G
<1>5. PICK f \in [0..n -> Chars] : f[0] = <<>> /\ \A i \in 1..n : f[i] = G[i][f[i - 1]]
  <2>1. PICK a \in Chars : a = <<>>
    BY Words
  <2>2. \E f : Walks(f, Chars, a, n, G)
    BY <1>1, <1>3, StepByStep
  <2> QED
    BY <2>1, <2>2 DEF Walks
<1>6. \A i \in 0..n : f[i] = body(f, i)
  <2> TAKE i \in 0..n
  <2>1. CASE i = 0
    BY <1>5, <2>1
  <2>2. CASE i # 0
    <3>1. i \in 1..n /\ f[i - 1] \in Chars
      BY <1>1, <2>2
    <3>2. f[i] = G[i][f[i - 1]]
      BY <1>5, <3>1
    <3> QED
      BY <1>4, <2>2, <3>1, <3>2
  <2> QED
    BY <2>1, <2>2
<1>7. f = [i \in 0..n |-> body(f, i)]
  BY <1>6
<1>8. PICK u : u = CHOOSE g : g = [i \in 0..n |-> body(g, i)]
  OBVIOUS
<1>9. u = [i \in 0..n |-> body(u, i)]
  BY <1>7, <1>8
<1>10. args # <<>> => print_multi(args) = u[n]
  BY <1>1, <1>8 DEF print_multi, sep
<1>11. ASSUME n > 0 PROVE u[n] \in Chars
  <2> DEFINE T == {i \in Nat : i <= n => u[i] \in Chars}
  <2>1. 0 \in T
    <3>1. u[0] = <<>>
      BY <1>1, <1>9
    <3> QED
      BY <3>1, Words
  <2>2. ASSUME NEW i \in Nat, i \in T PROVE i + 1 \in T
    <3> SUFFICES ASSUME i + 1 <= n PROVE u[i + 1] \in Chars
      OBVIOUS
    <3>1. u[i] \in Chars /\ i + 1 \in 1..n /\ i + 1 \in 0..n /\ i + 1 # 0
      BY <1>1, <2>2
    <3>4. (i + 1) - 1 = i
      BY <2>2
    <3>2. u[i + 1] = body(u, i + 1)
      BY <1>9, <3>1
    <3>3. u[i + 1] = u[i] \o sep(i + 1) \o fast_to_string(args[i + 1])
      BY <3>1, <3>2, <3>4
    <3> QED
      BY <1>2, <3>1, <3>3
  <2> HIDE DEF T
  <2>3. n \in T
    BY <1>1, <2>1, <2>2, FromZero
  <2> QED
    BY <2>3 DEF T
<1> QED
  <2>1. CASE args = <<>>
    BY <2>1, Words DEF print_multi
  <2>2. CASE args # <<>>
    <3>1. n > 0
      BY <1>1, <2>2, EmptySeq
    <3> QED
      BY <1>10, <1>11, <2>2, <3>1
  <2> QED
    BY <2>1, <2>2

\* What a call prints.
LEMMA PrintedType ==
  ASSUME NEW args \in Seq(Value), NEW name
  PROVE  Printed(name, args) \in Chars
<1>1. args # <<>> => fast_to_string(args[1]) \in Chars
  <2>1. args # <<>> => Len(args) >= 1
    BY EmptySeq
  <2> QED
    BY <2>1, ArgFacts, TextType
<1>2. <<>> \in Chars /\ <<"\n">> \in Chars /\ \A s, t \in Chars : s \o t \in Chars
  BY Words
<1>3. (IF args = <<>> THEN <<>> ELSE fast_to_string(args[1])) \in Chars
  BY <1>1, <1>2
<1>4. CASE name \in {"io.print", "io.println"}
  BY <1>2, <1>4, PrintType DEF Printed
<1>5. CASE name = "io.write" /\ args # <<>>
  BY <1>1, <1>5 DEF Printed
<1>6. CASE name = "io.writeln"
  BY <1>2, <1>3, <1>6 DEF Printed
<1> QED
  BY <1>2, <1>4, <1>5, <1>6 DEF Printed

-----------------------------------------------------------------------------
(* Frames and stacks of values                                              *)

\* A frame runs a function of the module and has its locals.
FrameTyped(fr) ==
  /\ fr \in Frame /\ fr.func < Len(funcs)
  /\ Len(fr.locals) = funcs[fr.func + 1].locals

FramesTyped(fs) ==
  /\ fs \in Seq(Frame) /\ Len(fs) <= MaxDepth
  /\ \A i \in 1..Len(fs) : FrameTyped(fs[i])

StackTyped(s) == s \in Seq(Value) /\ Len(s) <= MaxStack

\* What a step makes is typed.
MakesTyped ==
  FramesTyped(frames') /\ StackTyped(eval_stack') /\ outcome' \in Outcome

TypeInv == StackInv /\ TypeOK

LEMMA TypeParts ==
  ASSUME TypeInv
  PROVE  /\ FramesTyped(frames) /\ StackTyped(eval_stack) /\ outcome \in Outcome
         /\ output \in Chars /\ before \in Seq(Value)
BY DEF TypeInv, TypeOK, FramesTyped, FrameTyped, StackTyped, Chars

LEMMA EmptyTyped ==
  FramesTyped(<<>>) /\ (\A s : StackTyped(s) => Len(s) \in Nat)
BY VMAssumption DEF FramesTyped, StackTyped

LEMMA EndTyped ==
  \A v \in Value : \A st \in {"none", "returned", "threw", "overflow"} :
    Ended(st, v) \in Outcome
BY DEF Ended, Outcome

LEMMA FrameChangeTyped ==
  ASSUME NEW fs, FramesTyped(fs), NEW n, n = Len(fs), n > 0, NEW fr, FrameTyped(fr),
         NEW gs, gs = [fs EXCEPT ![n] = fr]
  PROVE  FramesTyped(gs)
<1>1. fs \in Seq(Frame) /\ fr \in Frame /\ n \in 1..Len(fs)
  BY DEF FramesTyped, FrameTyped
<1>2. gs \in Seq(Frame) /\ Len(gs) = n /\ \A i \in 1..n : gs[i] = IF i = n THEN fr ELSE fs[i]
  BY <1>1, ExceptSeq
<1> QED
  BY <1>2 DEF FramesTyped

\* The last frame goes to an instruction; a value is pushed for it.
LEMMA AdvanceTyped ==
  ASSUME NEW fs, FramesTyped(fs), NEW n, n = Len(fs), n > 0, NEW ip \in Nat,
         NEW gs, gs = [fs EXCEPT ![n] = [@ EXCEPT !.ip = ip]]
  PROVE  FramesTyped(gs)
<1>1. FrameTyped(fs[n])
  <2>1. n \in 1..Len(fs)
    BY DEF FramesTyped
  <2> QED
    BY <2>1 DEF FramesTyped
<1>2. FrameTyped([fs[n] EXCEPT !.ip = ip])
  BY <1>1 DEF FrameTyped, Frame
<1> QED
  BY <1>2, FrameChangeTyped

LEMMA PushToTyped ==
  ASSUME NEW fs, FramesTyped(fs), fs # <<>>, NEW s, StackTyped(s), NEW v \in Value,
         outcome \in Outcome, PushTo(fs, s, v)
  PROVE  MakesTyped
<1>1. CASE Len(s) < MaxStack
  <2> PICK n : n = Len(fs)
    OBVIOUS
  <2>1. n > 0 /\ n \in Nat /\ FrameTyped(fs[n])
    BY EmptySeq DEF FramesTyped
  <2>2. fs[n].ip + 1 \in Nat
    BY <2>1 DEF FrameTyped, Frame
  <2>3. frames' = [fs EXCEPT ![n] = [@ EXCEPT !.ip = fs[n].ip + 1]]
    BY <1>1 DEF PushTo
  <2>4. FramesTyped(frames')
    BY <2>1, <2>2, <2>3, AdvanceTyped
  <2>5. StackTyped(eval_stack') /\ outcome' = outcome
    <3>1. s \in Seq(Value) /\ eval_stack' = Append(s, v) /\ outcome' = outcome
      BY <1>1 DEF PushTo, StackTyped
    <3>2. Append(s, v) \in Seq(Value) /\ Len(Append(s, v)) = Len(s) + 1 /\ Len(s) \in Nat
      BY <3>1, AppendProperties
    <3>3. Len(s) + 1 <= MaxStack
      BY <1>1, <3>2, VMAssumption
    <3> QED
      BY <3>1, <3>2, <3>3 DEF StackTyped
  <2> QED
    BY <2>4, <2>5 DEF MakesTyped
<1>2. CASE ~(Len(s) < MaxStack)
  BY <1>2, EmptyTyped, EndTyped, ValuesMade DEF PushTo, Throw, MakesTyped
<1> QED
  BY <1>1, <1>2

\* The stack below a position.
LEMMA CutTyped ==
  ASSUME TypeInv, NEW n \in 0..Len(eval_stack)
  PROVE  StackTyped(CutTo(n)) /\ Len(CutTo(n)) = n
<1>1. eval_stack \in Seq(Value) /\ Len(eval_stack) \in Nat /\ Len(eval_stack) <= MaxStack
  BY TypeParts DEF StackTyped
<1>2. \A i \in 1..n : eval_stack[i] \in Value
  BY <1>1
<1>3. SubSeq(eval_stack, 1, n) \in Seq(Value)
  BY <1>1, <1>2, SubSeqProperties
<1>4. Len(SubSeq(eval_stack, 1, n)) = n
  BY <1>1, CutFacts DEF TypeInv, StackInv
<1> QED
  BY <1>1, <1>3, <1>4, VMAssumption DEF StackTyped, CutTo

LEMMA TopValue ==
  ASSUME TypeInv, Len(eval_stack) > 0
  PROVE  Last(eval_stack) \in Value
<1>1. eval_stack \in Seq(Value) /\ Len(eval_stack) \in 1..Len(eval_stack)
  BY TypeParts DEF StackTyped
<1> QED
  BY <1>1 DEF Last

LEMMA FrontTyped ==
  ASSUME NEW fs, FramesTyped(fs), Len(fs) > 1
  PROVE  FramesTyped(Front(fs)) /\ Front(fs) # <<>>
<1> PICK n \in Nat : n = Len(fs) - 1 /\ n > 0
  BY DEF FramesTyped
<1>1. fs \in Seq(Frame) /\ IsSeq(fs) /\ n \in 0..Len(fs) /\ Front(fs) = SubSeq(fs, 1, n)
  BY AnySeq DEF FramesTyped, Front
<1>2. /\ Len(SubSeq(fs, 1, n)) = n
      /\ \A i \in 1..n : SubSeq(fs, 1, n)[i] = fs[i]
  BY <1>1, CutFacts
<1>3. \A i \in 1..n : i \in 1..Len(fs)
  BY <1>1
<1>4. SubSeq(fs, 1, n) \in Seq(Frame)
  BY <1>1, <1>3, SubSeqProperties
<1>5. n <= MaxDepth
  BY VMAssumption DEF FramesTyped
<1>6. SubSeq(fs, 1, n) # <<>>
  BY <1>2
<1> QED
  BY <1>1, <1>2, <1>3, <1>4, <1>5, <1>6 DEF FramesTyped

\* Returning, and calling.
LEMMA ReturnTyped ==
  ASSUME TypeInv, Running, NEW v \in Value, Return(v)
  PROVE  MakesTyped
<1>1. Top.base_sp \in 0..Len(eval_stack) /\ Len(frames) \in Nat \ {0}
  BY RunningFacts DEF TypeInv
<1>2. StackTyped(CutTo(Top.base_sp))
  BY <1>1, CutTyped
<1>3. CASE Len(frames) = 1
  BY <1>2, <1>3, EmptyTyped, EndTyped DEF Return, MakesTyped
<1>4. CASE Len(frames) # 1
  <2>1. PushTo(Front(frames), CutTo(Top.base_sp), v)
    BY <1>4 DEF Return
  <2>2. Len(frames) > 1
    <3>1. \A k \in Nat \ {0} : k # 1 => k > 1
      OBVIOUS
    <3> QED
      BY <1>1, <1>4, <3>1
  <2> QED
    BY <1>2, <2>1, <2>2, FrontTyped, PushToTyped, TypeParts
<1> QED
  BY <1>3, <1>4

LEMMA NewFrameTyped ==
  ASSUME TypeInv, NEW f, Valid(f, Len(funcs)), NEW args \in Seq(Value), NEW sp \in Nat
  PROVE  FrameTyped(NewFrame(f, args, sp))
<1>1. Len(funcs) \in Nat /\ f \in Nat /\ f < Len(funcs) /\ f + 1 \in DOMAIN funcs
  BY ModuleFacts, LenProperties DEF TypeInv, Valid
<1>2. PICK n : n \in Nat /\ n = funcs[f + 1].locals
  BY <1>1, ModuleFacts DEF TypeInv, ByteFunc
<1> DEFINE L == [i \in 1..n |-> IF i <= Len(args) THEN args[i] ELSE Nil]
<1>3. L \in Seq(Value) /\ Len(L) = n
  <2>1. \A i \in 1..n : (IF i <= Len(args) THEN args[i] ELSE Nil) \in Value
    BY ArgFacts, ValuesMade
  <2>2. L \in [1..n -> Value]
    BY <2>1
  <2> HIDE DEF L
  <2> QED
    BY <1>2, <2>2
<1> HIDE DEF L
<1>4. NewFrame(f, args, sp) = [func |-> f, ip |-> 0, base_sp |-> sp, locals |-> L]
  BY <1>2 DEF NewFrame, L
<1> QED
  BY <1>1, <1>2, <1>3, <1>4 DEF FrameTyped, Frame

LEMMA CallTyped ==
  ASSUME TypeInv, Running, NEW f, NEW args \in Seq(Value), NEW s, StackTyped(s),
         CallFunction(f, args, s)
  PROVE  MakesTyped
<1>1. CASE ~Valid(f, Len(funcs))
  <2>1. PushTo(frames, s, Nil)
    BY <1>1 DEF CallFunction
  <2> QED
    BY <2>1, PushToTyped, TypeParts, ValuesMade DEF Running
<1>2. CASE Valid(f, Len(funcs)) /\ Len(frames) = MaxDepth
  <2>1. frames' = <<>> /\ eval_stack' = s /\ outcome' = Ended("overflow", Nil)
    BY <1>2 DEF CallFunction
  <2> QED
    BY <2>1, EmptyTyped, EndTyped, ValuesMade DEF MakesTyped
<1>3. CASE Valid(f, Len(funcs)) /\ Len(frames) # MaxDepth
  <2>1. PICK fr : fr = NewFrame(f, args, Len(s))
    OBVIOUS
  <2>2. frames' = Append(frames, fr) /\ eval_stack' = s /\ outcome' = outcome
    BY <1>3, <2>1 DEF CallFunction
  <2>3. FrameTyped(fr)
    BY <1>3, <2>1, NewFrameTyped, EmptyTyped
  <2>4. frames \in Seq(Frame) /\ fr \in Frame /\ Len(frames) \in Nat
        /\ Len(frames) + 1 <= MaxDepth
    BY <1>3, <2>3, TypeParts, VMAssumption DEF FramesTyped, FrameTyped
  <2>5. /\ Append(frames, fr) \in Seq(Frame) /\ Len(Append(frames, fr)) = Len(frames) + 1
        /\ \A i \in 1..Len(frames) : Append(frames, fr)[i] = frames[i]
        /\ Append(frames, fr)[Len(frames) + 1] = fr
    BY <2>4, AppendProperties
  <2>6. \A i \in 1..Len(frames) + 1 : i \in 1..Len(frames) \/ i = Len(frames) + 1
    BY <2>4
  <2>7. \A i \in 1..Len(frames) : FrameTyped(frames[i])
    BY TypeParts DEF FramesTyped
  <2>8. FramesTyped(Append(frames, fr))
    BY <2>3, <2>4, <2>5, <2>6, <2>7 DEF FramesTyped
  <2> QED
    BY <2>2, <2>8, TypeParts DEF MakesTyped
<1> QED
  BY <1>1, <1>2, <1>3

LEMMA ContinueTyped ==
  ASSUME TypeInv, Running, NEW ip \in Nat, NEW s, StackTyped(s), Continue(ip, s)
  PROVE  MakesTyped
<1>1. frames' = [frames EXCEPT ![Len(frames)] = [@ EXCEPT !.ip = ip]]
      /\ eval_stack' = s /\ outcome' = outcome
  BY DEF Continue
<1>2. Len(frames) > 0
  BY RunningFacts DEF TypeInv
<1>3. FramesTyped(frames')
  BY <1>1, <1>2, TypeParts, AdvanceTyped
<1> QED
  BY <1>1, <1>3, TypeParts DEF MakesTyped

\* The arguments on the stack.
LEMMA ArgsTyped ==
  ASSUME TypeInv, NEW m \in Nat, NEW n \in 0..Len(eval_stack)
  PROVE  SubSeq(eval_stack, m + 1, n) \in Seq(Value)
<1>1. eval_stack \in Seq(Value) /\ Len(eval_stack) \in Nat
  BY TypeParts DEF StackTyped
<1>2. \A i \in m + 1..n : eval_stack[i] \in Value
  BY <1>1
<1>3. m + 1 \in Int /\ n \in Int
  OBVIOUS
<1> QED
  BY <1>1, <1>2, <1>3, SubSeqProperties

-----------------------------------------------------------------------------
(* The steps                                                                *)

\* One step of the code that is loaded.
LEMMA StepTyped ==
  ASSUME TypeInv, Step
  PROVE  MakesTyped /\ output' \in Chars
<1>1. Running /\ UNCHANGED <<funcs, before>>
  BY StepKinds DEF TypeInv
<1>2. /\ FramesTyped(frames) /\ StackTyped(eval_stack) /\ outcome \in Outcome
      /\ output \in Chars /\ frames # <<>> /\ FrameTyped(Top)
      /\ Len(frames) \in Nat \ {0} /\ Len(eval_stack) \in Nat /\ Top.ip \in Nat
      /\ Top.base_sp \in 0..Len(eval_stack)
  <2>1. Len(frames) \in Nat \ {0} /\ Top = frames[Len(frames)]
    BY <1>1, RunningFacts DEF TypeInv, Top, Last
  <2> QED
    BY <1>1, <2>1, TypeParts, RunningFacts DEF TypeInv, FramesTyped, Running
<1>3. Top.func + 1 \in DOMAIN funcs /\ funcs[Top.func + 1] \in ByteFunc
  <2>1. Top.func \in 0..Len(funcs) - 1
    BY <1>1, RunningFacts DEF TypeInv
  <2> QED
    BY <2>1, ModuleFacts, LenProperties DEF TypeInv
<1>4. Top.ip < Len(Code) => CurOp \in Op /\ Len(Code) \in Nat /\ CurOp.a \in Int
  BY <1>1, OpFacts DEF TypeInv, Op
<1>5. At("CALL") => CurOp.a \in Nat
  BY <1>1, OpFacts DEF TypeInv, At
<1>6. Nil \in Value
  BY ValuesMade
<1>7. CASE PushConst
  <2> DEFINE consts == funcs[Top.func + 1].consts
  <2>1. consts \in Seq(Value) /\ CurOp.a \in Int
    BY <1>3, <1>4, <1>7 DEF ByteFunc, PushConst, At
  <2> PICK v : v = IF Valid(CurOp.a, Len(consts)) THEN consts[CurOp.a + 1] ELSE Nil
    OBVIOUS
  <2>2. v \in Value
    BY <1>6, <2>1 DEF Valid
  <2>3. PushTo(frames, eval_stack, v) /\ output' = output
    BY <1>7 DEF PushConst, Push
  <2> QED
    BY <1>2, <2>2, <2>3, PushToTyped
<1>8. CASE PushLocal
  <2>1. Top.locals \in Seq(Value) /\ CurOp.a \in Int
    BY <1>2, <1>4, <1>8 DEF FrameTyped, Frame, PushLocal, At
  <2> PICK v : v = IF Valid(CurOp.a, Len(Top.locals)) THEN Top.locals[CurOp.a + 1] ELSE Nil
    OBVIOUS
  <2>2. v \in Value
    BY <1>6, <2>1 DEF Valid
  <2>3. PushTo(frames, eval_stack, v) /\ output' = output
    BY <1>8 DEF PushLocal, Push
  <2> QED
    BY <1>2, <2>2, <2>3, PushToTyped
<1>9. CASE StoreLocal
  <2>1. Depth > 0 /\ CurOp.a \in Int /\ output' = output /\ outcome' = outcome
    BY <1>4, <1>9 DEF StoreLocal, At
  <2>2. Len(eval_stack) > 0
    BY <1>2, <2>1 DEF Depth
  <2>3. Last(eval_stack) \in Value
    BY <2>2, TopValue
  <2> PICK locals : locals = IF Valid(CurOp.a, Len(Top.locals))
                             THEN [Top.locals EXCEPT ![CurOp.a + 1] = Last(eval_stack)]
                             ELSE Top.locals
    OBVIOUS
  <2>4. locals \in Seq(Value) /\ Len(locals) = Len(Top.locals)
    <3>1. Top.locals \in Seq(Value)
      BY <1>2 DEF FrameTyped, Frame
    <3>2. CASE Valid(CurOp.a, Len(Top.locals))
      <4>1. CurOp.a + 1 \in 1..Len(Top.locals)
        BY <2>1, <3>1, <3>2 DEF Valid
      <4> QED
        BY <2>3, <3>1, <3>2, <4>1, ExceptSeq
    <3> QED
      BY <3>1, <3>2
  <2> PICK fr : fr = [Top EXCEPT !.ip = Top.ip + 1, !.locals = locals]
    OBVIOUS
  <2>5. FrameTyped(fr)
    <3>1. fr = [func |-> Top.func, ip |-> Top.ip + 1, locals |-> locals,
                base_sp |-> Top.base_sp]
      BY <1>2 DEF FrameTyped, Frame
    <3>2. /\ Top.func \in Nat /\ Top.ip + 1 \in Nat /\ Top.base_sp \in Nat
          /\ Top.func < Len(funcs) /\ Len(Top.locals) = funcs[Top.func + 1].locals
      BY <1>2 DEF FrameTyped, Frame
    <3>3. fr \in Frame
      BY <2>4, <3>1, <3>2 DEF Frame
    <3>4. fr.func = Top.func /\ fr.locals = locals
      BY <3>1
    <3> QED
      BY <2>4, <3>2, <3>3, <3>4 DEF FrameTyped
  <2>6. frames' = [frames EXCEPT ![Len(frames)] = fr] /\ eval_stack' = Front(eval_stack)
    BY <1>9 DEF StoreLocal
  <2>7. FramesTyped(frames')
    <3>1. FramesTyped(frames) /\ Len(frames) > 0
      BY <1>2
    <3> QED
      BY <2>5, <2>6, <3>1, FrameChangeTyped
  <2>8. StackTyped(eval_stack')
    <3>1. Len(eval_stack) - 1 \in 0..Len(eval_stack)
      BY <1>2, <2>2
    <3> QED
      BY <2>6, <3>1, CutTyped DEF Front, CutTo
  <2> QED
    BY <1>2, <2>1, <2>7, <2>8 DEF MakesTyped
<1>10. CASE Pop
  <2> DEFINE n == IF CurOp.a < 0 THEN 0 ELSE CurOp.a
             k == IF Depth > n THEN Len(eval_stack) - n ELSE Top.base_sp
  <2>1. Continue(Top.ip + 1, CutTo(k)) /\ output' = output /\ CurOp.a \in Int
    BY <1>4, <1>10 DEF Pop, At
  <2>2. k \in 0..Len(eval_stack) /\ Top.ip + 1 \in Nat
    BY <1>2, <2>1 DEF Depth
  <2>3. StackTyped(CutTo(k))
    BY <2>2, CutTyped
  <2> QED
    BY <1>1, <1>2, <2>1, <2>2, <2>3, ContinueTyped
<1>11. CASE CallIgnored \/ Ignored
  <2>1. Continue(Top.ip + 1, eval_stack) /\ output' = output
    BY <1>11 DEF CallIgnored, Ignored, Skip
  <2> QED
    BY <1>1, <1>2, <2>1, ContinueTyped
<1>12. CASE CallDynamic
  <2> PICK a : a \in Nat /\ a = CurOp.a
    BY <1>5, <1>12 DEF CallDynamic
  <2>1. Depth > a /\ output' = output
    BY <1>12 DEF CallDynamic
  <2> PICK sp : sp \in Nat /\ sp = Len(eval_stack) - 1 /\ sp - a \in Nat
                /\ sp \in 0..Len(eval_stack) /\ sp - a \in 0..Len(eval_stack)
    BY <1>2, <2>1 DEF Depth
  <2>2. StackTyped(CutTo(sp - a))
    BY CutTyped
  <2>3. SubSeq(eval_stack, sp - a + 1, sp) \in Seq(Value)
    BY ArgsTyped
  <2>4. \/ \E f : CallFunction(f, SubSeq(eval_stack, sp - a + 1, sp), CutTo(sp - a))
        \/ PushTo(frames, CutTo(sp - a), Nil)
    BY <1>12 DEF CallDynamic
  <2> QED
    BY <1>1, <1>2, <1>6, <2>1, <2>2, <2>3, <2>4, CallTyped, PushToTyped
<1>13. ASSUME At("CALL"), Depth >= CurOp.a
       PROVE  Args \in Seq(Value) /\ StackTyped(CutTo(Len(eval_stack) - CurOp.a))
  <2> PICK a : a \in Nat /\ a = CurOp.a
    BY <1>5, <1>13
  <2>1. /\ Len(eval_stack) - a \in Nat /\ Len(eval_stack) - a \in 0..Len(eval_stack)
        /\ Len(eval_stack) \in 0..Len(eval_stack)
    BY <1>2, <1>13 DEF Depth
  <2> QED
    BY <2>1, ArgsTyped, CutTyped DEF Args
<1>14. CASE CallStatic
  <2>1. /\ At("CALL") /\ Depth >= CurOp.a /\ output' = output
        /\ CallFunction(CurOp.b, Args, CutTo(Len(eval_stack) - CurOp.a))
    BY <1>14 DEF CallStatic
  <2> QED
    BY <1>1, <1>2, <1>13, <2>1, CallTyped
<1>15. CASE CallHost
  <2> PICK rest : rest = CutTo(Len(eval_stack) - CurOp.a)
    OBVIOUS
  <2>1. At("CALL") /\ Depth >= CurOp.a
    BY <1>15 DEF CallHost
  <2>2. Args \in Seq(Value) /\ StackTyped(rest)
    BY <1>13, <2>1
  <2>3. CASE Throws(CurOp.s, Args)
    <3>1. Throw(rest) /\ output' = output
      BY <1>15, <2>3 DEF CallHost
    <3> QED
      BY <1>2, <1>6, <2>2, <3>1, EmptyTyped, EndTyped DEF Throw, MakesTyped
  <2>4. CASE ~Throws(CurOp.s, Args)
    <3>1. PICK v : v = call_function(CurOp.s, Args)
      OBVIOUS
    <3>2. PushTo(frames, rest, v) /\ output' = output \o Printed(CurOp.s, Args)
      BY <1>15, <2>4, <3>1 DEF CallHost
    <3>3. v \in Value /\ Printed(CurOp.s, Args) \in Chars
      BY <2>2, <3>1, ResultType, PrintedType
    <3>4. output' \in Chars
      BY <1>2, <3>2, <3>3, Words
    <3> QED
      BY <1>2, <2>2, <3>2, <3>3, <3>4, PushToTyped
  <2> QED
    BY <2>3, <2>4
<1>16. CASE Jmp
  <2>1. Continue(Target(CurOp.a), eval_stack) /\ output' = output /\ Target(CurOp.a) \in Nat
    BY <1>4, <1>16 DEF Jmp, At, Target
  <2> QED
    BY <1>1, <1>2, <2>1, ContinueTyped
<1>17. CASE JmpIfFalse
  <2>1. Target(CurOp.a) \in Nat /\ Depth > 0 /\ output' = output
    BY <1>4, <1>17 DEF JmpIfFalse, At, Target
  <2>2. Len(eval_stack) - 1 \in 0..Len(eval_stack)
    BY <1>2, <2>1 DEF Depth
  <2>3. StackTyped(Front(eval_stack))
    BY <2>2, CutTyped DEF Front, CutTo
  <2>4. PICK ip \in Nat : Continue(ip, Front(eval_stack))
    BY <1>2, <1>17, <2>1 DEF JmpIfFalse
  <2> QED
    BY <1>1, <1>2, <2>1, <2>3, <2>4, ContinueTyped
<1>18. CASE Ret
  <2> PICK v : v = IF Depth > 0 THEN Last(eval_stack) ELSE Nil
    OBVIOUS
  <2>1. v \in Value
    BY <1>2, <1>6, TopValue DEF Depth
  <2>2. Return(v) /\ output' = output
    BY <1>18 DEF Ret
  <2> QED
    BY <1>1, <1>2, <2>1, <2>2, ReturnTyped
<1>19. CASE EndOfCode
  <2>1. Return(Nil) /\ output' = output
    BY <1>19 DEF EndOfCode
  <2> QED
    BY <1>1, <1>2, <1>6, <2>1, ReturnTyped
<1> QED
  BY <1>7, <1>8, <1>9, <1>10, <1>11, <1>12, <1>14, <1>15, <1>16, <1>17, <1>18, <1>19 DEF Step

\* Any step.
LEMMA TypeKept ==
  ASSUME TypeInv, [Next]_vmVars
  PROVE  TypeOK'
<1>1. ASSUME funcs' = funcs, MakesTyped, output' \in Chars, before' \in Seq(Value)
      PROVE  TypeOK'
  <2>1. WellFormed(funcs')
    BY <1>1 DEF TypeInv, TypeOK
  <2>2. DOMAIN frames' = 1..Len(frames')
    BY <1>1, LenProperties DEF MakesTyped, FramesTyped
  <2>3. /\ frames' \in Seq(Frame) /\ Len(frames') <= MaxDepth
        /\ \A i \in DOMAIN frames' :
             frames'[i].func < Len(funcs') /\
             Len(frames'[i].locals) = funcs'[frames'[i].func + 1].locals
    BY <1>1, <2>2 DEF MakesTyped, FramesTyped, FrameTyped
  <2> QED
    BY <1>1, <2>1, <2>3 DEF TypeOK, MakesTyped, StackTyped, Chars
<1>2. CASE Step
  <2>1. funcs' = funcs /\ before' = before
    BY <1>2, StepKinds DEF TypeInv
  <2> QED
    BY <1>1, <1>2, <2>1, StepTyped, TypeParts
<1>3. ASSUME NEW f \in 0..Len(funcs), Execute(f)
      PROVE  TypeOK'
  <2>1. /\ UNCHANGED <<funcs, eval_stack>> /\ before' = eval_stack /\ output' = <<>>
        /\ StackTyped(eval_stack) /\ ~Running
    BY <1>3, TypeParts DEF Execute
  <2>2. before' \in Seq(Value) /\ output' \in Chars /\ StackTyped(eval_stack')
    BY <2>1, Words DEF StackTyped
  <2>3. CASE Valid(f, Len(funcs))
    <3> PICK fr : fr = NewFrame(f, <<>>, Len(eval_stack))
      OBVIOUS
    <3>1. frames' = <<fr>> /\ outcome' = Ended("none", Nil)
      BY <1>3, <2>3 DEF Execute
    <3>2. <<>> \in Seq(Value) /\ Len(eval_stack) \in Nat
      BY <2>1, EmptyTyped
    <3>3. FrameTyped(fr)
      BY <2>3, <3>2, NewFrameTyped
    <3>4. <<fr>> \in Seq(Frame) /\ Len(<<fr>>) = 1 /\ <<fr>>[1] = fr
      BY <3>3 DEF FrameTyped
    <3>5. FramesTyped(<<fr>>)
      BY <3>3, <3>4, VMAssumption DEF FramesTyped
    <3>6. MakesTyped
      BY <2>2, <3>1, <3>5, EndTyped, ValuesMade DEF MakesTyped
    <3> QED
      BY <1>1, <2>1, <2>2, <3>6
  <2>4. CASE ~Valid(f, Len(funcs))
    <3>1. frames' = frames /\ outcome' = Ended("returned", Nil)
      BY <1>3, <2>4 DEF Execute
    <3>2. MakesTyped
      BY <2>2, <3>1, TypeParts, EndTyped, ValuesMade DEF MakesTyped
    <3> QED
      BY <1>1, <2>1, <2>2, <3>2
  <2> QED
    BY <2>3, <2>4
<1>4. CASE Killed \/ UNCHANGED vmVars
  BY <1>4 DEF Killed, vmVars, TypeInv, TypeOK, WellFormed
<1> QED
  BY <1>2, <1>3, <1>4 DEF Next

LEMMA TypeInit ==
  ASSUME VMInit, WellFormed(funcs)
  PROVE  TypeOK
<1>1. /\ frames = <<>> /\ eval_stack = <<>> /\ before = <<>> /\ output = <<>>
      /\ outcome = Ended("none", Nil)
  BY DEF VMInit
<1>2. <<>> \in Seq(Value) /\ <<>> \in Seq(Frame) /\ Len(<<>>) = 0 /\ DOMAIN <<>> = {}
  OBVIOUS
<1>3. <<>> \in Seq(STRING)
  BY Words DEF Chars
<1>4. outcome \in Outcome
  BY <1>1, EndTyped, ValuesMade
<1>5. 0 <= MaxStack /\ 0 <= MaxDepth
  BY VMAssumption
<1> QED
  BY <1>1, <1>2, <1>3, <1>4, <1>5 DEF TypeOK

\* Whatever the bytecode, what execute_handler works on keeps its types: values
\* on the stack and in the locals, as many locals as the function has, text in
\* the output, and a frame runs a function of the module.
THEOREM VMTyped == Spec => []TypeOK
<1>1. Init => TypeInv
  BY InitWellFormed, StackInit, TypeInit DEF TypeInv
<1>2. TypeInv /\ [Next]_vmVars => TypeInv'
  BY StackInductive, TypeKept DEF TypeInv
<1>3. TypeInv => TypeOK
  BY DEF TypeInv
<1> QED
  BY <1>1, <1>2, <1>3, PTL DEF Spec
=============================================================================
