------------------------------- MODULE Values -------------------------------
(***************************************************************************)
(* The values of scripts (src/value.h) and the host functions that scripts *)
(* and compiled code call (src/runtime/host_core_funcs.cpp).               *)
(*                                                                         *)
(* A double is an integer here, and a string a sequence of characters.     *)
(* Values of type Rule are left out: no function makes one.                *)
(***************************************************************************)
EXTENDS Integers, Sequences

Nil == [tag |-> "Nil"]
Boolean(b) == [tag |-> "Boolean", boolean |-> b]
Number(n) == [tag |-> "Number", num |-> n]
String(s) == [tag |-> "String", s |-> s]

Value ==
  {Nil} \cup [tag: {"Boolean"}, boolean: BOOLEAN] \cup [tag: {"Number"}, num: Int]
        \cup [tag: {"String"}, s: Seq(STRING)]

is_truthy(v) ==
  /\ v.tag # "Nil"
  /\ v.tag = "Boolean" => v.boolean
  /\ v.tag = "Number" => v.num # 0

-----------------------------------------------------------------------------
(* Host functions: each takes its arguments as a sequence and puts up with  *)
(* any number and any type of them.                                         *)

\* The characters the functions below write by themselves.
LiteralChars ==
  {"0", "1", "2", "3", "4", "5", "6", "7", "8", "9", "-", " ", "\n", "a", "b", "e", "f", "g",
   "i", "l", "m", "n", "o", "r", "s", "t", "u"}

\* The provers have no rule for it.
ASSUME LiteralAssumption == LiteralChars \subseteq STRING

Digit == <<"0", "1", "2", "3", "4", "5", "6", "7", "8", "9">>

Digits[n \in Nat] ==
  IF n < 10 THEN <<Digit[n + 1]>> ELSE Append(Digits[n \div 10], Digit[(n % 10) + 1])

fast_to_string(v) ==
  CASE v.tag = "Nil"     -> <<"n", "i", "l">>
    [] v.tag = "String"  -> v.s
    [] v.tag = "Boolean" -> IF v.boolean THEN <<"t", "r", "u", "e">>
                                         ELSE <<"f", "a", "l", "s", "e">>
    [] v.tag = "Number"  -> IF v.num < 0 THEN <<"-">> \o Digits[-v.num] ELSE Digits[v.num]

IsString(args, i) == i <= Len(args) /\ args[i].tag = "String"
IsNumber(args, i) == i <= Len(args) /\ args[i].tag = "Number"
TwoNumbers(args) == IsNumber(args, 1) /\ IsNumber(args, 2)

strlen(args) == Number(IF IsString(args, 1) THEN Len(args[1].s) ELSE 0)

\* A position outside of the string gives an empty string.
str_char_at(args) ==
  IF IsString(args, 1) /\ IsNumber(args, 2) /\ args[2].num \in 0..Len(args[1].s) - 1
  THEN String(<<args[1].s[args[2].num + 1]>>)
  ELSE String(<<>>)

add(args) ==
  IF TwoNumbers(args) THEN Number(args[1].num + args[2].num)
  ELSE IF Len(args) < 2 THEN Number(0)
  ELSE String(fast_to_string(args[1]) \o fast_to_string(args[2]))

sub(args) == Number(IF TwoNumbers(args) THEN args[1].num - args[2].num ELSE 0)

lt(args) == Number(IF TwoNumbers(args) /\ args[1].num < args[2].num THEN 1 ELSE 0)

mul(args) == Number(IF TwoNumbers(args) THEN args[1].num * args[2].num ELSE 0)
gt(args) == Number(IF TwoNumbers(args) /\ args[1].num > args[2].num THEN 1 ELSE 0)

eq(args) == Number(IF Len(args) >= 2 /\ args[1] = args[2] THEN 1 ELSE 0)
neq(args) == Number(IF Len(args) >= 2 /\ args[1] # args[2] THEN 1 ELSE 0)

tostring(args) == String(IF args = <<>> THEN <<"n", "i", "l">> ELSE fast_to_string(args[1]))

TypeName ==
  [Number |-> <<"n", "u", "m", "b", "e", "r">>, String |-> <<"s", "t", "r", "i", "n", "g">>,
   Boolean |-> <<"b", "o", "o", "l", "e", "a", "n">>, Nil |-> <<"n", "i", "l">>]
typeof(args) == String(IF args = <<>> THEN TypeName.Nil ELSE TypeName[args[1].tag])

\* From a position, or from the start, at most as many characters as are asked
\* for, or all that there are.
substr(args) ==
  IF ~(IsString(args, 1) /\ IsNumber(args, 2)) THEN String(<<>>)
  ELSE LET start == IF args[2].num < 0 THEN 0 ELSE args[2].num
           end == IF IsNumber(args, 3) /\ args[3].num >= 0 THEN start + args[3].num
                  ELSE Len(args[1].s)
       IN  String(SubSeq(args[1].s, start + 1, IF end < Len(args[1].s) THEN end
                                               ELSE Len(args[1].s)))

\* The first position of one string in another, or -1.
index_of(args) ==
  IF ~(IsString(args, 1) /\ IsString(args, 2)) THEN Number(-1)
  ELSE LET found == {i \in 0..Len(args[1].s) :
                       substr(<<args[1], Number(i), Number(Len(args[2].s))>>) = args[2]}
       IN  Number(IF found = {} THEN -1 ELSE CHOOSE i \in found : \A j \in found : i <= j)

\* The names HostManifest knows, of the functions modelled.
HostNames ==
  {"strlen", "len", "str_char_at", "substr", "index_of", "tostring", "typeof", "add", "sub",
   "mul", "lt", "gt", "eq", "neq", "io.print", "io.println", "io.write", "io.writeln",
   "io.flush", "read_file"}

\* read_file on a directory: the size it is told is the largest there is, and
\* resizing the buffer to it throws.  No file of the model can be opened.
Throws(name, args) == name = "read_file" /\ IsString(args, 1) /\ args[1].s = <<".">>

\* HostBridge::call_function, nullopt being turned into nil by the VM.
call_function(name, args) ==
  CASE name \in {"strlen", "len"} -> strlen(args)
    [] name = "str_char_at" -> str_char_at(args)
    [] name = "substr"      -> substr(args)
    [] name = "index_of"    -> index_of(args)
    [] name = "tostring"    -> tostring(args)
    [] name = "typeof"      -> typeof(args)
    [] name = "add"         -> add(args)
    [] name = "sub"         -> sub(args)
    [] name = "mul"         -> mul(args)
    [] name = "lt"          -> lt(args)
    [] name = "gt"          -> gt(args)
    [] name = "eq"          -> eq(args)
    [] name = "neq"         -> neq(args)
    [] name = "read_file"   -> String(<<>>)
    [] OTHER                -> Nil

\* The text of the arguments with blanks between them; nil, when there are none.
print_multi(args) ==
  LET upto[i \in 0..Len(args)] ==
        IF i = 0 THEN <<>>
        ELSE upto[i - 1] \o (IF i = 1 THEN <<>> ELSE <<" ">>) \o fast_to_string(args[i])
  IN  IF args = <<>> THEN <<"n", "i", "l">> ELSE upto[Len(args)]

\* What a call writes to standard output.
Printed(name, args) ==
  CASE name \in {"io.print", "io.println"} -> print_multi(args) \o <<"\n">>
    [] name = "io.write" /\ args # <<>>    -> fast_to_string(args[1])
    [] name = "io.writeln" -> (IF args = <<>> THEN <<>> ELSE fast_to_string(args[1])) \o <<"\n">>
    [] OTHER -> <<>>
=============================================================================
