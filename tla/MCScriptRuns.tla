---------------------------- MODULE MCScriptRuns ----------------------------
(***************************************************************************)
(* Small scripts for TLC.                                                  *)
(***************************************************************************)
EXTENDS ScriptProperties

F(name, args) == Call_(name, args)

Show(e) == Do(F("io.print", <<e>>))
Increment == Let("x", F("add", <<Ident("x"), Num(1)>>))
Small == F("lt", <<Ident("x"), Num(2)>>)
ReadDirectory == F("read_file", <<Text(<<".">>)>>)

Simple == {Increment, Show(Ident("x")), Return_(Ident("y")), Local("y", <<>>),
           Local("y", <<F("add", <<Ident("y"), Text(<<"a">>)>>)>>),
           Do(F("f", <<Ident("x")>>))}

Bodies == {<<s>> : s \in Simple}

Ifs ==
  {If(c, b, <<>>, e) : c \in {Small, Const(Boolean(FALSE)), Const(Nil)}, b \in Bodies,
                       e \in {<<>>, <<Increment>>, <<Return_(Num(0))>>}}
  \cup {If(c, <<Return_(Num(7))>>, <<Part(d, <<Increment>>)>>, <<>>) :
          c, d \in {Small, Const(Boolean(TRUE)), Num(0)}}

Loops ==
  {While(Small, <<Increment>> \o b) : b \in Bodies}
  \cup {While(Num(1), <<Increment, If(Small, <<>>, <<>>, <<Return_(Ident("x"))>>)>>),
        Foreach("c", Text(<<>>), <<Show(Ident("c"))>>)}

\* Handler 1 returns its argument and "b"; the last one throws in the middle of
\* an expression.  UTest is the script of the run.
Unit(body) ==
  <<Handler("UTest", <<>>, <<Local("x", <<Num(0)>>), Local("f", <<Num(1)>>)>> \o body),
    Handler("MdReload", <<>>, <<Return_(F("add", <<Ident("_tmp"), Text(<<"b">>)>>))>>),
    Handler("MdInit", <<>>, <<Show(F("add", <<Num(1), ReadDirectory>>))>>)>>

\* What compile_unit has no code for, and names that are declared too late or
\* where one would not look for it.
Odd == {Do(Num(1)), Local("", <<>>), Let("", Num(1)), Let("y", Num(1)), Do(F("y", <<>>)),
        Local("y", <<FuncLiteral(<<>>, <<>>)>>), Let("__foreach_idx", Num(1)),
        Foreach("y", Ident("x"), <<>>), If(Small, <<Local("y", <<>>)>>, <<>>, <<>>)}

Scripts ==
  {Unit(<<s, t>>) : s, t \in Simple \cup Ifs \cup Loops}
  \cup {Unit(<<s, t>>) : s, t \in Odd \cup {Show(Ident("y")), Local("y", <<>>)}}
  \cup {Unit(<<Local("y", <<F("f", <<F("add", <<Num(3), Num(4)>>)>>)>>),
               Return_(F("eq", <<Ident("y"), Text(<<"7", "b">>)>>))>>),
        Unit(<<Local("f", <<Num(5)>>), Return_(F("f", <<>>))>>),
        Unit(<<Local("f", <<Num(2)>>), Return_(F("add", <<Num(1), F("f", <<>>)>>))>>)}

\* An elseif part that is executed, with another part behind it.
ElseifScripts ==
  {Unit(<<If(c, <<Increment>>, <<Part(d, <<Increment>>)>>, <<Increment>>),
          Return_(Ident("x"))>>) : c, d \in {Small, Num(0)}}

ForeachScripts ==
  {Unit(<<Foreach("c", Text(s), <<Show(Ident("c"))>>)>>) : s \in {<<>>, <<"a">>, <<"a", "b">>}}

\* A handler that returns its parameter.
ParameterScripts ==
  {<<Handler("UTest", <<"x">>, <<Return_(Ident(x))>>)>> : x \in {"_tmp", "x"}}
=============================================================================
