---------------------------- MODULE MCParseRuns ----------------------------
(***************************************************************************)
(* Small texts for TLC.                                                    *)
(***************************************************************************)
EXTENDS ParseRuns

a == Var("a")
b == Var("b.c")
one == NumberLit("1", 1)
quote == StringLit("it's \\ \"\n", Chars("it's \\ \"\n"))

\* One operator of each level, and two more that share one.
Operators ==
  {Tok("Equal", ""), Tok("LogicalOr", ""), Tok("LogicalAnd", ""), Tok("EqualEqual", "=="),
   Tok("LessEqual", "<="), Tok("Plus", ""), Tok("Star", ""), Tok("NotEqual", "!="),
   Tok("Percent", "")}
Increment == Tok("PlusPlus", "++")
Not == Tok("Exclamation", "")

\* Two operators, grouped either way; operators around operators and suffixes.
Expressions ==
  {Binary(f, Binary(g, a, b), one) : f, g \in Operators}
  \cup {Binary(f, a, Binary(g, b, quote)) : f, g \in Operators}
  \cup UNION {{PrefixOp(Not, x), PostfixOp(x, Increment), PrefixOp(Increment, x), Group(x),
               Index(x, x), CallOfName("f", <<x, a>>), CallValue(Group(x), <<x>>)} :
                x \in {a, Binary(Tok("Plus", ""), a, b), PrefixOp(Not, a), Index(a, one),
                       PostfixOp(b, Increment)}}
  \cup {Binary(Tok("Less", ""), PrefixOp(Not, a), PostfixOp(b, Increment)),
        CallOfName("f", <<>>), Bool("true", 1), Bool("false", 0),
        CallValue(Function(<<>>, <<>>), <<one>>),
        Function(<<"a", "b">>, <<ReturnStmt(a)>>),
        CallValue(CallValue(CallOfName("f", <<>>), <<a>>), <<b, one>>)}

Returning(x) == UnitOf("U", <<OnHandler("H", <<>>, <<ReturnStmt(x)>>)>>)

Call1 == ExprStmt(CallOfName("io.print", <<quote, Index(a, one)>>))
Set1 == AssignStmt("a", CallOfName("f", <<>>))
Arm1 == Part(a, <<Set1>>)
Arm2 == Part(CallOfName("f", <<a>>), <<>>)

Statements_ ==
  {Call1, Set1, LocalStmt("a", <<>>), LocalStmt("a", <<quote>>), ExprStmt(one), ReturnStmt(a),
   IfStmt(Arm1, <<>>, <<>>), IfStmt(Arm1, <<Arm2, Arm1>>, <<Call1, Set1>>),
   IfStmt(Arm2, <<>>, <<IfStmt(Arm1, <<>>, <<>>)>>),
   WhileStmt(a, <<Set1, IfStmt(Arm1, <<Arm2>>, <<>>)>>),
   ForeachStmt("a", quote, <<WhileStmt(one, <<>>), Call1>>)}

\* Units with handlers, with statements outside of any, and with none.
Shapes(s) ==
  {<<UnitOf("U", <<Loose(<<s>>)>>)>>,
   <<UnitOf("U.V", <<Loose(<<s, Call1>>), OnHandler("H", <<"a", "b">>, <<s, s>>), Loose(<<s>>)>>),
     UnitOf("W", <<>>)>>}

Scripts == {<<Returning(x)>> : x \in Expressions} \cup UNION {Shapes(s) : s \in Statements_}

Separators == {"", " ", " -- it's }\n", "\n\t-[ \" ] - end ]-"}

Whole(script, between) ==
  WrittenAs(Spelled(Block(script), between), Block(script), Trees(script))

WholeScripts ==
  {Whole(s, between) : s \in UNION {Shapes(t) : t \in Statements_}, between \in Separators}
  \cup {Whole(s, "") : s \in Scripts}

\* A script's tokens with one of them missing, twice, or exchanged with the next.
Without(ts, i) == SubSeq(ts, 1, i - 1) \o SubSeq(ts, i + 1, Len(ts))
Twice(ts, i) == SubSeq(ts, 1, i) \o SubSeq(ts, i, Len(ts))
Swapped(ts, i) ==
  IF i = Len(ts) THEN ts ELSE [ts EXCEPT ![i] = ts[i + 1], ![i + 1] = ts[i]]

\* The last "}" is left out in UnclosedUnits only.
Damaged(ts) ==
  {Without(ts, i) : i \in 1..Len(ts) - 1} \cup {Twice(ts, i) : i \in 1..Len(ts)}
  \cup {Swapped(ts, i) : i \in 1..Len(ts)}

DamagedScripts ==
  {WrittenAs(Spelled(ts, " "), ts, <<>>) :
     ts \in UNION {Damaged(Block(s)) : s \in
              UNION {Shapes(t) : t \in {Call1, LocalStmt("a", <<quote>>),
                                        IfStmt(Arm1, <<Arm2>>, <<Set1>>),
                                        ForeachStmt("a", quote, <<Call1>>)}}
              \cup {<<Returning(x)>> : x \in
                      {Binary(Tok("Plus", ""), Index(a, one), PostfixOp(b, Increment)),
                       Binary(Tok("Star", ""), PrefixOp(Not, a), PrefixOp(Not, b)),
                       Function(<<"a", "b">>, <<ReturnStmt(a)>>)}}}}

\* Every sign and keyword next to every other one, which no script has.
AllSigns ==
  {Sign(kind) : kind \in DOMAIN SignSpelling}
  \cup {Tok("EqualEqual", "=="), Tok("NotEqual", "!="), Tok("ShiftLeft", "<<"),
        Tok("ShiftLeftEqual", "<<="), Tok("LessEqual", "<="), Tok("ShiftRight", ">>"),
        Tok("ShiftRightEqual", ">>="), Tok("GreaterEqual", ">="), Tok("PlusPlus", "++"),
        Tok("PlusEqual", "+="), Tok("MinusEqual", "-="), Tok("Arrow", "->"),
        Tok("StarEqual", "*="), Tok("SlashEqual", "/="), Tok("PercentEqual", "%="),
        Tok("CaretEqual", "^="), Tok("LogicalAndEqual", "&="), Tok("LogicalOrEqual", "|="),
        Tok("Number", "1.5"), Tok("Number", "2."), Tok("Number", ".5"), Tok("Number", "37"),
        Tok("Nil", "nil"), Key("elseif"), Tok("Identifier", "_end.x1"), Tok("Identifier", "e2"),
        Tok("String", "")}
SignPairs == {WrittenAs(Spelled(<<x, y>>, ""), <<x, y>>, <<>>) : x, y \in AllSigns}

\* demo/**/*.mon and scripts/*.mon of the repository.
Demos ==
  {Demo("unit demo.if.else\n{\n    on UTest -> ()\n        if (false) return false;\n        elseif (false) return false;\n        else return true;\n        end\n    end\n}\n"),
   Demo("unit demo.if.elseif\n{\n    on UTest -> ()\n        if (false) return false;\n        elseif (true) return true;\n        else return false;\n        end\n    end\n}\n"),
   Demo("unit demo.if\n{\n    on UTest -> ()\n        if (true) return true;\n        end\n    end\n}\n"),
   Demo("unit demo.program\n{\n    io.print('The MonDot test codes');\n}\n"),
   Demo("unit while.disabled\n{\n    on UTest -> ()\n        while (0)\n            return false;\n        end\n        return true;\n    end\n}"),
   Demo("unit demo.benchmarks.iteration\n{\n    on UBenchmark -> ()\n        local n = sub(0, 1000000);\n\n        while (1)\n            n = add(n, 1);\n            io.write(n);\n\n            if (n)\n            else\n                io.flush();\n                return 0;\n            end\n        end\n    end\n}\n"),
   Demo("unit Foreach\n{\n    on MdReload -> ()\n        local words = 'Hello World!';\n        foreach (ch in words)\n            io.print(ch);\n        end\n    end\n}\n"),
   Demo("unit Ex\n{\n    on MdReload -> ()\n        -- A if statement\n\n        local showld = true;\n        if (showld)\n            io.print('it\\'s true!');\n            return 0;\n        end\n\n        io.print('false..');\n    end\n}\n"),
   Demo("unit Ex\n{\n    on X -> ()\n        io.print('ghi');\n    end\n\n    on MdReload -> ()\n        io.print(typeof());\n    end\n}\n"),
   Demo("unit Program\n{\n    on MdReload -> ()\n        -- A while loop\n        local n = sub(0, 1000000);\n\n        while (1)\n            n = add(n, 1);\n            io.write(add(n, ' '));\n\n            if (n)\n            else\n                io.writeln('\\nok');\n                io.flush();\n                return 0;\n            end\n        end\n    end\n}\n")}

\* More scripts that test themselves: functions on strings, and conversions.
SelfTests ==
  {Demo("unit strings\n{\n    on UTest -> ()\n        local s = 'abcab'; local t = \"ab\"; local i = 0;\n        while (lt(i, strlen(s)))\n            if (neq(substr(s, i, 1), str_char_at(s, i))) return 0; end\n            i = add(i, 1);\n        end\n        local first = index_of(s, t);\n        if (neq(substr(s, first, len(t)), t)) return 0; end\n        return eq(index_of(substr(s, add(first, 1)), t), 2);\n    end\n}"),
   Demo("unit conversions\n{\n    on UTest -> ()\n        local n = sub(2, mul(4, 3.));\n        if (gt(n, 0)) return 0;\n        elseif (neq(tostring(n), add(n, ''))) return 0;\n        elseif (eq(typeof(n), typeof('n'))) return 0;\n        else return eq(add('n: ', n), \"n: -10\"); end\n    end\n}")}

AllTexts == WholeScripts \cup DamagedScripts \cup SignPairs \cup Demos \cup SelfTests

\* The scripts of Shapes up to some token inside of their last unit.
UnclosedUnits ==
  {WrittenAs(Spelled(ts, " "), ts, <<>>) :
     ts \in {Front(Block(s)) : s \in UNION {Shapes(t) : t \in Statements_}}}
=============================================================================
