----------------------------- MODULE MCLuaChecker ------------------------------
(***************************************************************************)
(* Scripts with one or two uses, at the end of ways of up to four edges.   *)
(***************************************************************************)
EXTENDS LuaChecker, FiniteSetsExt

MCNames == {"wf", "vars", "initVariables", "x", "os", "remove", "_utils", "array", "new", "map",
            "debug", "setmetatable", "load"}

SomeBlocks == {<<"IfStmt", "then">>, <<"IfStmt", "else">>, <<"NumberForStmt", "stmts">>,
               <<"FuncDefStmt", "stmts">>}
Expressions == {<<"ReturnStmt", "exprs">>, <<"AssignStmt", "lhs">>, <<"IfStmt", "condition">>}

\* Ways to a statement, and to an expression.
Outer == {<<>>} \union {<<b>> : b \in SomeBlocks} \union {<<b, c>> : b, c \in SomeBlocks}
           \union {<<<<"ReturnStmt", "exprs">>, <<"FunctionExpr", "stmts">>>>}
Statement == {Append(o, CallStmt) : o \in Outer}
Expression ==
    {Append(o, e) : o \in Outer, e \in Expressions}
    \union {<<CallStmt, p>> : p \in CallParts}
    \union {<<<<"ReturnStmt", "exprs">>, e>> :
              e \in {<<"TableExpr", "value">>, <<"OpExpr", "operand">>,
                     <<"FuncCallExpr", "args">>, <<"FuncCallExpr", "func">>}}
    \union {<<CallStmt, <<"FuncCallExpr", "receiver">>>>, <<<<"FuncDefStmt", "name">>>>}

Key(n) == [name |-> n, constant |-> TRUE]
Refs ==
    {<<Key("x")>>, <<Key("wf")>>, <<Key("wf"), Key("vars"), Key("x")>>, <<Key("wf"), Key("initVariables")>>,
     <<Key("wf"), Key("x")>>, <<Key("wf"), [name |-> "x", constant |-> FALSE]>>,
     <<Key("wf"), [name |-> "", constant |-> FALSE]>>, <<Key("os"), Key("remove")>>,
     <<Key("load")>>, <<Key("debug"), Key("setmetatable")>>,
     <<Key("_utils"), Key("array")>>, <<Key("_utils"), Key("array"), Key("new")>>,
     <<Key("_utils"), Key("array"), Key("map")>>, <<Key("_utils"), Key("array"), Key("map"), Key("new")>>}

MCUses ==
    [way : Expression, ref : Refs, shape : Shapes]
    \union [way : Statement, ref : Refs, shape : {"call", "method"}]

Code(U) == [blank |-> FALSE, wrapped |-> FALSE, jsonPath |-> FALSE, parses |-> TRUE, uses |-> U]

\* What a second use adds: nothing, or a fault of its own.
Second ==
    {u \in MCUses : /\ u.way \in {<<CallStmt>>, <<<<"ReturnStmt", "exprs">>>>} /\ u.shape # "method"
                    /\ u.ref \in {<<Key("x")>>, <<Key("wf"), Key("x")>>, <<Key("os"), Key("remove")>>}}

MCScripts ==
    {Code({u, v}) : u \in MCUses, v \in Second}
    \union [blank : BOOLEAN, wrapped : BOOLEAN, jsonPath : BOOLEAN, parses : BOOLEAN, uses : {{}}]
===============================================================================
