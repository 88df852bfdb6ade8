------------------------------- MODULE LuaChecker -------------------------------
(***************************************************************************)
(* The static check of a script, lua-checker/internal/service/checker.go.  *)
(*                                                                         *)
(* A script uses names.  A use is the way from the script's block down the *)
(* syntax tree of gopher-lua to the expression with the name: a sequence   *)
(* of edges, each the kind of a node and the child the way goes on to.     *)
(* A name is a dotted reference like wf.vars.x, the sequence of its keys.  *)
(***************************************************************************)
EXTENDS Integers, Sequences, SequencesExt

CONSTANTS
    Names,          \* identifiers, and constant keys
    Scripts         \* the scripts that are checked

\* A key: t.n is a constant one, t[n] with a variable n is not, and one that is
\* neither has no name.
Keys == [name : Names \union {""}, constant : BOOLEAN]

VARIABLES
    script,     \* blank, wrapped (lua{...}lua), jsonPath, parses: Booleans; uses
    errors,     \* the kinds of the violations found
    checked     \* the checker has replied

vars == <<script, errors, checked>>

-------------------------------------------------------------------------------
(***************************************************************************)
(* walk: it goes on to these children of a node, and to no others.         *)
(***************************************************************************)

CallStmt == <<"FuncCallStmt", "expr">>

WalkedEdges ==
    {<<"LocalAssignStmt", "exprs">>, <<"AssignStmt", "lhs">>, <<"AssignStmt", "rhs">>,
     <<"AttrGetExpr", "object">>, <<"AttrGetExpr", "key">>,
     <<"TableExpr", "key">>, <<"TableExpr", "value">>,
     <<"IfStmt", "condition">>, <<"IfStmt", "then">>, <<"IfStmt", "else">>,
     <<"WhileStmt", "condition">>, <<"WhileStmt", "stmts">>,
     <<"RepeatStmt", "condition">>, <<"RepeatStmt", "stmts">>,
     <<"NumberForStmt", "init">>, <<"NumberForStmt", "limit">>,
     <<"NumberForStmt", "step">>, <<"NumberForStmt", "stmts">>,
     <<"GenericForStmt", "exprs">>, <<"GenericForStmt", "stmts">>,
     <<"FuncDefStmt", "stmts">>, <<"DoBlockStmt", "stmts">>, <<"ReturnStmt", "exprs">>}

\* A call is taken apart where it is a statement.
CallParts == {<<"FuncCallExpr", "func">>, <<"FuncCallExpr", "args">>}

\* Where it stops: operands, the body of a function expression (a local function is one),
\* what a method is called of, the name of a function that is defined.
SkippedEdges ==
    {<<"OpExpr", "operand">>, <<"FunctionExpr", "stmts">>,
     <<"FuncCallExpr", "receiver">>, <<"FuncDefStmt", "name">>}

Edges == WalkedEdges \union CallParts \union {CallStmt} \union SkippedEdges

\* The parser makes a statement of nothing but a call.
Ways ==
    {w \in Seq(Edges) :
        /\ w # <<>>
        /\ \A i \in DOMAIN w :
             w[i] = CallStmt /\ i < Len(w) => w[i + 1][1] = "FuncCallExpr"}

\* How an expression uses its reference: it reads it, calls it, or calls a method of
\* it with a colon.
Shapes == {"read", "call", "method"}

Uses ==
    {u \in [way : Ways, ref : Seq(Keys), shape : Shapes] :
        u.ref # <<>> /\ (u.shape = "read" => Last(u.way) # CallStmt)}

ASSUME ScriptsAssumption ==
    Scripts \subseteq [blank : BOOLEAN, wrapped : BOOLEAN, jsonPath : BOOLEAN, parses : BOOLEAN,
                       uses : SUBSET Uses]

\* Mutant: functions and loops are skipped.
WalkedOutsideLoops(way) ==
    \A i \in DOMAIN way :
        \/ way[i] \in WalkedEdges /\ way[i][2] # "stmts"
        \/ way[i] = CallStmt /\ i < Len(way) /\ way[i + 1] \in CallParts
        \/ way[i] \in CallParts /\ i > 1 /\ way[i - 1] = CallStmt

Walked(way) ==
    \A i \in DOMAIN way :
        \/ way[i] \in WalkedEdges
        \/ way[i] = CallStmt /\ i < Len(way) /\ way[i + 1] \in CallParts
        \/ way[i] \in CallParts /\ i > 1 /\ way[i - 1] = CallStmt

\* The way to a call that is a walked statement.
WalkedStatement(way) == Last(way) = CallStmt /\ Walked(Front(way))

-------------------------------------------------------------------------------
(***************************************************************************)
(* What is checked at a node.                                              *)
(***************************************************************************)

Of(library, functions) == {<<library, f>> : f \in functions}

Unqualified == {<<f>> : f \in {"loadfile", "dofile", "load", "loadstring", "require"}}

\* The forbidden functions of Lua's libraries; as a mutant of Forbidden: the others are
\* forgotten.
LibraryFunctions ==
    Of("os", {"execute", "remove", "rename", "tmpname"})
    \union Of("io", {"popen", "open", "input", "output", "close"})
    \union Of("debug", {"getinfo", "getlocal", "setlocal", "getupvalue", "setupvalue", "sethook", "gethook"})
    \union Of("package", {"loadlib"})

\* forbiddenFunctions.
Forbidden == LibraryFunctions \union Unqualified

\* getFunctionName, as a sequence of names.
FunctionName(ref) ==
    IF \A i \in DOMAIN ref : ref[i].name # ""
    THEN [i \in DOMAIN ref |-> ref[i].name] ELSE <<"unknown">>

Sections == {"vars", "initVariables"}

\* Mutant: only wf.vars is allowed.
CheckAttrGetOfVars(ref) ==
    IF Len(ref) >= 2 /\ ref[1].name = "wf" /\ ref[2].name \notin {"vars", ""}
    THEN {IF ref[2].constant THEN "invalid access" ELSE "dynamic access"} ELSE {}

\* checkAttrGet, at the node with the object wf.
CheckAttrGet(ref) ==
    IF Len(ref) >= 2 /\ ref[1].name = "wf" /\ ref[2].name \notin Sections \union {""}
    THEN {IF ref[2].constant THEN "invalid access" ELSE "dynamic access"} ELSE {}

ArrayHelpers == {<<"_utils", "array", "new">>, <<"_utils", "array", "markAsArray">>}

CheckFuncCall(ref) == IF FunctionName(ref) \in Forbidden THEN {"forbidden call"} ELSE {}

CheckArrayUsage(ref) ==
    IF IsStrictPrefix(<<"_utils", "array">>, FunctionName(ref)) /\ FunctionName(ref) \notin ArrayHelpers
    THEN {"array helper"} ELSE {}

Found(u) ==
    CASE u.shape = "read" /\ Walked(u.way) -> CheckAttrGet(u.ref)
      [] u.shape = "call" /\ WalkedStatement(u.way) ->
           CheckFuncCall(u.ref) \union CheckArrayUsage(u.ref) \union CheckAttrGet(u.ref)
      [] OTHER -> {}

\* Validate.  The wrapper lua{...}lua comes off after the test for an empty script.
Validate(s) ==
    IF s.blank /\ ~s.wrapped THEN {"empty"}
    ELSE (IF s.jsonPath THEN {"json path"} ELSE {}) \union
         IF ~s.parses THEN {"syntax"} ELSE UNION {Found(u) : u \in s.uses}

-------------------------------------------------------------------------------
Init == script \in Scripts /\ errors = {} /\ checked = FALSE

\* Server.Check, with a checker of its own for each request.
Check ==
    /\ ~checked
    /\ checked' = TRUE
    /\ errors' = Validate(script)
    /\ UNCHANGED script

Next == Check

Spec == Init /\ [][Next]_vars

-------------------------------------------------------------------------------
(***************************************************************************)
(* Properties.                                                             *)
(***************************************************************************)

\* A reference to a member of wf other than its sections.
BesideSections(ref) ==
    Len(ref) >= 2 /\ ref[1].name = "wf" /\ ref[2].name \notin Sections

\* Something below _utils.array that is not one of its two functions.
OtherArrayCall(name) ==
    /\ Len(name) > 2 /\ name[1] = "_utils" /\ name[2] = "array"
    /\ Len(name) > 3 \/ name[3] \notin {"new", "markAsArray"}

\* What is wrong with a use, wherever it is.
Faults(u) ==
    (IF BesideSections(u.ref) THEN {"invalid access", "dynamic access"} ELSE {}) \union
    (IF u.shape = "call" /\ FunctionName(u.ref) \in Forbidden THEN {"forbidden call"} ELSE {}) \union
    (IF u.shape = "call" /\ OtherArrayCall(FunctionName(u.ref)) THEN {"array helper"} ELSE {})

\* No script is refused for a fault that it does not have: a refusal costs a repair
\* attempt (checkAttrGet, checkFuncCall, checkArrayUsage).
RefusalsAreDeserved ==
    checked /\ script.parses /\ ~script.jsonPath /\ ~script.blank =>
        errors \subseteq UNION {Faults(u) : u \in script.uses}

\* The lists of statements that the statements of Lua hold.
Blocks ==
    {<<"IfStmt", "then">>, <<"IfStmt", "else">>, <<"WhileStmt", "stmts">>, <<"RepeatStmt", "stmts">>,
     <<"NumberForStmt", "stmts">>, <<"GenericForStmt", "stmts">>, <<"DoBlockStmt", "stmts">>,
     <<"FuncDefStmt", "stmts">>}

\* The script put into a block: each use is one edge further down.
Nested(s, block) == [s EXCEPT !.uses = {[u EXCEPT !.way = <<block>> \o @] : u \in s.uses}]

\* What the checker says of a script does not depend on the block that the script is put
\* into: a fault is not lost in a loop, a branch or a function, and none comes of it (walk).
NestingChangesNothing ==
    checked => \A block \in Blocks : Validate(Nested(script, block)) = errors

\* The calls of a script that are statements, in whatever blocks.
CallStatements(s) ==
    {u \in s.uses : /\ u.shape = "call" /\ Last(u.way) = CallStmt
                    /\ \A i \in DOMAIN Front(u.way) : u.way[i] \in Blocks}

\* The functions that README.md names as blocked one by one.
DocumentedFunctions ==
    Of("os", {"execute", "remove"}) \union Of("io", {"popen"})
    \union Of("package", {"loadlib"}) \union Unqualified

\* A script that passes has no statement, in whatever blocks, that calls a function the
\* documentation names as blocked, or one of _utils.array that it does not permit
\* (README.md, "Forbidden functions" and "Allowed helpers"; walk and checkFuncCall).
StatementCallsAreChecked ==
    checked /\ errors = {} =>
        \A u \in CallStatements(script) :
            /\ FunctionName(u.ref) \notin DocumentedFunctions
            /\ ~OtherArrayCall(FunctionName(u.ref))

-------------------------------------------------------------------------------
(***************************************************************************)
(* What the documentation says and the code does not do.                   *)
(***************************************************************************)

\* README.md: the check ensures that wf is accessed only through its sections.
WfOnlyThroughSections ==
    checked /\ errors = {} => \A u \in script.uses : ~BesideSections(u.ref)
===============================================================================
