------------------------------ MODULE MCPipeline ------------------------------
(***************************************************************************)
(* Small instances of Pipeline: texts that are generic, meaningful, paths  *)
(* or confirmations, one context that holds a path Lua cannot spell.       *)
(***************************************************************************)
EXTENDS Pipeline

Users == "wf.vars.users"
MyKey == "wf.vars.my-key"
My    == "wf.vars.my"

MCTexts == {"", "not applicable", "needs clarification",
            "todo", "result", "sum", "binary search", "no input", Users, MyKey, My}
MCGenericGoals == {"", "todo"}
MCGenericReturns == {"", "result"}
MCBinarySearchTexts == {"binary search"}
MCNoInputAnswers == {"no input"}
MCContextPaths == {Users, MyKey}

\* A key that is no identifier is cut off when the path is read back.
MCCanonicalPath ==
    [t \in MCTexts |-> CASE t = Users -> Users
                         [] t \in {MyKey, My} -> My
                         [] OTHER -> None]

Request(wf, hint, search) == [mentionsWf |-> wf, hintsInput |-> hint, binarySearch |-> search]

(***************************************************************************)
(* For the clarification policy: every request, a context with and without *)
(* data, answers that are blank, generic, a confirmation or meaningful, no *)
(* repairs.                                                                *)
(***************************************************************************)
PolicyRequests == {Request(FALSE, FALSE, FALSE), Request(TRUE, FALSE, FALSE),
                   Request(FALSE, TRUE, FALSE)}
PolicyContexts == {{}, {MyKey}}
PolicyAnswers == {"", "no input", "binary search"}
PolicyOutputs ==
    [goal : {"", "sum"}, return_value : {"", "sum"}, input_path : {"", "sum"}]

(***************************************************************************)
(* For the repair loop and for whole sessions: one request that names a wf *)
(* path the service has no context for, every question still reachable.    *)
(***************************************************************************)
SessionRequests == {Request(TRUE, FALSE, FALSE)}
SessionContexts == {{}}
SessionAnswers == {"", "binary search"}
SessionOutputs ==
    [goal : {"", "sum"}, return_value : {"", "sum"}, input_path : {""}]
===============================================================================
