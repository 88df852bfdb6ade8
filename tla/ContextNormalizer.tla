--------------------------- MODULE ContextNormalizer ---------------------------
(***************************************************************************)
(* The workflow context: JSON documents, services/llm/context_normalizer.py *)
(* and what the sandbox of the Lua validator makes of its result.          *)
(*                                                                         *)
(* A document is a function from the paths of its values to their kinds.   *)
(* The items of a list share the path of the list, as they do for the      *)
(* search in spec_logic.py; what has the kind null there is null in all of *)
(* them.  The backend lets only objects, null and no    *)
(* context at all through, so what cannot be parsed is not modelled.       *)
(***************************************************************************)
EXTENDS Sequences, Integers

CONSTANT Keys   \* the keys of objects

ASSUME KeysAssumption == {"wf", "vars", "initVariables"} \subseteq Keys

Paths == Seq(Keys)

\* "blank": the scalars that are false for Python.
Kinds == {"object", "list", "empty list", "scalar", "blank", "null"}

\* Values that have values of their own.
Containers == {"object", "list"}

\* No context was given, or a blank one: not even the root has a value.
NoContext == <<>>

IsDocument(doc) ==
    /\ DOMAIN doc \subseteq Paths
    /\ doc = [p \in DOMAIN doc |-> doc[p]]
    /\ \A p \in DOMAIN doc : doc[p] \in Kinds
    /\ <<>> \in DOMAIN doc
    /\ \A p \in DOMAIN doc : \A n \in 0..(Len(p) - 1) :
         SubSeq(p, 1, n) \in DOMAIN doc /\ doc[SubSeq(p, 1, n)] \in Containers

-------------------------------------------------------------------------------
(***************************************************************************)
(* normalize_context                                                       *)
(***************************************************************************)

Sections == {"vars", "initVariables"}

\* The objects that every normalised context has.
Frame == {<<>>, <<"wf">>, <<"wf", "vars">>, <<"wf", "initVariables">>}

KindAt(doc, p) == IF p \in DOMAIN doc THEN doc[p] ELSE "absent"

\* An object, or nothing, which is replaced by the empty object.
Fillable == {"object", "absent", "null"}

\* normalize_context raises no ContextError.
Normalizable(doc) ==
    /\ doc # NoContext
    /\ doc[<<>>] = "object"
    /\ \A p \in Frame : KindAt(doc, p) \in Fillable

\* Values inside wf.vars or wf.initVariables.
InSection(p) == Len(p) > 2 /\ p[1] = "wf" /\ p[2] \in Sections

\* Mutant: initVariables are left out.
NormalizeVarsOnly(doc) ==
    [p \in Frame \union {q \in DOMAIN doc : InSection(q) /\ q[2] = "vars"} |->
       IF p \in Frame THEN "object" ELSE doc[p]]

Normalize(doc) ==
    [p \in Frame \union {q \in DOMAIN doc : InSection(q)} |->
       IF p \in Frame THEN "object" ELSE doc[p]]

DefaultContext == [p \in Frame |-> "object"]

\* Mutant: what cannot be normalised is handed back.
NormalizeSafeOrAsIs(doc) == IF Normalizable(doc) THEN Normalize(doc) ELSE doc

NormalizeSafe(doc) == IF Normalizable(doc) THEN Normalize(doc) ELSE DefaultContext

\* LUA_SANDBOX_TEMPLATE: the script's wf is the wf of the context it is handed, or one
\* of empty sections.  dkjson.decode makes nil of a null, which is no value of a table:
\* its key is absent for the script, and a list keeps none of its nulls apart.
ScriptPaths(doc) ==
    LET handed == IF KindAt(doc, <<"wf">>) \in {"absent", "null"} THEN DefaultContext ELSE doc
    IN  {p \in DOMAIN handed : p # <<>> /\ p[1] = "wf" /\ handed[p] # "null"}

-------------------------------------------------------------------------------
\* Contexts of the form the product describes: an object wf with nothing in it
\* but its sections, which are objects.
WellFormed(doc) ==
    /\ IsDocument(doc)
    /\ \A p \in DOMAIN doc :
         \/ p \in Frame /\ doc[p] = "object"
         \/ InSection(p)
===============================================================================
