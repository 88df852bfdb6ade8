------------------------------ MODULE MCInputPath ------------------------------
(***************************************************************************)
(* Contexts are all documents whose leaves are among a few paths.          *)
(***************************************************************************)
EXTENDS InputPath, TLC

MCKeys == {"wf", "vars", "initVariables", "users", "orders", "id", "name", "order-id", "2nd", "path", ""}
MCSegments == MCKeys \union {"order", "userId", "sum", "sum of wf", "users?", NotApplicable[1], NeedsClarification[1]}

\* What spec_logic.py finds in these segments.
MCLower == [s \in MCSegments |->
              CASE s = "initVariables" -> "initvariables" [] s = "userId" -> "userid"
                [] OTHER -> s]
MCWords ==
    ("" :> {}) @@ ("initVariables" :> {"init", "variables"}) @@ ("order-id" :> {"order", "id"})
    @@ ("userId" :> {"user", "id"})
    @@ ("sum of wf" :> {"sum", "of", "wf"}) @@ ("users?" :> {"users"})
    @@ (NotApplicable[1] :> {"input", "path", "not", "applicable"})
    @@ (NeedsClarification[1] :> {"input", "path", "needs", "clarification"})
    @@ [s \in MCSegments |-> {s}]
MCTermsOf ==
    ("order-id" :> {"order", "id", "orders"}) @@ ("userId" :> {"userid", "user", "id", "users"})
    @@ ("sum of wf" :> {"sum"}) @@ ("users?" :> {"users"})
    @@ ("2nd" :> {"nd"}) @@ [s \in {"wf", "vars", "initVariables"} |-> {}]
    @@ [s \in MCSegments |-> MCWords[s] \union {MCLower[s]}]
MCCut == ("order-id" :> "order") @@ ("2nd" :> "") @@ ("users?" :> "users")
         @@ ("sum of wf" :> "sum") @@ [s \in MCSegments |-> s]
MCEndsInWf == {"wf", "sum of wf"}
MCTerms == UNION {MCWords[s] \union MCTermsOf[s] \union {MCLower[s]} : s \in MCSegments}

\* The document with these leaves: objects above them, scalars at them.
Document(leaves) ==
    [p \in {<<>>} \union UNION {{SubSeq(l, 1, n) : n \in 1..Len(l)} : l \in leaves} |->
       IF leaves = {} \/ \E l \in leaves : IsStrictPrefix(p, l) THEN "object" ELSE "scalar"]

Leaves == {<<"wf", "vars", "users", "id">>, <<"wf", "vars", "users", "name">>,
           <<"wf", "vars", "orders">>, <<"wf", "vars", "order-id">>,
           <<"wf", "initVariables", "users">>, <<"wf", "vars", "path">>, <<"wf", "vars", "2nd">>,
           <<"wf", "orders", "id">>, <<"orders", "id">>}

\* Values at the places the normaliser looks at.
Odd(kind, p) == [Document({p}) EXCEPT ![p] = kind]
OddContexts ==
    {Odd(k, p) : k \in Kinds, p \in {<<"wf">>, <<"wf", "vars">>, <<"wf", "initVariables">>}}
    \union {<<>> :> "null", Document({<<"wf", "vars", "">>}), Document({<<"wf", "vars", "", "users">>})}

\* Documents one leaf of which is null.
NullContexts ==
    {[Document(L \union {l}) EXCEPT ![l] = "null"] :
        L \in {{}, Leaves \ {<<"wf", "orders", "id">>, <<"orders", "id">>}},
        l \in {x \in Leaves : x[1] = "wf"}}

MCContexts ==
    {NoContext} \union {Document(L) : L \in SUBSET Leaves} \union OddContexts \union NullContexts

MCRequests ==
    [terms : {{}, {"users"}, {"orders"}, {"users", "orders"}, {"order", "id"}, {"users", "name"}, {"id", "name"}},
     mentionsWf : {FALSE}, hintsInput : BOOLEAN]
    \union {[terms |-> {"orders"}, mentionsWf |-> TRUE, hintsInput |-> FALSE]}

MCRawInputPaths ==
    {NoPath, NotApplicable, NeedsClarification, <<"users">>, <<"userId">>, <<"order-id">>,
     <<"wf", "vars", "users">>, <<"wf", "vars", "order-id">>, <<"wf", "orders", "id">>,
     <<"wf", "vars", "2nd">>, <<"wf", "initVariables", "users", "2nd">>,
     <<"wf", "vars", "", "users">>, <<"sum of wf", "vars", "users?">>,
     <<"id", "wf", "vars", "users", "id">>}
===============================================================================
