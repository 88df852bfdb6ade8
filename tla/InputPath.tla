------------------------------- MODULE InputPath -------------------------------
(***************************************************************************)
(* Which value of the context a script is about: the search for a path in  *)
(* services/llm/spec_logic.py (resolve_input_path), its use by the spec    *)
(* node and again by the clarifier, and what the script finds at that path *)
(* when the validator runs it.                                             *)
(*                                                                         *)
(* A text that names a path, a request for one, or a sentinel is the       *)
(* sequence of its dotted segments; what scanning a segment yields is      *)
(* given by constants.  A key has no dot.                                  *)
(***************************************************************************)
EXTENDS ContextNormalizer, FiniteSets, SequencesExt, FiniteSetsExt

CONSTANTS
    Segments,       \* segments of texts, the keys among them
    Terms,          \* search terms, in lower case
    Lower,          \* Lower[s]: segment s in lower case
    Words,          \* Words[s]: _split_identifier
    TermsOf,        \* TermsOf[s]: _extract_search_terms
    Cut,            \* Cut[s]: the identifier at the start of s; "": there is none
    EndsInWf,       \* segments with wf for their last word
    FieldConcepts,  \* _FIELD_CONCEPTS
    UserContexts,   \* contexts, and NoContext
    UserRequests,   \* requests: terms, mentionsWf, hintsInput
    RawInputPaths   \* what the spec agent says: a text

ASSUME SegmentsAssumption ==
    /\ Keys \subseteq Segments
    /\ Lower \in [Segments -> Terms]
    /\ Words \in [Segments -> SUBSET Terms]
    /\ TermsOf \in [Segments -> SUBSET Terms]
    /\ Cut \in [Segments -> Segments \union {""}]
    /\ EndsInWf \subseteq Segments /\ "wf" \in EndsInWf

NotApplicable == <<"__INPUT_PATH_NOT_APPLICABLE__">>
NeedsClarification == <<"__INPUT_PATH_NEEDS_CLARIFICATION__">>
Sentinels == {NotApplicable, NeedsClarification}

Requests == [terms : SUBSET Terms, mentionsWf : BOOLEAN, hintsInput : BOOLEAN]

ASSUME InputsAssumption ==
    /\ Sentinels \subseteq Seq(Segments)
    /\ \A doc \in UserContexts : doc = NoContext \/ IsDocument(doc)
    /\ UserRequests \subseteq Requests
    /\ RawInputPaths \subseteq Seq(Segments)

\* No path, and the empty text.
NoPath == <<>>

VARIABLES
    node,       \* the node of the graph that comes next
    given,      \* the context the backend passed on
    context,    \* the context of the pipeline
    request,    \* the user's request
    raw,        \* input_path as the spec agent gave it
    specified,  \* input_path after spec_node
    reviewed,   \* input_path after clarifier_node
    seen        \* the paths of the values the script finds

\* What the first node begins with; no node changes it.
inputs == <<given, context, request, raw>>

vars == <<node, inputs, specified, reviewed, seen>>

-------------------------------------------------------------------------------
(***************************************************************************)
(* Reading texts and contexts.                                             *)
(***************************************************************************)

\* Mutant: one key behind the section, and no more.
PathOfOneKey(text) ==
    IF Len(text) >= 3 /\ text[1] \in EndsInWf /\ text[2] \in Sections /\ Cut[text[3]] # ""
    THEN <<"wf", text[2], Cut[text[3]]>> ELSE NoPath

\* The longest path of identifiers that begins with the last word of the first segment
\* and goes on from a section: the segment behind the last whole one may be cut.
PathAtStart(text) ==
    LET named == {n \in 3..Len(text) :
                    /\ text[1] \in EndsInWf
                    /\ text[2] \in Sections
                    /\ \A i \in 3..n : Cut[text[i]] # ""
                    /\ \A i \in 3..(n - 1) : Cut[text[i]] = text[i]}
    IN  IF named = {} THEN NoPath
        ELSE LET n == Max(named)
             IN  [SubSeq(text, 1, n) EXCEPT ![1] = "wf", ![n] = Cut[@]]

\* What is left of a text from its i-th segment on.
From(text, i) == SubSeq(text, i, Len(text))

\* _extract_canonical_path: the first path anywhere in a text.
CanonicalPath(text) ==
    LET starts == {i \in 1..Len(text) : PathAtStart(From(text, i)) # NoPath}
    IN  IF starts = {} THEN NoPath ELSE PathAtStart(From(text, Min(starts)))

\* _flatten_context_paths of what the search takes for wf: the member wf, or else
\* the whole context.
FlattenContextPaths(doc) ==
    IF <<"wf">> \in DOMAIN doc
    THEN {p \in DOMAIN doc : p # <<>> /\ p[1] = "wf"}
    ELSE {<<"wf">> \o p : p \in DOMAIN doc}

\* if not raw_context.
IsEmpty(doc) == doc = NoContext \/ DOMAIN doc = {<<>>}

RootKind(doc) == IF <<"wf">> \in DOMAIN doc THEN doc[<<"wf">>] ELSE doc[<<>>]

SectionKind(doc, s) ==
    IF <<"wf">> \in DOMAIN doc THEN KindAt(doc, <<"wf", s>>) ELSE KindAt(doc, <<s>>)

\* _context_has_data.
ContextHasData(doc) ==
    /\ ~IsEmpty(doc) /\ doc[<<>>] = "object"
    /\ IF RootKind(doc) # "object" THEN RootKind(doc) \in {"list", "scalar"}
       ELSE \/ \E p \in FlattenContextPaths(doc) : Len(p) > 2 /\ p[2] \in Sections
            \/ \E s \in Sections : SectionKind(doc, s) \in {"list", "scalar", "blank"}
            \/ \E p \in FlattenContextPaths(doc) : Len(p) = 2 /\ p[2] \notin Sections

-------------------------------------------------------------------------------
(***************************************************************************)
(* _candidate_parent_path.  It tries the search terms in the order of a    *)
(* Python set, which is any order: where the first term that fits decides, *)
(* each of them may.  The result is the set of the outcomes.               *)
(***************************************************************************)

Suffix(p) == Lower[Last(p)]

\* The only member of S, if it has only one.
OnlyOne(S) == IF Cardinality(S) = 1 THEN CHOOSE p \in S : TRUE ELSE NoPath

\* _path_terms.
PathTerms(p) == UNION {Words[s] : s \in ToSet(p)} \ {"wf", "vars", "initvariables"}

\* _descendant_terms.
DescendantTerms(paths, p) ==
    UNION {PathTerms(q) : q \in {x \in paths : IsPrefix(p, x)}}

\* Values below the members of wf that bear the name t.
Named(paths, t) == {p \in paths : Len(p) >= 3 /\ Suffix(p) = t}

\* Terms that name exactly one value, unless it is a mere field of another one.
Naming(paths, terms) ==
    {t \in terms : /\ Cardinality(Named(paths, t)) = 1
                   /\ t \in FieldConcepts => \A p \in Named(paths, t) : Len(p) < 4}

Ambiguous(paths, terms) == {t \in terms : Cardinality(Named(paths, t)) > 1}

\* The members of S with the highest score.
Best(S, score(_)) == {p \in S : \A q \in S : score(q) <= score(p)}

\* The one value named t whose descendants the other terms speak of most.
BestNamed(paths, terms, t) ==
    LET score(p) == Cardinality(terms \intersect DescendantTerms(paths, p))
        best     == Best(Named(paths, t), score)
    IN  IF \A p \in best : score(p) > 0 THEN OnlyOne(best) ELSE NoPath

\* Fields that terms name, which may be those of one and the same object.
NamedFields(paths, terms) == {p \in paths : Len(p) >= 4 /\ Suffix(p) \in terms}

Score(paths, terms, p) ==
    LET rest == terms \ {Suffix(p)}
        hits == rest \intersect PathTerms(p)
        near == (rest \ hits) \intersect DescendantTerms(paths, p)
    IN  5 * Cardinality(hits) + 2 * Cardinality(near)
        + (IF Suffix(p) \in terms THEN 8 ELSE -3 * (Len(p) - 3))
        - (IF Suffix(p) \in FieldConcepts /\ Len(p) >= 4 THEN 4 ELSE 0)

\* Mutant: members of wf count, too.
BestScoredAnywhere(paths, terms) ==
    LET score(p) == Score(paths, terms, p)
        best     == Best({p \in paths : Len(p) >= 2}, score)
    IN  IF \A p \in best : score(p) > 0 THEN OnlyOne(best) ELSE NoPath

\* The one value with the highest score, if that is positive.
BestScored(paths, terms) ==
    LET score(p) == Score(paths, terms, p)
        best     == Best({p \in paths : Len(p) >= 3 /\ Last(p) \notin Sections}, score)
    IN  IF \A p \in best : score(p) > 0 THEN OnlyOne(best) ELSE NoPath

\* The objects with fields that terms name.
NamedParents(paths, terms) == {Front(p) : p \in NamedFields(paths, terms)}

CandidateParentPaths(paths, terms) ==
    IF terms = {} THEN {NoPath}
    ELSE IF Naming(paths, terms) # {}
    THEN {OnlyOne(Named(paths, t)) : t \in Naming(paths, terms)}
    ELSE IF Ambiguous(paths, terms) # {}
    THEN {BestNamed(paths, terms, t) : t \in Ambiguous(paths, terms)}
    ELSE IF /\ Cardinality(NamedParents(paths, terms)) = 1
            /\ Cardinality(NamedFields(paths, terms)) >= 2
    THEN NamedParents(paths, terms)
    ELSE {BestScored(paths, terms)}

-------------------------------------------------------------------------------
(***************************************************************************)
(* resolve_input_path and its place in evaluate_spec, before any answer.   *)
(***************************************************************************)

TermsOfText(text) == UNION {TermsOf[s] : s \in ToSet(text)}

\* First the words of the input path alone, then those of the whole request.
ResolveInputPath(doc, text, terms) ==
    IF CanonicalPath(text) # NoPath THEN {CanonicalPath(text)}
    ELSE IF IsEmpty(doc) THEN {NoPath}
    ELSE LET paths == FlattenContextPaths(doc)
             found == CandidateParentPaths(paths, TermsOfText(text))
         IN  (found \ {NoPath}) \union
             IF NoPath \in found
             THEN CandidateParentPaths(paths, terms \union TermsOfText(text)) ELSE {}

NeedsContextualInput(doc, text, req) ==
    \/ CanonicalPath(text) # NoPath
    \/ req.mentionsWf
    \/ /\ ContextHasData(doc)
       /\ (text \notin {NoPath, NotApplicable} \/ req.hintsInput)

\* evaluate_spec: the values input_path can get.
EvaluateSpec(doc, text, req) ==
    {IF found # NoPath THEN found
     ELSE IF NeedsContextualInput(doc, text, req) THEN NeedsClarification
     ELSE NotApplicable :
        found \in ResolveInputPath(doc, text, req.terms)}

-------------------------------------------------------------------------------
\* Mutant: the pipeline gets the context as it came, if one came.
InitialContextAsGiven(doc) == IF doc = NoContext THEN DefaultContext ELSE doc

\* _make_initial_state.
InitialContext(doc) == NormalizeSafe(doc)

Init ==
    /\ node = "spec"
    /\ given \in UserContexts
    /\ context = InitialContext(given)
    /\ request \in UserRequests
    /\ raw \in RawInputPaths
    /\ specified = NoPath
    /\ reviewed = NoPath
    /\ seen = {}

SpecNode ==
    /\ node = "spec"
    /\ specified' \in EvaluateSpec(context, raw, request)
    /\ node' = "clarifier"
    /\ UNCHANGED <<inputs, reviewed, seen>>

\* load_spec_json: the specification is evaluated again.  Without a path that is
\* needed the user is asked.
ClarifierNode ==
    /\ node = "clarifier"
    /\ reviewed' \in EvaluateSpec(context, specified, request)
    /\ node' = IF reviewed' = NeedsClarification THEN "asked" ELSE "validate"
    /\ UNCHANGED <<inputs, specified, seen>>

\* validate_node: the script runs with the context normalised once more.
ValidateNode ==
    /\ node = "validate"
    /\ seen' = ScriptPaths(NormalizeSafe(context))
    /\ node' = "done"
    /\ UNCHANGED <<inputs, specified, reviewed>>

Next == SpecNode \/ ClarifierNode \/ ValidateNode

Spec == Init /\ [][Next]_vars

-------------------------------------------------------------------------------
(***************************************************************************)
(* Properties.                                                             *)
(***************************************************************************)

TypeOK ==
    /\ node \in {"spec", "clarifier", "validate", "asked", "done"}
    /\ given = NoContext \/ IsDocument(given)
    /\ IsDocument(context)
    /\ request \in Requests
    /\ raw \in Seq(Segments)
    /\ specified \in Seq(Segments)
    /\ reviewed \in Seq(Segments)
    /\ seen \subseteq Paths

\* The paths of a context, as the search sees them.
PathsOf(doc) == IF doc = NoContext THEN {} ELSE FlattenContextPaths(doc)

\* The specification's input path was written out by the spec agent, or it is a
\* sentinel or the path of a value below the sections: the search makes up no path
\* and does not end in a section (resolve_input_path; SpecLogic relies on it in
\* Candidates).
SearchEndsInContext ==
    node # "spec" =>
        IF CanonicalPath(raw) # NoPath
        THEN specified = CanonicalPath(raw)
        ELSE \/ specified \in Sentinels
             \/ specified \in PathsOf(context) /\ Len(specified) >= 3

\* Every segment of p is a Lua identifier.
Spellable(p) == \A s \in ToSet(p) : s # "" /\ Cut[s] = s

\* The clarifier's review keeps an input path that Lua can spell, if it lies in a
\* section: evaluating the specification twice does not move it (clarifier_node,
\* load_spec_json).
ReviewKeepsPath ==
        /\ node \notin {"spec", "clarifier"}
        /\ Spellable(specified)
        /\ Len(specified) >= 3 /\ specified[2] \in Sections
    => reviewed = specified

\* The search and the script read the same context: a path that was found is there
\* when the script runs, and only the path of a null is not, which the search takes for
\* a value and Lua does not (json.loads in extract_context_node, _flatten_context_paths,
\* normalize_context_safe in validate_node, dkjson.decode in the sandbox).
ScriptFindsItsInput ==
    node = "done" /\ reviewed \in PathsOf(context) =>
        (reviewed \in seen <=> KindAt(context, reviewed) # "null")

\* Of a context of the described form a script sees every value but the nulls, which
\* are no values in Lua (_make_initial_state and validate_node, which normalise it one
\* after the other, and dkjson.decode).
ScriptSeesWhatWasGiven ==
    node = "done" /\ given # NoContext /\ WellFormed(given) =>
        \A p \in PathsOf(given) : p \in seen <=> KindAt(given, p) # "null"
===============================================================================
