------------------------------ MODULE SpecLogic ------------------------------
(***************************************************************************)
(* The deterministic clarification policy of services/llm/spec_logic.py:   *)
(* how a raw specification and the answers given so far are normalised,    *)
(* which blocker is left, and what the clarifier decides.                  *)
(*                                                                         *)
(* A text (a field of the specification, an answer) is a member of Texts;  *)
(* what the code finds out about a text by scanning it is given by the     *)
(* constants below.                                                        *)
(***************************************************************************)
EXTENDS Sequences, SequencesExt

CONSTANTS
    Texts,              \* the texts, already stripped
    Empty,              \* the empty text
    NotApplicable,      \* INPUT_PATH_NOT_APPLICABLE
    NeedsClarification, \* INPUT_PATH_NEEDS_CLARIFICATION
    GenericGoals,       \* texts that say nothing as a goal
    GenericReturns,     \* texts that say nothing as a return value
    BinarySearchTexts,  \* texts that speak of a binary search
    NoInputAnswers,     \* answers that say there is no input
    CanonicalPath,      \* CanonicalPath[t]: the wf path written in t, or None
    ContextPaths,       \* paths of the values a workflow context can hold
    None                \* Python's None

ASSUME TextsAssumption ==
    /\ {Empty, NotApplicable, NeedsClarification} \subseteq Texts
    /\ GenericGoals \subseteq Texts /\ Empty \in GenericGoals
    /\ GenericReturns \subseteq Texts /\ Empty \in GenericReturns
    /\ BinarySearchTexts \subseteq Texts
    /\ NoInputAnswers \subseteq Texts
    /\ ContextPaths \subseteq Texts
    /\ None \notin Texts
    /\ CanonicalPath \in [Texts -> Texts \union {None}]

\* The two markers are neither blank nor the same, and no path is blank or a
\* marker: every path begins with "wf.".
ASSUME MarkersAssumption ==
    LET Markers == {NotApplicable, NeedsClarification}
        Paths   == ContextPaths \union {CanonicalPath[t] : t \in Texts}
    IN  /\ NotApplicable # NeedsClarification
        /\ Empty \notin Markers
        /\ Paths \intersect (Markers \union {Empty}) = {}

-------------------------------------------------------------------------------
\* What the policy reads of the user's request: it names a wf path, it hints at
\* some input (a variable, an array...), it speaks of a binary search.
Requests == [mentionsWf : BOOLEAN, hintsInput : BOOLEAN, binarySearch : BOOLEAN]

\* A normalised context is the set of the paths of its values: it has data
\* exactly when the set is not empty.
Contexts == SUBSET ContextPaths

Targets == {"none", "goal", "return_value", "input_path"}

Questions == {"goal?", "return value?", "binary search return value?", "input path?"}

\* What the spec agent extracts from the request.
RawSpecs == [goal : Texts, return_value : Texts, input_path : Texts]

\* NormalizedSpec, without the fields that only reach prompts.
NormalizedSpecs ==
    [goal : Texts, return_value : Texts, input_path : Texts,
     spec_parse_failed : BOOLEAN,
     clarification_target : Targets,
     clarification_question : Questions \union {None}]

HistoryEntries == [question : Questions, answer : Texts, target : Targets]

-------------------------------------------------------------------------------
(***************************************************************************)
(* _merge_clarification_history                                            *)
(***************************************************************************)

\* The answer to "which path?" is a path, or says there is none, or fills the
\* gap as it stands.
MergePathAnswer(path, answer) ==
    IF CanonicalPath[answer] # None THEN CanonicalPath[answer]
    ELSE IF answer \in NoInputAnswers THEN NotApplicable
    ELSE IF path \in {Empty, NeedsClarification} THEN answer
    ELSE path

\* One answer fills the field it was asked for, unless the spec agent already
\* said something meaningful there.  A blank answer is skipped.
MergeEntry(raw, entry) ==
    IF entry.answer = Empty THEN raw
    ELSE CASE entry.target = "goal" /\ raw.goal \in GenericGoals
                -> [raw EXCEPT !.goal = entry.answer]
           [] entry.target = "return_value" /\ raw.return_value \in GenericReturns
                -> [raw EXCEPT !.return_value = entry.answer]
           [] entry.target = "input_path"
                -> [raw EXCEPT !.input_path = MergePathAnswer(@, entry.answer)]
           [] OTHER -> raw

\* Mutant: only the last answer is merged.
MergeLastAnswer(raw, history) ==
    IF history = <<>> THEN raw ELSE MergeEntry(raw, Last(history))

MergeHistory(raw, history) == FoldLeft(MergeEntry, raw, history)

\* The answers given to the question for the input path.
PathAnswers(history) ==
    {e.answer : e \in {x \in ToSet(history) : x.target = "input_path"}}

-------------------------------------------------------------------------------
\* resolve_input_path: a path written out wins; otherwise the context is
\* searched for one, and candidate is what that search comes up with.
ResolveInputPath(path, candidate) ==
    IF CanonicalPath[path] # None THEN CanonicalPath[path] ELSE candidate

\* The search scores the paths of the context against the words of the request
\* and of the specification; it can end with any of them, or with none.
Candidates(context) == context \union {None}

NeedsContextualInput(request, context, path) ==
    \/ CanonicalPath[path] # None
    \/ context = {} /\ request.mentionsWf
    \/ /\ context # {}
       /\ \/ path \notin {Empty, NotApplicable}
          \/ request.mentionsWf
          \/ request.hintsInput

\* The input path of the normalised specification (raw has the answers merged).
NormalizeInputPath(raw, request, context, history, candidate) ==
    LET resolved == ResolveInputPath(raw.input_path, candidate)
        needed   == NeedsContextualInput(request, context, raw.input_path)
        answers  == PathAnswers(history) \ {Empty}
    IN  IF resolved # None THEN resolved
        ELSE IF answers \intersect NoInputAnswers # {} /\ ~needed THEN NotApplicable
        ELSE IF answers # {}
             THEN IF raw.input_path = Empty THEN NotApplicable ELSE raw.input_path
        ELSE IF needed THEN NeedsClarification ELSE NotApplicable

\* The one blocker reported: goal before return value before input path.
Blocker(goal, return_value, input_path) ==
    IF goal \in GenericGoals THEN "goal"
    ELSE IF return_value \in GenericReturns THEN "return_value"
    ELSE IF input_path = NeedsClarification THEN "input_path"
    ELSE "none"

BuildQuestion(target, request, goal) ==
    CASE target = "none" -> None
      [] target = "goal" -> "goal?"
      [] target = "return_value" ->
           IF request.binarySearch \/ goal \in BinarySearchTexts
           THEN "binary search return value?" ELSE "return value?"
      [] target = "input_path" -> "input path?"

\* evaluate_spec.
EvaluateSpec(raw, parseFailed, request, context, history, candidate) ==
    LET merged == MergeHistory(raw, history)
        path   == NormalizeInputPath(merged, request, context, history, candidate)
        target == Blocker(merged.goal, merged.return_value, path)
    IN  [goal |-> merged.goal, return_value |-> merged.return_value,
         input_path |-> path,
         spec_parse_failed |-> parseFailed,
         clarification_target |-> target,
         clarification_question |-> BuildQuestion(target, request, merged.goal)]

\* load_spec_json: the clarifier evaluates the normalised specification again.
ReevaluateSpec(spec, request, context, history, candidate) ==
    EvaluateSpec([goal |-> spec.goal, return_value |-> spec.return_value,
                  input_path |-> spec.input_path],
                 spec.spec_parse_failed, request, context, history, candidate)

-------------------------------------------------------------------------------
Asked(history) == {e.question : e \in ToSet(history)}

\* Mutant: only the last question is compared.
QuestionWasJustAsked(question, history) ==
    history # <<>> /\ Last(history).question = question

QuestionWasAlreadyAsked(question, history) == question \in Asked(history)

\* build_clarifier_decision.
ClarifierDecision(spec, history) ==
    IF spec.clarification_target = "none" THEN "approved"
    ELSE IF QuestionWasAlreadyAsked(spec.clarification_question, history)
         THEN "blocked"
         ELSE "question"
==============================================================================
