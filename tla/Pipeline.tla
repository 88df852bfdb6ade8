------------------------------- MODULE Pipeline -------------------------------
(***************************************************************************)
(* The LLM service: the LangGraph state machine of services/llm/graph.py   *)
(* and the two RPCs of services/llm/main.py that start and resume it.      *)
(*                                                                         *)
(* The service keeps nothing between calls: every call brings the          *)
(* PipelineState of its session and returns the next one.  The module      *)
(* follows one session: while node is "idle", state is the PipelineState   *)
(* its caller holds; otherwise a run of the graph is at that node.         *)
(***************************************************************************)
EXTENDS SpecLogic, Integers

CONSTANTS
    MAX_REPAIRS,        \* generations allowed after the first one
    UserRequests,       \* requests the user may make (a subset of Requests)
    UserContexts,       \* contexts sent with them (a subset of Contexts)
    Answers,            \* answers the user may give (texts, Empty if blank)
    SpecAgentOutputs    \* specifications the spec agent may return

ASSUME PipelineAssumption ==
    /\ MAX_REPAIRS \in Nat
    /\ UserRequests \subseteq Requests
    /\ UserContexts \subseteq Contexts
    /\ Answers \subseteq Texts
    /\ SpecAgentOutputs \subseteq RawSpecs

VARIABLES
    request,    \* the session's request
    context,    \* the session's normalised context
    state,      \* the PipelineState
    base,       \* the PipelineState the current run was started with
    node,       \* the graph node to run next, or "idle"
    reply       \* how the last call ended

vars == <<request, context, state, base, node, reply>>

-------------------------------------------------------------------------------
Nodes == {"extract_context", "spec", "update_spec", "clarifier", "generate",
          "validate", "clarification_needed", "done", "error"}

Phases == {"", "running", "clarification_needed", "done", "error"}

\* Generated code: does the static checker accept it, does it run to its end?
Codes == [valid : BOOLEAN, runs : BOOLEAN]

\* Texts of errors; "" is an error text that is present and empty.
Errors == {"", "static validation failed", "checker unavailable", "stderr",
           "validator unavailable", "unknown error", "unresolved clarification",
           "exception", "diagnostics"}
Outputs == {"", "violations", "stdout"}

\* What str gives for an exception: some have no text.
ExceptionTexts == {"exception", ""}

\* PipelineState, without the identity of the session, its request and context.
States ==
    [phase : Phases,
     clarification_answer : Answers \union {None},
     clarification_question : Questions \union {None},
     clarification_history : Seq(HistoryEntries),
     is_ambiguous : BOOLEAN, clarifying : BOOLEAN, spec_approved : BOOLEAN,
     spec : NormalizedSpecs \union {None},
     code : Codes \union {None},
     generation_attempt : Nat,
     validation_success : BOOLEAN,
     validation_output : Outputs \union {None},
     validation_error : Errors \union {None},
     error : Errors \union {None}]

\* _make_initial_state.
InitialState ==
    [phase |-> "running",
     clarification_answer |-> None, clarification_question |-> None,
     clarification_history |-> <<>>,
     is_ambiguous |-> FALSE, clarifying |-> FALSE, spec_approved |-> FALSE,
     spec |-> None, code |-> None, generation_attempt |-> 0,
     validation_success |-> FALSE, validation_output |-> None,
     validation_error |-> None, error |-> None]

\* What the backend sends for a session it has no state of: no phase.
UnstartedState == [InitialState EXCEPT !.phase = ""]

Init ==
    /\ request \in UserRequests
    /\ context \in UserContexts
    /\ state = UnstartedState
    /\ base = UnstartedState
    /\ node = "idle"
    /\ reply = "none"

-------------------------------------------------------------------------------
\* Python's "x or y" on optional strings.
Present(text) == text \notin {None, ""}
Or(text, default) == IF Present(text) THEN text ELSE default

\* _state_to_response: an error that carries no message gets the diagnostics.
Response(s) ==
    IF /\ s.phase = "error" /\ ~Present(s.error)
       /\ Present(s.validation_error) \/ Present(s.validation_output)
    THEN [s EXCEPT !.error = "diagnostics"]
    ELSE s

\* The call returns s to its caller.
Return(s) ==
    /\ state' = Response(s)
    /\ base' = state'
    /\ node' = "idle"
    /\ reply' = "OK"
    /\ UNCHANGED <<request, context>>

\* The call starts a run of the graph on s.
Invoke(s) ==
    /\ state' = s
    /\ base' = s
    /\ node' = "extract_context"
    /\ reply' = "none"
    /\ UNCHANGED <<request, context>>

\* The call is turned away.
Refuse(code) ==
    /\ reply' = code
    /\ UNCHANGED <<request, context, state, base, node>>

\* The run goes on to node m with state s.
Step(m, s) ==
    /\ node' = m
    /\ state' = s
    /\ UNCHANGED <<request, context, base, reply>>

-------------------------------------------------------------------------------
(***************************************************************************)
(* The RPCs.                                                               *)
(***************************************************************************)

\* StartOrContinue: a call that brings no state, or one without a session id, is
\* invalid.  A state that carries some other phase would be run as it is; the
\* service returns no such state.
StartOrContinue ==
    /\ node = "idle"
    /\ \/ Refuse("INVALID_ARGUMENT")
       \/ /\ state.phase \in {"", "running"}
          /\ Invoke(IF state.phase = "" THEN InitialState ELSE state)
       \/ state.phase \in {"done", "error"} /\ Return(state)
       \/ state.phase = "clarification_needed" /\ Refuse("FAILED_PRECONDITION")

\* Mutant: the answered question is not added to the history.
ResumedForgetsQuestion(s, answer) ==
    [s EXCEPT !.clarification_answer = answer, !.clarifying = TRUE, !.phase = "running"]

\* _resume_with_clarification: the state a resumed run starts with.
Resumed(s, answer) ==
    [s EXCEPT !.clarification_history =
                  Append(@, [question |-> s.clarification_question,
                             answer   |-> answer,
                             target   |-> s.spec.clarification_target]),
              !.clarification_answer = answer,
              !.clarifying = TRUE,
              !.phase = "running"]

\* AnswerClarification, which may be invalid in the same way.
AnswerClarification(answer) ==
    /\ node = "idle"
    /\ \/ Refuse("INVALID_ARGUMENT")
       \/ state.phase = "clarification_needed" /\ Invoke(Resumed(state, answer))
       \/ state.phase # "clarification_needed" /\ Refuse("FAILED_PRECONDITION")

-------------------------------------------------------------------------------
(***************************************************************************)
(* The graph.                                                              *)
(***************************************************************************)

RouteEntry(s) == IF s.clarifying THEN "update_spec" ELSE "spec"

\* Mutant: only an ambiguous specification keeps the run from generating.
RouteAfterClarifierIgnoresErrors(s) ==
    IF s.is_ambiguous THEN "clarification_needed" ELSE "generate"

RouteAfterClarifier(s) ==
    IF s.phase = "error" \/ Present(s.error) THEN "error"
    ELSE IF s.is_ambiguous THEN "clarification_needed"
    ELSE "generate"

\* Mutant: one repair less than the budget.
RouteAfterValidateTooStrict(s) ==
    IF s.validation_success THEN "done"
    ELSE IF s.generation_attempt < MAX_REPAIRS THEN "generate"
    ELSE "error"

RouteAfterValidate(s) ==
    IF s.validation_success THEN "done"
    ELSE IF s.generation_attempt <= MAX_REPAIRS THEN "generate"
    ELSE "error"

\* extract_context_node: what it adds to the state only reaches prompts.
ExtractContext ==
    /\ node = "extract_context"
    /\ Step(RouteEntry(state), state)

\* _call_spec_agent followed by evaluate_spec.  An output that is not JSON
\* counts as an empty specification.
SpecAgentResults(history) ==
    LET Blank == [goal |-> Empty, return_value |-> Empty, input_path |-> Empty]
        Results(raw, failed) ==
            {EvaluateSpec(raw, failed, request, context, history, c) :
                c \in Candidates(context)}
    IN  Results(Blank, TRUE) \union UNION {Results(raw, FALSE) : raw \in SpecAgentOutputs}

SpecNode ==
    /\ node = "spec"
    /\ \E spec \in SpecAgentResults(state.clarification_history) :
           Step("clarifier", [state EXCEPT !.spec = spec])

\* Mutant: the answer is not marked as consumed.
UpdatedSpecKeepsAnswer(s, spec) == [s EXCEPT !.spec = spec]

\* update_spec_node, which also consumes the answer.
UpdatedSpec(s, spec) ==
    [s EXCEPT !.spec = spec, !.clarification_answer = None, !.clarifying = FALSE]

UpdateSpecNode ==
    /\ node = "update_spec"
    /\ \E spec \in SpecAgentResults(state.clarification_history) :
           Step("clarifier", UpdatedSpec(state, spec))

\* Mutant: the question stays in the specification, the state does not get it.
ClarifiedWithoutQuestion(s, spec) ==
    LET decision == ClarifierDecision(spec, s.clarification_history)
    IN  [s EXCEPT !.spec = spec,
                  !.is_ambiguous = decision = "question",
                  !.spec_approved = decision = "approved",
                  !.phase = IF decision = "blocked" THEN "error" ELSE @]

\* clarifier_node, on the specification evaluated once more.
Clarified(s, spec) ==
    LET decision == ClarifierDecision(spec, s.clarification_history)
        reviewed == [s EXCEPT
            !.spec = spec,
            !.is_ambiguous = decision = "question",
            !.clarification_question =
                IF decision = "question" THEN spec.clarification_question ELSE None,
            !.spec_approved = decision = "approved"]
    IN  IF decision = "blocked"
        THEN [reviewed EXCEPT !.phase = "error", !.error = "unresolved clarification"]
        ELSE reviewed

ClarifierNode ==
    /\ node = "clarifier"
    /\ \E c \in Candidates(context) :
           LET spec == ReevaluateSpec(state.spec, request, context,
                                      state.clarification_history, c)
               next == Clarified(state, spec)
           IN  Step(RouteAfterClarifier(next), next)

\* Mutant: a repair does not count as an attempt.
GenerateNodeDoesNotCount ==
    /\ node = "generate"
    /\ \E code \in Codes :
           Step("validate",
                [state EXCEPT !.code = code,
                              !.generation_attempt = IF @ = 0 THEN 1 ELSE @])

\* generate_node: the model answers with some code.
GenerateNode ==
    /\ node = "generate"
    /\ \E code \in Codes :
           Step("validate", [state EXCEPT !.code = code, !.generation_attempt = @ + 1])

Verdict(success, output, error) ==
    [success |-> success, output |-> output, error |-> error]

\* The static checker's verdict on code, when it is not the end of the matter:
\* the checker refuses it, or cannot be reached.
CheckerFailures(code) ==
    {Verdict(FALSE, "", "checker unavailable")}
    \union (IF code.valid THEN {} ELSE {Verdict(FALSE, "violations", "static validation failed")})

\* The validator's verdict on code the checker accepted.  A Lua runtime error
\* is reported on stdout, a syntax error or a timeout in the error text.
ValidatorVerdicts(code) ==
    {Verdict(FALSE, "", "validator unavailable")}
    \union (IF code.runs THEN {Verdict(TRUE, "stdout", "")}
            ELSE {Verdict(FALSE, "stdout", ""), Verdict(FALSE, "", "stderr")})

\* Mutant: the checker's complaints do not keep the code from running.
VerdictsWithoutEarlyReturn(code) == CheckerFailures(code) \union ValidatorVerdicts(code)

Verdicts(code) ==
    CheckerFailures(code) \union (IF code.valid THEN ValidatorVerdicts(code) ELSE {})

\* validate_node.
ValidateNode ==
    /\ node = "validate"
    /\ \E v \in Verdicts(state.code) :
           LET next == [state EXCEPT !.validation_success = v.success,
                                     !.validation_output = v.output,
                                     !.validation_error = v.error]
           IN  Step(RouteAfterValidate(next), next)

\* The terminal nodes, after which the RPC returns.
ClarificationNeededNode ==
    /\ node = "clarification_needed"
    /\ Return([state EXCEPT !.phase = "clarification_needed"])

DoneNode ==
    /\ node = "done"
    /\ Return([state EXCEPT !.phase = "done"])

\* error_node.
ErrorNode ==
    /\ node = "error"
    /\ Return([state EXCEPT !.phase = "error",
                            !.error = Or(state.validation_error,
                                         Or(state.error, "unknown error"))])

\* The language model cannot be reached, or answers with JSON that is no
\* object: the run is abandoned and its changes are lost.
RunFails ==
    /\ node \in {"spec", "update_spec", "generate"}
    /\ \E text \in ExceptionTexts :
           Return([base EXCEPT !.phase = "error", !.error = text])

-------------------------------------------------------------------------------
RunStep ==
    \/ ExtractContext
    \/ SpecNode
    \/ UpdateSpecNode
    \/ ClarifierNode
    \/ GenerateNode
    \/ ValidateNode
    \/ ClarificationNeededNode
    \/ DoneNode
    \/ ErrorNode
    \/ RunFails

UserAnswers == \E answer \in Answers : AnswerClarification(answer)

Next == StartOrContinue \/ UserAnswers \/ RunStep

\* A run that was started goes on: the model, the checker and the validator
\* answer or fail.
Fairness == WF_vars(RunStep)

Spec == Init /\ [][Next]_vars /\ Fairness

\* A user who starts the session and answers whatever the service asks, in valid
\* calls.
Cooperates ==
    /\ \/ StartOrContinue /\ state.phase = ""
       \/ UserAnswers /\ state.phase = "clarification_needed"
    /\ reply' # "INVALID_ARGUMENT"
CooperativeSpec == Spec /\ WF_vars(Cooperates)

-------------------------------------------------------------------------------
(***************************************************************************)
(* Properties.                                                             *)
(***************************************************************************)

TypeOK ==
    /\ request \in UserRequests
    /\ context \in UserContexts
    /\ state \in States
    /\ base \in States
    /\ node \in Nodes \union {"idle"}
    /\ reply \in {"none", "OK", "FAILED_PRECONDITION", "INVALID_ARGUMENT"}

History == state.clarification_history
AskedQuestions == [i \in DOMAIN History |-> History[i].question]

\* The question put to the user, if there is one.
Pending ==
    IF \/ node = "clarification_needed"
       \/ node = "idle" /\ state.phase = "clarification_needed"
    THEN <<state.clarification_question>> ELSE <<>>

\* No question is put to the user twice in a session, whatever the spec agent
\* extracts after each answer and in whatever order the blockers appear
\* (README "No repeated questions", _question_was_already_asked).
QuestionsNeverRepeat == IsInjective(AskedQuestions \o Pending)

\* Code handed out as done was accepted by the static checker and ran to its
\* end: no earlier verdict, outage or exhausted repair budget lets other code
\* through (validate_node, route_after_validate).
DoneCodePassedBothStages ==
    node = "idle" /\ state.phase = "done" => state.code.valid /\ state.code.runs

\* A session that waits for an answer can be resumed: it carries the question
\* its specification is blocked on, nothing of an earlier answer that a resumed
\* run would take for its own, and neither code nor error nor spent attempts
\* (update_spec_node "consumed", _resume_with_clarification).
WaitingStateIsResumable ==
    node = "idle" /\ state.phase = "clarification_needed" =>
        /\ state.spec.clarification_target # "none"
        /\ state.clarification_question = state.spec.clarification_question
        /\ state.clarification_answer = None /\ ~state.clarifying
        /\ state.code = None /\ state.generation_attempt = 0
        /\ state.error = None /\ ~state.spec_approved

\* Code is only ever generated from an approved specification, one that has a
\* goal, a return value and a settled input path (clarifier_node before
\* generate_node, on the first run and on every resumed one).
CodeComesFromApprovedSpec ==
    node = "generate" \/ state.code # None =>
        /\ state.spec_approved
        /\ state.spec.goal \notin GenericGoals
        /\ state.spec.return_value \notin GenericReturns
        /\ state.spec.input_path # NeedsClarification

\* The run gives up on an approved specification.
GivesUpOnCode ==
    /\ node # "idle" /\ state.spec_approved
    /\ node' = "idle" /\ state'.phase = "error"

SpendsTheBudget ==
    /\ state'.generation_attempt <= MAX_REPAIRS + 1
    /\ GivesUpOnCode =>
           \/ node = "error" /\ state'.generation_attempt = MAX_REPAIRS + 1
           \/ node = "generate" /\ state'.error \in ExceptionTexts

\* No session has more generations than the first one and MAX_REPAIRS repairs, and
\* a run gives up on an approved specification for one of two reasons only: its
\* attempts are spent, or the call of the language model failed, whose error is
\* then the session's (route_after_validate, error_node, the except clauses of
\* main.py).
RepairBudgetIsExact == [][SpendsTheBudget]_vars

\* Does the answer of entry e settle the blocker it was asked about?
Settles(e) ==
    CASE e.target = "goal" -> e.answer \notin GenericGoals
      [] e.target = "return_value" -> e.answer \notin GenericReturns
      [] e.target = "input_path" -> e.answer \notin {Empty, NeedsClarification}
      [] OTHER -> FALSE

\* The specification has been evaluated with every answer given so far.
SpecIsCurrent ==
    /\ state.spec # None
    /\ node \notin {"extract_context", "spec", "update_spec"}
    /\ state.error \notin ExceptionTexts

\* An answer that settled a blocker keeps it settled for the rest of the
\* session, whatever the spec agent extracts afterwards: the specification is
\* never blocked on it again (_merge_clarification_history over the whole
\* history, on every run).
SettledBlockersStaySettled ==
    SpecIsCurrent =>
        \A e \in ToSet(History) :
            Settles(e) => state.spec.clarification_target # e.target

\* Every call ends (the repair loop is bounded).
RunTerminates == node # "idle" ~> node = "idle"

-------------------------------------------------------------------------------
\* The session as its user sees it: while a run is under way, as it was when
\* the run was started.
SessionView ==
    IF node # "idle"
    THEN [phase |-> IF base.clarification_history = <<>>
                    THEN "new" ELSE "clarification_needed",
          asked |-> AskedQuestions]
    ELSE [phase |-> IF state.phase = "" THEN "new" ELSE state.phase,
          asked |-> AskedQuestions \o Pending]

D == INSTANCE Dialogue WITH dialogue <- SessionView

\* The pipeline keeps the promise of Dialogue: a call is one turn, a turn asks
\* a new question or ends the session, an ended session stays as it is, and
\* with a user who answers every session ends.
ImplementsDialogue == D!Spec
===============================================================================
