---------------------------- MODULE DialogueTurns ----------------------------
(***************************************************************************)
(* What one turn of a conversation with the LLM service may do to the      *)
(* session it is given, seen from outside: the vocabulary shared by the    *)
(* abstract specification (Dialogue), the backend that stores sessions     *)
(* (SessionBackend) and the pipeline that computes the turns (Pipeline).   *)
(***************************************************************************)
EXTENDS Sequences, SequencesExt

CONSTANT Questions   \* the clarification questions the service can ask

\* Phases of a session that the service answers without running anything.
Terminal == {"done", "error"}

\* Phases of a session as its clients see it: "new" has not been started.
Phases == {"new", "clarification_needed"} \union Terminal

\* A session: its phase and every question asked so far, in order.  In phase
\* "clarification_needed" the last one is waiting for its answer.
Dialogues == [phase : Phases, asked : Seq(Questions)]

NewDialogue == [phase |-> "new", asked |-> <<>>]

\* The questions session d has not been asked yet.
Unasked(d) == Questions \ ToSet(d.asked)

\* The sessions a turn can turn d into: one more question, never one that was
\* asked before, or an end.  An ended session does not change any more.
Successors(d) ==
    IF d.phase \in Terminal THEN {d}
    ELSE {[phase |-> "clarification_needed", asked |-> Append(d.asked, q)] :
             q \in Unasked(d)}
         \union {[phase |-> p, asked |-> d.asked] : p \in Terminal}
==============================================================================
