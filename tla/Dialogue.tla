------------------------------- MODULE Dialogue -------------------------------
(***************************************************************************)
(* The abstract specification of one session: what the code generation     *)
(* service promises its user.  Pipeline implements it; SessionBackend      *)
(* keeps it for every session it stores.                                   *)
(***************************************************************************)
EXTENDS DialogueTurns

VARIABLE dialogue

Init == dialogue = NewDialogue

\* One turn: the first request, or the answer to the pending question.
Turn ==
    /\ dialogue.phase \notin Terminal
    /\ dialogue' \in Successors(dialogue)

Next == Turn

\* A user who keeps answering, and a service that ends every turn.
Spec == Init /\ [][Next]_dialogue /\ WF_dialogue(Turn)
==============================================================================
