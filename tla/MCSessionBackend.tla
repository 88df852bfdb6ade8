--------------------------- MODULE MCSessionBackend ---------------------------
EXTENDS SessionBackend, TLC

\* Requests are told apart by nothing but their identity, and so are questions.
BackendSymmetry == Permutations(Requests) \union Permutations(Questions)
===============================================================================
