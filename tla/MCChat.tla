-------------------------------- MODULE MCChat --------------------------------
EXTENDS Chat, TLC

\* Requests, sessions and questions are told apart by nothing but their identity.
ChatSymmetry == Permutations(Requests) \union Permutations(Sessions)
                   \union Permutations(Questions)
===============================================================================
