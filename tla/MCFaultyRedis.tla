----------------------------- MODULE MCFaultyRedis -----------------------------
EXTENDS FaultyRedis, TLC

FaultySymmetry == Permutations(Requests) \union Permutations(Questions)
===============================================================================
