----------------------------- MODULE MCAlHooks -----------------------------
(* The OpenAL hooks for TLC: sources and buffers are interchangeable.      *)
EXTENDS AlHooks, TLC

CONSTANTS t1, t2, s1, s2, b1, b2, b3

AlSymmetry == Permutations(Sources) \union Permutations(Buffers)
=============================================================================
