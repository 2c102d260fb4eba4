----------------------------- MODULE MCCondShim -----------------------------
(* Model-checking instances of CondShim.                                   *)
EXTENDS CondShim, TLC

CONSTANTS w1, w2, p1, p2, o1, o2, o3

(* Host objects are interchangeable.                                       *)
ObjectSymmetry == Permutations({o1, o2, o3})
=============================================================================
