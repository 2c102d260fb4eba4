---------------------------- MODULE MCMutexShim ----------------------------
(* Model-checking instances of MutexShim.                                  *)
EXTENDS MutexShim, TLC

CONSTANTS t1, t2, t3, c1, c2, o1, o2, o3

TwoThreads == {t1, t2}
ThreeThreads == {t1, t2, t3}

(* Threads and host mutexes are interchangeable: no constant or action     *)
(* tells one from another.                                                 *)
RaceSymmetry == Permutations(ThreeThreads) \union Permutations({o1, o2, o3})
=============================================================================
