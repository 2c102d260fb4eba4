-------------------------------- MODULE Once --------------------------------
(***************************************************************************)
(* What the game expects of pthread_once: the routine of a control word is *)
(* run once, and whoever has returned from pthread_once finds its work     *)
(* done.  OnceShim is shown to implement this for calls that do not        *)
(* overlap a running routine.                                              *)
(***************************************************************************)

CONSTANTS Threads, Controls

VARIABLES
  done,    \* the control words whose routine has come to its end
  passed   \* passed[t]: the control words thread t has returned with

OnceInit == done = {} /\ passed = [t \in Threads |-> {}]

RunRoutine(c) ==
  /\ c \notin done
  /\ done' = done \union {c}
  /\ UNCHANGED passed

Pass(t, c) ==
  /\ c \in done
  /\ passed' = [passed EXCEPT ![t] = @ \union {c}]
  /\ UNCHANGED done

OnceNext ==
  \E c \in Controls : RunRoutine(c) \/ \E t \in Threads : Pass(t, c)

OnceSpec == OnceInit /\ [][OnceNext]_<<done, passed>>
=============================================================================
