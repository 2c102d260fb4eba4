------------------------------- MODULE Mutex -------------------------------
(***************************************************************************)
(* What the game expects of its mutexes: at most one thread holds a cell   *)
(* (a pthread_mutex_t word in the game's memory), a thread holds at most   *)
(* one cell at a time, and only its holder gives a cell back.              *)
(*                                                                         *)
(* MutexShim is shown to implement this specification when the first use   *)
(* of every cell is not contended.                                         *)
(***************************************************************************)

CONSTANTS
  Threads,   \* the game's threads
  Cells,     \* the pthread_mutex_t words the game owns
  NoCell     \* what a thread that holds nothing holds

VARIABLE held  \* held[t] is the cell t holds, or NoCell

MutexInit == held = [t \in Threads |-> NoCell]

Acquire(t, c) ==
  /\ held[t] = NoCell
  /\ \A u \in Threads : held[u] # c
  /\ held' = [held EXCEPT ![t] = c]

Release(t) ==
  /\ held[t] # NoCell
  /\ held' = [held EXCEPT ![t] = NoCell]

MutexNext ==
  \E t \in Threads : (\E c \in Cells : Acquire(t, c)) \/ Release(t)

MutexSpec == MutexInit /\ [][MutexNext]_held
=============================================================================
