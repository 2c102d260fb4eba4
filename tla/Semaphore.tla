----------------------------- MODULE Semaphore -----------------------------
(***************************************************************************)
(* What the game expects of a semaphore: it is created with the value the  *)
(* game gives, posting adds one, and a thread gets past it only by taking  *)
(* one away.  SemShim implements this for semaphores created with 0.       *)
(***************************************************************************)
EXTENDS Naturals

CONSTANTS
  Wanted,  \* the values the game creates semaphores with
  Most     \* the largest value of a semaphore

VARIABLES
  value,  \* the value, 0 while there is no semaphore
  taken   \* how often a thread got past it since it was created

SemInit == value = 0 /\ taken = 0

Create(v) == value' = v /\ taken' = 0
Post == value < Most /\ value' = value + 1 /\ UNCHANGED taken
Take == value > 0 /\ value' = value - 1 /\ taken' = taken + 1
Destroy == value' = 0 /\ taken' = 0

SemNext == (\E v \in Wanted : Create(v)) \/ Post \/ Take \/ Destroy

SemSpec == SemInit /\ [][SemNext]_<<value, taken>>
=============================================================================
