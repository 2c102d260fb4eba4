------------------------------ MODULE SemShim ------------------------------
(***************************************************************************)
(* The semaphore shim: sem_init_fake, sem_post_fake, sem_wait_fake,        *)
(* sem_trywait_fake and sem_destroy_fake (imports.c, lines 141-172), on    *)
(* one of the game's semaphores.                                           *)
(*                                                                         *)
(* sem_init_fake is bound to sem_init and leaves its last two arguments    *)
(* alone, so a semaphore starts at 0 whatever the game asks for.  The word *)
(* keeps the number of a kernel semaphore.  The kernel is external: it     *)
(* refuses a number that stands for nothing, a signal beyond the maximum,  *)
(* and, when a semaphore is deleted, those who wait for it.  POSIX has the *)
(* game not create or destroy a semaphore that another thread is using.    *)
(***************************************************************************)
EXTENDS Integers

CONSTANTS
  Threads,
  Wanted,     \* the values the game asks sem_init for
  Most,       \* the maximum given to sceKernelCreateSema
  MaxLives,   \* bound on how often the semaphore is created
  MaxPosts    \* bound on how often it is posted in a life

SemAssumption ==
  /\ Wanted \subseteq Nat /\ 0 \in Wanted
  /\ Most \in Nat \ {0} /\ MaxLives \in Nat /\ MaxPosts \in Nat

VARIABLES
  uid,      \* what the word stands for: "none", "live" or "deleted"
  count,    \* the value of the kernel semaphore
  waiting,  \* the threads asleep in sceKernelWaitSema
  ret,      \* what a thread's last call returned
  asked,    \* history: the value the game asked for
  posted,   \* history: successful posts since it was created
  taken,    \* history: successful waits since then
  lives     \* how often it was created

vars == <<uid, count, waiting, ret, asked, posted, taken, lives>>

Init ==
  /\ uid = "none"
  /\ count = 0
  /\ waiting = {}
  /\ ret = [t \in Threads |-> 0]
  /\ asked = 0
  /\ posted = 0 /\ taken = 0
  /\ lives = 0

Returns(t, r) == ret' = [ret EXCEPT ![t] = r]
Idle(t) == t \notin waiting

-----------------------------------------------------------------------------
(* sceKernelCreateSema with an initial value of 0, or an error.            *)
InitialCount(v) == 0

sem_init_fake(t) ==
  /\ uid # "live" /\ waiting = {} /\ lives < MaxLives
  /\ lives' = lives + 1
  /\ \/ \E v \in Wanted :
          /\ uid' = "live"
          /\ count' = InitialCount(v)
          /\ asked' = v
          /\ posted' = 0 /\ taken' = 0
          /\ Returns(t, 0)
     \/ /\ uid' = "none"
        /\ Returns(t, -1)
        /\ UNCHANGED <<count, asked, posted, taken>>
  /\ UNCHANGED waiting

sem_post_fake(t) ==
  /\ Idle(t) /\ posted < MaxPosts
  /\ IF uid = "live" /\ count < Most
     THEN count' = count + 1 /\ posted' = posted + 1 /\ Returns(t, 0)
     ELSE Returns(t, -1) /\ UNCHANGED <<count, posted>>
  /\ UNCHANGED <<uid, waiting, asked, taken, lives>>

(* sem_wait_fake: into the kernel, and out of it with a unit or an error.  *)
CallWait(t) ==
  /\ Idle(t)
  /\ waiting' = waiting \union {t}
  /\ UNCHANGED <<uid, count, ret, asked, posted, taken, lives>>

WaitTakes(t) ==
  /\ t \in waiting /\ uid = "live" /\ count > 0
  /\ count' = count - 1 /\ taken' = taken + 1
  /\ waiting' = waiting \ {t}
  /\ Returns(t, 0)
  /\ UNCHANGED <<uid, asked, posted, lives>>

(* Mutant: a thread waits on when its semaphore is deleted.                *)
WaitsOn(t) ==
  /\ t \in waiting /\ uid = "none"
  /\ waiting' = waiting \ {t}
  /\ Returns(t, -1)
  /\ UNCHANGED <<uid, count, asked, posted, taken, lives>>

WaitRefused(t) ==
  /\ t \in waiting /\ uid # "live"
  /\ waiting' = waiting \ {t}
  /\ Returns(t, -1)
  /\ UNCHANGED <<uid, count, asked, posted, taken, lives>>

(* Mutant: the kernel's error is taken for success.                        *)
TryWaitForgiven(t) ==
  /\ Idle(t)
  /\ IF uid = "live" /\ count > 0
     THEN count' = count - 1 /\ taken' = taken + 1 /\ Returns(t, 0)
     ELSE Returns(t, 0) /\ taken' = taken + 1 /\ UNCHANGED count
  /\ UNCHANGED <<uid, waiting, asked, posted, lives>>

(* sem_trywait_fake: a wait with a timeout of 0.                           *)
sem_trywait_fake(t) ==
  /\ Idle(t)
  /\ IF uid = "live" /\ count > 0
     THEN count' = count - 1 /\ taken' = taken + 1 /\ Returns(t, 0)
     ELSE Returns(t, -1) /\ UNCHANGED <<count, taken>>
  /\ UNCHANGED <<uid, waiting, asked, posted, lives>>

(* sceKernelDeleteSema; the word keeps the number.                         *)
sem_destroy_fake(t) ==
  /\ Idle(t)
  /\ IF uid = "live"
     THEN uid' = "deleted" /\ count' = 0 /\ Returns(t, 0)
     ELSE Returns(t, -1) /\ UNCHANGED <<uid, count>>
  /\ UNCHANGED <<waiting, asked, posted, taken, lives>>

Next ==
  \E t \in Threads :
    \/ sem_init_fake(t) \/ sem_post_fake(t)
    \/ CallWait(t) \/ WaitTakes(t) \/ WaitRefused(t)
    \/ sem_trywait_fake(t) \/ sem_destroy_fake(t)

Spec == Init /\ [][Next]_vars

(* The kernel serves the threads that wait, in the end each of them that   *)
(* again and again could be served.                                        *)
FairSpec ==
  Spec /\ \A t \in Threads : SF_vars(WaitTakes(t)) /\ WF_vars(WaitRefused(t))

-----------------------------------------------------------------------------
TypeOK ==
  /\ uid \in {"none", "live", "deleted"}
  /\ count \in 0 .. Most
  /\ waiting \subseteq Threads
  /\ ret \in [Threads -> {-1, 0}]
  /\ asked \in Wanted
  /\ posted \in Nat /\ taken \in Nat /\ lives \in Nat

(* Every wait that returned 0 was paid for by a post: no thread gets past  *)
(* the semaphore because it was destroyed, never created or full, and no   *)
(* unit is lost while it lives.                                            *)
NothingForNothing ==
  /\ taken <= posted
  /\ uid = "live" => count + taken = posted

(* Nobody is left asleep in a semaphore that is gone, and nobody is passed *)
(* over for ever by one that can be taken again and again.                 *)
WaitEnds ==
  \A t \in Threads :
    /\ t \in waiting /\ uid # "live" ~> t \notin waiting
    /\ []<>(t \in waiting /\ uid = "live" /\ count > 0) => []<>(t \notin waiting)

(* For semaphores the game creates with 0 the shim is a semaphore; others  *)
(* lack the units they should have started with.                           *)
Promise == INSTANCE Semaphore WITH
             Wanted <- {0}, Most <- Most,
             value <- count, taken <- IF uid = "live" THEN taken ELSE 0
ImplementsSemaphore == Promise!SemSpec
=============================================================================
