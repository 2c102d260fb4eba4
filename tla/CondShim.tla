------------------------------ MODULE CondShim ------------------------------
(***************************************************************************)
(* The pthread condition variable shim of imports.c (lines 174-230).       *)
(*                                                                         *)
(* As with mutexes, the game's pthread_cond_t is one word in which the     *)
(* shim keeps a pointer to a condition variable of the host, created the   *)
(* first time anybody waits, signals or broadcasts.  A waiter holds the    *)
(* game's mutex while this happens; POSIX does not ask it of a signaller.  *)
(*                                                                         *)
(* The game is the textbook monitor: waiters sleep until a flag is set and *)
(* take it, posters set it and notify, inside or outside of the critical   *)
(* section (LockedNotify).  Its mutex is that of module Mutex, which       *)
(* MutexShim implements; a waiter holds it, so *mtx is a pointer already.  *)
(* The host's condition variable is external: a set of sleepers.           *)
(***************************************************************************)
EXTENDS Integers

CONSTANTS
  Waiters,       \* threads that wait for the flag
  Timed,         \* the waiters that use pthread_cond_timedwait
  Posters,       \* threads that set the flag
  Objects,       \* host condition variables the heap has room for
  Zero,          \* a word or a pointer that is 0
  NoThread,
  LockedNotify,  \* TRUE: posters notify inside the critical section
  MaxPosts,      \* bound on how often the flag is set
  MaxFails       \* bound on failed allocations

Threads == Waiters \union Posters

ASSUME CondAssumption ==
  /\ Timed \subseteq Waiters
  /\ Waiters \intersect Posters = {}
  /\ NoThread \notin Threads
  /\ Zero \notin Objects
  /\ LockedNotify \in BOOLEAN
  /\ MaxPosts \in Nat /\ MaxFails \in Nat

VARIABLES
  word,      \* what the game's pthread_cond_t contains (*cnd)
  live,      \* host condition variables allocated and not freed
  sleepers,  \* sleepers[o]: the threads asleep in host variable o
  mutex,     \* who holds the game's mutex
  flag,      \* what the waiters wait for
  pc,        \* where a thread is
  op,        \* which entry point of the shim it is in
  c,         \* the pointer it works with (c, or *cnd once loaded)
  posts,     \* how often the flag has been set
  fails,     \* how many allocations have failed
  raced      \* history: two threads created the object at once

vars == <<word, live, sleepers, mutex, flag, pc, op, c, posts, fails, raced>>
host == <<live, sleepers>>
game == <<mutex, flag, posts>>

Init ==
  /\ word = Zero
  /\ live = {}
  /\ sleepers = [o \in Objects |-> {}]
  /\ mutex = NoThread
  /\ flag = FALSE
  /\ pc = [t \in Threads |-> "start"]
  /\ op = [t \in Threads |-> "none"]
  /\ c = [t \in Threads |-> Zero]
  /\ posts = 0 /\ fails = 0
  /\ raced = FALSE

Goto(t, at) == pc' = [pc EXCEPT ![t] = at]

InShim == {"test", "init", "publish", "load", "call"}

-----------------------------------------------------------------------------
(* The game.                                                               *)

Lock(t) ==
  /\ pc[t] = "start"
  /\ mutex = NoThread
  /\ mutex' = t
  /\ IF t \in Waiters
     THEN Goto(t, "check") /\ UNCHANGED posts
     ELSE /\ posts < MaxPosts
          /\ posts' = posts + 1
          /\ Goto(t, "set")
  /\ UNCHANGED <<word, host, flag, op, c, fails, raced>>

Take(t) ==
  /\ pc[t] = "check" /\ flag
  /\ flag' = FALSE
  /\ Goto(t, "leave")
  /\ UNCHANGED <<word, host, mutex, op, c, posts, fails, raced>>

Post(t) ==
  /\ pc[t] = "set"
  /\ flag' = TRUE
  /\ Goto(t, IF LockedNotify THEN "notify" ELSE "leave")
  /\ UNCHANGED <<word, host, mutex, op, c, posts, fails, raced>>

Leave(t) ==
  /\ pc[t] = "leave"
  /\ mutex' = NoThread
  /\ Goto(t, IF t \in Posters /\ ~LockedNotify THEN "notify" ELSE "start")
  /\ UNCHANGED <<word, host, flag, op, c, posts, fails, raced>>

Enter(t, entry, at) ==
  /\ \A u \in Threads : op[u] # "init"
  /\ op' = [op EXCEPT ![t] = entry]
  /\ Goto(t, at)
  /\ UNCHANGED <<word, host, game, c, fails, raced>>

CallWait(t) ==
  /\ pc[t] = "check" /\ ~flag
  /\ Enter(t, "wait", "test")

CallNotify(t) ==
  /\ pc[t] = "notify"
  /\ \E entry \in {"signal", "broadcast"} : Enter(t, entry, "test")

(* POSIX: init and destroy do not overlap another use of the variable.     *)
Unused == \A t \in Threads : pc[t] \notin InShim \union {"asleep", "relock"}

(* A game that calls init does so before the flag is ever set.             *)
CallInit(t) ==
  /\ pc[t] = "start"
  /\ posts = 0
  /\ Unused
  /\ word = Zero
  /\ Enter(t, "init", "init")

-----------------------------------------------------------------------------
(* The shim.                                                               *)

(* Where a thread is when the entry point it called returns.               *)
After(t) ==
  CASE op[t] = "wait" -> "check"
    [] op[t] = "init" -> "start"
    [] OTHER -> IF LockedNotify THEN "leave" ELSE "start"

Return(t) ==
  /\ Goto(t, After(t))
  /\ op' = [op EXCEPT ![t] = "none"]
  /\ c' = [c EXCEPT ![t] = Zero]

(* Mutant: the test is inverted, a word in use is created anew.            *)
SeesNullInverted(t) ==
  /\ pc[t] = "test"
  /\ Goto(t, "init")
  /\ raced' = (raced \/ \E u \in Threads : pc[u] \in {"init", "publish"})
  /\ UNCHANGED <<word, host, game, op, c, fails>>

(* The test of !*cnd: imports.c:192, 200, 217 and 225.                     *)
SeesNull(t) ==
  /\ pc[t] = "test"
  /\ word = Zero
  /\ Goto(t, "init")
  /\ raced' = (raced \/ \E u \in Threads : pc[u] \in {"init", "publish"})
  /\ UNCHANGED <<word, host, game, op, c, fails>>

SeesObject(t) ==
  /\ pc[t] = "test"
  /\ word # Zero
  /\ Goto(t, "load")
  /\ c' = [c EXCEPT ![t] = word]
  /\ UNCHANGED <<word, host, game, op, fails, raced>>

(* calloc fails: every entry point returns -1, a waiter with the mutex.    *)
CallocFails(t) ==
  /\ pc[t] = "init"
  /\ \/ Objects \subseteq live /\ UNCHANGED fails
     \/ fails < MaxFails /\ fails' = fails + 1
  /\ Return(t)
  /\ UNCHANGED <<word, host, game, raced>>

(* imports.c:175-180.  The host's initialisation of a condition variable   *)
(* is taken to succeed.                                                    *)
MakeObject(t) ==
  /\ pc[t] = "init"
  /\ \E o \in Objects \ live :
       /\ live' = live \union {o}
       /\ c' = [c EXCEPT ![t] = o]
  /\ Goto(t, "publish")
  /\ UNCHANGED <<word, sleepers, game, op, fails, raced>>

(* imports.c:186: *cnd = c.                                                *)
Publish(t) ==
  /\ pc[t] = "publish"
  /\ word' = c[t]
  /\ IF op[t] = "init"
     THEN Return(t)
     ELSE Goto(t, "load") /\ UNCHANGED <<op, c>>
  /\ UNCHANGED <<host, game, fails, raced>>

(* Mutant: the mutex is given up before the call goes to sleep.            *)
LoadUnlocks(t) ==
  /\ pc[t] = "load"
  /\ \E o \in {c[t], word} : c' = [c EXCEPT ![t] = o]
  /\ Goto(t, "call")
  /\ mutex' = IF op[t] = "wait" THEN NoThread ELSE mutex
  /\ UNCHANGED <<word, host, flag, posts, op, fails, raced>>

(* The argument *cnd of the host call, loaded again or kept.               *)
Load(t) ==
  /\ pc[t] = "load"
  /\ \E o \in {c[t], word} : c' = [c EXCEPT ![t] = o]
  /\ Goto(t, "call")
  /\ UNCHANGED <<word, host, game, op, fails, raced>>

(* The host's pthread_cond_wait or timedwait: unlock and sleep at once.    *)
HostWait(t) ==
  /\ pc[t] = "call" /\ op[t] = "wait"
  /\ sleepers' = [sleepers EXCEPT ![c[t]] = @ \union {t}]
  /\ mutex' = NoThread
  /\ Goto(t, "asleep")
  /\ UNCHANGED <<word, live, flag, op, c, posts, fails, raced>>

(* Mutant: the call of the host is missing.                                *)
NotifySkipped(t) ==
  /\ pc[t] = "call" /\ op[t] \in {"signal", "broadcast"}
  /\ Return(t)
  /\ UNCHANGED <<word, host, game, fails, raced>>

(* The host's pthread_cond_signal or broadcast, and who it wakes up.       *)
HostNotify(t) ==
  /\ pc[t] = "call" /\ op[t] \in {"signal", "broadcast"}
  /\ \E awake \in SUBSET sleepers[c[t]] :
       /\ IF op[t] = "broadcast"
          THEN awake = sleepers[c[t]]
          ELSE /\ sleepers[c[t]] # {} => awake # {}
               /\ \A u, v \in awake : u = v
       /\ sleepers' = [sleepers EXCEPT ![c[t]] = @ \ awake]
       /\ pc' = [u \in Threads |-> IF u \in awake THEN "relock"
                                   ELSE IF u = t THEN After(t) ELSE pc[u]]
  /\ op' = [op EXCEPT ![t] = "none"]
  /\ c' = [c EXCEPT ![t] = Zero]
  /\ UNCHANGED <<word, live, game, fails, raced>>

Timeout(t) ==
  /\ pc[t] = "asleep" /\ t \in Timed
  /\ sleepers' = [sleepers EXCEPT ![c[t]] = @ \ {t}]
  /\ Goto(t, "relock")
  /\ UNCHANGED <<word, live, game, op, c, fails, raced>>

(* Mutant: the wait returns without the mutex.                             *)
RelockSkipped(t) ==
  /\ pc[t] = "relock"
  /\ Return(t)
  /\ UNCHANGED <<word, host, game, fails, raced>>

(* The host locks the mutex again before the wait returns.                 *)
Relock(t) ==
  /\ pc[t] = "relock"
  /\ mutex = NoThread
  /\ mutex' = t
  /\ Return(t)
  /\ UNCHANGED <<word, host, flag, posts, fails, raced>>

(* imports.c:207-214.                                                      *)
Destroy(t) ==
  /\ pc[t] = "start"
  /\ Unused
  /\ word # Zero
  /\ live' = live \ {word}
  /\ word' = Zero
  /\ raced' = FALSE
  /\ UNCHANGED <<sleepers, game, pc, op, c, fails>>

-----------------------------------------------------------------------------
Game(t) ==
  \/ Lock(t) \/ Take(t) \/ Post(t) \/ Leave(t)
  \/ CallWait(t) \/ CallNotify(t)

Shim(t) ==
  \/ SeesNull(t) \/ SeesObject(t)
  \/ CallocFails(t) \/ MakeObject(t) \/ Publish(t)
  \/ Load(t) \/ HostWait(t) \/ HostNotify(t) \/ Relock(t)

Next ==
  \E t \in Threads :
    Game(t) \/ CallInit(t) \/ Destroy(t) \/ Shim(t) \/ Timeout(t)

Spec == Init /\ [][Next]_vars

(* Every thread that can run does; nothing obliges a timeout to strike, or *)
(* the game to call init or destroy.                                       *)
FairSpec == Spec /\ \A t \in Threads : WF_vars(Game(t) \/ Shim(t))

-----------------------------------------------------------------------------
TypeOK ==
  /\ word \in Objects \union {Zero}
  /\ live \subseteq Objects
  /\ sleepers \in [Objects -> SUBSET Waiters]
  /\ mutex \in Threads \union {NoThread}
  /\ flag \in BOOLEAN
  /\ pc \in [Threads -> InShim \union {"start", "check", "set", "notify",
                                       "leave", "asleep", "relock"}]
  /\ op \in [Threads -> {"none", "wait", "signal", "broadcast", "init"}]
  /\ c \in [Threads -> Objects \union {Zero}]
  /\ posts \in 0..MaxPosts
  /\ fails \in 0..MaxFails
  /\ raced \in BOOLEAN

(* A thread sleeps where a later signal through the word will find it,     *)
(* unless two threads created the variable at once in pthread_cond_wait    *)
(* and pthread_cond_signal.                                                *)
SleepersReachable ==
  ~raced => \A o \in Objects : sleepers[o] # {} => o = word

GoingToNotify(t) ==
  \/ pc[t] = "notify"
  \/ pc[t] = "leave" /\ ~LockedNotify
  \/ op[t] \in {"signal", "broadcast"}

(* Nobody sleeps through a post: while the flag is set and a waiter is     *)
(* asleep, a notification is on its way to it, or another waiter is up and *)
(* about to look at the flag.                                              *)
NoLostWakeup ==
  flag /\ (\E t \in Waiters : pc[t] = "asleep") /\ ~raced =>
    \/ \E t \in Posters : GoingToNotify(t)
    \/ \E t \in Waiters : pc[t] \in {"relock", "check"}

(* Notifying inside the critical section leaves no room for the race, not  *)
(* even on the first use of the variable.                                  *)
LockedNotifyIsSafe == LockedNotify => ~raced

(* Every post is taken: a waiter that slept gets up for it.                *)
PostTaken == flag ~> ~flag

-----------------------------------------------------------------------------
(* The inductive strengthening of the safety properties.                   *)

Inside(t) == pc[t] \in InShim \union {"asleep", "relock"}

CallState ==
  \A t \in Threads :
    /\ Inside(t) <=> op[t] # "none"
    /\ op[t] = "wait" => t \in Waiters
    /\ op[t] \in {"signal", "broadcast"} => t \in Posters
    /\ pc[t] \in {"asleep", "relock"} => op[t] = "wait"
    /\ pc[t] \in {"set", "notify"} => t \in Posters
    /\ pc[t] = "check" => t \in Waiters
    /\ op[t] = "init" =>
         /\ pc[t] \in {"init", "publish"}
         /\ word = Zero
         /\ \A u \in Threads \ {t} : ~Inside(u)

Pointers ==
  /\ word # Zero => word \in live
  /\ \A t \in Threads :
       /\ pc[t] \in {"publish", "load", "call", "asleep"} => c[t] \in live
       /\ pc[t] \in {"load", "call", "asleep"} => word # Zero
  /\ \A o \in Objects, t \in Waiters :
       t \in sleepers[o] <=> pc[t] = "asleep" /\ c[t] = o

(* Without a race there is one creator at most, and one pointer.           *)
OnePointer ==
  ~raced => \A t \in Threads :
    /\ pc[t] \in {"load", "call", "asleep"} => c[t] = word
    /\ pc[t] \in {"init", "publish"} =>
         /\ word = Zero
         /\ \A u \in Threads : pc[u] \in {"init", "publish"} => u = t

(* The game's critical sections.                                           *)
Holds(t) ==
  \/ pc[t] \in {"check", "set"}
  \/ pc[t] \in InShim /\ op[t] = "wait"
  \/ pc[t] = "leave"
  \/ LockedNotify /\ (pc[t] = "notify" \/ op[t] \in {"signal", "broadcast"})

Monitor ==
  \A t \in Threads :
    /\ Holds(t) => mutex = t
    /\ pc[t] \in InShim /\ op[t] = "wait" => ~flag

IInv ==
  /\ TypeOK
  /\ CallState
  /\ Pointers
  /\ OnePointer
  /\ Monitor
  /\ NoLostWakeup
  /\ LockedNotifyIsSafe
=============================================================================
