--------------------------- MODULE CondShimProofs ---------------------------
(***************************************************************************)
(* Proofs about the condition variable shim, for any number of waiters,    *)
(* posters and host objects.  The argument runs over IInv: without a race  *)
(* everybody works with the pointer in the word (OnePointer), so whoever   *)
(* notifies finds the sleepers, and a waiter that goes to sleep has looked *)
(* at the flag under the mutex that guards it (Monitor).                   *)
(***************************************************************************)
EXTENDS CondShim, TLAPS

(* Nobody is in the shim and nothing is allocated.                         *)
LEMMA InitEstablishes == Init => IInv
<1> SUFFICES ASSUME Init PROVE IInv
  OBVIOUS
<1> USE CondAssumption DEF Init, Threads, InShim
<1>1. TypeOK
  <2>1. sleepers \in [Objects -> SUBSET Waiters]
    OBVIOUS
  <2>2. posts \in 0..MaxPosts /\ fails \in 0..MaxFails
    OBVIOUS
  <2> QED
    BY <2>1, <2>2 DEF TypeOK
<1>2. CallState
  BY DEF CallState, Inside
<1>3. Pointers /\ OnePointer /\ Monitor
  BY DEF Pointers, OnePointer, Monitor, Holds
<1>4. NoLostWakeup /\ LockedNotifyIsSafe
  BY DEF NoLostWakeup, LockedNotifyIsSafe
<1> QED
  BY <1>1, <1>2, <1>3, <1>4 DEF IInv

(* Every step of the game, of the shim and of the host keeps IInv.         *)
LEMMA InductiveStep == IInv /\ [Next]_vars => IInv'
<1> SUFFICES ASSUME IInv, [Next]_vars PROVE IInv'
  OBVIOUS
<1> USE CondAssumption DEF IInv, TypeOK, CallState, Inside, InShim, Threads
<1>1. ASSUME NEW t \in Threads, Lock(t) PROVE IInv'
  <2>1. TypeOK' /\ CallState'
    BY <1>1 DEF Lock, Goto, host, Pointers
  <2>2. Pointers'
    BY <1>1 DEF Lock, Goto, host, Pointers
  <2>3. OnePointer' /\ LockedNotifyIsSafe'
    BY <1>1 DEF Lock, Goto, host, Pointers, OnePointer, LockedNotifyIsSafe,
         Monitor, Holds
  <2>4. Monitor'
    BY <1>1 DEF Lock, Goto, host, Monitor, Holds
  <2>5. NoLostWakeup'
    BY <1>1 DEF Lock, Goto, host, NoLostWakeup, GoingToNotify, Monitor,
         Holds, Pointers, OnePointer
  <2> QED
    BY <2>1, <2>2, <2>3, <2>4, <2>5
<1>2. ASSUME NEW t \in Threads, Take(t) PROVE IInv'
  <2>1. TypeOK' /\ CallState'
    BY <1>2 DEF Take, Goto, host, Pointers
  <2>2. Pointers'
    BY <1>2 DEF Take, Goto, host, Pointers
  <2>3. OnePointer' /\ LockedNotifyIsSafe'
    BY <1>2 DEF Take, Goto, host, Pointers, OnePointer, LockedNotifyIsSafe,
         Monitor, Holds
  <2>4. Monitor'
    BY <1>2 DEF Take, Goto, host, Monitor, Holds
  <2>5. NoLostWakeup'
    BY <1>2 DEF Take, Goto, host, NoLostWakeup, GoingToNotify, Monitor,
         Holds, Pointers, OnePointer
  <2> QED
    BY <2>1, <2>2, <2>3, <2>4, <2>5
<1>3. ASSUME NEW t \in Threads, Post(t) PROVE IInv'
  <2>1. TypeOK' /\ CallState'
    BY <1>3 DEF Post, Goto, host, Pointers
  <2>2. Pointers'
    BY <1>3 DEF Post, Goto, host, Pointers
  <2>3. OnePointer' /\ LockedNotifyIsSafe'
    BY <1>3 DEF Post, Goto, host, Pointers, OnePointer, LockedNotifyIsSafe,
         Monitor, Holds
  <2>4. Monitor'
    BY <1>3 DEF Post, Goto, host, Monitor, Holds
  <2>5. NoLostWakeup'
    BY <1>3 DEF Post, Goto, host, NoLostWakeup, GoingToNotify, Monitor,
         Holds, Pointers, OnePointer
  <2> QED
    BY <2>1, <2>2, <2>3, <2>4, <2>5
<1>4. ASSUME NEW t \in Threads, Leave(t) PROVE IInv'
  <2>1. TypeOK' /\ CallState'
    BY <1>4 DEF Leave, Goto, host, Pointers
  <2>2. Pointers'
    BY <1>4 DEF Leave, Goto, host, Pointers
  <2>3. OnePointer' /\ LockedNotifyIsSafe'
    BY <1>4 DEF Leave, Goto, host, Pointers, OnePointer,
         LockedNotifyIsSafe, Monitor, Holds
  <2>4. Monitor'
    BY <1>4 DEF Leave, Goto, host, Monitor, Holds
  <2>5. NoLostWakeup'
    BY <1>4 DEF Leave, Goto, host, NoLostWakeup, GoingToNotify, Monitor,
         Holds, Pointers, OnePointer
  <2> QED
    BY <2>1, <2>2, <2>3, <2>4, <2>5
<1>5. ASSUME NEW t \in Threads, CallWait(t) PROVE IInv'
  <2>1. TypeOK' /\ CallState'
    BY <1>5 DEF CallWait, Enter, Goto, host, game, Pointers
  <2>2. Pointers'
    BY <1>5 DEF CallWait, Enter, Goto, host, game, Pointers
  <2>3. OnePointer' /\ LockedNotifyIsSafe'
    BY <1>5 DEF CallWait, Enter, Goto, host, game, Pointers, OnePointer,
         LockedNotifyIsSafe, Monitor, Holds
  <2>4. Monitor'
    BY <1>5 DEF CallWait, Enter, Goto, host, game, Monitor, Holds
  <2>5. NoLostWakeup'
    BY <1>5 DEF CallWait, Enter, Goto, host, game, NoLostWakeup,
         GoingToNotify, Monitor, Holds, Pointers, OnePointer
  <2> QED
    BY <2>1, <2>2, <2>3, <2>4, <2>5
<1>6. ASSUME NEW t \in Threads, CallNotify(t) PROVE IInv'
  <2>1. TypeOK' /\ CallState'
    BY <1>6 DEF CallNotify, Enter, Goto, host, game, Pointers
  <2>2. Pointers'
    BY <1>6 DEF CallNotify, Enter, Goto, host, game, Pointers
  <2>3. OnePointer' /\ LockedNotifyIsSafe'
    BY <1>6 DEF CallNotify, Enter, Goto, host, game, Pointers, OnePointer,
         LockedNotifyIsSafe, Monitor, Holds
  <2>4. Monitor'
    BY <1>6 DEF CallNotify, Enter, Goto, host, game, Monitor, Holds
  <2>5. NoLostWakeup'
    BY <1>6 DEF CallNotify, Enter, Goto, host, game, NoLostWakeup,
         GoingToNotify, Monitor, Holds, Pointers, OnePointer
  <2> QED
    BY <2>1, <2>2, <2>3, <2>4, <2>5
<1>7. ASSUME NEW t \in Threads, CallInit(t) PROVE IInv'
  <2>1. TypeOK' /\ CallState'
    BY <1>7 DEF CallInit, Enter, Goto, Unused, host, game, Pointers
  <2>2. Pointers'
    BY <1>7 DEF CallInit, Enter, Goto, Unused, host, game, Pointers
  <2>3. OnePointer' /\ LockedNotifyIsSafe'
    BY <1>7 DEF CallInit, Enter, Goto, Unused, host, game, Pointers,
         OnePointer, LockedNotifyIsSafe, Monitor, Holds
  <2>4. Monitor'
    BY <1>7 DEF CallInit, Enter, Goto, Unused, host, game, Monitor, Holds
  <2>5. NoLostWakeup'
    BY <1>7 DEF CallInit, Enter, Goto, Unused, host, game, NoLostWakeup,
         GoingToNotify, Monitor, Holds, Pointers, OnePointer
  <2> QED
    BY <2>1, <2>2, <2>3, <2>4, <2>5
<1>8. ASSUME NEW t \in Threads, Destroy(t) PROVE IInv'
  <2>1. TypeOK' /\ CallState'
    BY <1>8 DEF Destroy, Unused, game, Pointers
  <2>2. Pointers'
    BY <1>8 DEF Destroy, Unused, game, Pointers
  <2>3. OnePointer' /\ LockedNotifyIsSafe'
    BY <1>8 DEF Destroy, Unused, game, Pointers, OnePointer,
         LockedNotifyIsSafe, Monitor, Holds
  <2>4. Monitor'
    BY <1>8 DEF Destroy, Unused, game, Monitor, Holds
  <2>5. NoLostWakeup'
    BY <1>8 DEF Destroy, Unused, game, NoLostWakeup, GoingToNotify,
         Monitor, Holds, Pointers, OnePointer
  <2> QED
    BY <2>1, <2>2, <2>3, <2>4, <2>5
<1>9. ASSUME NEW t \in Threads, SeesNull(t) PROVE IInv'
  <2>1. TypeOK' /\ CallState'
    BY <1>9 DEF SeesNull, Goto, host, game, Pointers
  <2>2. Pointers'
    BY <1>9 DEF SeesNull, Goto, host, game, Pointers
  <2>3. OnePointer' /\ LockedNotifyIsSafe'
    <3>1. \A u \in Threads : pc[u] \in {"init", "publish"} =>
            u # t /\ op[u] # "init" /\ op[t] # "init"
      BY <1>9 DEF SeesNull
    <3>2. LockedNotify =>
            \A u \in Threads : pc[u] \notin {"init", "publish"}
      BY <1>9, <3>1 DEF SeesNull, Monitor, Holds
    <3>3. LockedNotifyIsSafe'
      BY <1>9, <3>2 DEF SeesNull, LockedNotifyIsSafe
    <3> QED
      BY <1>9, <3>3 DEF SeesNull, Goto, OnePointer
  <2>4. Monitor'
    BY <1>9 DEF SeesNull, Goto, host, game, Monitor, Holds
  <2>5. NoLostWakeup'
    BY <1>9 DEF SeesNull, Goto, host, game, NoLostWakeup, GoingToNotify,
         Monitor, Holds, Pointers, OnePointer
  <2> QED
    BY <2>1, <2>2, <2>3, <2>4, <2>5
<1>10. ASSUME NEW t \in Threads, SeesObject(t) PROVE IInv'
  <2>1. TypeOK' /\ CallState'
    BY <1>10 DEF SeesObject, Goto, host, game, Pointers
  <2>2. Pointers'
    BY <1>10 DEF SeesObject, Goto, host, game, Pointers
  <2>3. OnePointer' /\ LockedNotifyIsSafe'
    BY <1>10 DEF SeesObject, Goto, host, game, Pointers, OnePointer,
         LockedNotifyIsSafe, Monitor, Holds
  <2>4. Monitor'
    BY <1>10 DEF SeesObject, Goto, host, game, Monitor, Holds
  <2>5. NoLostWakeup'
    BY <1>10 DEF SeesObject, Goto, host, game, NoLostWakeup, GoingToNotify,
         Monitor, Holds, Pointers, OnePointer
  <2> QED
    BY <2>1, <2>2, <2>3, <2>4, <2>5
<1>11. ASSUME NEW t \in Threads, CallocFails(t) PROVE IInv'
  <2>1. TypeOK' /\ CallState'
    BY <1>11 DEF CallocFails, Return, After, Goto, host, game, Pointers
  <2>2. Pointers'
    BY <1>11 DEF CallocFails, Return, After, Goto, host, game, Pointers
  <2>3. OnePointer' /\ LockedNotifyIsSafe'
    BY <1>11 DEF CallocFails, Return, After, Goto, host, game, Pointers,
         OnePointer, LockedNotifyIsSafe, Monitor, Holds
  <2>4. Monitor'
    BY <1>11 DEF CallocFails, Return, After, Goto, host, game, Monitor,
         Holds
  <2>5. NoLostWakeup'
    BY <1>11 DEF CallocFails, Return, After, Goto, host, game,
         NoLostWakeup, GoingToNotify, Monitor, Holds, Pointers, OnePointer
  <2> QED
    BY <2>1, <2>2, <2>3, <2>4, <2>5
<1>12. ASSUME NEW t \in Threads, MakeObject(t) PROVE IInv'
  <2>1. TypeOK' /\ CallState'
    BY <1>12 DEF MakeObject, Goto, game, Pointers
  <2>2. Pointers'
    BY <1>12 DEF MakeObject, Goto, game, Pointers
  <2>3. OnePointer' /\ LockedNotifyIsSafe'
    BY <1>12 DEF MakeObject, Goto, game, Pointers, OnePointer,
         LockedNotifyIsSafe, Monitor, Holds
  <2>4. Monitor'
    BY <1>12 DEF MakeObject, Goto, game, Monitor, Holds
  <2>5. NoLostWakeup'
    BY <1>12 DEF MakeObject, Goto, game, NoLostWakeup, GoingToNotify,
         Monitor, Holds, Pointers, OnePointer
  <2> QED
    BY <2>1, <2>2, <2>3, <2>4, <2>5
<1>13. ASSUME NEW t \in Threads, Publish(t) PROVE IInv'
  <2>1. TypeOK' /\ CallState'
    BY <1>13 DEF Publish, Return, After, Goto, host, game, Pointers
  <2>2. Pointers'
    BY <1>13 DEF Publish, Return, After, Goto, host, game, Pointers
  <2>3. OnePointer' /\ LockedNotifyIsSafe'
    BY <1>13 DEF Publish, Return, After, Goto, host, game, Pointers,
         OnePointer, LockedNotifyIsSafe, Monitor, Holds
  <2>4. Monitor'
    BY <1>13 DEF Publish, Return, After, Goto, host, game, Monitor, Holds
  <2>5. NoLostWakeup'
    BY <1>13 DEF Publish, Return, After, Goto, host, game, NoLostWakeup,
         GoingToNotify, Monitor, Holds, Pointers, OnePointer
  <2> QED
    BY <2>1, <2>2, <2>3, <2>4, <2>5
<1>14. ASSUME NEW t \in Threads, Load(t) PROVE IInv'
  <2>1. TypeOK' /\ CallState'
    BY <1>14 DEF Load, Goto, host, game, Pointers
  <2>2. Pointers'
    BY <1>14 DEF Load, Goto, host, game, Pointers
  <2>3. OnePointer' /\ LockedNotifyIsSafe'
    BY <1>14 DEF Load, Goto, host, game, Pointers, OnePointer,
         LockedNotifyIsSafe, Monitor, Holds
  <2>4. Monitor'
    BY <1>14 DEF Load, Goto, host, game, Monitor, Holds
  <2>5. NoLostWakeup'
    BY <1>14 DEF Load, Goto, host, game, NoLostWakeup, GoingToNotify,
         Monitor, Holds, Pointers, OnePointer
  <2> QED
    BY <2>1, <2>2, <2>3, <2>4, <2>5
<1>15. ASSUME NEW t \in Threads, HostWait(t) PROVE IInv'
  <2>1. TypeOK' /\ CallState'
    BY <1>15 DEF HostWait, Goto, Pointers
  <2>2. Pointers'
    BY <1>15 DEF HostWait, Goto, Pointers
  <2>3. OnePointer' /\ LockedNotifyIsSafe'
    BY <1>15 DEF HostWait, Goto, Pointers, OnePointer, LockedNotifyIsSafe,
         Monitor, Holds
  <2>4. Monitor'
    BY <1>15 DEF HostWait, Goto, Monitor, Holds
  <2>5. NoLostWakeup'
    BY <1>15 DEF HostWait, Goto, NoLostWakeup, GoingToNotify, Monitor,
         Holds, Pointers, OnePointer
  <2> QED
    BY <2>1, <2>2, <2>3, <2>4, <2>5
<1>16. ASSUME NEW t \in Threads, HostNotify(t) PROVE IInv'
  <2>1. TypeOK' /\ CallState'
    BY <1>16 DEF HostNotify, After, game, Pointers
  <2>2. Pointers'
    BY <1>16 DEF HostNotify, After, game, Pointers
  <2>3. OnePointer' /\ LockedNotifyIsSafe'
    BY <1>16 DEF HostNotify, After, game, Pointers, OnePointer,
         LockedNotifyIsSafe, Monitor, Holds
  <2>4. Monitor'
    BY <1>16 DEF HostNotify, After, game, Monitor, Holds
  <2>5. NoLostWakeup'
    BY <1>16 DEF HostNotify, After, game, NoLostWakeup, GoingToNotify,
         Monitor, Holds, Pointers, OnePointer
  <2> QED
    BY <2>1, <2>2, <2>3, <2>4, <2>5
<1>17. ASSUME NEW t \in Threads, Timeout(t) PROVE IInv'
  <2>1. TypeOK' /\ CallState'
    BY <1>17 DEF Timeout, Goto, game, Pointers
  <2>2. Pointers'
    BY <1>17 DEF Timeout, Goto, game, Pointers
  <2>3. OnePointer' /\ LockedNotifyIsSafe'
    BY <1>17 DEF Timeout, Goto, game, Pointers, OnePointer,
         LockedNotifyIsSafe, Monitor, Holds
  <2>4. Monitor'
    BY <1>17 DEF Timeout, Goto, game, Monitor, Holds
  <2>5. NoLostWakeup'
    BY <1>17 DEF Timeout, Goto, game, NoLostWakeup, GoingToNotify, Monitor,
         Holds, Pointers, OnePointer
  <2> QED
    BY <2>1, <2>2, <2>3, <2>4, <2>5
<1>18. ASSUME NEW t \in Threads, Relock(t) PROVE IInv'
  <2>1. TypeOK' /\ CallState'
    BY <1>18 DEF Relock, Return, After, Goto, host, Pointers
  <2>2. Pointers'
    BY <1>18 DEF Relock, Return, After, Goto, host, Pointers
  <2>3. OnePointer' /\ LockedNotifyIsSafe'
    BY <1>18 DEF Relock, Return, After, Goto, host, Pointers, OnePointer,
         LockedNotifyIsSafe, Monitor, Holds
  <2>4. Monitor'
    BY <1>18 DEF Relock, Return, After, Goto, host, Monitor, Holds
  <2>5. NoLostWakeup'
    BY <1>18 DEF Relock, Return, After, Goto, host, NoLostWakeup,
         GoingToNotify, Monitor, Holds, Pointers, OnePointer
  <2> QED
    BY <2>1, <2>2, <2>3, <2>4, <2>5
<1>19. CASE UNCHANGED vars
  BY <1>19
  DEF vars, host, game, Pointers, OnePointer, Monitor, Holds, NoLostWakeup,
      GoingToNotify, LockedNotifyIsSafe
<1> QED
  BY <1>1, <1>2, <1>3, <1>4, <1>5, <1>6, <1>7, <1>8, <1>9, <1>10, <1>11, <1>12, <1>13, <1>14, <1>15, <1>16, <1>17, <1>18, <1>19
  DEF Next, Game, Shim

(* IInv holds in every state the game can bring the shim to.               *)
THEOREM Invariance == Spec => []IInv
BY InitEstablishes, InductiveStep, PTL DEF Spec

(* Every variable keeps its type.                                          *)
THEOREM TypeCorrect == Spec => []TypeOK
<1>1. IInv => TypeOK
  BY DEF IInv
<1> QED
  BY Invariance, <1>1, PTL

(* Without a race a waiter sleeps in the object the word points to, where  *)
(* the next signal or broadcast looks for it.                              *)
THEOREM SleepersFound == Spec => []SleepersReachable
<1>1. IInv => SleepersReachable
  <2> SUFFICES ASSUME IInv, ~raced,
                      NEW o \in Objects, NEW t \in sleepers[o]
               PROVE  o = word
    BY DEF SleepersReachable
  <2>1. t \in Waiters
    BY DEF IInv, TypeOK
  <2>2. pc[t] = "asleep" /\ c[t] = o
    BY <2>1 DEF IInv, Pointers
  <2> QED
    BY <2>1, <2>2 DEF IInv, OnePointer, Threads
<1> QED
  BY Invariance, <1>1, PTL

(* Without a race no post is slept through.                                *)
THEOREM WakeupsArrive == Spec => []NoLostWakeup
<1>1. IInv => NoLostWakeup
  BY DEF IInv
<1> QED
  BY Invariance, <1>1, PTL

(* A game that notifies inside its critical sections never races.          *)
THEOREM LockedNotifySafe == Spec => []LockedNotifyIsSafe
<1>1. IInv => LockedNotifyIsSafe
  BY DEF IInv
<1> QED
  BY Invariance, <1>1, PTL
=============================================================================
