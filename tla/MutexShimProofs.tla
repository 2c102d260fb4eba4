-------------------------- MODULE MutexShimProofs --------------------------
(***************************************************************************)
(* Proofs about the pthread mutex shim for any number of threads, cells    *)
(* and host mutexes.                                                       *)
(*                                                                         *)
(* None of the properties is inductive alone: that a word has its type     *)
(* already needs a call that is under way to have an argument (CallState), *)
(* and mutual exclusion needs to know which host mutex each holder has     *)
(* locked (OnePointer), that no other cell's pointer can be that mutex     *)
(* (Separation) and that its owner is a holder (OwnerHolds).  IInv is the  *)
(* conjunction of these; it holds initially and every action keeps it.     *)
(***************************************************************************)
EXTENDS MutexShim, TLAPS

(* The words start as static initialisers and nobody is in the shim.       *)
LEMMA InitEstablishes == Init => IInv
BY ShimAssumption
DEF Init, IInv, TypeOK, CallState, HeapState, Separation, OwnerHolds,
    OnePointer, Serial, Initialising, HasObject, PastPublish

(* Every step of the game and of the shim keeps IInv.                      *)
LEMMA InductiveStep == IInv /\ [Next]_vars => IInv'
<1> SUFFICES ASSUME IInv, [Next]_vars PROVE IInv'
  OBVIOUS
<1> USE ShimAssumption DEF IInv, TypeOK, CallState, HasObject, PastPublish
<1>1. ASSUME NEW t \in Threads, NEW c \in Cells, CallLock(t, c) PROVE IInv'
  <2>1. TypeOK' /\ CallState'
    BY <1>1 DEF CallLock, Enter, heap
  <2>2. HeapState' /\ Separation'
    BY <1>1 DEF CallLock, Enter, heap, HeapState, Separation
  <2>3. OwnerHolds' /\ OnePointer'
    BY <1>1 DEF CallLock, Enter, heap, Initialising, HeapState, Separation,
         OwnerHolds, OnePointer
  <2>4. Serial'
    BY <1>1 DEF CallLock, Enter, heap, Serial
  <2> QED
    BY <2>1, <2>2, <2>3, <2>4
<1>2. ASSUME NEW t \in Threads, NEW c \in Cells, CallInit(t, c) PROVE IInv'
  <2>1. TypeOK' /\ CallState'
    BY <1>2 DEF CallInit, Enter, InUse, heap
  <2>2. HeapState' /\ Separation'
    BY <1>2 DEF CallInit, Enter, InUse, heap, HeapState, Separation
  <2>3. OwnerHolds' /\ OnePointer'
    BY <1>2 DEF CallInit, Enter, InUse, heap, Initialising, HeapState,
         Separation, OwnerHolds, OnePointer
  <2>4. Serial'
    BY <1>2 DEF CallInit, Enter, InUse, heap, Serial
  <2> QED
    BY <2>1, <2>2, <2>3, <2>4
<1>3. ASSUME NEW t \in Threads, NEW c \in Cells, Destroy(t, c) PROVE IInv'
  <2>1. TypeOK' /\ CallState'
    BY <1>3 DEF Destroy, InUse, HeapState, Separation
  <2>2. HeapState' /\ Separation'
    BY <1>3 DEF Destroy, InUse, HeapState, Separation
  <2>3. OwnerHolds' /\ OnePointer'
    BY <1>3 DEF Destroy, InUse, Initialising, HeapState, Separation,
         OwnerHolds, OnePointer
  <2>4. Serial'
    BY <1>3 DEF Destroy, InUse, Serial
  <2> QED
    BY <2>1, <2>2, <2>3, <2>4
<1>4. ASSUME NEW t \in Threads, CallUnlock(t) PROVE IInv'
  <2>1. TypeOK' /\ CallState'
    BY <1>4 DEF CallUnlock, Enter, heap
  <2>2. HeapState' /\ Separation'
    BY <1>4 DEF CallUnlock, Enter, heap, HeapState, Separation
  <2>3. OwnerHolds' /\ OnePointer'
    BY <1>4 DEF CallUnlock, Enter, heap, Initialising, HeapState,
         Separation, OwnerHolds, OnePointer
  <2>4. Serial'
    BY <1>4 DEF CallUnlock, Enter, heap, OnePointer, Serial
  <2> QED
    BY <2>1, <2>2, <2>3, <2>4
<1>5. ASSUME NEW t \in Threads, SeesInitialiser(t) PROVE IInv'
  <2>1. TypeOK' /\ CallState'
    BY <1>5 DEF SeesInitialiser, Goto, NeedsInit, heap, Initialising
  <2>2. HeapState' /\ Separation'
    BY <1>5 DEF SeesInitialiser, Goto, NeedsInit, heap, HeapState,
         Separation
  <2>3. OwnerHolds' /\ OnePointer'
    BY <1>5 DEF SeesInitialiser, Goto, NeedsInit, heap, Initialising,
         HeapState, Separation, OwnerHolds, OnePointer
  <2>4. Serial'
    BY <1>5 DEF SeesInitialiser, Goto, NeedsInit, heap, Initialising, Serial
  <2> QED
    BY <2>1, <2>2, <2>3, <2>4
<1>6. ASSUME NEW t \in Threads, SeesObject(t) PROVE IInv'
  <2>1. TypeOK' /\ CallState'
    BY <1>6 DEF SeesObject, Goto, NeedsInit, heap, HeapState
  <2>2. HeapState' /\ Separation'
    BY <1>6 DEF SeesObject, Goto, NeedsInit, heap, HeapState, Separation
  <2>3. OwnerHolds' /\ OnePointer'
    BY <1>6 DEF SeesObject, Goto, NeedsInit, heap, Initialising, HeapState,
         Separation, OwnerHolds, OnePointer
  <2>4. Serial'
    BY <1>6 DEF SeesObject, Goto, NeedsInit, heap, Serial
  <2> QED
    BY <2>1, <2>2, <2>3, <2>4
<1>7. ASSUME NEW t \in Threads, CallocFails(t) PROVE IInv'
  <2>1. TypeOK' /\ CallState'
    BY <1>7 DEF CallocFails, Return, Goto, Settle, heap
  <2>2. HeapState' /\ Separation'
    BY <1>7 DEF CallocFails, Return, Goto, Settle, heap, HeapState,
         Separation
  <2>3. OwnerHolds' /\ OnePointer'
    BY <1>7 DEF CallocFails, Return, Goto, Settle, InUse, heap,
         Initialising, HeapState, Separation, OwnerHolds, OnePointer
  <2>4. Serial'
    BY <1>7 DEF CallocFails, Return, Goto, Settle, heap, InUse, Serial
  <2> QED
    BY <2>1, <2>2, <2>3, <2>4
<1>8. ASSUME NEW t \in Threads, MakeObject(t) PROVE IInv'
  <2>1. TypeOK' /\ CallState'
    BY <1>8 DEF MakeObject, Goto
  <2>2. HeapState' /\ Separation'
    BY <1>8 DEF MakeObject, Goto, HeapState, Separation
  <2>3. OwnerHolds' /\ OnePointer'
    BY <1>8 DEF MakeObject, Goto, Initialising, HeapState, Separation,
         OwnerHolds, OnePointer
  <2>4. Serial'
    BY <1>8 DEF MakeObject, Goto, Serial
  <2> QED
    BY <2>1, <2>2, <2>3, <2>4
<1>9. ASSUME NEW t \in Threads, Publish(t) PROVE IInv'
  <2>1. TypeOK' /\ CallState'
    BY <1>9 DEF Publish, Return, Goto, Settle, heap
  <2>2. HeapState' /\ Separation'
    BY <1>9 DEF Publish, Return, Goto, Settle, heap, HeapState, Separation
  <2>3. OwnerHolds' /\ OnePointer'
    BY <1>9 DEF Publish, Return, Goto, Settle, InUse, heap, Initialising,
         HeapState, Separation, OwnerHolds, OnePointer
  <2>4. Serial'
    BY <1>9 DEF Publish, Return, Goto, Settle, heap, InUse, Serial
  <2> QED
    BY <2>1, <2>2, <2>3, <2>4
<1>10. ASSUME NEW t \in Threads, Load(t) PROVE IInv'
  <2>1. TypeOK' /\ CallState'
    BY <1>10 DEF Load, Goto, heap, HeapState
  <2>2. HeapState' /\ Separation'
    BY <1>10 DEF Load, Goto, heap, HeapState, Separation
  <2>3. OwnerHolds' /\ OnePointer'
    BY <1>10 DEF Load, Goto, heap, Initialising, HeapState, Separation,
         OwnerHolds, OnePointer
  <2>4. Serial'
    BY <1>10 DEF Load, Goto, heap, Serial
  <2> QED
    BY <2>1, <2>2, <2>3, <2>4
<1>11. ASSUME NEW t \in Threads, HostLock(t) PROVE IInv'
  <2>1. TypeOK' /\ CallState'
    BY <1>11 DEF HostLock, Return, Goto, Settle
  <2>2. HeapState' /\ Separation'
    BY <1>11 DEF HostLock, Return, Goto, Settle, HeapState, Separation
  <2>3. OwnerHolds' /\ OnePointer'
    BY <1>11 DEF HostLock, Return, Goto, Settle, InUse, Initialising,
         HeapState, Separation, OwnerHolds, OnePointer
  <2>4. Serial'
    BY <1>11 DEF HostLock, Return, Goto, Settle, InUse, Serial
  <2> QED
    BY <2>1, <2>2, <2>3, <2>4
<1>12. ASSUME NEW t \in Threads, HostUnlock(t) PROVE IInv'
  <2>1. TypeOK' /\ CallState'
    BY <1>12 DEF HostUnlock, Return, Goto, Settle
  <2>2. HeapState' /\ Separation'
    BY <1>12 DEF HostUnlock, Return, Goto, Settle, HeapState, Separation
  <2>3. OwnerHolds' /\ OnePointer'
    BY <1>12 DEF HostUnlock, Return, Goto, Settle, InUse, Initialising,
         HeapState, Separation, OwnerHolds, OnePointer
  <2>4. Serial'
    BY <1>12 DEF HostUnlock, Return, Goto, Settle, InUse, Serial
  <2> QED
    BY <2>1, <2>2, <2>3, <2>4
<1>13. CASE UNCHANGED vars
  BY <1>13
  DEF vars, heap, HeapState, Separation, OwnerHolds, OnePointer, Serial, Initialising
<1> QED
  BY <1>1, <1>2, <1>3, <1>4, <1>5, <1>6, <1>7, <1>8, <1>9, <1>10, <1>11,
     <1>12, <1>13 DEF Next, Game, Shim

(* IInv holds in every state the game can bring the shim to.               *)
THEOREM Invariance == Spec => []IInv
<1>1. IInv /\ [Next]_vars => IInv'
  BY InductiveStep
<1> QED
  BY InitEstablishes, <1>1, PTL DEF Spec

(* Every variable keeps its type.                                          *)
THEOREM TypeCorrect == Spec => []TypeOK
<1>1. IInv => TypeOK
  BY DEF IInv
<1> QED
  BY Invariance, <1>1, PTL

(* Two threads in one critical section share the owner of one host mutex,  *)
(* which is a single thread: outside a contended first use that is absurd. *)
THEOREM Exclusion == Spec => []MutualExclusion
<1>1. IInv => MutualExclusion
  <2> SUFFICES ASSUME IInv,
                      NEW t \in Threads, NEW u \in Threads,
                      t # u, held[t] = held[u], held[t] # NoCell,
                      held[t] \notin raced
               PROVE  FALSE
    BY DEF MutualExclusion
  <2>1. held[t] \in Cells \ raced
    BY DEF IInv, TypeOK
  <2>2. owner[word[held[t]]] = t /\ owner[word[held[t]]] = u
    BY <2>1 DEF IInv, OnePointer
  <2> QED
    BY <2>2
<1> QED
  BY Invariance, <1>1, PTL

(* A word's mutex that had an owner would have a holder, so the cell would *)
(* be in use.                                                              *)
THEOREM QuietCells == Spec => []QuietCellIsFree
<1>1. IInv => QuietCellIsFree
  <2> SUFFICES ASSUME IInv,
                      NEW c \in Cells, word[c] \in Objects,
                      owner[word[c]] # NoThread
               PROVE  InUse(c)
    BY DEF QuietCellIsFree
  <2>1. owner[word[c]] \in Threads
    BY DEF IInv, TypeOK
  <2>2. held[owner[word[c]]] = c
    BY <2>1 DEF IInv, OwnerHolds
  <2> QED
    BY <2>1, <2>2 DEF InUse
<1> QED
  BY Invariance, <1>1, PTL

(* What a step makes unreachable without freeing it was reached through a  *)
(* raced cell: elsewhere *uid = m replaces a static initialiser only, and  *)
(* the pointer a returning call forgets is still in the word.              *)
THEOREM NoOtherLeak == Spec => LeakOnlyInRace
<1>1. IInv /\ [Next]_vars => [LosesOnlyRaced]_vars
  <2> SUFFICES ASSUME IInv, Next,
                      NEW o \in live \intersect live', o \in Reachable,
                      o \notin Reachable'
               PROVE  \E c \in raced : ReachedVia(o, c)
    BY DEF LosesOnlyRaced
  <2> USE ShimAssumption
      DEF IInv, TypeOK, CallState, HasObject, PastPublish, Reachable,
          ReachedVia, OnePointer, Initialising
  <2>0. o \in Objects
    OBVIOUS
  <2>1. ASSUME NEW t \in Threads, Game(t) PROVE FALSE
    BY <2>0, <2>1 DEF Game, CallLock, CallInit, CallUnlock, Enter, Destroy, heap
  <2>2. ASSUME NEW t \in Threads, SeesInitialiser(t) \/ MakeObject(t)
        PROVE  FALSE
    BY <2>0, <2>2 DEF SeesInitialiser, MakeObject, Goto, heap
  <2>3. ASSUME NEW t \in Threads, SeesObject(t) \/ CallocFails(t)
        PROVE  FALSE
    BY <2>0, <2>3 DEF SeesObject, CallocFails, Goto, Return, heap
  <2>4. ASSUME NEW t \in Threads, Publish(t)
        PROVE  \E c \in raced : ReachedVia(o, c)
    BY <2>0, <2>4 DEF Publish, Goto, Return, heap
  <2>5. ASSUME NEW t \in Threads, Load(t)
        PROVE  \E c \in raced : ReachedVia(o, c)
    BY <2>0, <2>5 DEF Load, Goto, heap
  <2>6. ASSUME NEW t \in Threads, HostLock(t) \/ HostUnlock(t)
        PROVE  \E c \in raced : ReachedVia(o, c)
    BY <2>0, <2>6 DEF HostLock, HostUnlock, Goto, Return
  <2> QED
    BY <2>1, <2>2, <2>3, <2>4, <2>5, <2>6 DEF Next, Shim
<1> QED
  BY Invariance, <1>1, PTL DEF Spec, LeakOnlyInRace

(* When no cell's first use is contended, every step of the shim is a step *)
(* of Mutex or leaves what the game holds unchanged.                       *)
THEOREM Refinement ==
  ASSUME SerialFirstUse
  PROVE  Spec => RefinesMutex
<1>1. Init => Abstract!MutexInit
  BY DEF Init, Abstract!MutexInit
<1>2. IInv /\ [Next]_vars => [Abstract!MutexNext]_held
  <2> SUFFICES ASSUME IInv, [Next]_vars, held' # held
               PROVE  Abstract!MutexNext
    OBVIOUS
  <2> USE DEF IInv, TypeOK, CallState
  <2>1. PICK t \in Threads : HostLock(t) \/ HostUnlock(t)
    BY DEF Next, Game, Shim, vars, heap, CallLock, CallInit, CallUnlock,
           Enter, Destroy, SeesInitialiser, SeesObject, CallocFails,
           MakeObject, Publish, Load
  <2>2. CASE HostLock(t)
    <3>1. /\ uid[t] \in Cells /\ PastPublish(t) /\ HasObject(t)
          /\ owner[m[t]] = NoThread
          /\ held' = [held EXCEPT ![t] = uid[t]]
      BY <2>2 DEF HostLock, PastPublish, HasObject
    <3>2. m[t] = word[uid[t]]
      BY <3>1 DEF OnePointer, Serial
    <3>3. \A u \in Threads : held[u] # uid[t]
      BY <3>1, <3>2, ShimAssumption DEF OnePointer, Serial
    <3>4. held[t] = NoCell
      BY <2>2, <3>3 DEF HostLock
    <3> QED
      BY <3>1, <3>3, <3>4 DEF Abstract!MutexNext, Abstract!Acquire
  <2>3. CASE HostUnlock(t)
    <3>1. held[t] # NoCell /\ held' = [held EXCEPT ![t] = NoCell]
      BY <2>3 DEF HostUnlock
    <3> QED
      BY <3>1 DEF Abstract!MutexNext, Abstract!Release
  <2> QED
    BY <2>1, <2>2, <2>3
<1> QED
  BY Invariance, <1>1, <1>2, PTL DEF Spec, RefinesMutex, Abstract!MutexSpec
=============================================================================
