----------------------------- MODULE MutexShim -----------------------------
(***************************************************************************)
(* The pthread mutex shim of imports.c (lines 90-139).                     *)
(*                                                                         *)
(* The game was built against bionic, where a pthread_mutex_t is one word. *)
(* The shim keeps in that word a pointer to a heap-allocated mutex of the  *)
(* host's pthread library.  A statically initialised word holds 0, or      *)
(* 0x4000 for a recursive mutex; the shim replaces it by a pointer the     *)
(* first time the mutex is locked or unlocked.  Nothing serialises that    *)
(* first use: testing the word, allocating, storing the pointer and        *)
(* loading it again for the host call are separate steps here.             *)
(*                                                                         *)
(* The host mutex is external: one of default attributes, without an owner *)
(* check on unlock, that blocks whoever locks it while it is locked.       *)
(***************************************************************************)
EXTENDS Integers

CONSTANTS
  Threads,         \* the game's threads
  Cells,           \* the pthread_mutex_t words the game owns
  Objects,         \* host mutexes the heap has room for
  Recursive,       \* the cells whose static initialiser is 0x4000
  Zero,            \* a word or a pointer that is 0
  RecInit,         \* a word that is 0x4000
  NoThread,
  NoCell,
  SerialFirstUse,  \* TRUE: the game never contends the first use of a cell
  Relock           \* TRUE: the game locks again a recursive mutex it holds

ASSUME ShimAssumption ==
  /\ Recursive \subseteq Cells
  /\ NoCell \notin Cells
  /\ NoThread \notin Threads
  /\ Zero \notin Objects /\ RecInit \notin Objects
  /\ SerialFirstUse \in BOOLEAN /\ Relock \in BOOLEAN

VARIABLES
  word,    \* word[c]: what the game's word c contains (*uid)
  live,    \* host mutexes allocated and not freed
  usable,  \* those of them that pthread_mutex_init set up
  owner,   \* owner[o]: the thread that has locked host mutex o
  pc,      \* where thread t is in the shim
  op,      \* which entry point thread t is in
  uid,     \* the argument of that call
  m,       \* the pointer thread t works with (m, or *uid once loaded)
  held,    \* the cell thread t holds, as the game sees it
  raced    \* history: cells whose first use was contended, until all leave

vars == <<word, live, usable, owner, pc, op, uid, m, held, raced>>
heap == <<live, usable, owner>>

InUse(c) == \E t \in Threads : uid[t] = c \/ held[t] = c

(* A thread that has seen a static initialiser and has not yet stored its  *)
(* own pointer.                                                            *)
Initialising(t, c) == uid[t] = c /\ pc[t] \in {"init", "publish"}

(* Mutant: the word is never taken for a pointer, every use creates anew.  *)
NeedsInitAlways(w) == TRUE

(* imports.c:119 and 121: what makes lock and unlock create a mutex.       *)
NeedsInit(w) == w \in {Zero, RecInit}

(* A history update: a contended cell is forgiven once nobody is using it. *)
Settle(cs) == raced' = {c \in cs : InUse(c)'}

Init ==
  /\ word = [c \in Cells |-> IF c \in Recursive THEN RecInit ELSE Zero]
  /\ live = {} /\ usable = {}
  /\ owner = [o \in Objects |-> NoThread]
  /\ pc = [t \in Threads |-> "idle"]
  /\ op = [t \in Threads |-> "none"]
  /\ uid = [t \in Threads |-> NoCell]
  /\ m = [t \in Threads |-> Zero]
  /\ held = [t \in Threads |-> NoCell]
  /\ raced = {}

-----------------------------------------------------------------------------
(* The game's calls.  POSIX asks of a caller that pthread_mutex_init and   *)
(* pthread_mutex_destroy do not overlap any other use of the mutex.        *)

Enter(t, c, entry, at) ==
  /\ pc[t] = "idle"
  /\ pc' = [pc EXCEPT ![t] = at]
  /\ op' = [op EXCEPT ![t] = entry]
  /\ uid' = [uid EXCEPT ![t] = c]
  /\ UNCHANGED <<word, heap, m, held, raced>>

CallLock(t, c) ==
  /\ held[t] = NoCell \/ (Relock /\ held[t] = c /\ c \in Recursive)
  /\ \A u \in Threads : ~(uid[u] = c /\ op[u] = "init")
  /\ SerialFirstUse => (word[c] \in Objects \/ \A u \in Threads : uid[u] # c)
  /\ Enter(t, c, "lock", "test")

CallUnlock(t) ==
  /\ held[t] # NoCell
  /\ Enter(t, held[t], "unlock", "test")

CallInit(t, c) ==
  /\ ~InUse(c)
  /\ word[c] \notin Objects
  /\ Enter(t, c, "init", "init")

-----------------------------------------------------------------------------
(* The shim.                                                               *)

Goto(t, at) == pc' = [pc EXCEPT ![t] = at]

Return(t) ==
  /\ Goto(t, "idle")
  /\ op' = [op EXCEPT ![t] = "none"]
  /\ uid' = [uid EXCEPT ![t] = NoCell]
  /\ m' = [m EXCEPT ![t] = Zero]

(* imports.c:119-124 and 131-136, a word that still holds an initialiser.  *)
SeesInitialiser(t) ==
  /\ pc[t] = "test"
  /\ NeedsInit(word[uid[t]])
  /\ Goto(t, "init")
  /\ raced' = IF \E u \in Threads : Initialising(u, uid[t])
              THEN raced \union {uid[t]} ELSE raced
  /\ UNCHANGED <<word, heap, op, uid, m, held>>

(* The same lines, a word that holds a pointer already.                    *)
SeesObject(t) ==
  /\ pc[t] = "test"
  /\ ~NeedsInit(word[uid[t]])
  /\ Goto(t, "load")
  /\ m' = [m EXCEPT ![t] = word[uid[t]]]
  /\ UNCHANGED <<word, heap, op, uid, held, raced>>

(* imports.c:91-92: calloc fails, -1 is returned.                          *)
CallocFails(t) ==
  /\ pc[t] = "init"
  /\ Return(t)
  /\ UNCHANGED <<word, heap, held>>
  /\ Settle(raced)

(* imports.c:91-97.  Whatever initialiser line 95 copies, line 97 passes   *)
(* no attributes, so the mutex is not recursive.  The host reports errors  *)
(* as positive numbers, which the test on line 98 does not see.            *)
MakeObject(t) ==
  /\ pc[t] = "init"
  /\ \E o \in Objects \ live :
       /\ live' = live \union {o}
       /\ \E ok \in BOOLEAN : usable' = IF ok THEN usable \union {o} ELSE usable
       /\ m' = [m EXCEPT ![t] = o]
  /\ Goto(t, "publish")
  /\ UNCHANGED <<word, owner, op, uid, held, raced>>

(* imports.c:103: *uid = m.                                                *)
Publish(t) ==
  /\ pc[t] = "publish"
  /\ word' = [word EXCEPT ![uid[t]] = m[t]]
  /\ UNCHANGED <<heap, held>>
  /\ \/ /\ op[t] = "init"
        /\ Return(t)
        /\ Settle(raced)
     \/ /\ op[t] # "init"
        /\ Goto(t, "load")
        /\ UNCHANGED <<op, uid, m, raced>>

(* imports.c:126 and 138: the argument *uid of the host call.  The word is *)
(* not volatile: the build may load it again or keep the earlier value.    *)
Load(t) ==
  /\ pc[t] = "load"
  /\ \E o \in {m[t], word[uid[t]]} : m' = [m EXCEPT ![t] = o]
  /\ Goto(t, "call")
  /\ UNCHANGED <<word, heap, op, uid, held, raced>>

(* Mutant: as pthread_mutex_trylock whose answer is not looked at.         *)
HostLockNoWait(t) ==
  /\ pc[t] = "call" /\ op[t] = "lock"
  /\ owner' = IF m[t] \in usable THEN [owner EXCEPT ![m[t]] = t] ELSE owner
  /\ held' = [held EXCEPT ![t] = uid[t]]
  /\ Return(t)
  /\ UNCHANGED <<word, live, usable>>
  /\ Settle(raced)

(* Mutant: the test of ret is inverted, the host call is never reached.    *)
HostLockNotReached(t) ==
  /\ pc[t] = "call" /\ op[t] = "lock"
  /\ Return(t)
  /\ UNCHANGED <<word, heap, held>>
  /\ Settle(raced)

(* The host's pthread_mutex_lock, and the return to the game: 0 when the   *)
(* mutex was acquired, an error for one that was never set up.             *)
HostLock(t) ==
  /\ pc[t] = "call" /\ op[t] = "lock"
  /\ \/ /\ m[t] \in usable
        /\ owner[m[t]] = NoThread
        /\ owner' = [owner EXCEPT ![m[t]] = t]
        /\ held' = [held EXCEPT ![t] = uid[t]]
     \/ /\ m[t] \notin usable
        /\ UNCHANGED <<owner, held>>
  /\ Return(t)
  /\ UNCHANGED <<word, live, usable>>
  /\ Settle(raced)

(* Mutant: pthread_mutex_unlock_fake returns before the host call.         *)
HostUnlockSkipped(t) ==
  /\ pc[t] = "call" /\ op[t] = "unlock"
  /\ held' = [held EXCEPT ![t] = NoCell]
  /\ Return(t)
  /\ UNCHANGED <<word, heap>>
  /\ Settle(raced)

(* The host's pthread_mutex_unlock.                                        *)
HostUnlock(t) ==
  /\ pc[t] = "call" /\ op[t] = "unlock"
  /\ owner' = [owner EXCEPT ![m[t]] = NoThread]
  /\ held' = [held EXCEPT ![t] = NoCell]
  /\ Return(t)
  /\ UNCHANGED <<word, live, usable>>
  /\ Settle(raced)

(* Mutants of pthread_mutex_destroy_fake: no *uid = NULL; no free.         *)
DestroyKeepsWord(t, c) ==
  /\ pc[t] = "idle"
  /\ ~InUse(c)
  /\ word[c] \in Objects
  /\ live' = live \ {word[c]}
  /\ usable' = usable \ {word[c]}
  /\ owner' = [owner EXCEPT ![word[c]] = NoThread]
  /\ UNCHANGED <<word, pc, op, uid, m, held, raced>>

DestroyLeaks(t, c) ==
  /\ pc[t] = "idle"
  /\ ~InUse(c)
  /\ word[c] \in Objects
  /\ usable' = usable \ {word[c]}
  /\ owner' = [owner EXCEPT ![word[c]] = NoThread]
  /\ word' = [word EXCEPT ![c] = Zero]
  /\ UNCHANGED <<live, pc, op, uid, m, held, raced>>

(* imports.c:108-115, called by a thread that is in no other entry point.  *)
Destroy(t, c) ==
  /\ pc[t] = "idle"
  /\ ~InUse(c)
  /\ word[c] \in Objects
  /\ live' = live \ {word[c]}
  /\ usable' = usable \ {word[c]}
  /\ owner' = [owner EXCEPT ![word[c]] = NoThread]
  /\ word' = [word EXCEPT ![c] = Zero]
  /\ UNCHANGED <<pc, op, uid, m, held, raced>>

-----------------------------------------------------------------------------
Game(t) ==
  \/ \E c \in Cells : CallLock(t, c) \/ CallInit(t, c) \/ Destroy(t, c)
  \/ CallUnlock(t)

Shim(t) ==
  \/ SeesInitialiser(t) \/ SeesObject(t)
  \/ CallocFails(t) \/ MakeObject(t) \/ Publish(t)
  \/ Load(t) \/ HostLock(t) \/ HostUnlock(t)

Next == \E t \in Threads : Game(t) \/ Shim(t)

Spec == Init /\ [][Next]_vars

(* Every thread that can run does, and critical sections end.              *)
FairSpec ==
  /\ Spec
  /\ \A t \in Threads : WF_vars(Shim(t)) /\ WF_vars(CallUnlock(t))

-----------------------------------------------------------------------------
TypeOK ==
  /\ word \in [Cells -> Objects \union {Zero, RecInit}]
  /\ live \subseteq Objects
  /\ usable \subseteq Objects
  /\ owner \in [Objects -> Threads \union {NoThread}]
  /\ pc \in [Threads -> {"idle", "test", "init", "publish", "load", "call"}]
  /\ op \in [Threads -> {"none", "lock", "unlock", "init"}]
  /\ uid \in [Threads -> Cells \union {NoCell}]
  /\ m \in [Threads -> Objects \union {Zero}]
  /\ held \in [Threads -> Cells \union {NoCell}]
  /\ raced \subseteq Cells

(* Two threads hold the same cell only while the damage of a contended     *)
(* first use lasts: from the overlap of two initialisations in             *)
(* pthread_mutex_lock_fake until the cell is quiet again.                  *)
MutualExclusion ==
  \A t, u \in Threads :
    t # u /\ held[t] = held[u] /\ held[t] # NoCell => held[t] \in raced

(* A cell nobody holds or is acting on is unlocked: even after threads     *)
(* locked one host mutex and unlocked another through the same word, the   *)
(* pointer that stays in the word is that of an unlocked mutex.            *)
QuietCellIsFree ==
  \A c \in Cells : word[c] \in Objects /\ ~InUse(c) => owner[word[c]] = NoThread

(* The host mutexes some word or some call still refers to.                *)
Reachable == {word[c] : c \in Cells} \union {m[t] : t \in Threads}

(* The cells through whose word or call the host mutex o is reached.       *)
ReachedVia(o, c) ==
  word[c] = o \/ \E t \in Threads : uid[t] = c /\ m[t] = o

LosesOnlyRaced ==
  \A o \in live \intersect live' :
    o \in Reachable /\ o \notin Reachable' =>
      \E c \in raced : ReachedVia(o, c)

(* A host mutex is lost (allocated, but referred to by nothing) only in    *)
(* the fallout of a contended first use, when one thread's *uid = m        *)
(* replaces another's pointer; pthread_mutex_destroy_fake loses none.      *)
LeakOnlyInRace == [][LosesOnlyRaced]_vars

(* A thread that reaches pthread_mutex_lock on a mutex that was set up is  *)
(* not the last to hold the cell: somebody gets it (deadlock freedom of    *)
(* the shim, for cells whose first use is not contended).                  *)
LockProgress ==
  \A t \in Threads, c \in Cells :
    pc[t] = "call" /\ op[t] = "lock" /\ uid[t] = c /\ m[t] \in usable
      ~> \E u \in Threads : held[u] = c

(* imports.c:122 asks for a recursive mutex where the word held 0x4000: a  *)
(* thread that holds such a mutex can lock it again without blocking on    *)
(* itself.                                                                 *)
RecursiveRelock ==
  \A t \in Threads :
    pc[t] = "call" /\ op[t] = "lock" /\ uid[t] \in Recursive => owner[m[t]] # t

(* With an uncontended first use the shim implements Mutex.                *)
Abstract == INSTANCE Mutex WITH
              Threads <- Threads, Cells <- Cells, NoCell <- NoCell, held <- held
RefinesMutex == Abstract!MutexSpec

-----------------------------------------------------------------------------
(* The inductive strengthening of the safety properties.                   *)

HasObject(t) == pc[t] \in {"publish", "load", "call"}
PastPublish(t) == pc[t] \in {"load", "call"}

CallState ==
  \A t \in Threads :
    /\ pc[t] = "idle" <=> uid[t] = NoCell
    /\ pc[t] = "idle" <=> op[t] = "none"
    /\ HasObject(t) => m[t] \in live
    /\ ~HasObject(t) => m[t] = Zero
    /\ PastPublish(t) => word[uid[t]] \in Objects
    /\ op[t] = "unlock" => held[t] = uid[t]
    /\ op[t] = "lock" => held[t] \in {NoCell, uid[t]}
    /\ op[t] = "init" =>
         /\ pc[t] \in {"init", "publish"}
         /\ \A u \in Threads \ {t} : uid[u] # uid[t]
         /\ \A u \in Threads : held[u] # uid[t]

HeapState ==
  /\ usable \subseteq live
  /\ \A c \in Cells : word[c] \in Objects => word[c] \in live
  /\ \A o \in Objects : owner[o] # NoThread => o \in usable

(* Calls on different cells never meet in one host mutex, and a mutex that *)
(* has not been stored yet is known to its maker only.                     *)
Separation ==
  /\ \A c, d \in Cells : c # d /\ word[c] \in Objects => word[c] # word[d]
  /\ \A t \in Threads, c \in Cells :
       HasObject(t) /\ uid[t] # c => m[t] # word[c]
  /\ \A t, u \in Threads :
       HasObject(t) /\ HasObject(u) /\ uid[t] # uid[u] => m[t] # m[u]
  /\ \A t \in Threads : pc[t] = "publish" =>
       /\ owner[m[t]] = NoThread
       /\ \A c \in Cells : word[c] # m[t]
       /\ \A u \in Threads \ {t} : HasObject(u) => m[u] # m[t]

(* Whoever has locked the mutex a word points to holds that cell, and is   *)
(* going to unlock that mutex.                                             *)
OwnerHolds ==
  \A t \in Threads, c \in Cells :
    word[c] \in Objects /\ owner[word[c]] = t =>
      /\ held[t] = c
      /\ op[t] = "unlock" /\ PastPublish(t) => m[t] = word[c]

(* A cell whose first use was not contended has one pointer for all.       *)
OnePointer ==
  \A c \in Cells \ raced : \A t \in Threads :
    /\ Initialising(t, c) =>
         /\ word[c] \notin Objects
         /\ \A u \in Threads : Initialising(u, c) => u = t
    /\ uid[t] = c /\ PastPublish(t) => m[t] = word[c]
    /\ held[t] = c => word[c] \in Objects /\ owner[word[c]] = t

(* With an uncontended first use, threads meet in a cell only once its     *)
(* word is a pointer.                                                      *)
Serial ==
  SerialFirstUse =>
    /\ raced = {}
    /\ \A t, u \in Threads :
         t # u /\ uid[t] = uid[u] /\ uid[t] # NoCell => word[uid[t]] \in Objects

IInv ==
  /\ TypeOK
  /\ CallState
  /\ HeapState
  /\ Separation
  /\ OwnerHolds
  /\ OnePointer
  /\ Serial
=============================================================================
