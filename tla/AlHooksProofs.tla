--------------------------- MODULE AlHooksProofs ---------------------------
(***************************************************************************)
(* Proofs about the OpenAL hooks for any number of sources and buffers.    *)
(*                                                                         *)
(* When one thread makes the game's sound and deletes the buffers of each  *)
(* source that it stops, StopInv follows last_stopped_src through the      *)
(* hooks: it is the source the thread is stopping, then the one it has     *)
(* just stopped, then 0 again before the buffers are deleted.              *)
(*                                                                         *)
(* For any number of threads, AlInv keeps the types, and AskInv follows    *)
(* the buffers a thread asked to delete from its array to the queue of the *)
(* source it has stopped and off that queue, for as long as no hook has    *)
(* found another source than that one in last_stopped_src.                 *)
(***************************************************************************)
EXTENDS AlHooks, FiniteSetTheorems, TLAPS

InDelete == {"test", "type", "unqueue", "detach", "forget"}

StopInv ==
  /\ pc \in [Threads -> {"idle", "stop", "delete"} \union InDelete]
  /\ src \in [Threads -> Sources \union {NoSource}]
  /\ stopped \in [Threads -> Sources \union {NoSource}]
  /\ ~stale
  /\ \A t \in Threads :
       /\ pc[t] = "stop" => last = src[t] /\ stopped[t] = NoSource
       /\ pc[t] \in {"idle"} \union InDelete => last = stopped[t]
       /\ pc[t] = "delete" => last = NoSource

OneThread == \A t, u \in Threads : t = u

(* No source was stopped yet.                                              *)
LEMMA StopInit == Init => StopInv
BY AlAssumption DEF Init, StopInv, InDelete

(* The calls that go straight to OpenAL are not between a stop and the     *)
(* deletion, and leave the hooks' state alone.                             *)
LEMMA OtherKeepsStopInv ==
  ASSUME OneThread, StopInv, NEW t \in Threads,
         pc[t] = "idle", stopped[t] = NoSource, Other(t)
  PROVE  StopInv'
BY AlAssumption DEF OneThread, StopInv, Other, InDelete

(* So do the hooks, which read the variable only while it is right.        *)
LEMMA StopStep ==
  ASSUME OneThread, ~Strays, StopInv, [Next]_vars
  PROVE  StopInv'
<1> USE AlAssumption DEF OneThread, StopInv, InDelete
<1>1. ASSUME NEW t \in Threads, Game(t) PROVE StopInv'
  <2>1. CASE CallDelete(t)
    BY <2>1 DEF CallDelete, al
  <2>2. ASSUME NEW s \in Sources, Remember(t, s) PROVE StopInv'
    BY <2>2 DEF Remember, MayUse, al
  <2>3. ASSUME NEW b \in Buffers, Generate(t, b) PROVE StopInv'
    BY <2>3, OtherKeepsStopInv DEF Generate
  <2>4. ASSUME NEW s \in Sources, NEW b \in Buffers,
               AttachStatic(t, s, b) \/ QueueBuffer(t, s, b)
        PROVE  StopInv'
    BY <2>4, OtherKeepsStopInv DEF AttachStatic, QueueBuffer, MayUse
  <2>5. ASSUME NEW s \in Sources, UnqueuePlayed(t, s) \/ Play(t, s)
        PROVE  StopInv'
    BY <2>5, OtherKeepsStopInv DEF UnqueuePlayed, Play, MayUse
  <2> QED
    BY <1>1, <2>1, <2>2, <2>3, <2>4, <2>5 DEF Game
<1>2. ASSUME NEW t \in Threads, Stop(t) PROVE StopInv'
  BY <1>2 DEF Stop
<1>3. ASSUME NEW t \in Threads, Test(t) PROVE StopInv'
  BY <1>3 DEF Test, Reads, al
<1>4. ASSUME NEW t \in Threads, GetType(t) PROVE StopInv'
  BY <1>4 DEF GetType, Reads, al
<1>5. ASSUME NEW t \in Threads, Unqueue(t) PROVE StopInv'
  <2>1. /\ pc[t] = "unqueue" /\ pc' = [pc EXCEPT ![t] = "forget"]
        /\ Reads(t) /\ UNCHANGED <<last, src, stopped>>
    BY <1>5 DEF Unqueue
  <2> QED
    BY <2>1 DEF Reads
<1>6. ASSUME NEW t \in Threads, Detach(t) PROVE StopInv'
  <2>1. /\ pc[t] = "detach" /\ pc' = [pc EXCEPT ![t] = "forget"]
        /\ Reads(t) /\ UNCHANGED <<last, src, stopped>>
    BY <1>6 DEF Detach
  <2> QED
    BY <2>1 DEF Reads
<1>7. ASSUME NEW t \in Threads, Forget(t) PROVE StopInv'
  BY <1>7 DEF Forget, al
<1>8. ASSUME NEW t \in Threads, Delete(t) PROVE StopInv'
  <2>1. /\ pc[t] = "delete" /\ pc' = [pc EXCEPT ![t] = "idle"]
        /\ stopped' = [stopped EXCEPT ![t] = NoSource]
        /\ UNCHANGED <<last, src, stale>>
    BY <1>8 DEF Delete
  <2> QED
    BY <2>1
<1>9. ASSUME NEW s \in Sources, Mix(s) PROVE StopInv'
  BY <1>9 DEF Mix, thread
<1>10. CASE UNCHANGED vars
  BY <1>10 DEF vars, thread
<1> QED
  BY <1>1, <1>2, <1>3, <1>4, <1>5, <1>6, <1>7, <1>8, <1>9, <1>10
     DEF Next, Hook

(* The comment on line 38 is true of a game with one sound thread that     *)
(* deletes the buffers of each source it stops: whenever the hook looks at *)
(* last_stopped_src it finds the source of the stop right before.          *)
THEOREM OneSoundThreadIsRight ==
  ASSUME OneThread, ~Strays
  PROVE  Spec => []StopWasRightBefore
<1>1. StopInv /\ [Next]_vars => StopInv'
  BY StopStep
<1>2. StopInv => StopWasRightBefore
  BY DEF StopInv, StopWasRightBefore
<1> QED
  BY <1>1, <1>2, StopInit, PTL DEF Spec

-----------------------------------------------------------------------------
(* What TypeOK says of a source, and lemmas about its queue.               *)
QueueOK(q, n, k, live) ==
  /\ q \in Seq(live) /\ IsInjective(q)
  /\ n \in 0..Len(q)
  /\ k = "undetermined" => q = <<>>
  /\ k = "static" => Len(q) = 1

(* A new buffer at the end.                                                *)
LEMMA QueueAppends ==
  ASSUME NEW live, NEW q, NEW n, NEW k, QueueOK(q, n, k, live),
         NEW b \in live, b \notin Range(q)
  PROVE  QueueOK(Append(q, b), n, "streaming", live)
<1>1. Append(q, b) \in Seq(live) /\ Len(Append(q, b)) = Len(q) + 1
  BY DEF QueueOK
<1>2. ASSUME NEW i \in DOMAIN Append(q, b), NEW j \in DOMAIN Append(q, b),
             Append(q, b)[i] = Append(q, b)[j]
      PROVE  i = j
  BY <1>1, <1>2 DEF QueueOK, IsInjective, Range
<1> QED
  BY <1>1, <1>2 DEF QueueOK, IsInjective

(* The first buffers, which have been played, are taken off.               *)
LEMMA QueueShortens ==
  ASSUME NEW live, NEW q, NEW n, QueueOK(q, n, "streaming", live), NEW m \in 0..n
  PROVE  QueueOK(SubSeq(q, m + 1, Len(q)), n - m, "streaming", live)
<1> DEFINE r == SubSeq(q, m + 1, Len(q))
<1>1. q \in Seq(live) /\ n \in 0..Len(q) /\ IsInjective(q)
  BY DEF QueueOK
<1>2. r \in Seq(live) /\ Len(r) = Len(q) - m
      /\ \A i \in 1..Len(r) : r[i] = q[m + i]
  BY <1>1
<1>3. \A i, j \in DOMAIN r : r[i] = r[j] => i = j
  BY <1>1, <1>2 DEF IsInjective
<1> QED
  BY <1>1, <1>2, <1>3 DEF QueueOK, IsInjective

(* Other buffers come and go.                                              *)
LEMMA QueueOutlives ==
  ASSUME NEW live, NEW left, NEW q, NEW n, NEW k, QueueOK(q, n, k, live),
         \A b \in live \ left : b \notin Range(q)
  PROVE  QueueOK(q, n, k, left)
<1>1. \A i \in 1..Len(q) : q[i] \in left
  BY DEF QueueOK, Range
<1>2. q \in Seq(left)
  BY <1>1 DEF QueueOK
<1> QED
  BY <1>2 DEF QueueOK

(* The inductive form of TypeOK: with the domains of the functions.        *)
Places == {"idle", "stop", "test", "type", "unqueue", "detach", "forget", "delete"}

OpenALTypes ==
  /\ kind \in [Sources -> {"undetermined", "static", "streaming"}]
  /\ queue \in [Sources -> Seq(Buffers)]
  /\ processed \in [Sources -> Nat]
  /\ playing \subseteq Sources
  /\ alive \subseteq Buffers
  /\ \A s \in Sources : QueueOK(queue[s], processed[s], kind[s], alive)

HookTypes ==
  /\ last \in Sources \union {NoSource}
  /\ stale \in BOOLEAN
  /\ pc \in [Threads -> Places]
  /\ src \in [Threads -> Sources \union {NoSource}]
  /\ stopped \in [Threads -> Sources \union {NoSource}]
  /\ bufs \in [Threads -> Seq(Buffers)]
  /\ asked \in [Threads -> SUBSET Buffers]
  /\ \A t \in Threads :
       /\ (src[t] # NoSource) <=> (pc[t] = "stop")
       /\ (asked[t] = {}) <=> (pc[t] \in {"idle", "stop"})

AlInv == OpenALTypes /\ HookTypes

(* It implies TypeOK.                                                      *)
LEMMA AlInvTypes == AlInv => TypeOK
BY DEF AlInv, OpenALTypes, HookTypes, TypeOK, QueueOK, Places

(* No buffer exists, no thread is in a hook.                               *)
LEMMA AlInvInit == Init => AlInv
<1> SUFFICES ASSUME Init PROVE AlInv
  OBVIOUS
<1>1. OpenALTypes
  BY DEF Init, OpenALTypes, QueueOK, IsInjective
<1>2. bufs \in [Threads -> Seq(Buffers)] /\ asked \in [Threads -> SUBSET Buffers]
  BY DEF Init
<1>3. HookTypes
  BY <1>2, AlAssumption DEF Init, HookTypes, Places
<1> QED
  BY <1>1, <1>3 DEF AlInv

(* The game's own calls change the state of one source.                    *)
LEMMA OtherKeepsTypes ==
  ASSUME HookTypes, NEW t \in Threads, Other(t)
  PROVE  HookTypes'
BY AlAssumption DEF HookTypes, Other

(* One source changes and keeps to its type, the others are as before.     *)
LEMMA OneSourceChanges ==
  ASSUME OpenALTypes, NEW s \in Sources, NEW q \in Seq(Buffers), NEW n \in Nat,
         NEW k \in {"undetermined", "static", "streaming"},
         kind' = [kind EXCEPT ![s] = k],
         queue' = [queue EXCEPT ![s] = q],
         processed' = [processed EXCEPT ![s] = n],
         playing' \subseteq Sources, alive' = alive,
         QueueOK(q, n, k, alive)
  PROVE  OpenALTypes'
<1>1. \A r \in Sources : QueueOK(queue[r], processed[r], kind[r], alive)'
  BY DEF OpenALTypes
<1> QED
  BY <1>1 DEF OpenALTypes

(* The calls that go straight to OpenAL.                                   *)
LEMMA GameKeepsTypes ==
  ASSUME AlInv, NEW t \in Threads, Game(t)
  PROVE  AlInv'
<1> USE DEF AlInv
<1>1. ASSUME NEW b \in Buffers, Generate(t, b) PROVE AlInv'
  <2>1. \A s \in Sources :
          QueueOK(queue[s], processed[s], kind[s], alive \union {b})
    BY QueueOutlives DEF OpenALTypes
  <2> QED
    BY <1>1, <2>1, OtherKeepsTypes DEF Generate, OpenALTypes
<1>2. ASSUME NEW s \in Sources, NEW b \in Buffers, AttachStatic(t, s, b)
      PROVE  AlInv'
  <2>1. QueueOK(<<b>>, 0, "static", alive)
    BY <1>2 DEF AttachStatic, Usable, QueueOK, IsInjective
  <2>2. OpenALTypes'
    BY <1>2, <2>1, OneSourceChanges DEF AttachStatic, OpenALTypes
  <2> QED
    BY <1>2, <2>2, OtherKeepsTypes DEF AttachStatic
<1>3. ASSUME NEW s \in Sources, NEW b \in Buffers, QueueBuffer(t, s, b)
      PROVE  AlInv'
  <2>1. QueueOK(Append(queue[s], b), processed[s], "streaming", alive)
    BY <1>3, QueueAppends DEF QueueBuffer, Usable, Attached, OpenALTypes
  <2>2. queue' = [queue EXCEPT ![s] = Append(queue[s], b)]
        /\ processed' = [processed EXCEPT ![s] = processed[s]]
    BY <1>3 DEF QueueBuffer, OpenALTypes
  <2>3. OpenALTypes'
    BY <1>3, <2>1, <2>2, OneSourceChanges DEF QueueBuffer, OpenALTypes
  <2> QED
    BY <1>3, <2>3, OtherKeepsTypes DEF QueueBuffer
<1>4. ASSUME NEW s \in Sources, UnqueuePlayed(t, s) PROVE AlInv'
  <2>1. QueueOK(queue[s], processed[s], "streaming", alive) /\ processed[s] > 0
    BY <1>4 DEF UnqueuePlayed, OpenALTypes
  <2>2. 1 \in 0..processed[s] /\ Tail(queue[s]) = SubSeq(queue[s], 1 + 1, Len(queue[s]))
    BY <2>1 DEF QueueOK, OpenALTypes
  <2>3. QueueOK(Tail(queue[s]), processed[s] - 1, "streaming", alive)
    BY <2>1, <2>2, QueueShortens
  <2>4. /\ queue' = [queue EXCEPT ![s] = Tail(queue[s])]
        /\ processed' = [processed EXCEPT ![s] = processed[s] - 1]
        /\ kind' = [kind EXCEPT ![s] = "streaming"]
        /\ UNCHANGED <<playing, alive>>
    BY <1>4 DEF UnqueuePlayed, OpenALTypes
  <2>5. Tail(queue[s]) \in Seq(Buffers) /\ processed[s] - 1 \in Nat
    BY <2>3 DEF QueueOK, OpenALTypes
  <2>6. OpenALTypes'
    BY <2>3, <2>4, <2>5, OneSourceChanges DEF OpenALTypes
  <2> QED
    BY <1>4, <2>6, OtherKeepsTypes DEF UnqueuePlayed
<1>5. ASSUME NEW s \in Sources, Play(t, s) PROVE AlInv'
  <2>1. QueueOK(queue[s], 0, kind[s], alive)
    BY DEF OpenALTypes, QueueOK
  <2>2. /\ queue' = [queue EXCEPT ![s] = queue[s]]
        /\ kind' = [kind EXCEPT ![s] = kind[s]]
    BY <1>5 DEF Play, OpenALTypes
  <2>3. OpenALTypes'
    BY <1>5, <2>1, <2>2, OneSourceChanges DEF Play, OpenALTypes
  <2> QED
    BY <1>5, <2>3, OtherKeepsTypes DEF Play
<1>6. ASSUME NEW s \in Sources, Remember(t, s) PROVE AlInv'
  BY <1>6, AlAssumption DEF Remember, MayUse, al, OpenALTypes, HookTypes, Places
<1>7. CASE CallDelete(t)
  <2> PICK set \in (SUBSET alive) \ {{}} :
             /\ \E order \in SetToSeqs(set) : bufs' = [bufs EXCEPT ![t] = order]
             /\ asked' = [asked EXCEPT ![t] = set]
    BY <1>7 DEF CallDelete
  <2>1. Cardinality(set) \in Nat
    BY AlAssumption, FS_Subset, FS_CardinalityType DEF OpenALTypes
  <2>2. ASSUME NEW order \in SetToSeqs(set) PROVE order \in Seq(Buffers)
    <3>1. order \in [1..Cardinality(set) -> set]
      BY DEF SetToSeqs
    <3>2. order \in [1..Cardinality(set) -> Buffers]
      BY <3>1 DEF OpenALTypes
    <3> QED
      BY <2>1, <3>2
  <2>3. bufs' \in [Threads -> Seq(Buffers)] /\ asked' \in [Threads -> SUBSET Buffers]
    BY <2>2 DEF HookTypes, OpenALTypes
  <2>4. /\ pc[t] = "idle" /\ pc' = [pc EXCEPT ![t] = "test"]
        /\ UNCHANGED <<last, al, src, stopped, stale>>
    BY <1>7 DEF CallDelete
  <2>5. OpenALTypes'
    BY <2>4 DEF al, OpenALTypes
  <2>6. HookTypes'
    BY <2>3, <2>4 DEF HookTypes, Places
  <2> QED
    BY <2>5, <2>6
<1> QED
  BY <1>1, <1>2, <1>3, <1>4, <1>5, <1>6, <1>7 DEF Game

(* The two hooks, for whatever source last_stopped_src names.              *)
LEMMA HookKeepsTypes ==
  ASSUME AlInv, NEW t \in Threads, Hook(t)
  PROVE  AlInv'
<1> USE DEF AlInv
<1>1. CASE Stop(t)
  <2> DEFINE s == src[t]
  <2>1. s \in Sources
    BY <1>1 DEF Stop, HookTypes
  <2>2. QueueOK(queue[s], Len(queue[s]), kind[s], alive)
    BY <2>1 DEF OpenALTypes, QueueOK
  <2>3. /\ queue' = [queue EXCEPT ![s] = queue[s]]
        /\ kind' = [kind EXCEPT ![s] = kind[s]]
        /\ processed' = [processed EXCEPT ![s] = Len(queue[s])]
        /\ playing' \subseteq Sources /\ alive' = alive
        /\ queue[s] \in Seq(Buffers) /\ Len(queue[s]) \in Nat
    BY <1>1, <2>1 DEF Stop, OpenALTypes
  <2> HIDE DEF s
  <2>4. OpenALTypes'
    BY <2>1, <2>2, <2>3, OneSourceChanges DEF OpenALTypes
  <2>5. HookTypes'
    BY <1>1, <2>1, AlAssumption DEF Stop, HookTypes, Places, s
  <2> QED
    BY <2>4, <2>5
<1>2. CASE Test(t) \/ GetType(t) \/ Forget(t)
  <2>1. OpenALTypes'
    BY <1>2 DEF Test, GetType, Forget, al, OpenALTypes
  <2>2. HookTypes'
    BY <1>2, AlAssumption DEF Test, GetType, Forget, Reads, HookTypes, Places
  <2> QED
    BY <2>1, <2>2
<1>3. CASE Unqueue(t)
  <2> DEFINE n == Len(bufs[t])
  <2>1. /\ pc[t] = "unqueue" /\ pc' = [pc EXCEPT ![t] = "forget"]
        /\ stale' \in BOOLEAN
        /\ UNCHANGED <<last, src, asked, stopped, kind, playing, alive>>
    BY <1>3 DEF Unqueue, Reads, HookTypes
  <2>2. CASE last # NoSource /\ kind[last] = "streaming" /\ n <= processed[last]
    <3>1. /\ bufs' = [bufs EXCEPT ![t] = SubSeq(queue[last], 1, n)]
          /\ queue' = [queue EXCEPT ![last] = SubSeq(queue[last], n + 1, Len(queue[last]))]
          /\ processed' = [processed EXCEPT ![last] = processed[last] - n]
          /\ kind' = [kind EXCEPT ![last] = "streaming"]
      BY <1>3, <2>2 DEF Unqueue, OpenALTypes, HookTypes
    <3>2. last \in Sources /\ n \in 0..processed[last]
      BY <2>2 DEF HookTypes, OpenALTypes
    <3>3. QueueOK(queue[last], processed[last], "streaming", alive)
      BY <2>2, <3>2 DEF OpenALTypes
    <3>4. QueueOK(SubSeq(queue[last], n + 1, Len(queue[last])),
                  processed[last] - n, "streaming", alive)
      BY <3>2, <3>3, QueueShortens
    <3>5. SubSeq(queue[last], n + 1, Len(queue[last])) \in Seq(Buffers)
          /\ processed[last] - n \in Nat
      BY <3>2, <3>4 DEF QueueOK, OpenALTypes
    <3>6. SubSeq(queue[last], 1, n) \in Seq(Buffers)
      BY <3>2, <3>3 DEF QueueOK, OpenALTypes
    <3> HIDE DEF n
    <3>7. OpenALTypes'
      BY <2>1, <3>1, <3>2, <3>4, <3>5, OneSourceChanges DEF OpenALTypes
    <3>8. HookTypes'
      BY <2>1, <3>1, <3>6, AlAssumption DEF HookTypes, Places
    <3> QED
      BY <3>7, <3>8
  <2>3. CASE ~(last # NoSource /\ kind[last] = "streaming" /\ n <= processed[last])
    <3>1. UNCHANGED <<bufs, queue, processed>>
      BY <1>3, <2>3 DEF Unqueue
    <3> QED
      BY <2>1, <3>1, AlAssumption DEF OpenALTypes, HookTypes, Places
  <2> QED
    BY <2>2, <2>3
<1>4. CASE Detach(t)
  <2>1. /\ pc[t] = "detach" /\ pc' = [pc EXCEPT ![t] = "forget"]
        /\ stale' \in BOOLEAN
        /\ UNCHANGED <<last, playing, alive, src, bufs, asked, stopped>>
    BY <1>4 DEF Detach, Reads, HookTypes
  <2>2. CASE last # NoSource /\ last \notin playing
    <3>1. QueueOK(<<>>, 0, "undetermined", alive)
      BY DEF QueueOK, IsInjective
    <3>2. /\ kind' = [kind EXCEPT ![last] = "undetermined"]
          /\ queue' = [queue EXCEPT ![last] = <<>>]
          /\ processed' = [processed EXCEPT ![last] = 0]
          /\ last \in Sources /\ <<>> \in Seq(Buffers)
      BY <1>4, <2>2 DEF Detach, HookTypes
    <3>3. OpenALTypes'
      BY <2>1, <3>1, <3>2, OneSourceChanges DEF OpenALTypes
    <3>4. HookTypes'
      BY <2>1, AlAssumption DEF HookTypes, Places
    <3> QED
      BY <3>3, <3>4
  <2>3. CASE ~(last # NoSource /\ last \notin playing)
    <3>1. UNCHANGED <<kind, queue, processed>>
      BY <1>4, <2>3 DEF Detach
    <3> QED
      BY <2>1, <3>1, AlAssumption DEF OpenALTypes, HookTypes, Places
  <2> QED
    BY <2>2, <2>3
<1>5. CASE Delete(t)
  <2>1. UNCHANGED <<kind, queue, processed, playing>> /\ alive' \subseteq alive
    BY <1>5 DEF Delete
  <2>2. ASSUME NEW s \in Sources
        PROVE  QueueOK(queue[s], processed[s], kind[s], alive')
    <3>1. \A b \in alive \ alive' : b \notin Range(queue[s])
      BY <1>5 DEF Delete, Attached
    <3> QED
      BY <3>1, QueueOutlives DEF OpenALTypes
  <2>3. OpenALTypes'
    BY <2>1, <2>2 DEF OpenALTypes
  <2>4. bufs' \in [Threads -> Seq(Buffers)] /\ asked' \in [Threads -> SUBSET Buffers]
    BY <1>5 DEF Delete, HookTypes
  <2>5. HookTypes'
    BY <1>5, <2>4, AlAssumption DEF Delete, HookTypes, Places
  <2> QED
    BY <2>3, <2>5
<1> QED
  BY <1>1, <1>2, <1>3, <1>4, <1>5 DEF Hook

(* The mixer plays a buffer.                                               *)
LEMMA MixerKeepsTypes ==
  ASSUME AlInv, NEW s \in Sources, Mix(s)
  PROVE  AlInv'
<1> USE DEF AlInv
<1>1. /\ processed' = [processed EXCEPT ![s] = processed[s] + 1]
      /\ queue' = [queue EXCEPT ![s] = queue[s]]
      /\ kind' = [kind EXCEPT ![s] = kind[s]]
      /\ playing' \subseteq Sources /\ UNCHANGED <<alive, last, thread>>
  BY DEF Mix, OpenALTypes
<1>2. QueueOK(queue[s], processed[s] + 1, kind[s], alive)
  BY DEF Mix, OpenALTypes, QueueOK
<1>3. OpenALTypes'
  BY <1>1, <1>2, OneSourceChanges DEF OpenALTypes
<1>4. HookTypes'
  BY <1>1 DEF thread, HookTypes
<1> QED
  BY <1>3, <1>4

(* Any number of threads may stop sources and delete buffers as they like: *)
(* every queue keeps distinct buffers that exist, a source with none is of *)
(* no type, a static one has one, and the hooks' arguments fit their places. *)
THEOREM AlTypeCorrect == Spec => []TypeOK
<1>1. AlInv /\ [Next]_vars => AlInv'
  <2> SUFFICES ASSUME AlInv, [Next]_vars PROVE AlInv'
    OBVIOUS
  <2>1. CASE UNCHANGED vars
    BY <2>1 DEF vars, al, thread, AlInv, OpenALTypes, HookTypes
  <2> QED
    BY <2>1, GameKeepsTypes, HookKeepsTypes, MixerKeepsTypes DEF Next
<1> QED
  BY <1>1, AlInvInit, AlInvTypes, PTL DEF Spec

-----------------------------------------------------------------------------
(* What the deletion rests on.  The arrays of two threads name different   *)
(* buffers, as do the queues of two sources;                               *)
AskedApart ==
  \A t, u \in Threads : t # u => asked[t] \intersect asked[u] = {}

QueuesApart ==
  \A r, s \in Sources : r # s => Range(queue[r]) \intersect Range(queue[s]) = {}

(* a source that one thread stops or has just stopped is no other thread's *)
(* and has come to rest, with its whole queue processed;                   *)
HeldByOne ==
  \A t, u \in Threads, s \in Sources :
    t # u /\ s \in {src[t], stopped[t]} => s \notin {src[u], stopped[u]}

AtRest(s) == s \notin playing /\ processed[s] = Len(queue[s])

StoppedAtRest ==
  \A t \in Threads : stopped[t] # NoSource => AtRest(stopped[t])

(* and the hook's array names what the game asked for, which is the queue  *)
(* of the source it has stopped, until that is detached.                   *)
Unattached(set) == \A b \in set : ~Attached(b)

AskedOK(t) ==
  /\ asked[t] \subseteq alive
  /\ Range(bufs[t]) = asked[t] /\ IsInjective(bufs[t])
  /\ pc[t] \in {"test", "type", "unqueue", "detach"} =>
       IF stopped[t] = NoSource THEN Unattached(asked[t])
       ELSE asked[t] = Range(queue[stopped[t]])
  /\ pc[t] \in {"type", "unqueue", "detach"} => stopped[t] # NoSource
  /\ pc[t] = "unqueue" => kind[stopped[t]] = "streaming"
  /\ pc[t] \in {"forget", "delete"} => Unattached(asked[t])

Deleting(t) == pc[t] \notin {"idle", "stop"}

AskedFor == ~stale => \A t \in Threads : Deleting(t) => AskedOK(t)

AskInv ==
  /\ AlInv
  /\ AskedApart /\ QueuesApart /\ HeldByOne /\ StoppedAtRest
  /\ AskedFor

(* An array that names each buffer once is as long as the set it names.    *)
LEMMA LengthOfNames ==
  ASSUME NEW S, NEW q \in Seq(S), IsInjective(q)
  PROVE  IsFiniteSet(Range(q)) /\ Cardinality(Range(q)) = Len(q)
<1>1. Len(q) \in Nat /\ DOMAIN q = 1..Len(q)
  OBVIOUS
<1>2. IsFiniteSet(1..Len(q)) /\ Cardinality(1..Len(q)) = Len(q)
  BY <1>1, FS_Interval
<1>3. q \in [1..Len(q) -> Range(q)]
  BY <1>1 DEF Range
<1>4. q \in Bijection(1..Len(q), Range(q))
  BY <1>1, <1>3 DEF Bijection, Injection, Surjection, Range
<1> QED
  BY <1>2, <1>4, FS_Bijection DEF ExistsBijection

(* Two arrays that name the same buffers, each once, are equally long.     *)
LEMMA SameNamesSameLength ==
  ASSUME NEW S, NEW q \in Seq(S), NEW r \in Seq(S),
         IsInjective(q), IsInjective(r), Range(q) = Range(r)
  PROVE  Len(q) = Len(r)
<1>1. Cardinality(Range(q)) = Len(q)
  BY LengthOfNames
<1>2. Cardinality(Range(r)) = Len(r)
  BY LengthOfNames
<1> QED
  BY <1>1, <1>2

(* The orders of a set of buffers name all of it, each buffer once.        *)
LEMMA OrdersNameAll ==
  ASSUME NEW set, IsFiniteSet(set), NEW order \in SetToSeqs(set)
  PROVE  Range(order) = set /\ IsInjective(order)
<1> DEFINE D == 1..Cardinality(set)
<1>1. Cardinality(set) \in Nat
  BY FS_CardinalityType
<1>2. order \in [D -> set] /\ \A i1, i2 \in D : i1 # i2 => order[i1] # order[i2]
  BY DEF SetToSeqs
<1>3. IsFiniteSet(D) /\ Cardinality(D) = Cardinality(set)
  BY <1>1, FS_Interval
<1> HIDE DEF D
<1>4. IsInjective(order)
  BY <1>2 DEF IsInjective
<1>5. order \in Injection(D, set)
  BY <1>2, <1>4 DEF Injection
<1>6. order \in Surjection(D, set)
  BY <1>3, <1>5, FS_Injection
<1>7. Range(order) = set
  BY <1>2, <1>6 DEF Surjection, Range
<1> QED
  BY <1>4, <1>7

(* The end of a queue and its beginning name nothing else.                 *)
LEMMA PartsName ==
  ASSUME NEW S, NEW q \in Seq(S), NEW m \in 0..Len(q)
  PROVE  /\ Range(SubSeq(q, m + 1, Len(q))) \subseteq Range(q)
         /\ Len(SubSeq(q, m + 1, Len(q))) = Len(q) - m
         /\ m = Len(q) => SubSeq(q, 1, m) = q /\ SubSeq(q, m + 1, Len(q)) = <<>>
<1> DEFINE r == SubSeq(q, m + 1, Len(q))
<1>1. /\ r \in Seq(S) /\ Len(r) = Len(q) - m
      /\ \A i \in 1..Len(r) : r[i] = q[m + i] /\ m + i \in 1..Len(q)
  OBVIOUS
<1>2. Range(r) \subseteq Range(q)
  <2> SUFFICES ASSUME NEW i \in 1..Len(r) PROVE r[i] \in Range(q)
    BY <1>1 DEF Range
  <2> QED
    BY <1>1 DEF Range
<1>3. m = Len(q) => SubSeq(q, 1, m) = q /\ r = <<>>
  OBVIOUS
<1> QED
  BY <1>1, <1>2, <1>3

(* Nothing exists, nothing is asked for.                                   *)
LEMMA AskInit == Init => AskInv
<1> SUFFICES ASSUME Init PROVE AskInv
  OBVIOUS
<1>1. AskedApart /\ HeldByOne /\ StoppedAtRest
  BY AlAssumption DEF Init, AskedApart, HeldByOne, StoppedAtRest
<1>2. QueuesApart
  BY DEF Init, QueuesApart, Range
<1>3. AskedFor
  BY DEF Init, AskedFor, Deleting
<1> QED
  BY <1>1, <1>2, <1>3, AlInvInit DEF AskInv

(* A source gets a queue of buffers of its own and of buffers no source    *)
(* had: the queues stay apart, and nothing else becomes attached.          *)
LEMMA QueueChanges ==
  ASSUME AlInv, QueuesApart, NEW s \in Sources, NEW q,
         queue' = [queue EXCEPT ![s] = q],
         \A b \in Range(q) : b \in Range(queue[s]) \/ ~Attached(b)
  PROVE  /\ QueuesApart'
         /\ \A b : Attached(b)' => Attached(b) \/ b \in Range(q)
<1>1. /\ queue'[s] = q
      /\ \A r \in Sources : r # s => queue'[r] = queue[r]
  BY DEF AlInv, OpenALTypes
<1>2. QueuesApart'
  <2> SUFFICES ASSUME NEW r1 \in Sources, NEW r2 \in Sources, r1 # r2,
                      NEW b, b \in Range(queue'[r1]), b \in Range(queue'[r2])
               PROVE  FALSE
    BY DEF QueuesApart
  <2>1. CASE r1 = s
    <3>1. b \in Range(q) /\ b \in Range(queue[r2])
      BY <1>1, <2>1
    <3> QED
      BY <2>1, <3>1 DEF QueuesApart, Attached
  <2>2. CASE r2 = s
    <3>1. b \in Range(q) /\ b \in Range(queue[r1])
      BY <1>1, <2>2
    <3> QED
      BY <2>2, <3>1 DEF QueuesApart, Attached
  <2>3. CASE r1 # s /\ r2 # s
    BY <1>1, <2>3 DEF QueuesApart
  <2> QED
    BY <2>1, <2>2, <2>3
<1>3. \A b : Attached(b)' => Attached(b) \/ b \in Range(q)
  BY <1>1 DEF Attached
<1> QED
  BY <1>2, <1>3

(* A thread that is not the one that moves stays where it is in the hook.  *)
LEMMA OthersAskOn ==
  ASSUME NEW u \in Threads, AskedOK(u),
         pc'[u] = pc[u], bufs'[u] = bufs[u], asked'[u] = asked[u],
         stopped'[u] = stopped[u],
         stopped[u] # NoSource =>
           queue'[stopped[u]] = queue[stopped[u]] /\ kind'[stopped[u]] = kind[stopped[u]],
         \A b \in asked[u] : b \in alive',
         \A b \in asked[u] : Attached(b)' => Attached(b)
  PROVE  AskedOK(u)'
<1>1. Unattached(asked[u]) => Unattached(asked[u])'
  BY DEF Unattached
<1>2. (asked[u] = Range(queue[stopped[u]]) /\ stopped[u] # NoSource)
        => (asked[u] = Range(queue[stopped[u]]))'
  OBVIOUS
<1>3. /\ (asked[u] \subseteq alive)'
      /\ (Range(bufs[u]) = asked[u] /\ IsInjective(bufs[u]))'
  BY DEF AskedOK
<1> QED
  BY <1>1, <1>2, <1>3 DEF AskedOK, Unattached

(* The game uses a source that no other thread stops or has just stopped:  *)
(* whatever becomes of its queue, nobody's deletion is about it.           *)
LEMMA GameUsesSource ==
  ASSUME AskInv, NEW t \in Threads, NEW s \in Sources, MayUse(t, s), Other(t),
         NEW q, queue' = [queue EXCEPT ![s] = q],
         \A r \in Sources \ {s} :
           /\ kind'[r] = kind[r] /\ processed'[r] = processed[r]
           /\ r \in playing' <=> r \in playing,
         alive' = alive,
         \A b \in Range(q) :
           b \in Range(queue[s]) \/ (~Attached(b) /\ \A u \in Threads : b \notin asked[u]),
         AlInv'
  PROVE  AskInv'
<1> USE AlAssumption
<1>1. /\ pc[t] = "idle" /\ pc' = pc /\ src' = src /\ bufs' = bufs /\ asked' = asked
      /\ stale' = stale /\ stopped' = [stopped EXCEPT ![t] = NoSource]
  BY DEF Other, MayUse
<1>2. /\ stopped \in [Threads -> Sources \union {NoSource}]
      /\ src \in [Threads -> Sources \union {NoSource}]
      /\ queue \in [Sources -> Seq(Buffers)]
  BY DEF AskInv, AlInv, HookTypes, OpenALTypes
<1>3. /\ stopped'[t] = NoSource
      /\ \A u \in Threads : u # t =>
           stopped'[u] = stopped[u] /\ stopped[u] # s
  BY <1>1, <1>2 DEF MayUse
<1>4. \A r \in Sources : r # s => queue'[r] = queue[r]
  BY <1>2
<1>5. AskedApart'
  BY <1>1 DEF AskInv, AskedApart
<1>6. HeldByOne'
  <2>1. \A u \in Threads, r \in Sources :
          r \in {src'[u], stopped'[u]} => r \in {src[u], stopped[u]}
    BY <1>1, <1>3
  <2> QED
    BY <2>1 DEF AskInv, HeldByOne
<1>7. StoppedAtRest'
  <2> SUFFICES ASSUME NEW u \in Threads, stopped'[u] # NoSource
               PROVE  AtRest(stopped[u])' /\ stopped'[u] = stopped[u]
    BY DEF StoppedAtRest, AtRest
  <2>1. u # t /\ stopped'[u] = stopped[u] /\ stopped[u] \in Sources \ {s}
    BY <1>2, <1>3
  <2>2. AtRest(stopped[u])
    BY <2>1 DEF AskInv, StoppedAtRest
  <2> QED
    BY <2>1, <2>2, <1>4 DEF AtRest
<1>8. QueuesApart' /\ \A b : Attached(b)' => Attached(b) \/ b \in Range(q)
  <2>1. \A b \in Range(q) : b \in Range(queue[s]) \/ ~Attached(b)
    OBVIOUS
  <2> QED
    BY <2>1, QueueChanges DEF AskInv
<1>9. AskedFor'
  <2> SUFFICES ASSUME ~stale, NEW u \in Threads, Deleting(u)
               PROVE  AskedOK(u)'
    BY <1>1 DEF AskedFor, Deleting
  <2>1. AskedOK(u) /\ u # t
    BY <1>1 DEF AskInv, AskedFor, Deleting
  <2>2. stopped[u] # NoSource =>
          queue'[stopped[u]] = queue[stopped[u]] /\ kind'[stopped[u]] = kind[stopped[u]]
    BY <2>1, <1>2, <1>3, <1>4
  <2>3. \A b \in asked[u] : Attached(b)' => Attached(b)
    <3>1. \A b \in asked[u] : b \in Range(q) => Attached(b)
      BY DEF Attached
    <3> QED
      BY <3>1, <1>8
  <2>4. \A b \in asked[u] : b \in alive'
    BY <2>1 DEF AskedOK
  <2> QED
    BY <1>1, <1>3, <2>1, <2>2, <2>3, <2>4, OthersAskOn
<1> QED
  BY <1>5, <1>6, <1>7, <1>8, <1>9 DEF AskInv

(* The calls that go straight to OpenAL.                                   *)
LEMMA GameKeepsAsked ==
  ASSUME AskInv, NEW t \in Threads, Game(t)
  PROVE  AskInv'
<1> USE AlAssumption
<1>0. AlInv /\ AlInv'
  BY GameKeepsTypes DEF AskInv
<1>1. ASSUME NEW b \in Buffers, Generate(t, b) PROVE AskInv'
  <2>1. /\ pc[t] = "idle" /\ pc' = pc /\ src' = src /\ bufs' = bufs /\ asked' = asked
        /\ stale' = stale /\ stopped' = [stopped EXCEPT ![t] = NoSource]
        /\ UNCHANGED <<kind, queue, processed, playing>> /\ alive \subseteq alive'
    BY <1>1 DEF Generate, Other
  <2>2. \A u \in Threads : stopped'[u] = (IF u = t THEN NoSource ELSE stopped[u])
    BY <2>1, <1>0 DEF AlInv, HookTypes
  <2>3. AskedApart' /\ QueuesApart'
    BY <2>1 DEF AskInv, AskedApart, QueuesApart
  <2>4. HeldByOne'
    <3>1. \A u \in Threads, r \in Sources :
            r \in {src'[u], stopped'[u]} => r \in {src[u], stopped[u]}
      BY <2>1, <2>2
    <3> QED
      BY <3>1 DEF AskInv, HeldByOne
  <2>5. StoppedAtRest'
    BY <2>1, <2>2 DEF AskInv, StoppedAtRest, AtRest
  <2>6. AskedFor'
    <3> SUFFICES ASSUME ~stale, NEW u \in Threads, Deleting(u)
                 PROVE  AskedOK(u)'
      BY <2>1 DEF AskedFor, Deleting
    <3>1. AskedOK(u) /\ u # t
      BY <2>1 DEF AskInv, AskedFor, Deleting
    <3>2. \A c \in asked[u] : c \in alive'
      BY <2>1, <3>1 DEF AskedOK
    <3>3. \A c : Attached(c)' => Attached(c)
      BY <2>1 DEF Attached
    <3> QED
      BY <2>1, <2>2, <3>1, <3>2, <3>3, OthersAskOn
  <2> QED
    BY <1>0, <2>3, <2>4, <2>5, <2>6 DEF AskInv
<1>2. ASSUME NEW s \in Sources, NEW b \in Buffers, AttachStatic(t, s, b)
      PROVE  AskInv'
  <2>1. MayUse(t, s) /\ Other(t) /\ queue' = [queue EXCEPT ![s] = <<b>>]
        /\ alive' = alive
    BY <1>2 DEF AttachStatic
  <2>2. \A r \in Sources \ {s} :
          /\ kind'[r] = kind[r] /\ processed'[r] = processed[r]
          /\ r \in playing' <=> r \in playing
    BY <1>0, <1>2 DEF AttachStatic, AlInv, OpenALTypes
  <2>3. \A c \in Range(<<b>>) :
          c \in Range(queue[s]) \/ (~Attached(c) /\ \A u \in Threads : c \notin asked[u])
    BY <1>2 DEF AttachStatic, Usable, Range
  <2> QED
    BY <1>0, <2>1, <2>2, <2>3, GameUsesSource
<1>3. ASSUME NEW s \in Sources, NEW b \in Buffers, QueueBuffer(t, s, b)
      PROVE  AskInv'
  <2>1. MayUse(t, s) /\ Other(t) /\ queue' = [queue EXCEPT ![s] = Append(queue[s], b)]
        /\ alive' = alive
    BY <1>3 DEF QueueBuffer
  <2>2. \A r \in Sources \ {s} :
          /\ kind'[r] = kind[r] /\ processed'[r] = processed[r]
          /\ r \in playing' <=> r \in playing
    BY <1>0, <1>3 DEF QueueBuffer, AlInv, OpenALTypes
  <2>3. queue[s] \in Seq(Buffers)
    BY <1>0 DEF AlInv, OpenALTypes
  <2>4. \A c \in Range(Append(queue[s], b)) : c \in Range(queue[s]) \/ c = b
    BY <2>3 DEF Range
  <2>5. ~Attached(b) /\ \A u \in Threads : b \notin asked[u]
    BY <1>3 DEF QueueBuffer, Usable
  <2>6. \A c \in Range(Append(queue[s], b)) :
          c \in Range(queue[s]) \/ (~Attached(c) /\ \A u \in Threads : c \notin asked[u])
    BY <2>4, <2>5
  <2> QED
    BY <1>0, <2>1, <2>2, <2>6, GameUsesSource
<1>4. ASSUME NEW s \in Sources, UnqueuePlayed(t, s) PROVE AskInv'
  <2>1. MayUse(t, s) /\ Other(t) /\ queue' = [queue EXCEPT ![s] = Tail(queue[s])]
        /\ alive' = alive
    BY <1>4 DEF UnqueuePlayed
  <2>2. \A r \in Sources \ {s} :
          /\ kind'[r] = kind[r] /\ processed'[r] = processed[r]
          /\ r \in playing' <=> r \in playing
    BY <1>0, <1>4 DEF UnqueuePlayed, AlInv, OpenALTypes
  <2>3. queue[s] \in Seq(Buffers) /\ queue[s] # <<>>
    BY <1>0, <1>4 DEF UnqueuePlayed, AlInv, OpenALTypes, QueueOK
  <2>4. \A c \in Range(Tail(queue[s])) : c \in Range(queue[s])
    BY <2>3 DEF Range
  <2> QED
    BY <1>0, <2>1, <2>2, <2>4, GameUsesSource
<1>5. ASSUME NEW s \in Sources, Play(t, s) PROVE AskInv'
  <2>1. MayUse(t, s) /\ Other(t) /\ queue' = [queue EXCEPT ![s] = queue[s]]
        /\ alive' = alive
    BY <1>0, <1>5 DEF Play, AlInv, OpenALTypes
  <2>2. \A r \in Sources \ {s} :
          /\ kind'[r] = kind[r] /\ processed'[r] = processed[r]
          /\ r \in playing' <=> r \in playing
    BY <1>0, <1>5 DEF Play, AlInv, OpenALTypes
  <2> QED
    BY <1>0, <2>1, <2>2, GameUsesSource
<1>6. ASSUME NEW s \in Sources, Remember(t, s) PROVE AskInv'
  <2>1. /\ pc[t] = "idle" /\ pc' = [pc EXCEPT ![t] = "stop"]
        /\ src' = [src EXCEPT ![t] = s]
        /\ UNCHANGED <<kind, queue, processed, playing, alive, bufs, asked, stopped, stale>>
    BY <1>6 DEF Remember, MayUse, al
  <2>2. \A u \in Threads : /\ src'[u] = (IF u = t THEN s ELSE src[u])
                           /\ pc'[u] = (IF u = t THEN "stop" ELSE pc[u])
    BY <2>1, <1>0 DEF AlInv, HookTypes
  <2>3. AskedApart' /\ QueuesApart' /\ StoppedAtRest'
    BY <2>1 DEF AskInv, AskedApart, QueuesApart, StoppedAtRest, AtRest
  <2>4. HeldByOne'
    <3>1. \A u \in Threads : u # t => stopped[u] # s /\ src[u] # s
      BY <1>6 DEF Remember, MayUse
    <3>2. \A u \in Threads, r \in Sources :
            r \in {src'[u], stopped'[u]} =>
              r \in {src[u], stopped[u]} \/ (u = t /\ r = s)
      BY <2>1, <2>2
    <3> QED
      BY <2>1, <2>2, <3>1, <3>2 DEF AskInv, HeldByOne
  <2>5. AskedFor'
    <3> SUFFICES ASSUME ~stale, NEW u \in Threads, Deleting(u), u # t
                 PROVE  AskedOK(u)'
      BY <2>1, <2>2 DEF AskedFor, Deleting
    <3>1. AskedOK(u)
      BY DEF AskInv, AskedFor
    <3>2. \A c \in asked[u] : c \in alive'
      BY <2>1, <3>1 DEF AskedOK
    <3>3. \A c : Attached(c)' => Attached(c)
      BY <2>1 DEF Attached
    <3> QED
      BY <2>1, <2>2, <3>1, <3>2, <3>3, OthersAskOn
  <2> QED
    BY <1>0, <2>3, <2>4, <2>5 DEF AskInv
<1>7. CASE CallDelete(t)
  <2> PICK set \in (SUBSET alive) \ {{}} :
             /\ IF stopped[t] # NoSource
                THEN set = Range(queue[stopped[t]])
                ELSE \A b \in set : ~Attached(b)
             /\ \A u \in Threads : asked[u] \intersect set = {}
             /\ \E order \in SetToSeqs(set) : bufs' = [bufs EXCEPT ![t] = order]
             /\ asked' = [asked EXCEPT ![t] = set]
    BY <1>7 DEF CallDelete
  <2> PICK order \in SetToSeqs(set) : bufs' = [bufs EXCEPT ![t] = order]
    OBVIOUS
  <2>1. /\ pc[t] = "idle" /\ pc' = [pc EXCEPT ![t] = "test"]
        /\ UNCHANGED <<last, kind, queue, processed, playing, alive, src, stopped, stale>>
    BY <1>7 DEF CallDelete, al
  <2>2. /\ pc'[t] = "test" /\ bufs'[t] = order /\ asked'[t] = set
        /\ \A u \in Threads : u # t =>
             pc'[u] = pc[u] /\ bufs'[u] = bufs[u] /\ asked'[u] = asked[u]
    BY <2>1, <1>0 DEF AlInv, HookTypes
  <2>3. QueuesApart' /\ StoppedAtRest' /\ HeldByOne'
    BY <2>1 DEF AskInv, QueuesApart, StoppedAtRest, AtRest, HeldByOne
  <2>4. AskedApart'
    BY <2>2 DEF AskInv, AskedApart
  <2>5. \A b : Attached(b)' <=> Attached(b)
    BY <2>1 DEF Attached
  <2>6. AskedOK(t)'
    <3>1. IsFiniteSet(set)
      BY <1>0, FS_Subset DEF AlInv, OpenALTypes
    <3>2. Range(order) = set /\ IsInjective(order)
      BY <3>1, OrdersNameAll
    <3>3. (IF stopped[t] = NoSource THEN Unattached(asked[t])
           ELSE asked[t] = Range(queue[stopped[t]]))'
      BY <2>1, <2>2, <2>5 DEF Unattached
    <3> QED
      BY <2>1, <2>2, <3>2, <3>3 DEF AskedOK
  <2>7. AskedFor'
    <3> SUFFICES ASSUME ~stale, NEW u \in Threads, Deleting(u), u # t
                 PROVE  AskedOK(u)'
      BY <2>1, <2>2, <2>6 DEF AskedFor, Deleting
    <3>1. AskedOK(u)
      BY DEF AskInv, AskedFor
    <3>2. \A c \in asked[u] : c \in alive'
      BY <2>1, <3>1 DEF AskedOK
    <3> QED
      BY <2>1, <2>2, <2>5, <3>1, <3>2, OthersAskOn
  <2> QED
    BY <1>0, <2>3, <2>4, <2>7 DEF AskInv
<1> QED
  BY <1>1, <1>2, <1>3, <1>4, <1>5, <1>6, <1>7 DEF Game

(* A hook reads, and leaves OpenAL and its arguments as they are.          *)
LEMMA HookReads ==
  ASSUME AskInv, AlInv', NEW t \in Threads,
         UNCHANGED <<al, src, bufs, asked, stopped>>,
         \A u \in Threads : u # t => pc'[u] = pc[u],
         ~stale' => ~stale /\ AskedOK(t)'
  PROVE  AskInv'
<1>1. UNCHANGED <<kind, queue, processed, playing, alive>>
  BY DEF al
<1>2. AskedApart' /\ QueuesApart' /\ HeldByOne' /\ StoppedAtRest'
  BY <1>1 DEF AskInv, AskedApart, QueuesApart, HeldByOne, StoppedAtRest, AtRest
<1>3. AskedFor'
  <2> SUFFICES ASSUME ~stale', NEW u \in Threads, Deleting(u), u # t
               PROVE  AskedOK(u)'
    BY DEF AskedFor, Deleting
  <2>1. AskedOK(u)
    BY DEF AskInv, AskedFor
  <2>2. \A b \in asked[u] : b \in alive'
    BY <1>1, <2>1 DEF AskedOK
  <2>3. \A b : Attached(b)' => Attached(b)
    BY <1>1 DEF Attached
  <2> QED
    BY <1>1, <2>1, <2>2, <2>3, OthersAskOn
<1> QED
  BY <1>2, <1>3 DEF AskInv

(* A hook takes buffers off a source.  When last_stopped_src has always    *)
(* been right, that is the source of this thread's stop and nobody else's. *)
LEMMA HookDetaches ==
  ASSUME AskInv, AlInv', NEW t \in Threads, NEW s \in Sources, NEW q, NEW n,
         queue' = [queue EXCEPT ![s] = q],
         processed' = [processed EXCEPT ![s] = n],
         \A r \in Sources \ {s} : kind'[r] = kind[r],
         UNCHANGED <<playing, alive, src, asked, stopped>>,
         Range(q) \subseteq Range(queue[s]),
         processed[s] = Len(queue[s]) => n = Len(q),
         \A u \in Threads : u # t => pc'[u] = pc[u] /\ bufs'[u] = bufs[u],
         ~stale' => ~stale /\ stopped[t] = s /\ AskedOK(t)'
  PROVE  AskInv'
<1>1. /\ queue \in [Sources -> Seq(Buffers)] /\ processed \in [Sources -> Nat]
      /\ stopped \in [Threads -> Sources \union {NoSource}]
  BY DEF AskInv, AlInv, OpenALTypes, HookTypes
<1>2. /\ queue'[s] = q /\ processed'[s] = n
      /\ \A r \in Sources \ {s} : queue'[r] = queue[r] /\ processed'[r] = processed[r]
  BY <1>1
<1>3. AskedApart' /\ HeldByOne'
  BY DEF AskInv, AskedApart, HeldByOne
<1>4. StoppedAtRest'
  BY <1>1, <1>2 DEF AskInv, StoppedAtRest, AtRest
<1>5. QueuesApart' /\ \A b : Attached(b)' => Attached(b)
  <2>1. QueuesApart' /\ \A b : Attached(b)' => Attached(b) \/ b \in Range(q)
    BY QueueChanges DEF AskInv
  <2>2. \A b \in Range(q) : Attached(b)
    BY DEF Attached
  <2> QED
    BY <2>1, <2>2
<1>6. AskedFor'
  <2> SUFFICES ASSUME ~stale', NEW u \in Threads, Deleting(u), u # t
               PROVE  AskedOK(u)'
    BY DEF AskedFor, Deleting
  <2>1. AskedOK(u)
    BY DEF AskInv, AskedFor
  <2>2. stopped[u] # s
    BY DEF AskInv, HeldByOne
  <2>3. stopped[u] # NoSource =>
          queue'[stopped[u]] = queue[stopped[u]] /\ kind'[stopped[u]] = kind[stopped[u]]
    BY <1>1, <1>2, <2>2
  <2>4. \A b \in asked[u] : b \in alive'
    BY <2>1 DEF AskedOK
  <2> QED
    BY <1>5, <2>1, <2>3, <2>4, OthersAskOn
<1> QED
  BY <1>3, <1>4, <1>5, <1>6 DEF AskInv

(* What was the queue of one source and has been taken off it is attached  *)
(* to none.                                                                *)
LEMMA DetachedForGood ==
  ASSUME QueuesApart, queue \in [Sources -> Seq(Buffers)], NEW s \in Sources,
         queue' = [queue EXCEPT ![s] = <<>>], NEW b \in Range(queue[s])
  PROVE  ~Attached(b)'
<1>1. \A r \in Sources : queue'[r] = (IF r = s THEN <<>> ELSE queue[r])
  OBVIOUS
<1>2. b \notin Range(<<>>)
  BY DEF Range
<1> QED
  BY <1>1, <1>2 DEF Attached, QueuesApart

(* The two hooks.                                                          *)
LEMMA HookKeepsAsked ==
  ASSUME AskInv, NEW t \in Threads, Hook(t)
  PROVE  AskInv'
<1> USE AlAssumption
<1>0. AlInv /\ AlInv'
  BY HookKeepsTypes DEF AskInv
<1>1. CASE Stop(t)
  <2> DEFINE s == src[t]
  <2>1. s \in Sources
    BY <1>0, <1>1 DEF Stop, AlInv, HookTypes
  <2>2. /\ pc[t] = "stop" /\ pc' = [pc EXCEPT ![t] = "idle"]
        /\ playing' = playing \ {s}
        /\ processed' = [processed EXCEPT ![s] = Len(queue[s])]
        /\ stopped' = [stopped EXCEPT ![t] = s]
        /\ src' = [src EXCEPT ![t] = NoSource]
        /\ UNCHANGED <<kind, queue, alive, bufs, asked, stale>>
    BY <1>1 DEF Stop
  <2>3. \A u \in Threads : /\ pc'[u] = (IF u = t THEN "idle" ELSE pc[u])
                           /\ stopped'[u] = (IF u = t THEN s ELSE stopped[u])
                           /\ src'[u] = (IF u = t THEN NoSource ELSE src[u])
    BY <1>0, <2>2 DEF AlInv, HookTypes
  <2>4. \A r \in Sources : processed'[r] = (IF r = s THEN Len(queue[s]) ELSE processed[r])
    BY <1>0, <2>2 DEF AlInv, OpenALTypes
  <2>5. AskedApart' /\ QueuesApart'
    BY <2>2 DEF AskInv, AskedApart, QueuesApart
  <2>6. HeldByOne'
    <3>1. \A u \in Threads, r \in Sources :
            r \in {src'[u], stopped'[u]} => r \in {src[u], stopped[u]}
      BY <2>1, <2>3
    <3> QED
      BY <3>1 DEF AskInv, HeldByOne
  <2>7. StoppedAtRest'
    <3> SUFFICES ASSUME NEW u \in Threads, stopped'[u] # NoSource
                 PROVE  stopped'[u] \notin playing'
                        /\ processed'[stopped'[u]] = Len(queue[stopped'[u]])
      BY <2>2 DEF StoppedAtRest, AtRest
    <3>1. stopped'[u] \in Sources /\ (stopped'[u] = s \/ AtRest(stopped'[u]))
      BY <1>0, <2>1, <2>3 DEF AskInv, StoppedAtRest, AlInv, HookTypes
    <3> QED
      BY <2>2, <2>4, <3>1 DEF AtRest
  <2> HIDE DEF s
  <2>8. AskedFor'
    <3> SUFFICES ASSUME ~stale, NEW u \in Threads, Deleting(u), u # t
                 PROVE  AskedOK(u)'
      BY <2>2, <2>3 DEF AskedFor, Deleting
    <3>1. AskedOK(u)
      BY DEF AskInv, AskedFor
    <3>2. \A b \in asked[u] : b \in alive'
      BY <2>2, <3>1 DEF AskedOK
    <3>3. \A b : Attached(b)' => Attached(b)
      BY <2>2 DEF Attached
    <3> QED
      BY <2>2, <2>3, <3>1, <3>2, <3>3, OthersAskOn
  <2> QED
    BY <1>0, <2>5, <2>6, <2>7, <2>8 DEF AskInv
<1>2. CASE Test(t)
  <2>1. /\ pc[t] = "test" /\ pc' = [pc EXCEPT ![t] = IF last = NoSource THEN "delete" ELSE "type"]
        /\ UNCHANGED <<al, src, bufs, asked, stopped>>
        /\ ~stale' => ~stale /\ last = stopped[t]
    BY <1>2 DEF Test, Reads
  <2>2. /\ pc'[t] = (IF last = NoSource THEN "delete" ELSE "type")
        /\ \A u \in Threads : u # t => pc'[u] = pc[u]
    BY <1>0, <2>1 DEF AlInv, HookTypes
  <2>3. UNCHANGED <<kind, queue, alive>> /\ \A b : Attached(b)' <=> Attached(b)
    BY <2>1 DEF al, Attached
  <2>4. ASSUME ~stale' PROVE AskedOK(t)'
    <3>1. AskedOK(t) /\ last = stopped[t]
      BY <2>1, <2>4 DEF AskInv, AskedFor, Deleting
    <3> QED
      BY <2>1, <2>2, <2>3, <3>1 DEF AskedOK, Unattached
  <2> QED
    BY <1>0, <2>1, <2>2, <2>4, HookReads
<1>3. CASE GetType(t)
  <2>1. /\ pc[t] = "type"
        /\ pc' = [pc EXCEPT ![t] = IF last # NoSource /\ kind[last] = "streaming"
                                   THEN "unqueue" ELSE "detach"]
        /\ UNCHANGED <<al, src, bufs, asked, stopped>>
        /\ ~stale' => ~stale /\ last = stopped[t]
    BY <1>3 DEF GetType, Reads
  <2>2. /\ pc'[t] = (IF last # NoSource /\ kind[last] = "streaming"
                     THEN "unqueue" ELSE "detach")
        /\ \A u \in Threads : u # t => pc'[u] = pc[u]
    BY <1>0, <2>1 DEF AlInv, HookTypes
  <2>3. UNCHANGED <<kind, queue, alive>>
    BY <2>1 DEF al
  <2>4. ASSUME ~stale' PROVE AskedOK(t)'
    <3>1. AskedOK(t) /\ last = stopped[t]
      BY <2>1, <2>4 DEF AskInv, AskedFor, Deleting
    <3> QED
      BY <2>1, <2>2, <2>3, <3>1 DEF AskedOK, Unattached
  <2> QED
    BY <1>0, <2>1, <2>2, <2>4, HookReads
<1>4. CASE Unqueue(t)
  <2> DEFINE n == Len(bufs[t])
             q == queue[last]
  <2>1. /\ pc[t] = "unqueue" /\ pc' = [pc EXCEPT ![t] = "forget"]
        /\ UNCHANGED <<kind, playing, alive, src, asked, stopped>>
        /\ ~stale' => ~stale /\ last = stopped[t]
    BY <1>4 DEF Unqueue, Reads
  <2>2. pc'[t] = "forget" /\ \A u \in Threads : u # t => pc'[u] = pc[u]
    BY <1>0, <2>1 DEF AlInv, HookTypes
  <2>3. ASSUME ~stale'
        PROVE  /\ AskedOK(t) /\ last = stopped[t] /\ last \in Sources
               /\ kind[last] = "streaming" /\ asked[t] = Range(q)
               /\ n = Len(q) /\ processed[last] = Len(q)
    <3>1. AskedOK(t) /\ last = stopped[t] /\ last # NoSource /\ last \in Sources
      BY <1>0, <2>1, <2>3 DEF AskInv, AskedFor, Deleting, AskedOK, AlInv, HookTypes
    <3>2. /\ kind[last] = "streaming" /\ asked[t] = Range(q)
          /\ Range(bufs[t]) = asked[t] /\ IsInjective(bufs[t])
      BY <2>1, <3>1 DEF AskedOK
    <3>3. /\ q \in Seq(Buffers) /\ bufs[t] \in Seq(Buffers) /\ IsInjective(q)
      BY <1>0, <3>1 DEF AlInv, OpenALTypes, HookTypes, QueueOK
    <3>4. n = Len(q)
      BY <3>2, <3>3, SameNamesSameLength
    <3>5. processed[last] = Len(q)
      BY <3>1 DEF AskInv, StoppedAtRest, AtRest
    <3> QED
      BY <3>1, <3>2, <3>4, <3>5
  <2>4. CASE last # NoSource /\ kind[last] = "streaming" /\ n <= processed[last]
    <3>1. /\ bufs' = [bufs EXCEPT ![t] = SubSeq(q, 1, n)]
          /\ queue' = [queue EXCEPT ![last] = SubSeq(q, n + 1, Len(q))]
          /\ processed' = [processed EXCEPT ![last] = processed[last] - n]
      BY <1>4, <2>4 DEF Unqueue
    <3>2. /\ last \in Sources /\ q \in Seq(Buffers)
          /\ queue \in [Sources -> Seq(Buffers)]
          /\ bufs \in [Threads -> Seq(Buffers)]
          /\ processed[last] \in 0..Len(q) /\ n \in 0..Len(q)
      BY <1>0, <2>4 DEF AlInv, OpenALTypes, HookTypes, QueueOK
    <3>3. /\ Range(SubSeq(q, n + 1, Len(q))) \subseteq Range(q)
          /\ Len(SubSeq(q, n + 1, Len(q))) = Len(q) - n
          /\ n = Len(q) => SubSeq(q, 1, n) = q /\ SubSeq(q, n + 1, Len(q)) = <<>>
      BY <3>2, PartsName
    <3>4. bufs'[t] = SubSeq(q, 1, n) /\ \A u \in Threads : u # t => bufs'[u] = bufs[u]
      BY <3>1, <3>2
    <3>5. ASSUME ~stale' PROVE AskedOK(t)'
      <4>1. bufs'[t] = q /\ queue' = [queue EXCEPT ![last] = <<>>]
        BY <2>3, <3>1, <3>3, <3>4, <3>5
      <4>2. asked[t] \subseteq alive /\ asked[t] = Range(q) /\ IsInjective(q)
        BY <1>0, <2>3, <3>5 DEF AskedOK, AlInv, OpenALTypes, QueueOK
      <4>3. \A b \in asked[t] : ~Attached(b)'
        BY <3>2, <4>1, <4>2, DetachedForGood DEF AskInv
      <4> QED
        BY <2>1, <2>2, <4>1, <4>2, <4>3 DEF AskedOK, Unattached
    <3>6. processed[last] = Len(q) => processed[last] - n = Len(SubSeq(q, n + 1, Len(q)))
      BY <3>3
    <3>7. \A r \in Sources \ {last} : kind'[r] = kind[r]
      BY <2>1
    <3>8. ~stale' => ~stale /\ stopped[t] = last /\ AskedOK(t)'
      BY <2>1, <3>5
    <3>9. \A u \in Threads : u # t => pc'[u] = pc[u] /\ bufs'[u] = bufs[u]
      BY <2>2, <3>4
    <3> HIDE DEF n
    <3> QED
      BY <1>0, <2>1, <3>1, <3>2, <3>3, <3>6, <3>7, <3>8, <3>9, HookDetaches
  <2>5. CASE ~(last # NoSource /\ kind[last] = "streaming" /\ n <= processed[last])
    <3>1. UNCHANGED <<al, src, bufs, asked, stopped>>
      BY <1>4, <2>5 DEF Unqueue, al
    <3>2. stale'
      <4> SUFFICES ASSUME ~stale' PROVE FALSE
        OBVIOUS
      <4>1. last \in Sources /\ kind[last] = "streaming" /\ n = processed[last]
        BY <2>3
      <4>2. n \in Nat
        BY <1>0 DEF AlInv, HookTypes
      <4> QED
        BY <2>5, <4>1, <4>2
    <3> QED
      BY <1>0, <2>2, <3>1, <3>2, HookReads
  <2> QED
    BY <2>4, <2>5
<1>5. CASE Detach(t)
  <2>1. /\ pc[t] = "detach" /\ pc' = [pc EXCEPT ![t] = "forget"]
        /\ UNCHANGED <<playing, alive, src, bufs, asked, stopped>>
        /\ ~stale' => ~stale /\ last = stopped[t]
    BY <1>5 DEF Detach, Reads
  <2>2. pc'[t] = "forget" /\ \A u \in Threads : u # t => pc'[u] = pc[u]
    BY <1>0, <2>1 DEF AlInv, HookTypes
  <2>3. ASSUME ~stale'
        PROVE  /\ AskedOK(t) /\ last = stopped[t] /\ last \in Sources
               /\ last \notin playing /\ asked[t] = Range(queue[last])
    <3>1. AskedOK(t) /\ last = stopped[t] /\ last # NoSource /\ last \in Sources
      BY <1>0, <2>1, <2>3 DEF AskInv, AskedFor, Deleting, AskedOK, AlInv, HookTypes
    <3>2. last \notin playing
      BY <3>1 DEF AskInv, StoppedAtRest, AtRest
    <3> QED
      BY <2>1, <3>1, <3>2 DEF AskedOK
  <2>4. CASE last # NoSource /\ last \notin playing
    <3>1. /\ kind' = [kind EXCEPT ![last] = "undetermined"]
          /\ queue' = [queue EXCEPT ![last] = <<>>]
          /\ processed' = [processed EXCEPT ![last] = 0]
      BY <1>5, <2>4 DEF Detach
    <3>2. last \in Sources /\ queue \in [Sources -> Seq(Buffers)]
          /\ \A r \in Sources \ {last} : kind'[r] = kind[r]
      BY <1>0, <2>4, <3>1 DEF AlInv, OpenALTypes, HookTypes
    <3>3. ASSUME ~stale' PROVE AskedOK(t)'
      <4>1. \A b \in asked[t] : ~Attached(b)'
        BY <2>3, <3>1, <3>2, <3>3, DetachedForGood DEF AskInv
      <4> QED
        BY <2>1, <2>2, <2>3, <3>3, <4>1 DEF AskedOK, Unattached
    <3>4. ~stale' => ~stale /\ stopped[t] = last /\ AskedOK(t)'
      BY <2>1, <3>3
    <3>5. Range(<<>>) \subseteq Range(queue[last]) /\ Len(<<>>) = 0
      BY DEF Range
    <3>6. \A u \in Threads : u # t => pc'[u] = pc[u] /\ bufs'[u] = bufs[u]
      BY <2>1, <2>2
    <3> QED
      BY <1>0, <2>1, <3>1, <3>2, <3>4, <3>5, <3>6, HookDetaches
  <2>5. CASE ~(last # NoSource /\ last \notin playing)
    <3>1. UNCHANGED <<al, src, bufs, asked, stopped>>
      BY <1>5, <2>5 DEF Detach, al
    <3>2. stale'
      BY <2>3, <2>5
    <3> QED
      BY <1>0, <2>2, <3>1, <3>2, HookReads
  <2> QED
    BY <2>4, <2>5
<1>6. CASE Forget(t)
  <2>1. /\ pc[t] = "forget" /\ pc' = [pc EXCEPT ![t] = "delete"]
        /\ UNCHANGED <<al, src, bufs, asked, stopped, stale>>
    BY <1>6 DEF Forget
  <2>2. pc'[t] = "delete" /\ \A u \in Threads : u # t => pc'[u] = pc[u]
    BY <1>0, <2>1 DEF AlInv, HookTypes
  <2>3. UNCHANGED <<kind, queue, alive>> /\ \A b : Attached(b)' <=> Attached(b)
    BY <2>1 DEF al, Attached
  <2>4. ASSUME ~stale' PROVE AskedOK(t)'
    <3>1. AskedOK(t)
      BY <2>1, <2>4 DEF AskInv, AskedFor, Deleting
    <3> QED
      BY <2>1, <2>2, <2>3, <3>1 DEF AskedOK, Unattached
  <2> QED
    BY <1>0, <2>1, <2>2, <2>4, HookReads
<1>7. CASE Delete(t)
  <2>1. /\ pc[t] = "delete" /\ pc' = [pc EXCEPT ![t] = "idle"]
        /\ bufs' = [bufs EXCEPT ![t] = <<>>]
        /\ asked' = [asked EXCEPT ![t] = {}]
        /\ stopped' = [stopped EXCEPT ![t] = NoSource]
        /\ UNCHANGED <<kind, queue, processed, playing, src, stale>>
        /\ alive \ Range(bufs[t]) \subseteq alive'
    BY <1>7 DEF Delete
  <2>2. \A u \in Threads :
          /\ pc'[u] = (IF u = t THEN "idle" ELSE pc[u])
          /\ asked'[u] = (IF u = t THEN {} ELSE asked[u])
          /\ stopped'[u] = (IF u = t THEN NoSource ELSE stopped[u])
          /\ u # t => bufs'[u] = bufs[u]
    BY <1>0, <2>1 DEF AlInv, HookTypes
  <2>3. AskedApart' /\ QueuesApart' /\ StoppedAtRest'
    <3>1. AskedApart'
      BY <2>2 DEF AskInv, AskedApart
    <3>2. QueuesApart'
      BY <2>1 DEF AskInv, QueuesApart
    <3>3. StoppedAtRest'
      BY <2>1, <2>2 DEF AskInv, StoppedAtRest, AtRest
    <3> QED
      BY <3>1, <3>2, <3>3
  <2>4. HeldByOne'
    <3>1. \A u \in Threads, r \in Sources :
            r \in {src'[u], stopped'[u]} => r \in {src[u], stopped[u]}
      BY <2>1, <2>2
    <3> QED
      BY <3>1 DEF AskInv, HeldByOne
  <2>5. AskedFor'
    <3> SUFFICES ASSUME ~stale, NEW u \in Threads, Deleting(u), u # t
                 PROVE  AskedOK(u)'
      BY <2>1, <2>2 DEF AskedFor, Deleting
    <3>1. AskedOK(u) /\ AskedOK(t)
      BY <2>1 DEF AskInv, AskedFor, Deleting
    <3>2. asked[u] \intersect Range(bufs[t]) = {}
      BY <3>1 DEF AskedOK, AskInv, AskedApart
    <3>3. \A b \in asked[u] : b \in alive'
      BY <2>1, <3>1, <3>2 DEF AskedOK
    <3>4. \A b : Attached(b)' => Attached(b)
      BY <2>1 DEF Attached
    <3> QED
      BY <2>1, <2>2, <3>1, <3>3, <3>4, OthersAskOn
  <2> QED
    BY <1>0, <2>3, <2>4, <2>5 DEF AskInv
<1> QED
  BY <1>1, <1>2, <1>3, <1>4, <1>5, <1>6, <1>7 DEF Hook

(* The mixer plays a buffer of a source that plays, so of none at rest.    *)
LEMMA MixerKeepsAsked ==
  ASSUME AskInv, NEW s \in Sources, Mix(s)
  PROVE  AskInv'
<1>0. AlInv'
  BY MixerKeepsTypes DEF AskInv
<1>1. /\ s \in playing /\ processed' = [processed EXCEPT ![s] = processed[s] + 1]
      /\ playing' \subseteq playing
      /\ UNCHANGED <<kind, queue, alive, pc, src, bufs, asked, stopped, stale>>
  BY DEF Mix, thread
<1>2. AskedApart' /\ QueuesApart' /\ HeldByOne'
  BY <1>1 DEF AskInv, AskedApart, QueuesApart, HeldByOne
<1>3. StoppedAtRest'
  <2> SUFFICES ASSUME NEW u \in Threads, stopped[u] # NoSource
               PROVE  stopped[u] \notin playing'
                      /\ processed'[stopped[u]] = Len(queue[stopped[u]])
    BY <1>1 DEF StoppedAtRest, AtRest
  <2>1. AtRest(stopped[u]) /\ stopped[u] \in Sources
    BY DEF AskInv, StoppedAtRest, AlInv, HookTypes
  <2>2. processed \in [Sources -> Nat]
    BY DEF AskInv, AlInv, OpenALTypes
  <2> QED
    BY <1>1, <2>1, <2>2 DEF AtRest
<1>4. AskedFor'
  <2>1. \A b : Attached(b)' <=> Attached(b)
    BY <1>1 DEF Attached
  <2>2. ASSUME NEW u \in Threads, AskedOK(u) PROVE AskedOK(u)'
    BY <1>1, <2>1, <2>2 DEF AskedOK, Unattached
  <2> QED
    BY <1>1, <2>2 DEF AskInv, AskedFor, Deleting
<1> QED
  BY <1>0, <1>2, <1>3, <1>4 DEF AskInv

(* AskInv is inductive.                                                    *)
LEMMA AskStep ==
  ASSUME AskInv, [Next]_vars
  PROVE  AskInv'
<1>1. CASE UNCHANGED vars
  <2>1. UNCHANGED <<al, thread>> /\ AlInv'
    BY <1>1 DEF vars, al, thread, AskInv, AlInv, OpenALTypes, HookTypes
  <2>2. UNCHANGED <<kind, queue, processed, playing, alive,
                    pc, src, bufs, asked, stopped, stale>>
    BY <2>1 DEF al, thread
  <2>3. AskedApart' /\ QueuesApart' /\ HeldByOne' /\ StoppedAtRest'
    BY <2>2 DEF AskInv, AskedApart, QueuesApart, HeldByOne, StoppedAtRest, AtRest
  <2>4. \A b : Attached(b)' <=> Attached(b)
    BY <2>2 DEF Attached
  <2>5. AskedFor'
    BY <2>2, <2>4 DEF AskInv, AskedFor, Deleting, AskedOK, Unattached
  <2> QED
    BY <2>1, <2>3, <2>5 DEF AskInv
<1> QED
  BY <1>1, GameKeepsAsked, HookKeepsAsked, MixerKeepsAsked DEF Next

(* A thread returns from the deletion by the last line of the hook only.   *)
LEMMA ReturnsByDelete ==
  ASSUME AlInv, [Next]_vars, NEW t \in Threads, pc[t] = "delete", pc'[t] = "idle"
  PROVE  Delete(t)
<1>1. pc \in [Threads -> Places]
  BY DEF AlInv, HookTypes
<1>2. ASSUME NEW u \in Threads, Game(u) PROVE FALSE
  <2>1. pc[u] = "idle" /\ (pc' = pc \/ \E at \in Places : pc' = [pc EXCEPT ![u] = at])
    BY <1>2 DEF Game, Generate, AttachStatic, QueueBuffer, UnqueuePlayed, Play,
                Remember, CallDelete, MayUse, Other, Places
  <2> QED
    BY <1>1, <2>1
<1>3. ASSUME NEW u \in Threads, Stop(u) \/ Test(u) \/ GetType(u) PROVE FALSE
  <2>1. pc[u] # "delete" /\ \E at \in Places : pc' = [pc EXCEPT ![u] = at]
    BY <1>3 DEF Stop, Test, GetType, Places
  <2> QED
    BY <1>1, <2>1
<1>4. ASSUME NEW u \in Threads, Unqueue(u) \/ Detach(u) \/ Forget(u) PROVE FALSE
  <2>1. pc[u] # "delete" /\ \E at \in Places : pc' = [pc EXCEPT ![u] = at]
    BY <1>4 DEF Unqueue, Detach, Forget, Places
  <2> QED
    BY <1>1, <2>1
<1>5. ASSUME NEW u \in Threads, Delete(u) PROVE u = t
  BY <1>1, <1>5 DEF Delete
<1>6. ASSUME NEW s \in Sources, Mix(s) PROVE FALSE
  BY <1>6 DEF Mix, thread
<1>7. CASE UNCHANGED vars
  BY <1>7 DEF vars, thread
<1> QED
  BY <1>2, <1>3, <1>4, <1>5, <1>6, <1>7 DEF Next, Hook

(* For any number of threads, sources and buffers, and whether or not the  *)
(* game stops sources it deletes nothing of: as long as every look at      *)
(* last_stopped_src has found the caller's own last stop, each call of     *)
(* alDeleteBuffersHook deletes exactly the buffers it was called with.     *)
THEOREM DeletionIsExact == Spec => DeletesWhatWasAsked
<1>1. AskInv /\ [Next]_vars => AskInv'
  BY AskStep
<1>2. AskInv /\ [Next]_vars =>
        [\A t \in Threads :
           (pc[t] = "delete" /\ pc'[t] = "idle" /\ ~stale)
             => alive' = alive \ asked[t]]_vars
  <2> SUFFICES ASSUME AskInv, [Next]_vars, NEW t \in Threads,
                      pc[t] = "delete", pc'[t] = "idle", ~stale
               PROVE  alive' = alive \ asked[t]
    OBVIOUS
  <2>1. Delete(t)
    BY ReturnsByDelete DEF AskInv
  <2>2. AskedOK(t)
    BY DEF AskInv, AskedFor, Deleting
  <2>3. \A b \in Range(bufs[t]) : b \in alive /\ ~Attached(b)
    BY <2>2 DEF AskedOK, Unattached
  <2> QED
    BY <2>1, <2>2, <2>3 DEF Delete, AskedOK
<1> QED
  BY <1>1, <1>2, AskInit, PTL DEF Spec, DeletesWhatWasAsked
=============================================================================
