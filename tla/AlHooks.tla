------------------------------ MODULE AlHooks ------------------------------
(***************************************************************************)
(* The two stateful OpenAL hooks (hooks/openal.c, lines 27-51).            *)
(*                                                                         *)
(* The game deletes buffers that are still attached to a source it has     *)
(* just stopped, which OpenAL refuses.  alSourceStopHook therefore         *)
(* remembers the source in a static variable, and alDeleteBuffersHook      *)
(* detaches its buffers before it deletes them.  The variable is written   *)
(* and read without a lock, and stays set until the next deletion.         *)
(*                                                                         *)
(* OpenAL is external: a source is undetermined, static (one buffer) or    *)
(* streaming (a queue); stopping it marks every queued buffer processed;   *)
(* alSourceUnqueueBuffers(src, n, bufs) takes the first n processed        *)
(* buffers off the queue and writes their names into bufs, or fails and    *)
(* changes nothing; alDeleteBuffers deletes all of bufs or, when one of    *)
(* them is attached or no buffer, none.                                    *)
(***************************************************************************)
EXTENDS Integers, Sequences, FiniteSets, SequencesExt

CONSTANTS
  Threads,   \* the game's threads that make sound
  Sources,
  Buffers,
  NoSource,  \* last_stopped_src is 0
  Strays     \* TRUE: the game may stop a source and not delete its buffers

ASSUME AlAssumption ==
  NoSource \notin Sources /\ IsFiniteSet(Buffers) /\ Strays \in BOOLEAN

VARIABLES
  last,       \* last_stopped_src
  kind,       \* AL_SOURCE_TYPE of a source
  queue,      \* the buffers attached to it, in order
  processed,  \* how many of them it has played
  playing,
  alive,      \* the buffers that exist
  pc,         \* where a thread is in the hooks
  src,        \* the source a thread has read or been given
  bufs,       \* the array given to alDeleteBuffersHook
  asked,      \* history: what that array named when the hook was called
  stopped,    \* the source whose stop was the thread's previous call
  stale       \* history: a hook has read another value than that, ever

al == <<kind, queue, processed, playing, alive>>
thread == <<pc, src, bufs, asked, stopped, stale>>
vars == <<last, al, thread>>

Attached(b) == \E s \in Sources : b \in Range(queue[s])

Init ==
  /\ last = NoSource
  /\ kind = [s \in Sources |-> "undetermined"]
  /\ queue = [s \in Sources |-> <<>>]
  /\ processed = [s \in Sources |-> 0]
  /\ playing = {}
  /\ alive = {}
  /\ pc = [t \in Threads |-> "idle"]
  /\ src = [t \in Threads |-> NoSource]
  /\ bufs = [t \in Threads |-> <<>>]
  /\ asked = [t \in Threads |-> {}]
  /\ stopped = [t \in Threads |-> NoSource]
  /\ stale = FALSE

-----------------------------------------------------------------------------
(* The game's other calls, straight to OpenAL.  A thread leaves alone the  *)
(* source another one is about to delete the buffers of, and one that      *)
(* holds itself to stop-then-delete does nothing in between.               *)

MayUse(t, s) ==
  /\ pc[t] = "idle"
  /\ stopped[t] = NoSource \/ Strays
  /\ \A u \in Threads \ {t} : stopped[u] # s /\ src[u] # s

Other(t) ==
  /\ stopped' = [stopped EXCEPT ![t] = NoSource]
  /\ UNCHANGED <<last, pc, src, bufs, asked, stale>>

(* alGenBuffers and alBufferData for a source of its own.                  *)
Generate(t, b) ==
  /\ pc[t] = "idle"
  /\ stopped[t] = NoSource \/ Strays
  /\ b \notin alive /\ ~Attached(b)
  /\ alive' = alive \union {b}
  /\ UNCHANGED <<kind, queue, processed, playing>>
  /\ Other(t)

(* A buffer that some thread is about to delete is not attached any more.  *)
Usable(b) ==
  /\ b \in alive /\ ~Attached(b)
  /\ \A u \in Threads : b \notin asked[u]

(* alSourcei(s, AL_BUFFER, b)                                              *)
AttachStatic(t, s, b) ==
  /\ MayUse(t, s) /\ Usable(b)
  /\ s \notin playing /\ kind[s] = "undetermined"
  /\ kind' = [kind EXCEPT ![s] = "static"]
  /\ queue' = [queue EXCEPT ![s] = <<b>>]
  /\ processed' = [processed EXCEPT ![s] = 0]
  /\ UNCHANGED <<playing, alive>>
  /\ Other(t)

(* alSourceQueueBuffers(s, 1, &b)                                          *)
QueueBuffer(t, s, b) ==
  /\ MayUse(t, s) /\ Usable(b)
  /\ kind[s] \in {"undetermined", "streaming"}
  /\ kind' = [kind EXCEPT ![s] = "streaming"]
  /\ queue' = [queue EXCEPT ![s] = Append(@, b)]
  /\ UNCHANGED <<processed, playing, alive>>
  /\ Other(t)

(* alSourceUnqueueBuffers(s, 1, &b) of a buffer that has been played.      *)
UnqueuePlayed(t, s) ==
  /\ MayUse(t, s)
  /\ kind[s] = "streaming" /\ processed[s] > 0
  /\ queue' = [queue EXCEPT ![s] = Tail(@)]
  /\ processed' = [processed EXCEPT ![s] = @ - 1]
  /\ UNCHANGED <<kind, playing, alive>>
  /\ Other(t)

Play(t, s) ==
  /\ MayUse(t, s)
  /\ s \notin playing /\ queue[s] # <<>>
  /\ playing' = playing \union {s}
  /\ processed' = [processed EXCEPT ![s] = 0]
  /\ UNCHANGED <<kind, queue, alive>>
  /\ Other(t)

(* OpenAL's mixer: a buffer has been played.                               *)
Mix(s) ==
  /\ s \in playing
  /\ processed[s] < Len(queue[s])
  /\ processed' = [processed EXCEPT ![s] = @ + 1]
  /\ playing' = IF processed'[s] = Len(queue[s]) THEN playing \ {s} ELSE playing
  /\ UNCHANGED <<last, kind, queue, alive, thread>>

-----------------------------------------------------------------------------
(* alSourceStopHook, lines 31-34.                                          *)

Remember(t, s) ==
  /\ MayUse(t, s)
  /\ queue[s] # <<>> \/ Strays
  /\ last' = s
  /\ src' = [src EXCEPT ![t] = s]
  /\ pc' = [pc EXCEPT ![t] = "stop"]
  /\ UNCHANGED <<al, bufs, asked, stopped, stale>>

Stop(t) ==
  /\ pc[t] = "stop"
  /\ playing' = playing \ {src[t]}
  /\ processed' = [processed EXCEPT ![src[t]] = Len(queue[src[t]])]
  /\ pc' = [pc EXCEPT ![t] = "idle"]
  /\ stopped' = [stopped EXCEPT ![t] = src[t]]
  /\ src' = [src EXCEPT ![t] = NoSource]
  /\ UNCHANGED <<last, kind, queue, alive, bufs, asked, stale>>

-----------------------------------------------------------------------------
(* alDeleteBuffersHook, lines 36-51.                                       *)

(* The game names its buffers in an order of its own: all of the source it *)
(* has just stopped, or some that are attached to nothing.                 *)
CallDelete(t) ==
  /\ pc[t] = "idle"
  /\ \E set \in (SUBSET alive) \ {{}} :
       /\ IF stopped[t] # NoSource
          THEN set = Range(queue[stopped[t]])
          ELSE \A b \in set : ~Attached(b)
       /\ \A u \in Threads : asked[u] \intersect set = {}
       /\ \E order \in SetToSeqs(set) : bufs' = [bufs EXCEPT ![t] = order]
       /\ asked' = [asked EXCEPT ![t] = set]
  /\ pc' = [pc EXCEPT ![t] = "test"]
  /\ UNCHANGED <<last, al, src, stopped, stale>>

(* The code counts on "an alStopSource() call right before this" (line 38); *)
(* a read that finds anything but the caller's own last stop is stale.     *)
Reads(t) == stale' = (stale \/ last # stopped[t])

(* Line 37.                                                                *)
Test(t) ==
  /\ pc[t] = "test"
  /\ pc' = [pc EXCEPT ![t] = IF last = NoSource THEN "delete" ELSE "type"]
  /\ Reads(t)
  /\ UNCHANGED <<last, al, src, bufs, asked, stopped>>

(* Mutant: a streaming source is taken for a static one, whose detaching    *)
(* the code leaves to the caller.                                          *)
GetTypeInverted(t) ==
  /\ pc[t] = "type"
  /\ pc' = [pc EXCEPT ![t] = IF last # NoSource /\ kind[last] = "static"
                             THEN "unqueue" ELSE "detach"]
  /\ Reads(t)
  /\ UNCHANGED <<last, al, src, bufs, asked, stopped>>

(* Lines 40-44: of no source, alGetSourcei leaves type 0.                  *)
GetType(t) ==
  /\ pc[t] = "type"
  /\ pc' = [pc EXCEPT ![t] = IF last # NoSource /\ kind[last] = "streaming"
                             THEN "unqueue" ELSE "detach"]
  /\ Reads(t)
  /\ UNCHANGED <<last, al, src, bufs, asked, stopped>>

(* Mutant: the names are read, but the buffers stay in the queue.          *)
UnqueueEarly(t) ==
  /\ pc[t] = "unqueue"
  /\ bufs' = [bufs EXCEPT ![t] = IF last = NoSource THEN @ ELSE queue[last]]
  /\ pc' = [pc EXCEPT ![t] = "forget"]
  /\ Reads(t)
  /\ UNCHANGED <<last, al, src, asked, stopped>>

(* Line 45.                                                                *)
Unqueue(t) ==
  /\ pc[t] = "unqueue"
  /\ LET n == Len(bufs[t])
     IN IF last # NoSource /\ kind[last] = "streaming" /\ n <= processed[last]
        THEN /\ bufs' = [bufs EXCEPT ![t] = SubSeq(queue[last], 1, n)]
             /\ queue' = [queue EXCEPT ![last] = SubSeq(@, n + 1, Len(@))]
             /\ processed' = [processed EXCEPT ![last] = @ - n]
        ELSE UNCHANGED <<bufs, queue, processed>>
  /\ pc' = [pc EXCEPT ![t] = "forget"]
  /\ Reads(t)
  /\ UNCHANGED <<last, kind, playing, alive, src, asked, stopped>>

(* Line 47; OpenAL refuses while the source plays.                         *)
Detach(t) ==
  /\ pc[t] = "detach"
  /\ IF last # NoSource /\ last \notin playing
     THEN /\ kind' = [kind EXCEPT ![last] = "undetermined"]
          /\ queue' = [queue EXCEPT ![last] = <<>>]
          /\ processed' = [processed EXCEPT ![last] = 0]
     ELSE UNCHANGED <<kind, queue, processed>>
  /\ pc' = [pc EXCEPT ![t] = "forget"]
  /\ Reads(t)
  /\ UNCHANGED <<last, playing, alive, src, bufs, asked, stopped>>

(* Mutant: the source is never forgotten.                                  *)
ForgetNothing(t) ==
  /\ pc[t] = "forget"
  /\ pc' = [pc EXCEPT ![t] = "delete"]
  /\ UNCHANGED <<last, al, src, bufs, asked, stopped, stale>>

(* Line 48.                                                                *)
Forget(t) ==
  /\ pc[t] = "forget"
  /\ last' = NoSource
  /\ pc' = [pc EXCEPT ![t] = "delete"]
  /\ UNCHANGED <<al, src, bufs, asked, stopped, stale>>

(* Line 50, and the return to the game.                                    *)
Delete(t) ==
  /\ pc[t] = "delete"
  /\ alive' = IF \A b \in Range(bufs[t]) : b \in alive /\ ~Attached(b)
              THEN alive \ Range(bufs[t]) ELSE alive
  /\ pc' = [pc EXCEPT ![t] = "idle"]
  /\ bufs' = [bufs EXCEPT ![t] = <<>>]
  /\ asked' = [asked EXCEPT ![t] = {}]
  /\ stopped' = [stopped EXCEPT ![t] = NoSource]
  /\ UNCHANGED <<last, kind, queue, processed, playing, src, stale>>

-----------------------------------------------------------------------------
Game(t) ==
  \/ \E b \in Buffers :
       \/ Generate(t, b)
       \/ \E s \in Sources : AttachStatic(t, s, b) \/ QueueBuffer(t, s, b)
  \/ \E s \in Sources : UnqueuePlayed(t, s) \/ Play(t, s) \/ Remember(t, s)
  \/ CallDelete(t)

Hook(t) ==
  \/ Stop(t) \/ Test(t) \/ GetType(t) \/ Unqueue(t) \/ Detach(t)
  \/ Forget(t) \/ Delete(t)

Next ==
  \/ \E t \in Threads : Game(t) \/ Hook(t)
  \/ \E s \in Sources : Mix(s)

Spec == Init /\ [][Next]_vars

-----------------------------------------------------------------------------

(* Every source's queue holds distinct buffers that exist, as many of them *)
(* processed as it has at most, and an undetermined source has none; a     *)
(* hook's arguments are what its place in the code needs.                  *)
TypeOK ==
  /\ last \in Sources \union {NoSource}
  /\ kind \in [Sources -> {"undetermined", "static", "streaming"}]
  /\ \A s \in Sources :
       /\ queue[s] \in Seq(alive) /\ IsInjective(queue[s])
       /\ processed[s] \in 0..Len(queue[s])
       /\ kind[s] = "undetermined" => queue[s] = <<>>
       /\ kind[s] = "static" => Len(queue[s]) = 1
  /\ playing \subseteq Sources
  /\ alive \subseteq Buffers
  /\ stale \in BOOLEAN
  /\ \A t \in Threads :
       /\ pc[t] \in {"idle", "stop", "test", "type", "unqueue", "detach",
                      "forget", "delete"}
       /\ (src[t] # NoSource) <=> (pc[t] = "stop")
       /\ stopped[t] \in Sources \union {NoSource}
       /\ bufs[t] \in Seq(Buffers)
       /\ (asked[t] = {}) <=> (pc[t] \in {"idle", "stop"})

(* The comment on line 38: whenever alDeleteBuffersHook looks at           *)
(* last_stopped_src it finds the source its caller has just stopped, or 0  *)
(* when it has stopped none since its last deletion.                       *)
StopWasRightBefore == ~stale

(* As long as the comment has been true, alDeleteBuffersHook deletes the   *)
(* very buffers the game named (although alSourceUnqueueBuffers overwrites *)
(* the array) and OpenAL never refuses, streaming source or static one.    *)
DeletesWhatWasAsked ==
  [][\A t \in Threads :
       (pc[t] = "delete" /\ pc'[t] = "idle" /\ ~stale)
         => alive' = alive \ asked[t]]_vars
=============================================================================
