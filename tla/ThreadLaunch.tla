---------------------------- MODULE ThreadLaunch ----------------------------
(***************************************************************************)
(* OS_ThreadLaunch and thread_stub (hooks/game.c, lines 94-149): several   *)
(* threads of the game launch others at once.  The handle that is returned *)
(* is one static buffer for all of them; the three words thread_stub needs *)
(* are copied by sceKernelStartThread and so are each thread's own.        *)
(*                                                                         *)
(* The kernel is external: creating or starting a thread may fail, a       *)
(* thread that was created and never started stays, and one that deletes   *)
(* itself leaves its id for another.                                       *)
(***************************************************************************)
EXTENDS Integers

CONSTANTS
  Callers,   \* the threads that launch threads
  Ids,       \* the kernel's thread ids
  NoId,
  Jobs,      \* what a thread may be launched with: func and arg
  NoJob,
  Priority,  \* Priority[j]: the game's priority for job j
  Failing    \* TRUE: the kernel may refuse to create or start a thread

LaunchAssumption ==
  /\ Priority \in [Jobs -> Int] /\ NoJob \notin Jobs /\ NoId \notin Ids
  /\ Failing \in BOOLEAN

VARIABLES
  state,    \* state[i]: "none", "dormant", "ready" or "running"
  args,     \* args[i]: the job in the words copied for thread i
  urgency,  \* urgency[i]: the kernel priority thread i was created with
  buf,      \* the static handle: the id at 0x24 and the flag at 0x41
  pc,       \* where a caller is in OS_ThreadLaunch
  job,      \* what it was called with
  thid,     \* the id it has got
  ret,      \* TRUE if its last call returned the handle
  mine,     \* history: mine[i] is the job thread i was created for
  stranded, \* history: the threads whose start failed
  since     \* history: the threads whose launches wrote the handle since the
            \* caller did, its own included

vars == <<state, args, urgency, buf, pc, job, thid, ret, mine, stranded, since>>
kernel == <<state, args, urgency, mine, stranded>>
caller == <<pc, job, thid, ret, since>>

Init ==
  /\ state = [i \in Ids |-> "none"]
  /\ args = [i \in Ids |-> NoJob]
  /\ urgency = [i \in Ids |-> 0]
  /\ buf = [id |-> NoId, running |-> FALSE]
  /\ pc = [c \in Callers |-> "idle"]
  /\ job = [c \in Callers |-> NoJob]
  /\ thid = [c \in Callers |-> NoId]
  /\ ret = [c \in Callers |-> FALSE]
  /\ mine = [i \in Ids |-> NoJob]
  /\ stranded = {}
  /\ since = [c \in Callers |-> {}]

(* The switch; the kernel takes a smaller number for a more urgent thread. *)
VitaPriority(p) ==
  LET min == 160
      max == 96
  IN  CASE p = 0 -> min
        [] p = 1 -> min - (2 * (min - max)) \div 3
        [] p = 2 -> min - (4 * (min - max)) \div 5
        [] p = 3 -> max
        [] OTHER -> 268435712

Goto(c, at) == pc' = [pc EXCEPT ![c] = at]

-----------------------------------------------------------------------------
CreateThread(c, i, j) ==
  /\ pc[c] = "idle" /\ state[i] = "none"
  /\ state' = [state EXCEPT ![i] = "dormant"]
  /\ urgency' = [urgency EXCEPT ![i] = VitaPriority(Priority[j])]
  /\ mine' = [mine EXCEPT ![i] = j]
  /\ job' = [job EXCEPT ![c] = j]
  /\ thid' = [thid EXCEPT ![c] = i]
  /\ Goto(c, "store")
  /\ UNCHANGED <<args, buf, ret, stranded, since>>

(* if (thid >= 0) ... return NULL;                                         *)
CreateFails(c) ==
  /\ pc[c] = "idle" /\ Failing
  /\ ret' = [ret EXCEPT ![c] = FALSE]
  /\ thid' = [thid EXCEPT ![c] = NoId]
  /\ UNCHANGED <<kernel, buf, pc, job, since>>

StoreId(c) ==
  /\ pc[c] = "store"
  /\ buf' = [buf EXCEPT !.id = thid[c]]
  /\ since' = [d \in Callers |-> (IF d = c THEN {} ELSE since[d]) \union {thid[c]}]
  /\ Goto(c, "start")
  /\ UNCHANGED <<kernel, job, thid, ret>>

(* Mutant: the thread that is started is the one the handle names.         *)
StartThreadOfHandle(c) ==
  /\ pc[c] = "start"
  /\ args' = [args EXCEPT ![buf.id] = job[c]]
  /\ state' = [state EXCEPT ![buf.id] = IF @ = "dormant" THEN "ready" ELSE @]
  /\ ret' = [ret EXCEPT ![c] = TRUE]
  /\ job' = [job EXCEPT ![c] = NoJob]
  /\ Goto(c, "idle")
  /\ UNCHANGED <<urgency, buf, thid, mine, stranded, since>>

(* sceKernelStartThread, whose result is not looked at.                    *)
StartThread(c) ==
  /\ pc[c] = "start"
  /\ \/ /\ args' = [args EXCEPT ![thid[c]] = job[c]]
        /\ state' = [state EXCEPT ![thid[c]] = "ready"]
        /\ UNCHANGED stranded
     \/ /\ Failing
        /\ stranded' = stranded \union {thid[c]}
        /\ UNCHANGED <<args, state>>
  /\ ret' = [ret EXCEPT ![c] = TRUE]
  /\ job' = [job EXCEPT ![c] = NoJob]
  /\ Goto(c, "idle")
  /\ UNCHANGED <<urgency, buf, thid, mine, since>>

(* thread_stub up to the call of func.                                     *)
StubRuns(i) ==
  /\ state[i] = "ready"
  /\ state' = [state EXCEPT ![i] = "running"]
  /\ buf' = [buf EXCEPT !.running = TRUE]
  /\ UNCHANGED <<args, urgency, mine, stranded, caller>>

(* func has returned; the thread deletes itself.                           *)
StubEnds(i) ==
  /\ state[i] = "running"
  /\ state' = [state EXCEPT ![i] = "none"]
  /\ args' = [args EXCEPT ![i] = NoJob]
  /\ mine' = [mine EXCEPT ![i] = NoJob]
  /\ urgency' = [urgency EXCEPT ![i] = 0]
  /\ UNCHANGED <<stranded, buf, caller>>

Next ==
  \/ \E c \in Callers :
       \/ \E i \in Ids, j \in Jobs : CreateThread(c, i, j)
       \/ CreateFails(c) \/ StoreId(c) \/ StartThread(c)
  \/ \E i \in Ids : StubRuns(i) \/ StubEnds(i)

Spec == Init /\ [][Next]_vars

(* Callers run on; every thread the kernel has started runs, and its       *)
(* function returns ("one-shot", game.c:100).                              *)
FairSpec ==
  /\ Spec
  /\ \A c \in Callers : WF_vars(StoreId(c) \/ StartThread(c))
  /\ \A i \in Ids : WF_vars(StubRuns(i) \/ StubEnds(i))

-----------------------------------------------------------------------------
TypeOK ==
  /\ state \in [Ids -> {"none", "dormant", "ready", "running"}]
  /\ args \in [Ids -> Jobs \union {NoJob}]
  /\ urgency \in [Ids -> Int]
  /\ buf \in [id : Ids \union {NoId}, running : BOOLEAN]
  /\ pc \in [Callers -> {"idle", "store", "start"}]
  /\ job \in [Callers -> Jobs \union {NoJob}]
  /\ thid \in [Callers -> Ids \union {NoId}]
  /\ ret \in [Callers -> BOOLEAN]
  /\ mine \in [Ids -> Jobs \union {NoJob}]
  /\ stranded \subseteq Ids
  /\ since \in [Callers -> SUBSET Ids]

(* However launches overlap, every thread runs the job it was created for, *)
(* at the priority of that job, in spite of the handle they share.         *)
RunsItsOwnJob ==
  \A i \in Ids : state[i] \in {"ready", "running"} =>
    /\ args[i] = mine[i]
    /\ urgency[i] = VitaPriority(Priority[mine[i]])

(* Between two threads, the one the game gave the greater of its four      *)
(* priorities is the more urgent one to the kernel.                        *)
UrgencyFollowsPriority ==
  \A i, k \in Ids : state[i] # "none" /\ state[k] # "none" =>
    LET p == Priority[mine[i]]
        q == Priority[mine[k]]
    IN  p \in 0 .. 3 /\ q \in 0 .. 3 => (p < q <=> urgency[i] > urgency[k])

(* The shared handle names, to a caller that has written it, its own       *)
(* thread or one that was launched since: the thread itself, if no other   *)
(* launch overlapped or followed.                                          *)
HandleNamesALaterThread ==
  \A c \in Callers :
    thid[c] # NoId /\ pc[c] # "store" => buf.id \in since[c]

(* The threads the kernel keeps without running them, outside a launch     *)
(* that is under way, are those whose start failed, of which no caller is  *)
(* told: they stay for ever, and no other does.                            *)
Forgotten(i) ==
  state[i] = "dormant" /\ \A c \in Callers : pc[c] # "idle" => thid[c] # i
FailedStartsAreForgotten == \A i \in Ids : Forgotten(i) <=> i \in stranded

(* A thread that was created ends up deleted, if it was started at all.    *)
ThreadsGoAway ==
  \A i \in Ids : state[i] = "dormant" ~> state[i] = "none" \/ i \in stranded
=============================================================================
