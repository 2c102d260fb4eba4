---------------------------- MODULE WaitsProofs ----------------------------
(***************************************************************************)
(* Proofs about the parts of Waits, for all values of the constants: the   *)
(* launches of threads, semaphores, pthread_once_fake without overlapping  *)
(* calls, the dialog of fatal_error, the clocks and sleeps, and config.txt. *)
(* Each part has an inductive invariant; a step of another part leaves its *)
(* variables alone.                                                        *)
(***************************************************************************)
EXTENDS Waits, OnceShimProofs, SequenceTheorems, WellFoundedInduction

(* A thread between its creation and its start: the caller that launches   *)
(* it holds its identifier, and the job it was created for.                *)
Underway(c) ==
  launchPc[c] # "idle" =>
    /\ thid[c] \in Ids /\ job[c] \in Jobs
    /\ state[thid[c]] = "dormant" /\ mine[thid[c]] = job[c]

(* No two launches under way are of the same thread.                       *)
Apart ==
  \A c, d \in Callers :
    launchPc[c] # "idle" /\ launchPc[d] # "idle" /\ thid[c] = thid[d] => c = d

(* A thread belongs to a job, and is as urgent as the job asks for.        *)
Created(i) ==
  state[i] # "none" =>
    mine[i] \in Jobs /\ urgency[i] = Launch!VitaPriority(Priority[mine[i]])

(* A thread that was started has the job of its caller.                    *)
GivenItsJob(i) == state[i] \in {"ready", "running"} => args[i] = mine[i]

(* The inductive invariant of the launches.                                *)
LaunchInv ==
  /\ Launch!TypeOK
  /\ \A c \in Callers : Underway(c)
  /\ Apart
  /\ \A i \in Ids : Created(i) /\ GivenItsJob(i)
  /\ Launch!HandleNamesALaterThread
  /\ Launch!FailedStartsAreForgotten

(* The kernel's priorities are numbers, in the opposite order of the four  *)
(* of the game.                                                            *)
LEMMA VitaPriorityOrder ==
  /\ \A p \in Int : Launch!VitaPriority(p) \in Int
  /\ \A p, q \in 0 .. 3 :
       p < q <=> Launch!VitaPriority(p) > Launch!VitaPriority(q)
<1>1. /\ Launch!VitaPriority(0) = 160 /\ Launch!VitaPriority(1) = 118
      /\ Launch!VitaPriority(2) = 109 /\ Launch!VitaPriority(3) = 96
  BY DEF Launch!VitaPriority
<1>2. ASSUME NEW p \in Int PROVE Launch!VitaPriority(p) \in Int
  <2>1. CASE p \in 0 .. 3
    <3>1. p = 0 \/ p = 1 \/ p = 2 \/ p = 3
      BY <2>1
    <3> QED
      BY <1>1, <3>1
  <2>2. CASE p \notin 0 .. 3
    <3>1. p # 0 /\ p # 1 /\ p # 2 /\ p # 3
      BY <2>2
    <3> QED
      BY <3>1 DEF Launch!VitaPriority
  <2> QED
    BY <2>1, <2>2
<1>3. ASSUME NEW p \in 0 .. 3, NEW q \in 0 .. 3
      PROVE  p < q <=> Launch!VitaPriority(p) > Launch!VitaPriority(q)
  <2>1. /\ p = 0 \/ p = 1 \/ p = 2 \/ p = 3
        /\ q = 0 \/ q = 1 \/ q = 2 \/ q = 3
    OBVIOUS
  <2> QED
    BY <1>1, <2>1
<1> QED
  BY <1>2, <1>3

(* The invariant holds at first.                                           *)
LEMMA LaunchInit ==
  ASSUME Launch!Init PROVE LaunchInv
BY LaunchConstants DEF Launch!LaunchAssumption, Launch!Init, LaunchInv, Launch!TypeOK, Underway,
       Apart, Created, GivenItsJob, Launch!HandleNamesALaterThread,
       Launch!FailedStartsAreForgotten, Launch!Forgotten

(* sceKernelCreateThread takes a thread nobody holds.                      *)
LEMMA CreateThreadStep ==
  ASSUME LaunchInv, NEW c \in Callers, NEW i \in Ids,
         NEW j \in Jobs, Launch!CreateThread(c, i, j)
  PROVE  LaunchInv'
<1> USE DEF LaunchInv, Launch!TypeOK
<1>1. Priority[j] \in Int /\ Launch!VitaPriority(Priority[j]) \in Int
  BY VitaPriorityOrder, LaunchConstants DEF Launch!LaunchAssumption
<1>2. /\ launchPc[c] = "idle" /\ state[i] = "none"
      /\ state' = [state EXCEPT ![i] = "dormant"]
      /\ urgency' = [urgency EXCEPT ![i] = Launch!VitaPriority(Priority[j])]
      /\ mine' = [mine EXCEPT ![i] = j]
      /\ job' = [job EXCEPT ![c] = j]
      /\ thid' = [thid EXCEPT ![c] = i]
      /\ launchPc' = [launchPc EXCEPT ![c] = "store"]
      /\ UNCHANGED <<args, buf, launchRet, stranded, since>>
  BY DEF Launch!CreateThread, Launch!Goto
<1>3. Launch!TypeOK'
  BY <1>1, <1>2
<1>4. \A d \in Callers : Underway(d)'
  BY <1>2 DEF Underway
<1>6. Apart'
  BY <1>2 DEF Apart, Underway
<1>7. \A k \in Ids : Created(k)' /\ GivenItsJob(k)'
  BY <1>2 DEF Created, GivenItsJob
<1>8. Launch!HandleNamesALaterThread'
  BY <1>2 DEF Launch!HandleNamesALaterThread
<1>9. Launch!FailedStartsAreForgotten'
  BY <1>2 DEF Launch!FailedStartsAreForgotten, Launch!Forgotten
<1> QED
  BY <1>3, <1>4, <1>6, <1>7, <1>8, <1>9

(* sceKernelCreateThread may fail; then nothing was launched.              *)
LEMMA CreateFailsStep ==
  ASSUME LaunchInv, NEW c \in Callers, Launch!CreateFails(c)
  PROVE  LaunchInv'
<1> USE DEF LaunchInv, Launch!TypeOK
<1>1. /\ launchPc[c] = "idle"
      /\ launchRet' = [launchRet EXCEPT ![c] = FALSE]
      /\ thid' = [thid EXCEPT ![c] = NoId]
      /\ UNCHANGED <<state, args, urgency, mine, stranded, buf, launchPc, job, since>>
  BY DEF Launch!CreateFails, Launch!kernel
<1>2. Launch!TypeOK'
  BY <1>1
<1>3. (\A d \in Callers : Underway(d)') /\ Apart'
  BY <1>1 DEF Underway, Apart
<1>4. \A k \in Ids : Created(k)' /\ GivenItsJob(k)'
  BY <1>1 DEF Created, GivenItsJob
<1>5. Launch!HandleNamesALaterThread' /\ Launch!FailedStartsAreForgotten'
  BY <1>1 DEF Launch!HandleNamesALaterThread, Launch!FailedStartsAreForgotten,
       Launch!Forgotten
<1> QED
  BY <1>2, <1>3, <1>4, <1>5

(* The handle is written after the creation, and by whoever comes last.    *)
LEMMA StoreIdStep ==
  ASSUME LaunchInv, NEW c \in Callers, Launch!StoreId(c)
  PROVE  LaunchInv'
<1> USE DEF LaunchInv, Launch!TypeOK
<1>1. /\ launchPc[c] = "store"
      /\ buf' = [buf EXCEPT !.id = thid[c]]
      /\ launchPc' = [launchPc EXCEPT ![c] = "start"]
      /\ since' = [d \in Callers |-> (IF d = c THEN {} ELSE since[d]) \union {thid[c]}]
      /\ UNCHANGED <<state, args, urgency, mine, stranded, job, thid, launchRet>>
  BY DEF Launch!StoreId, Launch!kernel, Launch!Goto
<1>2. Launch!TypeOK'
  <2>1. thid[c] \in Ids
    BY <1>1 DEF Underway
  <2>2. \A d \in Callers : (IF d = c THEN {} ELSE since[d]) \union {thid[c]} \in SUBSET Ids
    BY <2>1
  <2>3. since' \in [Callers -> SUBSET Ids]
    BY <1>1, <2>2
  <2> QED
    BY <1>1, <2>1, <2>3
<1>3. (\A d \in Callers : Underway(d)') /\ Apart'
  BY <1>1 DEF Underway, Apart
<1>4. \A k \in Ids : Created(k)' /\ GivenItsJob(k)'
  BY <1>1 DEF Created, GivenItsJob
<1>5. Launch!HandleNamesALaterThread'
  BY <1>1 DEF Launch!HandleNamesALaterThread
<1>6. Launch!FailedStartsAreForgotten'
  BY <1>1 DEF Launch!FailedStartsAreForgotten, Launch!Forgotten
<1> QED
  BY <1>2, <1>3, <1>4, <1>5, <1>6

(* sceKernelStartThread hands over the job, or leaves the thread behind.   *)
LEMMA StartThreadStep ==
  ASSUME LaunchInv, NEW c \in Callers, Launch!StartThread(c)
  PROVE  LaunchInv'
<1> USE DEF LaunchInv, Launch!TypeOK
<1>1. /\ launchPc[c] = "start"
      /\ thid[c] \in Ids /\ job[c] \in Jobs
      /\ state[thid[c]] = "dormant" /\ mine[thid[c]] = job[c]
  BY DEF Launch!StartThread, Underway
<1>2. /\ launchRet' = [launchRet EXCEPT ![c] = TRUE]
      /\ job' = [job EXCEPT ![c] = NoJob]
      /\ launchPc' = [launchPc EXCEPT ![c] = "idle"]
      /\ UNCHANGED <<urgency, buf, thid, mine, since>>
  BY DEF Launch!StartThread, Launch!Goto
<1>3. \/ /\ args' = [args EXCEPT ![thid[c]] = job[c]]
         /\ state' = [state EXCEPT ![thid[c]] = "ready"]
         /\ UNCHANGED stranded
      \/ /\ stranded' = stranded \union {thid[c]}
         /\ UNCHANGED <<args, state>>
  BY DEF Launch!StartThread
<1>4. Launch!TypeOK'
  BY <1>1, <1>2, <1>3
<1>5. \A d \in Callers : Underway(d)'
  <2> TAKE d \in Callers
  <2>2. CASE d = c
    BY <1>2, <2>2 DEF Underway
  <2>3. CASE d # c /\ launchPc[d] = "idle"
    BY <1>2, <2>3 DEF Underway
  <2>4. CASE d # c /\ launchPc[d] # "idle"
    <3>1. thid[d] # thid[c] /\ thid[d] \in Ids
      BY <1>1, <2>4 DEF Apart, Underway
    <3> QED
      BY <1>2, <1>3, <2>4, <3>1 DEF Underway
  <2> QED
    BY <2>2, <2>3, <2>4
<1>6. Apart'
  BY <1>2 DEF Apart
<1>7. \A k \in Ids : Created(k)' /\ GivenItsJob(k)'
  BY <1>1, <1>2, <1>3 DEF Created, GivenItsJob
<1>8. Launch!HandleNamesALaterThread'
  BY <1>1, <1>2 DEF Launch!HandleNamesALaterThread
<1>9. Launch!FailedStartsAreForgotten'
  <2>1. thid[c] \notin stranded
    BY <1>1 DEF Launch!FailedStartsAreForgotten, Launch!Forgotten
  <2>2. \A i \in Ids \ {thid[c]} :
          /\ (i \in stranded)' <=> i \in stranded
          /\ Launch!Forgotten(i)' <=> Launch!Forgotten(i)
    BY <1>1, <1>2, <1>3 DEF Launch!Forgotten
  <2>3. (thid[c] \in stranded' <=> state'[thid[c]] = "dormant")
    BY <1>1, <1>3, <2>1
  <2>4. \A d \in Callers : launchPc'[d] # "idle" => thid'[d] # thid[c]
    BY <1>1, <1>2 DEF Apart
  <2> QED
    BY <1>1, <1>2, <2>2, <2>3, <2>4
       DEF Launch!FailedStartsAreForgotten, Launch!Forgotten
<1> QED
  BY <1>4, <1>5, <1>6, <1>7, <1>8, <1>9

(* A thread runs its job, ends and is deleted.                             *)
LEMMA StubStep ==
  ASSUME LaunchInv, NEW i \in Ids, Launch!StubRuns(i) \/ Launch!StubEnds(i)
  PROVE  LaunchInv'
<1> USE DEF LaunchInv, Launch!TypeOK
<1>1. /\ UNCHANGED <<launchPc, job, thid, launchRet, since, stranded>>
      /\ buf'.id = buf.id
      /\ state[i] \in {"ready", "running"}
      /\ \A k \in Ids \ {i} : UNCHANGED <<state[k], args[k], mine[k], urgency[k]>>
  BY DEF Launch!StubRuns, Launch!StubEnds, Launch!caller
<1>2. Launch!TypeOK'
  <2>1. CASE Launch!StubRuns(i)
    BY <2>1 DEF Launch!StubRuns, Launch!caller
  <2>2. CASE Launch!StubEnds(i)
    BY <2>2 DEF Launch!StubEnds, Launch!caller
  <2> QED
    BY <2>1, <2>2
<1>3. \A d \in Callers : Underway(d)'
  BY <1>1 DEF Underway
<1>4. Apart'
  BY <1>1 DEF Apart
<1>5. \A k \in Ids : Created(k)' /\ GivenItsJob(k)'
  BY DEF Launch!StubRuns, Launch!StubEnds, Launch!caller, Created, GivenItsJob
<1>6. Launch!HandleNamesALaterThread'
  BY <1>1 DEF Launch!HandleNamesALaterThread
<1>7. Launch!FailedStartsAreForgotten'
  <2>1. state'[i] # "dormant"
    BY DEF Launch!StubRuns, Launch!StubEnds
  <2> QED
    BY <1>1, <2>1 DEF Launch!FailedStartsAreForgotten, Launch!Forgotten
<1> QED
  BY <1>2, <1>3, <1>4, <1>5, <1>6, <1>7

(* Every step of a launch or of a thread keeps the invariant.              *)
LEMMA LaunchStep == LaunchInv /\ [Launch!Next]_launchVars => LaunchInv'
<1> SUFFICES ASSUME LaunchInv, [Launch!Next]_launchVars PROVE LaunchInv'
  OBVIOUS
<1>1. CASE UNCHANGED launchVars
  BY <1>1 DEF launchVars, LaunchInv, Launch!TypeOK, Underway, Apart,
       Created, GivenItsJob, Launch!HandleNamesALaterThread,
       Launch!FailedStartsAreForgotten, Launch!Forgotten
<1>2. CASE Launch!Next
  BY <1>2, CreateThreadStep, CreateFailsStep, StoreIdStep, StartThreadStep, StubStep
     DEF Launch!Next
<1> QED
  BY <1>1, <1>2

(* The invariant holds in every behaviour in which launches run.           *)
LEMMA LaunchInvHolds == WaitsSpec => []LaunchInv
<1>1. WaitsInit => LaunchInv
  BY LaunchInit DEF WaitsInit
<1>2. [WaitsNext]_allVars => [Launch!Next]_launchVars
  BY DEF WaitsNext, allVars, launchVars
<1> QED
  BY <1>1, <1>2, LaunchStep, PTL DEF WaitsSpec

(* However launches overlap, and however many there are: threads run the   *)
(* jobs they were created for, as urgently as asked; the one handle they   *)
(* share names to each caller its own thread or one launched since, which  *)
(* is all a caller may take from it; and the threads that are left behind  *)
(* are exactly those whose start failed (hooks/game.c:94-149).             *)
THEOREM LaunchesApart == WaitsSpec => []LaunchesStayApart
<1>1. LaunchInv => LaunchesStayApart
  <2> SUFFICES ASSUME LaunchInv PROVE LaunchesStayApart
    OBVIOUS
  <2>1. Launch!RunsItsOwnJob
    BY DEF LaunchInv, Created, GivenItsJob, Launch!RunsItsOwnJob
  <2>2. Launch!UrgencyFollowsPriority
    BY VitaPriorityOrder DEF LaunchInv, Created, Launch!UrgencyFollowsPriority
  <2> QED
    BY <2>1, <2>2 DEF LaunchInv, LaunchesStayApart
<1> QED
  BY <1>1, LaunchInvHolds, PTL

-----------------------------------------------------------------------------
(* A semaphore that is not there has no units.                             *)
NothingLeft == uid # "live" => count = 0

(* The inductive invariant of semaphores.                                  *)
SemInv == Sem!TypeOK /\ Sem!NothingForNothing /\ NothingLeft

(* The invariant holds at first.                                           *)
LEMMA SemInit == Sem!Init => SemInv
BY SemConstants
   DEF Sem!SemAssumption, Sem!Init, SemInv, Sem!TypeOK, Sem!NothingForNothing, NothingLeft

(* Every call keeps the invariant.                                         *)
LEMMA SemStep == SemInv /\ [Sem!Next]_semVars => SemInv'
<1> SUFFICES ASSUME SemInv, [Sem!Next]_semVars PROVE SemInv'
  OBVIOUS
<1> USE SemConstants
    DEF Sem!SemAssumption, SemInv, Sem!TypeOK, Sem!NothingForNothing, NothingLeft,
        Sem!Returns, Sem!Idle
<1>1. CASE UNCHANGED semVars
  BY <1>1 DEF semVars
<1>2. ASSUME NEW t \in Threads, Sem!sem_init_fake(t) PROVE SemInv'
  BY <1>2 DEF Sem!sem_init_fake, Sem!InitialCount
<1>3. ASSUME NEW t \in Threads, Sem!sem_post_fake(t) PROVE SemInv'
  BY <1>3 DEF Sem!sem_post_fake
<1>4. ASSUME NEW t \in Threads, Sem!CallWait(t) PROVE SemInv'
  BY <1>4 DEF Sem!CallWait
<1>5. ASSUME NEW t \in Threads, Sem!WaitTakes(t) PROVE SemInv'
  BY <1>5 DEF Sem!WaitTakes
<1>6. ASSUME NEW t \in Threads, Sem!WaitRefused(t) PROVE SemInv'
  BY <1>6 DEF Sem!WaitRefused
<1>7. ASSUME NEW t \in Threads, Sem!sem_trywait_fake(t) PROVE SemInv'
  BY <1>7 DEF Sem!sem_trywait_fake
<1>8. ASSUME NEW t \in Threads, Sem!sem_destroy_fake(t) PROVE SemInv'
  BY <1>8 DEF Sem!sem_destroy_fake
<1> QED
  BY <1>1, <1>2, <1>3, <1>4, <1>5, <1>6, <1>7, <1>8 DEF Sem!Next

(* What Semaphore sees of the units taken.                                 *)
Taken == IF uid = "live" THEN taken ELSE 0

(* Every step of a call is one of Semaphore, or changes nothing it sees.   *)
LEMMA SemRefines ==
  SemInv /\ [Sem!Next]_semVars => [Sem!Promise!SemNext]_<<count, Taken>>
<1> SUFFICES ASSUME SemInv, Sem!Next PROVE Sem!Promise!SemNext \/ UNCHANGED <<count, Taken>>
  BY DEF semVars, Taken
<1> USE DEF SemInv, Sem!TypeOK, NothingLeft, Sem!Promise!SemNext, Sem!Promise!Create,
        Sem!Promise!Post, Sem!Promise!Take, Sem!Promise!Destroy, Taken
<1>1. ASSUME NEW t \in Threads, Sem!sem_init_fake(t)
      PROVE Sem!Promise!SemNext \/ UNCHANGED <<count, Taken>>
  BY <1>1 DEF Sem!sem_init_fake, Sem!InitialCount
<1>2. ASSUME NEW t \in Threads, Sem!sem_post_fake(t)
      PROVE Sem!Promise!SemNext \/ UNCHANGED <<count, Taken>>
  BY <1>2 DEF Sem!sem_post_fake
<1>3. ASSUME NEW t \in Threads, Sem!WaitTakes(t) \/ Sem!sem_trywait_fake(t)
      PROVE Sem!Promise!SemNext \/ UNCHANGED <<count, Taken>>
  BY <1>3 DEF Sem!WaitTakes, Sem!sem_trywait_fake
<1>4. ASSUME NEW t \in Threads, Sem!sem_destroy_fake(t)
      PROVE Sem!Promise!SemNext \/ UNCHANGED <<count, Taken>>
  BY <1>4 DEF Sem!sem_destroy_fake
<1>5. ASSUME NEW t \in Threads, Sem!CallWait(t) \/ Sem!WaitRefused(t)
      PROVE UNCHANGED <<count, Taken>>
  BY <1>5 DEF Sem!CallWait, Sem!WaitRefused
<1> QED
  BY <1>1, <1>2, <1>3, <1>4, <1>5 DEF Sem!Next

(* For any number of threads, posts and units wanted, a wait that returned *)
(* 0 was paid for, and the shim implements Semaphore (imports.c).          *)
THEOREM SemaphoresCounted == WaitsSpec => SemaphoresCount
<1>1. WaitsInit => SemInv
  BY SemInit DEF WaitsInit
<1>2. [WaitsNext]_allVars => [Sem!Next]_semVars
  BY DEF WaitsNext, allVars, semVars
<1>3. SemInv => Sem!TypeOK /\ Sem!NothingForNothing
  BY DEF SemInv
<1>4. WaitsInit => Sem!Promise!SemInit
  BY DEF WaitsInit, Sem!Init, Sem!Promise!SemInit
<1>5. SemInv /\ [Sem!Next]_semVars
        => [Sem!Promise!SemNext]_<<count, IF uid = "live" THEN taken ELSE 0>>
  BY SemRefines DEF Taken
<1> QED
  BY <1>1, <1>2, <1>3, <1>4, <1>5, SemStep, PTL
     DEF WaitsSpec, SemaphoresCount, Sem!ImplementsSemaphore, Sem!Promise!SemSpec

-----------------------------------------------------------------------------
(* Without overlapping calls a control word is in one call at a time.      *)
OneCall ==
  \A t, u \in Threads :
    \A i \in 1 .. Len(calls[t]), k \in 1 .. Len(calls[u]) :
      calls[t][i].control = calls[u][k].control => t = u /\ i = k

(* A call returns when its routine is done, and runs one that is not.      *)
DoneByThen ==
  \A t \in Threads : \A i \in 1 .. Len(calls[t]) :
    /\ calls[t][i].at = "return" => calls[t][i].control \in done
    /\ calls[t][i].at = "routine" => calls[t][i].control \notin done

(* The inductive invariant of calls that do not overlap.                   *)
SerialInv ==
  /\ OnceInv /\ OneCall /\ DoneByThen
  /\ \A t \in Threads : passed[t] \subseteq done
  /\ \A c \in done : word[c] = 1

(* What two instances of OnceShim share: a step without overlapping calls  *)
(* is one of those the invariant OnceInv is about.                         *)
LEMMA SerialActions ==
  Serial!Next =>
    \E t \in Threads :
      \/ TestAndSet(t) \/ RoutineEnds(t) \/ Return(t)
      \/ \E c \in Controls : CallOnce(t, c) /\ Serial!CallOnce(t, c)
<1>0. ASSUME NEW t \in Threads
      PROVE  /\ Serial!Innermost(t) = Innermost(t) /\ Serial!Within(t) = Within(t)
             /\ \A c, at : /\ Serial!Call(c, at) = Call(c, at)
                           /\ Serial!Moves(t, Call(c, at)) <=> Moves(t, Call(c, at))
  BY DEF Serial!Innermost, Serial!Last, Serial!Within, Serial!Moves, Serial!Front,
         Serial!Call, Innermost, Last, Within, Moves, Front, Call
<1>1. ASSUME NEW t \in Threads
      PROVE  /\ Serial!TestAndSet(t) => TestAndSet(t)
             /\ Serial!RoutineEnds(t) => RoutineEnds(t)
             /\ Serial!Return(t) => Return(t)
  <2>1. ASSUME Serial!TestAndSet(t) PROVE TestAndSet(t)
    BY <1>0, <2>1 DEF Serial!TestAndSet, TestAndSet
  <2>2. ASSUME Serial!RoutineEnds(t) PROVE RoutineEnds(t)
    BY <1>0, <2>2 DEF Serial!RoutineEnds, RoutineEnds
  <2>3. ASSUME Serial!Return(t) PROVE Return(t)
    BY <1>0, <2>3 DEF Serial!Return, Return, Serial!Front, Front
  <2> QED
    BY <2>1, <2>2, <2>3
<1>2. ASSUME NEW t \in Threads, NEW c \in Controls, Serial!CallOnce(t, c)
      PROVE  CallOnce(t, c)
  <2>1. /\ calls[t] # <<>> => Innermost(t).at = "routine"
        /\ c \notin Within(t)
        /\ \A u \in Threads \ {t} : c \notin Within(u)
        /\ calls' = [calls EXCEPT ![t] = Append(@, Call(c, "test"))]
        /\ UNCHANGED <<word, runs, done, passed>>
    BY <1>0, <1>2 DEF Serial!CallOnce
  <2> QED
    BY <2>1 DEF CallOnce
<1> QED
  BY <1>1, <1>2 DEF Serial!Next, Serial!Step

(* The invariant holds at first.                                           *)
LEMMA SerialInit == Init => SerialInv
<1> SUFFICES ASSUME Init PROVE SerialInv
  OBVIOUS
<1>1. \A t \in Threads : Len(calls[t]) = 0
  BY DEF Init
<1> QED
  BY <1>1, OnceInit DEF Init, SerialInv, OneCall, DoneByThen

(* The innermost call has become one of the same word, and the other calls *)
(* have stayed, which are of other words.                                  *)
Rewritten(t, at) ==
  \A u \in Threads : \A i \in 1 .. Len(calls'[u]) :
    /\ i \in 1 .. Len(calls[u])
    /\ calls'[u][i].control = calls[u][i].control
    /\ \/ u = t /\ i = Len(calls[t])
          /\ calls'[u][i] = Call(Innermost(t).control, at)
       \/ calls'[u][i] = calls[u][i]
          /\ calls[u][i].control # Innermost(t).control

(* That is what a step does that replaces the innermost call.              *)
LEMMA SameWord ==
  ASSUME OnceInv, OneCall, NEW t \in Threads, calls[t] # <<>>, NEW at,
         Replaces(t, Call(Innermost(t).control, at))
  PROVE  OneCall' /\ Rewritten(t, at)
<1> DEFINE n == Len(calls[t])
           c == Innermost(t).control
<1>1. n \in Nat \ {0} /\ Innermost(t) = calls[t][n]
  BY InnermostIs DEF OnceInv
<1>2. ASSUME NEW u \in Threads, NEW i \in 1 .. Len(calls'[u])
      PROVE  /\ i \in 1 .. Len(calls[u])
             /\ calls'[u][i].control = calls[u][i].control
             /\ \/ u = t /\ i = n /\ calls'[u][i] = Call(c, at)
                \/ calls'[u][i] = calls[u][i] /\ calls[u][i].control # c
  <2>1. CASE u = t /\ i = n
    <3>1. calls'[u][i] = Call(c, at)
      BY <2>1 DEF Replaces
    <3> QED
      BY <1>1, <2>1, <3>1 DEF Call
  <2>2. CASE ~(u = t /\ i = n)
    <3>1. i \in 1 .. Len(calls[u]) /\ calls'[u][i] = calls[u][i]
      BY <1>1, <2>2 DEF Replaces, Keeps
    <3>2. calls[u][i].control # c
      BY <1>1, <2>2, <3>1 DEF OneCall
    <3> QED
      BY <3>1, <3>2
  <2> QED
    BY <2>1, <2>2
<1>3. OneCall'
  BY <1>2 DEF OneCall
<1> QED
  BY <1>2, <1>3 DEF Rewritten

(* A call of a word that is in no call anywhere.                           *)
LEMMA SerialCallOnce ==
  ASSUME SerialInv, NEW t \in Threads, NEW c \in Controls, Serial!CallOnce(t, c)
  PROVE  OneCall' /\ DoneByThen' /\ UNCHANGED <<word, done, passed>>
<1> USE DEF SerialInv
<1> DEFINE n == Len(calls[t])
           new == Append(calls[t], Call(c, "test"))
<1>1. /\ \A u \in Threads : c \notin {calls[u][i].control : i \in DOMAIN calls[u]}
      /\ calls' = [calls EXCEPT ![t] = Append(calls[t], Call(c, "test"))]
      /\ UNCHANGED <<word, runs, done, passed>>
  BY DEF Serial!CallOnce, Serial!Within, Serial!Call, Call
<1>2. \A u \in Threads : calls[u] \in Seq(Frames)
  BY DEF OnceInv, Types
<1>3. \A u \in Threads : Len(calls[u]) \in Nat /\ DOMAIN calls[u] = 1 .. Len(calls[u])
  BY <1>2
<1>4. /\ Len(new) = n + 1 /\ new[n + 1] = Call(c, "test")
      /\ \A i \in 1 .. n : new[i] = calls[t][i]
  BY <1>2, <1>3
<1>5. calls'[t] = new /\ \A u \in Threads \ {t} : calls'[u] = calls[u]
  BY <1>1 DEF OnceInv, Types
<1>6. ASSUME NEW u \in Threads, NEW i \in 1 .. Len(calls'[u])
      PROVE  \/ u = t /\ i = n + 1 /\ calls'[u][i] = Call(c, "test")
             \/ /\ i \in 1 .. Len(calls[u]) /\ calls'[u][i] = calls[u][i]
                /\ calls[u][i].control # c
  <2>1. CASE u = t /\ i = n + 1
    BY <1>4, <1>5, <2>1
  <2>2. CASE ~(u = t /\ i = n + 1)
    <3>1. i \in 1 .. Len(calls[u]) /\ calls'[u][i] = calls[u][i]
      BY <1>3, <1>4, <1>5, <2>2
    <3> QED
      BY <1>1, <1>3, <3>1
  <2> QED
    BY <2>1, <2>2
<1>7. OneCall'
  <2> SUFFICES ASSUME NEW u \in Threads, NEW w \in Threads,
                      NEW i \in 1 .. Len(calls'[u]), NEW k \in 1 .. Len(calls'[w]),
                      calls'[u][i].control = calls'[w][k].control
               PROVE  u = w /\ i = k
    BY DEF OneCall
  <2>1. ASSUME NEW x \in Threads, NEW m \in 1 .. Len(calls'[x])
        PROVE  IF calls'[x][m].control = c THEN x = t /\ m = n + 1
               ELSE m \in 1 .. Len(calls[x]) /\ calls'[x][m] = calls[x][m]
    BY <1>6 DEF Call
  <2>2. CASE calls'[u][i].control = c
    BY <2>1, <2>2
  <2>3. CASE calls'[u][i].control # c
    <3>1. /\ i \in 1 .. Len(calls[u]) /\ calls'[u][i] = calls[u][i]
          /\ k \in 1 .. Len(calls[w]) /\ calls'[w][k] = calls[w][k]
      BY <2>1, <2>3
    <3> QED
      BY <3>1 DEF OneCall
  <2> QED
    BY <2>2, <2>3
<1>8. DoneByThen'
  BY <1>1, <1>6 DEF DoneByThen, Call
<1> QED
  BY <1>1, <1>7, <1>8

(* A word that is set while nobody runs its routine is that of a routine   *)
(* that is done: the call may return.                                      *)
LEMMA SerialTestAndSet ==
  ASSUME SerialInv, NEW t \in Threads, TestAndSet(t)
  PROVE  OneCall' /\ DoneByThen' /\ UNCHANGED <<done, passed>> /\ \A d \in done : word'[d] = 1
<1> USE DEF SerialInv
<1> DEFINE n == Len(calls[t])
           c == Innermost(t).control
           at == IF word[c] = 0 THEN "routine" ELSE "return"
<1>1. /\ calls[t] # <<>> /\ Innermost(t).at = "test"
      /\ Innermost(t) = calls[t][n] /\ n \in Nat \ {0}
      /\ c \in Controls /\ Call(c, at) \in Frames
  BY InnermostIs DEF TestAndSet, Call, Frames, OnceInv
<1>2. /\ word' = [word EXCEPT ![c] = 1]
      /\ Moves(t, Call(c, at))
      /\ UNCHANGED <<done, passed>>
  BY DEF TestAndSet
<1>3. Replaces(t, Call(c, at))
  BY <1>1, <1>2, MovesReplaces DEF OnceInv
<1>4. at = "return" => c \in done
  <2> SUFFICES ASSUME word[c] # 0, ~Runs(c) PROVE c \in done
    <3>1. ASSUME Runs(c) PROVE FALSE
      <4>1. PICK u \in Threads : \E i \in 1 .. Len(calls[u]) : InRoutine(u, i, c)
        BY <3>1 DEF Runs
      <4>2. PICK i \in 1 .. Len(calls[u]) : InRoutine(u, i, c)
        BY <4>1
      <4>3. u = t /\ i = n
        BY <1>1, <4>2 DEF InRoutine, OneCall
      <4> QED
        BY <1>1, <4>2, <4>3 DEF InRoutine
    <3> QED
      BY <3>1
  <2>1. word[c] = 1
    BY <1>1 DEF OnceInv, Types
  <2> QED
    BY <1>1, <2>1 DEF OnceInv, Started
<1>5. at = "routine" => c \notin done
  OBVIOUS
<1> HIDE DEF at
<1>6. /\ OneCall'
      /\ \A u \in Threads : \A i \in 1 .. Len(calls'[u]) :
           \/ calls'[u][i] = Call(c, at)
           \/ i \in 1 .. Len(calls[u]) /\ calls'[u][i] = calls[u][i]
  <2>1. OneCall' /\ Rewritten(t, at)
    BY <1>1, <1>3, SameWord
  <2> QED
    BY <2>1 DEF Rewritten
<1>7. DoneByThen'
  BY <1>2, <1>4, <1>5, <1>6 DEF DoneByThen, Call
<1>8. \A d \in done : word'[d] = 1
  BY <1>1, <1>2 DEF OnceInv, Types
<1> QED
  BY <1>2, <1>6, <1>7, <1>8

(* A routine is done when it ends, for the first time.                     *)
LEMMA SerialRoutineEnds ==
  ASSUME SerialInv, NEW t \in Threads, RoutineEnds(t)
  PROVE  /\ OneCall' /\ DoneByThen' /\ UNCHANGED <<word, passed>>
         /\ \E c \in Controls :
              c \notin done /\ done' = done \union {c} /\ word[c] = 1
<1> USE DEF SerialInv
<1> DEFINE n == Len(calls[t])
           c == Innermost(t).control
<1>1. /\ calls[t] # <<>> /\ Innermost(t).at = "routine"
      /\ Innermost(t) = calls[t][n] /\ n \in Nat \ {0}
      /\ c \in Controls /\ Call(c, "return") \in Frames
  BY InnermostIs DEF RoutineEnds, Call, Frames, OnceInv
<1>2. /\ done' = done \union {c}
      /\ Moves(t, Call(c, "return"))
      /\ UNCHANGED <<word, runs, passed>>
  BY DEF RoutineEnds
<1>3. Replaces(t, Call(c, "return"))
  BY <1>1, <1>2, MovesReplaces DEF OnceInv
<1>4. c \notin done /\ word[c] = 1
  BY <1>1 DEF DoneByThen, OnceInv, PastTheTest
<1>5. /\ OneCall'
      /\ \A u \in Threads : \A i \in 1 .. Len(calls'[u]) :
           \/ calls'[u][i] = Call(c, "return")
           \/ /\ i \in 1 .. Len(calls[u]) /\ calls'[u][i] = calls[u][i]
              /\ calls[u][i].control # c
  <2>1. OneCall' /\ Rewritten(t, "return")
    BY <1>1, <1>3, SameWord
  <2> QED
    BY <2>1 DEF Rewritten
<1>6. DoneByThen'
  BY <1>2, <1>5 DEF DoneByThen, Call
<1> QED
  BY <1>1, <1>2, <1>4, <1>5, <1>6

(* A call that returns does so after its routine was done.                 *)
LEMMA SerialReturn ==
  ASSUME SerialInv, NEW t \in Threads, Return(t)
  PROVE  /\ OneCall' /\ DoneByThen' /\ UNCHANGED <<word, done>>
         /\ \E c \in Controls :
              c \in done /\ passed' = [passed EXCEPT ![t] = @ \union {c}]
<1> USE DEF SerialInv
<1> DEFINE n == Len(calls[t])
           c == Innermost(t).control
<1>1. /\ calls[t] # <<>> /\ Innermost(t).at = "return"
      /\ Innermost(t) = calls[t][n] /\ n \in Nat \ {0}
      /\ c \in Controls
  BY InnermostIs DEF Return, Frames, OnceInv
<1>2. /\ passed' = [passed EXCEPT ![t] = @ \union {c}]
      /\ calls' = [calls EXCEPT ![t] = Front(calls[t])]
      /\ UNCHANGED <<word, runs, done>>
  BY DEF Return
<1>3. /\ Len(Front(calls[t])) = n - 1
      /\ \A i \in 1 .. n - 1 : Front(calls[t])[i] = calls[t][i]
  <2>1. calls[t] \in Seq(Frames)
    BY DEF OnceInv, Types
  <2> QED
    BY <1>1, <2>1, PopInnermost
<1>4. calls'[t] = Front(calls[t]) /\ \A u \in Threads \ {t} : calls'[u] = calls[u]
  BY <1>2 DEF OnceInv, Types
<1>5. \A u \in Threads : \A i \in 1 .. Len(calls'[u]) :
        i \in 1 .. Len(calls[u]) /\ calls'[u][i] = calls[u][i]
  BY <1>1, <1>3, <1>4
<1>6. OneCall' /\ DoneByThen'
  BY <1>2, <1>5 DEF OneCall, DoneByThen
<1>7. c \in done
  BY <1>1 DEF DoneByThen
<1> QED
  BY <1>1, <1>2, <1>6, <1>7

(* Every step keeps the invariant and is one of Once.                      *)
LEMMA SerialStep ==
  SerialInv /\ [Serial!Next]_vars => SerialInv' /\ [Promise!OnceNext]_<<done, passed>>
<1> SUFFICES ASSUME SerialInv, [Serial!Next]_vars
             PROVE  SerialInv' /\ [Promise!OnceNext]_<<done, passed>>
  OBVIOUS
<1> USE DEF SerialInv
<1>1. OnceInv'
  BY SerialActions, OnceStep DEF Next, Step
<1>2. CASE UNCHANGED vars
  <2>1. OneCall' /\ DoneByThen'
    BY <1>2 DEF vars, OneCall, DoneByThen
  <2> QED
    BY <1>1, <1>2, <2>1 DEF vars
<1>3. ASSUME NEW t \in Threads, NEW c \in Controls, Serial!CallOnce(t, c)
      PROVE  SerialInv' /\ UNCHANGED <<done, passed>>
  BY <1>1, <1>3, SerialCallOnce
<1>4. ASSUME NEW t \in Threads, TestAndSet(t)
      PROVE  SerialInv' /\ UNCHANGED <<done, passed>>
  BY <1>1, <1>4, SerialTestAndSet
<1>5. ASSUME NEW t \in Threads, RoutineEnds(t)
      PROVE  SerialInv' /\ Promise!OnceNext
  <2>1. PICK c \in Controls : c \notin done /\ done' = done \union {c} /\ word[c] = 1
    BY <1>5, SerialRoutineEnds
  <2>2. OneCall' /\ DoneByThen' /\ UNCHANGED <<word, passed>>
    BY <1>5, SerialRoutineEnds
  <2>3. Promise!RunRoutine(c)
    BY <2>1, <2>2 DEF Promise!RunRoutine
  <2> QED
    BY <1>1, <2>1, <2>2, <2>3 DEF Promise!OnceNext
<1>6. ASSUME NEW t \in Threads, Return(t)
      PROVE  SerialInv' /\ Promise!OnceNext
  <2>1. PICK c \in Controls : c \in done /\ passed' = [passed EXCEPT ![t] = @ \union {c}]
    BY <1>6, SerialReturn
  <2>2. OneCall' /\ DoneByThen' /\ UNCHANGED <<word, done>>
    BY <1>6, SerialReturn
  <2>3. Promise!Pass(t, c)
    BY <2>1, <2>2 DEF Promise!Pass
  <2>4. \A u \in Threads : passed'[u] \subseteq done'
    BY <2>1, <2>2 DEF OnceInv, Types
  <2> QED
    BY <1>1, <2>1, <2>2, <2>3, <2>4 DEF Promise!OnceNext
<1>7. CASE Serial!Next
  BY <1>3, <1>4, <1>5, <1>6, <1>7, SerialActions
<1> QED
  BY <1>2, <1>7 DEF vars

(* For any threads, words and depth of calls, pthread_once_fake implements *)
(* Once while no calls overlap (imports.c:170-176).                        *)
THEOREM SerialOnceImplements == WaitsSpec => SerialImplementsOnce
<1> DEFINE Inv == part = "serial" => SerialInv
           S == part = "serial" /\ [Serial!Next]_vars
<1>1. WaitsInit => Inv /\ Promise!OnceInit
  BY SerialInit DEF WaitsInit, Init, Promise!OnceInit
<1>2. [WaitsNext]_allVars => part' = part /\ (part = "serial" => [Serial!Next]_vars)
  BY DEF WaitsNext, allVars, vars
<1>3. Inv /\ [WaitsNext]_allVars => Inv'
  BY <1>2, SerialStep
<1>4. Inv /\ [WaitsNext]_allVars
        => [part = "serial" => Promise!OnceNext]_<<part, done, passed>>
  BY <1>2, SerialStep
<1> HIDE DEF Inv
<1> QED
  BY <1>1, <1>3, <1>4, PTL DEF WaitsSpec, SerialImplementsOnce

-----------------------------------------------------------------------------
(* The buffer that was last given to the display.                          *)
Latest == IF queue = <<>> THEN next ELSE queue[1].new

(* One swap at a time: its old buffer is the one that is locked, and the   *)
(* one that was set before it.                                             *)
OneSwap ==
  /\ Len(queue) <= 1
  /\ locked = IF queue = <<>> THEN {} ELSE {queue[1].old}
  /\ queue # <<>> /\ next # Dialog!NoBuffer => queue[1].old = next

(* front is what was last given to the display, and back another one, but  *)
(* between the swap and the step of the two.                               *)
Indices ==
  /\ dialogPc \notin {"advance", "free", "exited"} /\ Latest # Dialog!NoBuffer =>
       front = Latest /\ back # front
  /\ dialogPc = "advance" => Latest = back

(* What is drawn is drawn into back.                                       *)
Drawing ==
  /\ drawing # Dialog!NoBuffer => dialogPc = "add" /\ drawing = back
  /\ dialogPc \in {"add", "advance"} => back \in drawn

(* Unless the last swap was late, the frame after the wait for the screen  *)
(* begins with nothing in the queue and the screen on what was set last.   *)
OnTime ==
  dialogPc \in {"init", "open", "loop", "draw", "add"} /\ ~late =>
    queue = <<>> /\ scanned = next

(* The buffers are in memory from gxm_init to sceGxmTerminate, which ends  *)
(* the queue; it comes when the message is closed or was never shown.      *)
Allocated ==
  /\ dialogPc \notin {"init", "free", "exited"} => memory = Dialog!Buffers
  /\ dialogPc \in {"init", "free", "exited"} => queue = <<>>
  /\ dialogPc = "init" => scanned = Dialog!NoBuffer /\ next = Dialog!NoBuffer
  /\ dialogPc = "exited" => scanned = Dialog!NoBuffer /\ next = Dialog!NoBuffer
  /\ dialogPc \in {"term", "free"} => message # "open"
  /\ dialogPc \in {"init", "open"} => message = "hidden"

(* The inductive invariant of the dialog.                                  *)
DialogInv ==
  /\ Dialog!TypeOK /\ OneSwap /\ Indices /\ Drawing /\ OnTime /\ Allocated
  /\ Dialog!NoTearing
  /\ Dialog!OnlyPicturesShown /\ Dialog!ShowsFreedAtTheEnd

(* The next of several buffers is another one.                             *)
LEMMA NextIndex ==
  ASSUME NEW n \in Nat, n > 1, NEW b \in 0 .. n - 1
  PROVE  (b + 1) % n \in 0 .. n - 1 /\ (b + 1) % n # b
<1>1. CASE b + 1 < n
  <2>1. (b + 1) % n = b + 1
    BY <1>1
  <2> QED
    BY <1>1, <2>1
<1>2. CASE b + 1 = n
  <2>1. n % n = 0
    OBVIOUS
  <2> QED
    BY <1>2, <2>1
<1> QED
  BY <1>1, <1>2

(* A queue that is not empty and holds at most one entry.                  *)
LEMMA SingleEntry ==
  ASSUME NEW S, NEW q \in Seq(S), q # <<>>, Len(q) <= 1
  PROVE  Len(q) = 1 /\ Head(q) = q[1] /\ q[1] \in S /\ Tail(q) = <<>>
<1>1. Len(q) \in Nat \ {0}
  BY EmptySeq
<1>2. Len(q) = 1 /\ Head(q) = q[1] /\ q[1] \in S
  BY <1>1
<1>3. Tail(q) \in Seq(S) /\ Len(Tail(q)) = 0
  BY <1>2, HeadTailProperties
<1> QED
  BY <1>2, <1>3, EmptySeq

(* The invariant holds at first.                                           *)
LEMMA DialogInit ==
  ASSUME Count > 1, MaxPending = 1, Dialog!Init PROVE DialogInv
<1> DEFINE Entries == [old : Dialog!Buffers, new : Dialog!Buffers]
<1>1. /\ Len(queue) = 0 /\ queue = <<>> /\ queue \in Seq(Entries)
      /\ 0 \in Dialog!Buffers
  BY DialogConstants DEF Dialog!DialogAssumption, Dialog!Init, Dialog!Buffers
<1>2. Dialog!TypeOK
  <2>1. Len(queue) <= MaxPending
    BY <1>1
  <2>2. /\ dialogPc = "init" /\ late = FALSE /\ message = "hidden"
        /\ back \in Dialog!Buffers /\ front \in Dialog!Buffers
        /\ memory \subseteq Dialog!Buffers /\ drawn \subseteq Dialog!Buffers
        /\ locked \subseteq Dialog!Buffers
        /\ drawing = Dialog!NoBuffer /\ scanned = Dialog!NoBuffer /\ next = Dialog!NoBuffer
    BY <1>1 DEF Dialog!Init
  <2> QED
    BY <1>1, <2>1, <2>2 DEF Dialog!TypeOK
<1>3. OneSwap /\ Indices /\ Drawing /\ OnTime /\ Allocated
  BY <1>1 DEF Dialog!Init, Dialog!NoBuffer, OneSwap, Indices, Latest, Drawing, OnTime, Allocated
<1>4. Dialog!NoTearing /\ Dialog!OnlyPicturesShown /\ Dialog!ShowsFreedAtTheEnd
  BY <1>1 DEF Dialog!Init, Dialog!NoBuffer, Dialog!NoTearing,
     Dialog!OnlyPicturesShown, Dialog!ShowsFreedAtTheEnd
<1> QED
  BY <1>2, <1>3, <1>4 DEF DialogInv

(* Every step of the dialog and of the display keeps the invariant.        *)
LEMMA DialogStep ==
  ASSUME Count > 1, MaxPending = 1, DialogInv, [Dialog!Next]_dialogVars
  PROVE  DialogInv'
<1> USE DialogConstants
    DEF Dialog!DialogAssumption, DialogInv, Dialog!TypeOK, OneSwap, Indices, Latest, Drawing, OnTime,
        Allocated, Dialog!NoTearing, Dialog!OnlyPicturesShown,
        Dialog!ShowsFreedAtTheEnd, Dialog!Buffers,
        Dialog!NoBuffer, Dialog!buffers, Dialog!dialog, Dialog!display
<1>1. CASE UNCHANGED dialogVars
  BY <1>1 DEF dialogVars
<1>2. CASE Dialog!gxm_init
  BY <1>2 DEF Dialog!gxm_init
<1>3. CASE Dialog!OpenDialog
  BY <1>3 DEF Dialog!OpenDialog
<1>4. CASE Dialog!TestStatus
  BY <1>4 DEF Dialog!TestStatus
<1>5. CASE Dialog!DialogUpdate
  BY <1>5 DEF Dialog!DialogUpdate
<1>6. CASE Dialog!AddEntry
  BY <1>6 DEF Dialog!AddEntry
<1>7. CASE Dialog!Advance
  <2>1. back' \in 0 .. Count - 1 /\ back' # back
    BY <1>7, NextIndex DEF Dialog!Advance
  <2> QED
    BY <1>7, <2>1 DEF Dialog!Advance
<1>8. CASE Dialog!WaitVblank
  BY <1>8 DEF Dialog!WaitVblank
<1>9. CASE Dialog!GxmTerminate
  BY <1>9 DEF Dialog!GxmTerminate
<1>9a. CASE Dialog!FreeBuffer
  BY <1>9a DEF Dialog!FreeBuffer
<1>9b. CASE Dialog!ExitProcess
  BY <1>9b DEF Dialog!ExitProcess
<1>9c. CASE Dialog!Vblank
  BY <1>9c DEF Dialog!Vblank
<1>10. CASE Dialog!Swap
  <2>1. /\ queue # <<>> /\ Len(queue) = 1 /\ Head(queue) = queue[1]
        /\ queue[1] \in [old : Dialog!Buffers, new : Dialog!Buffers]
        /\ Tail(queue) = <<>>
    <3>1. /\ queue \in Seq([old : Dialog!Buffers, new : Dialog!Buffers])
          /\ queue # <<>> /\ Len(queue) <= 1
      BY <1>10 DEF Dialog!Swap
    <3> HIDE DEF Dialog!Buffers
    <3> QED
      BY <3>1, SingleEntry
  <2>2. <<>> \in Seq([old : Dialog!Buffers, new : Dialog!Buffers]) /\ Len(<<>>) = 0
    OBVIOUS
  <2>3. /\ queue' = <<>> /\ Len(queue') = 0
        /\ next' = queue[1].new /\ locked' = {}
        /\ UNCHANGED <<dialogPc, back, front, memory, drawn, drawing, scanned,
                       late, message>>
    BY <1>10, <2>1, <2>2 DEF Dialog!Swap
  <2>4. queue[1].new \in drawn
    BY <2>1
  <2> QED
    BY <2>1, <2>2, <2>3, <2>4
<1>11. CASE Dialog!CloseMessage
  BY <1>11 DEF Dialog!CloseMessage
<1> QED
  BY <1>1, <1>2, <1>3, <1>4, <1>5, <1>6, <1>7, <1>8, <1>9, <1>9a, <1>9b, <1>9c,
     <1>10, <1>11
     DEF Dialog!Next, Dialog!fatal_error

(* With several buffers and one pending swap, as error.c:32-33 asks for,   *)
(* the dialog draws into no buffer that is set for the screen, and into    *)
(* the one on the screen only right after a late swap; it shows none that  *)
(* was not drawn, and swaps to none that is freed; only gxm_term frees the *)
(* buffer on the screen, after the message was closed.  Either condition   *)
(* is needed: with two pending swaps the buffers come round too soon.      *)
THEOREM DialogShown ==
  ASSUME Count > 1, MaxPending = 1
  PROVE  WaitsSpec => []DialogShowsPictures
<1>1. WaitsInit => DialogInv
  BY DialogInit DEF WaitsInit
<1>2. [WaitsNext]_allVars => [Dialog!Next]_dialogVars
  BY DEF WaitsNext, allVars, dialogVars
<1>3. DialogInv /\ [Dialog!Next]_dialogVars => DialogInv'
  BY DialogStep
<1>4. DialogInv => DialogShowsPictures
  BY DEF DialogInv, DialogShowsPictures
<1> QED
  BY <1>1, <1>2, <1>3, <1>4, PTL DEF WaitsSpec

-----------------------------------------------------------------------------
(* A number is its quotient and its remainder.                             *)
LEMMA QuotientRemainder ==
  ASSUME NEW a \in Int, NEW n \in Nat \ {0},
         NEW q \in Int, q = a \div n, NEW r \in Int, r = a % n
  PROVE  a = n * q + r
OBVIOUS

(* The same, with what the quotient and the remainder are.                 *)
LEMMA Division ==
  ASSUME NEW a \in Int, NEW n \in Nat \ {0}
  PROVE  /\ a \div n \in Int /\ a % n \in 0 .. n - 1
         /\ a = n * (a \div n) + (a % n)
<1> DEFINE q == a \div n
           r == a % n
<1>1. q \in Int
  OBVIOUS
<1>2. r \in 0 .. n - 1
  OBVIOUS
<1>3. q = a \div n /\ r = a % n
  OBVIOUS
<1> HIDE DEF q, r
<1>4. a = n * q + r
  BY <1>1, <1>2, <1>3, QuotientRemainder
<1> QED
  BY <1>1, <1>2, <1>4 DEF q, r

(* Multiplying by a number that is not negative keeps an order.            *)
LEMMA MulMonotone ==
  ASSUME NEW n \in Nat, NEW a \in Int, NEW b \in Int, a <= b
  PROVE  n * a \in Int /\ n * b \in Int /\ n * a <= n * b
OBVIOUS

(* A number has one quotient and one remainder.                            *)
LEMMA DivisionUnique ==
  ASSUME NEW n \in Nat \ {0}, NEW p \in Int, NEW q \in Int,
         NEW r \in 0 .. n - 1, NEW s \in 0 .. n - 1, n * p + r = n * q + s
  PROVE  p = q /\ r = s
<1>1. ~(p + 1 <= q)
  <2> SUFFICES ASSUME p + 1 <= q PROVE FALSE
    OBVIOUS
  <2>1. n * (p + 1) <= n * q
    BY MulMonotone
  <2>2. n * (p + 1) = n * p + n
    OBVIOUS
  <2> QED
    BY <2>1, <2>2
<1>2. ~(q + 1 <= p)
  <2> SUFFICES ASSUME q + 1 <= p PROVE FALSE
    OBVIOUS
  <2>1. n * (q + 1) <= n * p
    BY MulMonotone
  <2>2. n * (q + 1) = n * q + n
    OBVIOUS
  <2> QED
    BY <2>1, <2>2
<1> QED
  BY <1>1, <1>2

(* Reducing before or after multiplying by the same factor.                *)
Scaled(a, m, n) ==
  /\ (a * n) % (m * n) = (a % m) * n
  /\ (a % m) * n \in 0 .. m * n - 1

(* The remainder of a multiple is the multiple of the remainder.           *)
LEMMA ScaledRemainder ==
  ASSUME NEW a \in Nat, NEW m \in Nat \ {0}, NEW n \in Nat \ {0}
  PROVE  Scaled(a, m, n)
<1> DEFINE k == m * n
           d == a \div m
           r == a % m
<1>1. k \in Nat \ {0} /\ a * n \in Int
  OBVIOUS
<1>2. d \in Int /\ r \in 0 .. m - 1 /\ a = m * d + r
  BY Division
<1> HIDE DEF d, r
<1>3. r * n \in 0 .. k - 1
  <2>1. n * r <= n * (m - 1) /\ n * 0 <= n * r
    BY <1>2, MulMonotone
  <2> QED
    BY <1>2, <2>1
<1>4. a * n = k * d + r * n
  BY <1>2
<1> HIDE DEF k
<1>5. /\ (a * n) \div k \in Int /\ (a * n) % k \in 0 .. k - 1
      /\ a * n = k * ((a * n) \div k) + ((a * n) % k)
  BY <1>1, Division
<1>6. (a * n) % k = r * n
  <2> DEFINE x == a * n
             g == r * n
             e == x \div k
             f == x % k
  <2>1. /\ d \in Int /\ g \in 0 .. k - 1 /\ x = k * d + g
        /\ e \in Int /\ f \in 0 .. k - 1 /\ x = k * e + f
    BY <1>2, <1>3, <1>4, <1>5
  <2> HIDE DEF x, g, e, f
  <2>2. k * d + g = k * e + f
    BY <2>1
  <2>3. f = g
    BY <1>1, <2>1, <2>2, DivisionUnique
  <2> QED
    BY <2>3 DEF x, g, f
<1> QED
  BY <1>3, <1>6 DEF k, r, Scaled

(* Of two numbers, the greater has the greater quotient, or the same and   *)
(* no smaller remainder.                                                   *)
LEMMA DivisionMonotone ==
  ASSUME NEW a \in Nat, NEW b \in Nat, a <= b, NEW m \in Nat \ {0}
  PROVE  \/ b \div m > a \div m
         \/ b \div m = a \div m /\ b % m >= a % m
<1> DEFINE p == a \div m
           q == b \div m
           r == a % m
           s == b % m
<1>1. /\ p \in Int /\ r \in 0 .. m - 1 /\ a = m * p + r
      /\ q \in Int /\ s \in 0 .. m - 1 /\ b = m * q + s
  BY Division
<1> HIDE DEF p, q, r, s
<1>2. ~(q + 1 <= p)
  <2> SUFFICES ASSUME q + 1 <= p PROVE FALSE
    OBVIOUS
  <2>1. m * (q + 1) <= m * p
    BY <1>1, MulMonotone
  <2>2. m * (q + 1) = m * q + m
    BY <1>1
  <2> QED
    BY <1>1, <2>1, <2>2
<1>3. CASE q = p
  <2>1. s >= r
    BY <1>1, <1>3
  <2> QED
    BY <1>3, <2>1 DEF p, q, r, s
<1>4. CASE q # p
  <2>1. q > p
    BY <1>1, <1>2, <1>4
  <2> QED
    BY <2>1 DEF p, q
<1> QED
  BY <1>3, <1>4

(* The inductive invariant of the clocks and sleeps: an answer that was    *)
(* given is the conversion of a reading, no clock is behind the reading but *)
(* clock 1 when it was turned back, and a sleep ends its delay after it    *)
(* began.                                                                  *)
ClockInv ==
  /\ Clk!TypeOK
  /\ Clk!AnswerIsTheReading
  /\ read \in Nat
  /\ tp.id \in {0, 1} => tp = Clk!Timespec(tp.id, read)
  /\ tp.id = 0 => read <= ticks
  /\ tp.id = 1 /\ ~turned => read <= wall
  /\ Clk!Asleep =>
       \E r \in Requests, begun \in 0 .. ticks :
         sleep = [sec |-> r.sec, nsec |-> r.nsec, since |-> begun,
                  until |-> begun + Clk!Delay(r)]

(* The units are what their assumption says, and there are nanoseconds in  *)
(* a second.                                                               *)
LEMMA UnitsAreNumbers ==
  /\ Micros \in Nat \ {0} /\ Nanos \in Nat \ {0} /\ Word \in Nat \ {0}
  /\ MaxTicks \in Nat \ {0} /\ MaxWall \in Nat \ {0}
  /\ Micros * Nanos \in Nat \ {0}
<1>1. /\ Micros \in Nat \ {0} /\ Nanos \in Nat \ {0} /\ Word \in Nat \ {0}
      /\ MaxTicks \in Nat \ {0} /\ MaxWall \in Nat \ {0}
  BY ClockConstants DEF Clk!ClockAssumption
<1> QED
  BY <1>1

(* The conversion of clock_gettime loses nothing of a reading.             *)
LEMMA ReadingIsKept ==
  ASSUME NEW us \in Nat, NEW id \in {0, 1}
  PROVE  LET t == Clk!Timespec(id, us) IN
           /\ t \in [id : 0 .. 2, ret : {0, -Clk!ENOSYS}, sec : Nat,
                     nsec : 0 .. Micros * Nanos - 1]
           /\ t.id = id /\ t.ret = 0
           /\ t.sec * Micros * Nanos + t.nsec = us * Nanos
<1> DEFINE t == Clk!Timespec(id, us)
           q == us \div Micros
           r == us % Micros
<1>1. q \in Int /\ r \in 0 .. Micros - 1 /\ us = Micros * q + r
  BY UnitsAreNumbers, Division
<1>2. /\ (us * Nanos) % (Micros * Nanos) = r * Nanos
      /\ r * Nanos \in 0 .. Micros * Nanos - 1
  <2>1. Scaled(us, Micros, Nanos)
    BY UnitsAreNumbers, ScaledRemainder
  <2> QED
    BY <2>1 DEF Scaled
<1>3. t = [id |-> id, ret |-> 0, sec |-> q, nsec |-> r * Nanos]
  BY <1>2 DEF Clk!Timespec
<1> HIDE DEF q, r, t
<1>4. q \in Nat
  <2>1. ~(q + 1 <= 0)
    <3> SUFFICES ASSUME q + 1 <= 0 PROVE FALSE
      OBVIOUS
    <3>1. Micros * (q + 1) <= Micros * 0
      BY <1>1, UnitsAreNumbers, MulMonotone
    <3>2. Micros * (q + 1) = Micros * q + Micros
      BY <1>1, UnitsAreNumbers
    <3> QED
      BY <1>1, <3>1, <3>2, UnitsAreNumbers
  <2> QED
    BY <1>1, <2>1
<1>5. us * Nanos = q * Micros * Nanos + r * Nanos
  BY <1>1, UnitsAreNumbers
<1>6. t \in [id : 0 .. 2, ret : {0, -Clk!ENOSYS}, sec : Nat,
             nsec : 0 .. Micros * Nanos - 1]
  BY <1>2, <1>3, <1>4
<1>7. /\ t.id = id /\ t.ret = 0
      /\ t.sec * Micros * Nanos + t.nsec = us * Nanos
  BY <1>3, <1>5
<1> QED
  BY <1>6, <1>7 DEF t

(* The delay of a request is a word.                                       *)
LEMMA DelayIsAWord ==
  ASSUME NEW r \in Requests
  PROVE  /\ r.sec \in Nat /\ r.nsec \in Nat
         /\ r.nsec \div Nanos \in Int
         /\ r.sec * Micros + r.nsec \div Nanos \in Int
         /\ Clk!Delay(r) \in 0 .. Word - 1
<1>1. r.sec \in Nat /\ r.nsec \in Nat
  BY ClockConstants DEF Clk!ClockAssumption
<1>2. r.nsec \div Nanos \in Int
  BY <1>1, UnitsAreNumbers, Division
<1>3. r.sec * Micros + r.nsec \div Nanos \in Int
  BY <1>1, <1>2, UnitsAreNumbers
<1>4. Clk!Delay(r) \in 0 .. Word - 1
  BY <1>3, UnitsAreNumbers, Division DEF Clk!Delay
<1> QED
  BY <1>1, <1>2, <1>3, <1>4

(* The invariant holds at first.                                           *)
LEMMA ClockInit == WaitsInit => ClockInv
<1> SUFFICES ASSUME WaitsInit PROVE ClockInv
  OBVIOUS
<1>1. /\ ticks = 0 /\ wall \in 0 .. MaxWall /\ read = 0
      /\ tp = [id |-> 0, ret |-> 0, sec |-> 0, nsec |-> 0]
      /\ sleep = Clk!NoSleep /\ turned = FALSE
  BY DEF WaitsInit, Clk!Init
<1>2. Clk!Timespec(0, 0) = tp
  <2>1. 0 \div Micros = 0 /\ (0 * Nanos) % (Micros * Nanos) = 0
    <3>1. 0 \div Micros \in Int /\ 0 % Micros \in 0 .. Micros - 1
          /\ 0 = Micros * (0 \div Micros) + (0 % Micros)
      BY UnitsAreNumbers, Division
    <3>2. 0 = Micros * 0 + 0
      BY UnitsAreNumbers
    <3>3. 0 \div Micros = 0 /\ 0 % Micros = 0
      BY <3>1, <3>2, UnitsAreNumbers, DivisionUnique
    <3>4. (0 * Nanos) % (Micros * Nanos) = (0 % Micros) * Nanos
      BY UnitsAreNumbers, ScaledRemainder DEF Scaled
    <3> QED
      BY <3>3, <3>4, UnitsAreNumbers
  <2> QED
    BY <1>1, <2>1 DEF Clk!Timespec
<1>3. sleep.until \in -2 .. MaxTicks + Word
  BY <1>1, UnitsAreNumbers DEF Clk!NoSleep
<1>4. Clk!TypeOK /\ Clk!AnswerIsTheReading
  <2>1. /\ tp \in [id : 0 .. 2, ret : {0, -Clk!ENOSYS}, sec : Nat,
                   nsec : 0 .. Micros * Nanos - 1]
        /\ tp.sec * Micros * Nanos + tp.nsec = read * Nanos
    BY <1>1, <1>2, ReadingIsKept
  <2>2. turned \in BOOLEAN
    BY <1>1, Zenon
  <2>3. ticks \in 0 .. MaxTicks /\ wall \in 0 .. MaxWall
    BY <1>1, UnitsAreNumbers
  <2>4. Clk!TypeOK
    BY <1>3, <2>1, <2>2, <2>3, Zenon DEF Clk!TypeOK
  <2> QED
    BY <1>1, <2>1, <2>4 DEF Clk!AnswerIsTheReading
<1>5. tp.id = 0 /\ ~Clk!Asleep
  BY <1>1 DEF Clk!Asleep
<1> QED
  BY <1>1, <1>2, <1>4, <1>5 DEF ClockInv

(* Every step keeps the invariant.                                         *)
LEMMA ClockStep ==
  ASSUME ClockInv, [Clk!Next]_clockVars
  PROVE  ClockInv'
<1>1. /\ ticks \in 0 .. MaxTicks /\ wall \in 0 .. MaxWall /\ read \in Nat
      /\ tp \in [id : 0 .. 2, ret : {0, -Clk!ENOSYS}, sec : Nat,
                 nsec : 0 .. Micros * Nanos - 1]
      /\ sleep.until \in -2 .. MaxTicks + Word
      /\ Clk!AnswerIsTheReading
      /\ tp.id \in {0, 1} => tp = Clk!Timespec(tp.id, read)
      /\ tp.id = 0 => read <= ticks
      /\ tp.id = 1 /\ ~turned => read <= wall
      /\ turned \in BOOLEAN
      /\ Clk!Asleep =>
           \E r \in Requests, begun \in 0 .. ticks :
             sleep = [sec |-> r.sec, nsec |-> r.nsec, since |-> begun,
                      until |-> begun + Clk!Delay(r)]
  BY DEF ClockInv, Clk!TypeOK
<1>2. CASE \E id \in 0 .. 2 : Clk!clock_gettime(id)
  <2> PICK id \in 0 .. 2 : Clk!clock_gettime(id)
    BY <1>2
  <2>1. UNCHANGED <<ticks, wall, sleep>>
    BY DEF Clk!clock_gettime
  <2>2. CASE id \in {0, 1}
    <3>1. PICK us \in Nat : /\ tp' = Clk!Timespec(id, us) /\ read' = us
                            /\ id = 0 => us <= ticks
                            /\ id = 1 => us <= wall
                            /\ turned' = FALSE
      BY <1>1, <2>2 DEF Clk!clock_gettime
    <3>2. /\ tp' \in [id : 0 .. 2, ret : {0, -Clk!ENOSYS}, sec : Nat,
                      nsec : 0 .. Micros * Nanos - 1]
          /\ tp'.id = id /\ tp'.ret = 0
          /\ tp'.sec * Micros * Nanos + tp'.nsec = us * Nanos
      BY <2>2, <3>1, ReadingIsKept
    <3>3. Clk!AnswerIsTheReading'
      BY <2>2, <3>1, <3>2 DEF Clk!AnswerIsTheReading
    <3> QED
      BY <1>1, <2>1, <2>2, <3>1, <3>2, <3>3 DEF ClockInv, Clk!TypeOK, Clk!Asleep
  <2>3. CASE id \notin {0, 1}
    <3>1. tp' = [tp EXCEPT !.id = id, !.ret = -Clk!ENOSYS]
          /\ read' = read /\ turned' = turned
      BY <2>3 DEF Clk!clock_gettime
    <3>2. /\ tp' \in [id : 0 .. 2, ret : {0, -Clk!ENOSYS}, sec : Nat,
                      nsec : 0 .. Micros * Nanos - 1]
          /\ tp'.id = id /\ tp'.ret = -Clk!ENOSYS
      BY <1>1, <3>1
    <3>3. Clk!AnswerIsTheReading'
      BY <2>3, <3>2 DEF Clk!AnswerIsTheReading, Clk!ENOSYS
    <3> QED
      BY <1>1, <2>1, <2>3, <3>1, <3>2, <3>3 DEF ClockInv, Clk!TypeOK, Clk!Asleep
  <2> QED
    BY <2>2, <2>3
<1>3. CASE Clk!nanosleep
  <2>1. PICK r \in Requests :
          sleep' = [sec |-> r.sec, nsec |-> r.nsec, since |-> ticks,
                    until |-> ticks + Clk!Delay(r)]
    BY <1>3 DEF Clk!nanosleep
  <2>2. UNCHANGED <<ticks, wall, tp, read, turned>>
    BY <1>3 DEF Clk!nanosleep
  <2>3. sleep'.until \in -2 .. MaxTicks + Word
    <3>1. sleep'.until = ticks + Clk!Delay(r)
      BY <2>1
    <3> QED
      BY <1>1, <3>1, DelayIsAWord, UnitsAreNumbers
  <2>4. \E q \in Requests, begun \in 0 .. ticks :
          sleep' = [sec |-> q.sec, nsec |-> q.nsec, since |-> begun,
                    until |-> begun + Clk!Delay(q)]
    BY <1>1, <2>1
  <2>5. Clk!AnswerIsTheReading'
    BY <1>1, <2>2 DEF Clk!AnswerIsTheReading
  <2>6. /\ Clk!TypeOK'
        /\ (tp.id \in {0, 1} => tp = Clk!Timespec(tp.id, read))'
        /\ (tp.id = 0 => read <= ticks)' /\ (read \in Nat)'
        /\ (tp.id = 1 /\ ~turned => read <= wall)'
    BY <1>1, <2>2, <2>3 DEF Clk!TypeOK
  <2> QED
    BY <2>2, <2>4, <2>5, <2>6 DEF ClockInv
<1>4. CASE Clk!Wake
  <2>1. sleep' = Clk!NoSleep /\ UNCHANGED <<ticks, wall, tp, read, turned>>
    BY <1>4 DEF Clk!Wake
  <2>2. sleep'.until \in -2 .. MaxTicks + Word /\ ~Clk!Asleep'
    BY <2>1, UnitsAreNumbers DEF Clk!NoSleep, Clk!Asleep
  <2> QED
    BY <1>1, <2>1, <2>2
       DEF ClockInv, Clk!TypeOK, Clk!AnswerIsTheReading
<1>5. CASE Clk!Tick
  <2>1. /\ ticks' = ticks + 1 /\ ticks < MaxTicks /\ UNCHANGED <<tp, read, turned, sleep>>
        /\ wall' = IF wall < MaxWall THEN wall + 1 ELSE wall
    BY <1>5 DEF Clk!Tick
  <2>2. ticks' \in 0 .. MaxTicks /\ wall' \in 0 .. MaxWall /\ wall' >= wall
    BY <1>1, <2>1, UnitsAreNumbers
  <2>3. (Clk!Asleep =>
           \E r \in Requests, begun \in 0 .. ticks :
             sleep = [sec |-> r.sec, nsec |-> r.nsec, since |-> begun,
                      until |-> begun + Clk!Delay(r)])'
    <3>1. 0 .. ticks \subseteq 0 .. ticks'
      BY <1>1, <2>1
    <3> QED
      BY <1>1, <2>1, <3>1 DEF Clk!Asleep
  <2> QED
    BY <1>1, <2>1, <2>2, <2>3
       DEF ClockInv, Clk!TypeOK, Clk!AnswerIsTheReading
<1>6. CASE Clk!SetClock
  <2>1. /\ UNCHANGED <<ticks, tp, read, sleep>> /\ wall' \in 0 .. MaxWall
        /\ turned' \in BOOLEAN /\ (~turned' => ~turned /\ wall' >= wall)
    <3>1. /\ UNCHANGED <<ticks, tp, read, sleep>> /\ wall' \in 0 .. MaxWall
          /\ turned' = IF wall' < wall THEN TRUE ELSE turned
      BY <1>6 DEF Clk!SetClock
    <3>2. CASE wall' < wall
      BY <3>1, <3>2, Zenon
    <3>3. CASE ~(wall' < wall)
      <4>1. wall' >= wall
        BY <1>1, <3>1, <3>3, UnitsAreNumbers
      <4> QED
        BY <1>1, <3>1, <3>3, <4>1, Zenon
    <3> QED
      BY <3>2, <3>3
  <2> QED
    BY <1>1, <2>1, UnitsAreNumbers
       DEF ClockInv, Clk!TypeOK, Clk!AnswerIsTheReading, Clk!Asleep
<1>7. CASE Clk!NanosleepFaults
  <2>1. sleep' = Clk!Faulted /\ UNCHANGED <<ticks, wall, tp, read, turned>>
    BY <1>7 DEF Clk!NanosleepFaults
  <2>2. sleep'.until \in -2 .. MaxTicks + Word /\ ~Clk!Asleep'
    BY <2>1, UnitsAreNumbers DEF Clk!NoSleep, Clk!Faulted, Clk!Asleep
  <2> QED
    BY <1>1, <2>1, <2>2
       DEF ClockInv, Clk!TypeOK, Clk!AnswerIsTheReading
<1>8. CASE UNCHANGED clockVars
  BY <1>1, <1>8 DEF clockVars, ClockInv, Clk!TypeOK, Clk!AnswerIsTheReading,
       Clk!Asleep
<1> QED
  BY <1>2, <1>3, <1>4, <1>5, <1>6, <1>7, <1>8 DEF Clk!Next

(* A step that gives a new answer of a clock gives no smaller one, but     *)
(* where the owner has turned the local time back.                         *)
LEMMA ClockGoesForward ==
  ASSUME ClockInv, Clk!Next \/ UNCHANGED clockVars, tp'.id = tp.id, tp.id \in {0, 1},
         tp.id = 1 => ~turned, tp' # tp
  PROVE  \/ tp'.sec > tp.sec
         \/ tp'.sec = tp.sec /\ tp'.nsec >= tp.nsec
<1> DEFINE now == IF tp.id = 0 THEN ticks ELSE wall
<1>1. tp' = Clk!Timespec(tp.id, now)
  <2>1. PICK id \in 0 .. 2 : Clk!clock_gettime(id)
    BY DEF Clk!Next, Clk!nanosleep, Clk!NanosleepFaults, Clk!Wake, Clk!Tick,
           Clk!SetClock, clockVars
  <2>2. tp \in [id : 0 .. 2, ret : {0, -Clk!ENOSYS}, sec : Nat,
                nsec : 0 .. Micros * Nanos - 1]
    BY DEF ClockInv, Clk!TypeOK
  <2>3. CASE id = 0
    <3>1. tp' = Clk!Timespec(0, ticks)
      BY <2>1, <2>3 DEF Clk!clock_gettime
    <3> QED
      BY <3>1 DEF Clk!Timespec
  <2>4. CASE id = 1
    <3>1. tp' = Clk!Timespec(1, wall)
      BY <2>1, <2>4 DEF Clk!clock_gettime
    <3> QED
      BY <3>1 DEF Clk!Timespec
  <2>5. CASE id = 2
    <3>1. tp' = [tp EXCEPT !.id = id, !.ret = -Clk!ENOSYS]
      BY <2>1, <2>5 DEF Clk!clock_gettime
    <3>2. tp'.id = 2
      BY <2>2, <2>5, <3>1
    <3> QED
      BY <3>2
  <2> QED
    BY <2>1, <2>3, <2>4, <2>5
<1>2. /\ tp = Clk!Timespec(tp.id, read)
      /\ read \in Nat /\ now \in Nat /\ read <= now
  BY DEF ClockInv, Clk!TypeOK
<1> HIDE DEF now
<1> DEFINE a == read \div Micros
           b == now \div Micros
           r == read % Micros
           s == now % Micros
<1>3. /\ tp.sec = a /\ tp.nsec = r * Nanos
      /\ tp'.sec = b /\ tp'.nsec = s * Nanos
  <2>1. Scaled(read, Micros, Nanos) /\ Scaled(now, Micros, Nanos)
    BY <1>2, UnitsAreNumbers, ScaledRemainder
  <2>2. /\ tp.sec = a /\ tp.nsec = (read * Nanos) % (Micros * Nanos)
        /\ tp'.sec = b /\ tp'.nsec = (now * Nanos) % (Micros * Nanos)
    BY <1>1, <1>2 DEF Clk!Timespec
  <2> QED
    BY <2>1, <2>2 DEF Scaled
<1>4. b > a \/ (b = a /\ s >= r)
  BY <1>2, UnitsAreNumbers, DivisionMonotone
<1>5. r \in Int /\ s \in Int
  BY <1>2, UnitsAreNumbers, Division
<1> HIDE DEF a, b, r, s
<1>6. s >= r => s * Nanos >= r * Nanos
  <2>1. r <= s => Nanos * r <= Nanos * s
    BY <1>5, UnitsAreNumbers, MulMonotone
  <2> QED
    BY <2>1, <1>5, UnitsAreNumbers
<1> QED
  BY <1>3, <1>4, <1>6

(* A sleep that ends has lasted what it was asked for, to the microsecond, *)
(* but for the words that were dropped.                                    *)
LEMMA SleepIsLong ==
  ASSUME ClockInv, Clk!Next \/ UNCHANGED clockVars, Clk!Asleep, sleep' = Clk!NoSleep
  PROVE  (ticks - sleep.since + Clk!Dropped + 1) * Nanos
           > sleep.sec * Micros * Nanos + sleep.nsec
<1>1. PICK r \in Requests, begun \in 0 .. ticks :
        sleep = [sec |-> r.sec, nsec |-> r.nsec, since |-> begun,
                 until |-> begun + Clk!Delay(r)]
  BY DEF ClockInv
<1>2. ticks >= sleep.until
  BY DEF Clk!Next, Clk!clock_gettime, Clk!nanosleep, Clk!NanosleepFaults, Clk!Wake,
         Clk!Tick, Clk!SetClock, Clk!Awake, Clk!Asleep, clockVars
<1> DEFINE n == r.nsec
           q == n \div Nanos
           p == n % Nanos
           m == r.sec * Micros
<1>3. /\ q \in Int /\ p \in 0 .. Nanos - 1 /\ n = Nanos * q + p /\ n \in Nat
      /\ m \in Nat /\ ticks \in Nat
  <2>1. q \in Int /\ p \in 0 .. Nanos - 1 /\ n = Nanos * q + p
    <3>1. n \in Int /\ Nanos \in Nat \ {0}
      BY DelayIsAWord, UnitsAreNumbers
    <3> HIDE DEF n
    <3> QED
      BY <3>1, Division
  <2>2. r.sec \in Nat /\ n \in Nat /\ ticks \in Nat
    BY DelayIsAWord DEF ClockInv, Clk!TypeOK
  <2>3. m \in Nat
    BY <2>2, UnitsAreNumbers
  <2> QED
    BY <2>1, <2>2, <2>3
<1> DEFINE k == (m + q) \div Word
<1>4. /\ sleep.since = begun /\ sleep.nsec = n /\ sleep.sec * Micros = m
      /\ sleep.until = begun + ((m + q) % Word)
      /\ Clk!Dropped = k * Word
  BY <1>1 DEF Clk!Delay, Clk!Dropped, Clk!Asked
<1> HIDE DEF q, p, m, n
<1>5. /\ k \in Int /\ (m + q) % Word \in 0 .. Word - 1
      /\ m + q = Word * k + ((m + q) % Word)
  <2>1. m + q \in Int
    BY <1>3
  <2> QED
    BY <2>1, UnitsAreNumbers, Division
<1> DEFINE rest == (m + q) % Word
<1> HIDE DEF k, rest
<1>6. k * Word = Word * k /\ Word * k \in Int /\ rest \in Int /\ m + q = Word * k + rest
      /\ sleep.until = begun + rest
  BY <1>4, <1>5, UnitsAreNumbers DEF rest
<1> DEFINE lasted == ticks - begun + k * Word + 1
<1>7. lasted \in Int /\ m + q + 1 <= lasted
  BY <1>1, <1>2, <1>3, <1>6
<1> HIDE DEF lasted
<1>8. Nanos * (m + q + 1) <= Nanos * lasted
  BY <1>3, <1>7, UnitsAreNumbers, MulMonotone
<1>9. Nanos * (m + q + 1) = m * Nanos + Nanos * q + Nanos
  BY <1>3, UnitsAreNumbers
<1>10. lasted * Nanos = Nanos * lasted
  BY <1>7, UnitsAreNumbers
<1>11. lasted * Nanos > m * Nanos + n
  <2>1. m * Nanos \in Int /\ Nanos * q \in Int /\ lasted * Nanos \in Int
    BY <1>3, <1>7, UnitsAreNumbers
  <2> QED
    BY <1>3, <1>8, <1>9, <1>10, <2>1, UnitsAreNumbers
<1>12. lasted = ticks - sleep.since + Clk!Dropped + 1
  BY <1>4 DEF lasted
<1> QED
  BY <1>4, <1>11, <1>12

(* For any units, requests and word: what clock_gettime answers is the     *)
(* reading; clock 0 never goes back, and clock 1 only when the owner of    *)
(* the console has set it back in between; and a sleep is short of what    *)
(* was asked for by less than a microsecond and the whole words of         *)
(* microseconds that nanosleep drops (imports.c:248-276).                  *)
THEOREM TimeTold == WaitsSpec => TimeIsTold
<1>1. WaitsInit => ClockInv
  BY ClockInit
<1>2. [WaitsNext]_allVars => [Clk!Next]_clockVars
  BY DEF WaitsNext, allVars, clockVars
<1>3. ClockInv /\ [Clk!Next]_clockVars => ClockInv'
  BY ClockStep
<1>4. ClockInv => Clk!TypeOK /\ Clk!AnswerIsTheReading
  BY DEF ClockInv
<1>5. ClockInv /\ [Clk!Next]_clockVars =>
        [ tp'.id = tp.id /\ tp.id \in {0, 1} /\ (tp.id = 1 => ~turned) =>
            \/ tp'.sec > tp.sec
            \/ tp'.sec = tp.sec /\ tp'.nsec >= tp.nsec ]_tp
  BY ClockGoesForward
<1>6. ClockInv /\ [Clk!Next]_clockVars =>
        [ Clk!Asleep /\ sleep' = Clk!NoSleep =>
              (ticks - sleep.since + Clk!Dropped + 1) * Nanos
                > sleep.sec * Micros * Nanos + sleep.nsec ]_clockVars
  BY SleepIsLong
<1> QED
  BY <1>1, <1>2, <1>3, <1>4, <1>5, <1>6, PTL
     DEF WaitsSpec, TimeIsTold, Clk!OnlyTheOwnerTurnsBack, Clk!SleepsLongEnough, Clk!vars, clockVars

-----------------------------------------------------------------------------
(* config.txt.                                                             *)

(* A set of line numbers that is not empty has a greatest.                 *)
LEMMA GreatestNumber ==
  ASSUME NEW n \in Nat, NEW K, K \subseteq 1 .. n, K # {}
  PROVE  \E k \in K : \A m \in K : m <= k
<1> DEFINE less == {p \in Nat \X Nat : p[1] < p[2]}
           Gaps == {n - k : k \in K}
<1>1. IsWellFoundedOn(less, Nat)
  <2>1. less = OpToRel(<, Nat)
    BY Zenon DEF OpToRel
  <2> QED
    BY <2>1, NatLessThanWellFounded
<1>2. Gaps \subseteq Nat /\ Gaps # {}
  <2>1. \A k \in K : n - k \in Nat
    OBVIOUS
  <2> QED
    BY <2>1
<1>3. PICK g \in Gaps : \A h \in Gaps : ~(<<h, g>> \in less)
  <2> HIDE DEF less, Gaps
  <2> QED
    BY <1>1, <1>2, WFMin, Zenon
<1>4. \A h \in Gaps : ~(h < g)
  <2>1. \A h \in Gaps : <<h, g>> \in Nat \X Nat
    BY <1>2
  <2> QED
    BY <1>3, <2>1
<1>5. PICK k \in K : g = n - k
  OBVIOUS
<1>6. ASSUME NEW m \in K PROVE m <= k
  <2>1. n - m \in Gaps
    OBVIOUS
  <2>2. ~(n - m < n - k)
    BY <1>4, <1>5, <2>1
  <2> QED
    BY <2>2
<1> QED
  BY <1>6

(* LastOf finds it.                                                        *)
LEMMA LastFound ==
  ASSUME NEW n \in Nat, NEW K, K \subseteq 1 .. n,
         NEW k \in K, \A m \in K : m <= k
  PROVE  Cfg!LastOf(K) = k
<1>1. /\ Cfg!LastOf(K) \in K
      /\ \A m \in K : m <= Cfg!LastOf(K)
  BY DEF Cfg!LastOf
<1> HIDE DEF Cfg!LastOf
<1>2. \A m \in K : m \in Int
  OBVIOUS
<1>3. Cfg!LastOf(K) \in Int /\ k \in Int
  BY <1>1, <1>2
<1>4. Cfg!LastOf(K) <= k /\ k <= Cfg!LastOf(K)
  BY <1>1, Zenon
<1> QED
  BY <1>3, <1>4

(* What the constants of config.txt are.                                   *)
LEMMA ConfigFacts ==
  /\ Order \in Seq(STRING) /\ Len(Order) \in Nat \ {0}
  /\ \A i1, i2 \in 1 .. Len(Order) : Order[i1] = Order[i2] => i1 = i2
  /\ \A i1 \in 1 .. Len(Order) : Order[i1] \in Cfg!Names
  /\ \A s \in Cfg!Names : \E i1 \in 1 .. Len(Order) : Order[i1] = s
  /\ Order[Len(Order)] = "mod_file"
  /\ "mod_file" \in Cfg!Names /\ "language" \in Cfg!Names
  /\ Default \in [Cfg!Names -> Values] /\ Default["mod_file"] = 0
  /\ Printed \in [Values -> Values]
  /\ \A v \in Values : Printed[Printed[v]] = Printed[v]
  /\ \A s \in Cfg!Names : Printed[Default[s]] = Default[s]
  /\ \A l \in Cfg!Languages : l \in Values /\ Printed[l] = l
  /\ 0 \in Values /\ 0 \in Cfg!Languages
  /\ NoFile \notin Seq(Cfg!Lines)
<1>1. Order \in Seq(STRING) /\ Order # <<>>
  BY ConfigConstants DEF Cfg!ConfigFileAssumption
<1>2. Len(Order) \in Nat \ {0} /\ DOMAIN Order = 1 .. Len(Order)
  BY <1>1
<1>3. /\ \A i1, i2 \in 1 .. Len(Order) : Order[i1] = Order[i2] => i1 = i2
      /\ Order[Len(Order)] = "mod_file"
  BY <1>2, ConfigConstants DEF Cfg!ConfigFileAssumption
<1>4. /\ \A i1 \in 1 .. Len(Order) : Order[i1] \in Cfg!Names
      /\ \A s \in Cfg!Names : \E i1 \in 1 .. Len(Order) : Order[i1] = s
  BY <1>2 DEF Cfg!Names
<1>5. "mod_file" \in Cfg!Names
  BY <1>2, <1>3, <1>4
<1>6. 0 \in Cfg!Languages
  BY ConfigConstants DEF Cfg!ConfigFileAssumption, Cfg!Languages
<1>7. /\ "language" \in Cfg!Names
      /\ Default \in [Cfg!Names -> Values] /\ Default["mod_file"] = 0
      /\ Printed \in [Values -> Values] /\ 0 \in Values
      /\ NoFile \notin Seq(Cfg!Lines)
  BY ConfigConstants DEF Cfg!ConfigFileAssumption
<1>8. /\ \A v \in Values : Printed[Printed[v]] = Printed[v]
      /\ \A s \in Cfg!Names : Printed[Default[s]] = Default[s]
      /\ \A l \in Cfg!Languages : l \in Values /\ Printed[l] = l
  BY ConfigConstants DEF Cfg!ConfigFileAssumption
<1> QED
  BY <1>1, <1>2, <1>3, <1>4, <1>5, <1>6, <1>7, <1>8, Zenon

(* A text is no missing file.                                              *)
Texts == Seq(Cfg!Lines)

(* The last line that names a setting counts, and a setting that no line   *)
(* names has its default.                                                  *)
LEMMA MeaningOfLast ==
  ASSUME NEW f \in Texts, NEW s \in Cfg!Names, NEW k \in 1 .. Len(f), f[k].name = s,
         \A m \in k + 1 .. Len(f) : f[m].name # s
  PROVE  Cfg!Meaning(f)[s] = f[k].value
<1>1. Len(f) \in Nat /\ f # NoFile
  BY ConfigFacts DEF Texts
<1>2. /\ Cfg!Naming(f, s) \subseteq 1 .. Len(f) /\ k \in Cfg!Naming(f, s)
      /\ \A m \in Cfg!Naming(f, s) : m <= k
  BY <1>1 DEF Cfg!Naming
<1>3. Cfg!LastOf(Cfg!Naming(f, s)) = k
  BY <1>1, <1>2, LastFound
<1> QED
  BY <1>1, <1>2, <1>3 DEF Cfg!Meaning

(* A setting that no line names has its default.                           *)
LEMMA MeaningOfNone ==
  ASSUME NEW f \in Texts, NEW s \in Cfg!Names, \A m \in 1 .. Len(f) : f[m].name # s
  PROVE  Cfg!Meaning(f)[s] = Default[s]
BY DEF Cfg!Meaning, Cfg!Naming

(* One of the two is so.                                                   *)
LEMMA NamedOrNot ==
  ASSUME NEW f \in Texts, NEW s \in Cfg!Names
  PROVE  \/ \A m \in 1 .. Len(f) : f[m].name # s
         \/ \E k \in 1 .. Len(f) :
              f[k].name = s /\ \A m \in k + 1 .. Len(f) : f[m].name # s
<1> DEFINE K == {k \in 1 .. Len(f) : f[k].name = s}
<1>1. Len(f) \in Nat
  BY DEF Texts
<1>2. CASE K # {}
  <2> HIDE DEF K
  <2>1. K \subseteq 1 .. Len(f)
    BY DEF K
  <2>2. PICK k \in K : \A m \in K : m <= k
    BY <1>1, <1>2, <2>1, GreatestNumber
  <2> QED
    BY <1>1, <2>1, <2>2 DEF K
<1>3. CASE K = {}
  BY <1>3
<1> QED
  BY <1>2, <1>3

(* What a text means is settings.                                          *)
LEMMA MeaningTypes ==
  /\ Cfg!Meaning(NoFile) = Default
  /\ \A f \in Texts : Cfg!Meaning(f) \in [Cfg!Names -> Values]
<1>1. Cfg!Meaning(NoFile) = Default
  BY ConfigFacts DEF Cfg!Meaning
<1>2. ASSUME NEW f \in Texts PROVE Cfg!Meaning(f) \in [Cfg!Names -> Values]
  <2>1. Cfg!Meaning(f) = [s \in Cfg!Names |-> Cfg!Meaning(f)[s]]
    BY DEF Cfg!Meaning
  <2>2. ASSUME NEW s \in Cfg!Names PROVE Cfg!Meaning(f)[s] \in Values
    <3>1. \A k \in 1 .. Len(f) : f[k].value \in Values
      <4>1. \A k \in 1 .. Len(f) : f[k] \in Cfg!Lines
        BY DEF Texts
      <4> QED
        BY <4>1 DEF Cfg!Lines
    <3>2. Default[s] \in Values
      BY ConfigFacts
    <3> QED
      BY <3>1, <3>2, NamedOrNot, MeaningOfLast, MeaningOfNone
  <2> HIDE DEF Cfg!Meaning
  <2> QED
    BY <2>1, <2>2
<1> QED
  BY <1>1, <1>2

(* One more line is what parse_var makes of it.                            *)
LEMMA MeaningOfParsed ==
  ASSUME NEW f \in Texts, NEW n \in 0 .. Len(f), n < Len(f)
  PROVE  Cfg!parse_var(Cfg!Meaning(SubSeq(f, 1, n)), f[n + 1])
           = Cfg!Meaning(SubSeq(f, 1, n + 1))
<1> DEFINE g == SubSeq(f, 1, n)
           h == SubSeq(f, 1, n + 1)
<1>1. /\ g \in Texts /\ Len(g) = n /\ \A k \in 1 .. n : g[k] = f[k]
      /\ h \in Texts /\ Len(h) = n + 1 /\ \A k \in 1 .. n + 1 : h[k] = f[k]
  BY DEF Texts
<1> HIDE DEF g, h
<1>2. ASSUME NEW s \in Cfg!Names
      PROVE  (IF s = f[n + 1].name THEN f[n + 1].value ELSE Cfg!Meaning(g)[s])
               = Cfg!Meaning(h)[s]
  <2>1. CASE f[n + 1].name = s
    <3>1. Cfg!Meaning(h)[s] = h[n + 1].value
      BY <1>1, <2>1, MeaningOfLast
    <3> QED
      BY <1>1, <2>1, <3>1
  <2>2. CASE f[n + 1].name # s
    <3>1. CASE \A m \in 1 .. Len(g) : g[m].name # s
      <4>1. \A m \in 1 .. Len(h) : h[m].name # s
        BY <1>1, <2>2, <3>1
      <4> QED
        BY <1>1, <2>2, <3>1, <4>1, MeaningOfNone
    <3>2. ASSUME NEW k \in 1 .. Len(g), g[k].name = s,
                 \A m \in k + 1 .. Len(g) : g[m].name # s
          PROVE  Cfg!Meaning(g)[s] = Cfg!Meaning(h)[s]
      <4>1. k \in 1 .. Len(h) /\ h[k].name = s /\ h[k] = g[k]
            /\ \A m \in k + 1 .. Len(h) : h[m].name # s
        BY <1>1, <2>2, <3>2
      <4>2. Cfg!Meaning(g)[s] = g[k].value
        BY <1>1, <3>2, MeaningOfLast
      <4>3. Cfg!Meaning(h)[s] = h[k].value
        BY <1>1, <4>1, MeaningOfLast
      <4> QED
        BY <4>1, <4>2, <4>3
    <3> QED
      BY <1>1, <2>2, <3>1, <3>2, NamedOrNot
  <2> QED
    BY <2>1, <2>2
<1>3. Cfg!Meaning(h) = [s \in Cfg!Names |-> Cfg!Meaning(h)[s]]
  BY DEF Cfg!Meaning
<1> QED
  BY <1>2, <1>3 DEF Cfg!parse_var, g, h

(* write_config writes one line for each setting, in their order, and none *)
(* for an empty mod_file.                                                  *)
AsPrinted(c) == [s \in Cfg!Names |-> Printed[c[s]]]

(* What a configuration is printed as: one line for each setting that is   *)
(* printed, in their order.                                                *)
LEMMA TextLines ==
  ASSUME NEW c \in [Cfg!Names -> Values]
  PROVE  /\ Cfg!Text(c) \in Texts
         /\ \/ Len(Cfg!Text(c)) = Len(Order)
            \/ Len(Cfg!Text(c)) = Len(Order) - 1 /\ c["mod_file"] = 0
         /\ \A k \in 1 .. Len(Cfg!Text(c)) :
              /\ Cfg!Text(c)[k].name = Order[k]
              /\ Cfg!Text(c)[k].value = AsPrinted(c)[Order[k]]
<1> DEFINE kept == Cfg!Kept(c)
           n == Len(kept)
<1>1. /\ n = Len(Order) \/ (n = Len(Order) - 1 /\ c["mod_file"] = 0)
      /\ n \in Nat /\ n <= Len(Order)
      /\ \A k \in 1 .. n : kept[k] = Order[k]
  <2>1. Order \in Seq(STRING) /\ Len(Order) \in Nat \ {0}
    BY ConfigFacts
  <2>2. ASSUME NEW m \in 0 .. Len(Order)
        PROVE  /\ Len(SubSeq(Order, 1, m)) = m
               /\ \A k \in 1 .. m : SubSeq(Order, 1, m)[k] = Order[k]
    BY <2>1
  <2>3. CASE c["mod_file"] = 0
    <3>1. kept = SubSeq(Order, 1, Len(Order) - 1)
      BY <2>3 DEF Cfg!Kept
    <3>2. Len(Order) - 1 \in 0 .. Len(Order)
      BY <2>1
    <3> HIDE DEF kept
    <3>3. Len(kept) = Len(Order) - 1 /\ \A k \in 1 .. Len(Order) - 1 : kept[k] = Order[k]
      BY <2>2, <3>1, <3>2
    <3> QED
      BY <2>1, <2>3, <3>3 DEF n
  <2>4. CASE c["mod_file"] # 0
    <3>1. kept = SubSeq(Order, 1, Len(Order))
      BY <2>1, <2>4 DEF Cfg!Kept
    <3> QED
      BY <2>1, <2>4, <3>1
  <2> QED
    BY <2>3, <2>4
<1> HIDE DEF kept, n
<1>2. ASSUME NEW k \in 1 .. n
      PROVE  /\ Order[k] \in Cfg!Names
             /\ Printed[c[Order[k]]] \in Values
             /\ AsPrinted(c)[Order[k]] = Printed[c[Order[k]]]
  <2>1. k \in 1 .. Len(Order)
    BY <1>1, ConfigFacts
  <2> QED
    BY <2>1, ConfigFacts DEF AsPrinted
<1>3. Cfg!Text(c) = [k \in 1 .. n |-> [name |-> kept[k], value |-> Printed[c[kept[k]]]]]
  BY DEF Cfg!Text, Cfg!Line, kept, n
<1>4. Len(Cfg!Text(c)) = n /\ Cfg!Text(c) \in Texts
  <2>1. \A k \in 1 .. n :
          [name |-> kept[k], value |-> Printed[c[kept[k]]]] \in Cfg!Lines
    BY <1>1, <1>2 DEF Cfg!Lines
  <2> HIDE DEF Cfg!Lines
  <2> QED
    BY <1>1, <1>3, <2>1 DEF Texts
<1>5. \A k \in 1 .. n : /\ Cfg!Text(c)[k].name = Order[k]
                        /\ Cfg!Text(c)[k].value = AsPrinted(c)[Order[k]]
  BY <1>1, <1>2, <1>3
<1> QED
  BY <1>1, <1>4, <1>5

(* A text with one line for each of the first settings gives them their    *)
(* values and leaves the others at their defaults.                         *)
LEMMA MeaningInOrder ==
  ASSUME NEW f \in Texts, Len(f) <= Len(Order),
         \A k \in 1 .. Len(f) : f[k].name = Order[k]
  PROVE  \A j \in 1 .. Len(Order) :
           Cfg!Meaning(f)[Order[j]] =
             IF j <= Len(f) THEN f[j].value ELSE Default[Order[j]]
<1>0. Len(f) \in Nat
  BY DEF Texts
<1> SUFFICES ASSUME NEW j \in 1 .. Len(Order)
             PROVE  Cfg!Meaning(f)[Order[j]] =
                      IF j <= Len(f) THEN f[j].value ELSE Default[Order[j]]
  OBVIOUS
<1>1. /\ Order[j] \in Cfg!Names /\ Len(Order) \in Nat
      /\ \A k \in 1 .. Len(f) : k # j => f[k].name # Order[j]
  BY <1>0, ConfigFacts
<1>2. CASE j <= Len(f)
  <2>1. j \in 1 .. Len(f) /\ f[j].name = Order[j]
    BY <1>0, <1>1, <1>2
  <2>2. \A m \in j + 1 .. Len(f) : f[m].name # Order[j]
    BY <1>0, <1>1, <1>2
  <2>3. Cfg!Meaning(f)[Order[j]] = f[j].value
    BY <1>1, <2>1, <2>2, MeaningOfLast
  <2> QED
    BY <1>2, <2>3
<1>3. CASE ~(j <= Len(f))
  <2>1. \A m \in 1 .. Len(f) : f[m].name # Order[j]
    BY <1>0, <1>1, <1>3
  <2>2. Cfg!Meaning(f)[Order[j]] = Default[Order[j]]
    BY <1>1, <2>1, MeaningOfNone
  <2> QED
    BY <1>3, <2>2
<1> QED
  BY <1>2, <1>3

(* What write_config wrote means what was to be stored.                    *)
LEMMA MeaningOfText ==
  ASSUME NEW c \in [Cfg!Names -> Values]
  PROVE  Cfg!Meaning(Cfg!Text(c)) = AsPrinted(c)
<1> DEFINE t == Cfg!Text(c)
<1>1. /\ t \in Texts
      /\ Len(t) = Len(Order) \/ (Len(t) = Len(Order) - 1 /\ c["mod_file"] = 0)
      /\ \A k \in 1 .. Len(t) : t[k].name = Order[k] /\ t[k].value = AsPrinted(c)[Order[k]]
  BY TextLines
<1> HIDE DEF t
<1>2. Len(t) \in Nat /\ Len(Order) \in Nat \ {0}
  BY <1>1, ConfigFacts DEF Texts
<1>3. \A j \in 1 .. Len(Order) :
        Cfg!Meaning(t)[Order[j]] = IF j <= Len(t) THEN t[j].value ELSE Default[Order[j]]
  <2>1. Len(t) <= Len(Order)
    BY <1>1, <1>2
  <2> QED
    BY <1>1, <2>1, MeaningInOrder
<1>4. ASSUME NEW j \in 1 .. Len(Order)
      PROVE  Cfg!Meaning(t)[Order[j]] = AsPrinted(c)[Order[j]]
  <2>1. CASE j <= Len(t)
    BY <1>1, <1>2, <1>3, <2>1
  <2>2. CASE ~(j <= Len(t))
    <3>1. j = Len(Order) /\ c["mod_file"] = 0
      BY <1>1, <1>2, <2>2
    <3>2. Order[j] = "mod_file" /\ Default[Order[j]] = 0
      BY <3>1, ConfigFacts
    <3>3. AsPrinted(c)[Order[j]] = Printed[0] /\ Printed[0] = 0
      BY <3>1, <3>2, ConfigFacts DEF AsPrinted
    <3> QED
      BY <1>3, <2>2, <3>2, <3>3
  <2> QED
    BY <2>1, <2>2
<1>5. \A s \in Cfg!Names : Cfg!Meaning(t)[s] = AsPrinted(c)[s]
  BY <1>4, ConfigFacts
<1>6. /\ Cfg!Meaning(t) = [s \in Cfg!Names |-> Cfg!Meaning(t)[s]]
      /\ AsPrinted(c) = [s \in Cfg!Names |-> AsPrinted(c)[s]]
  BY DEF Cfg!Meaning, AsPrinted
<1> QED
  BY <1>5, <1>6 DEF t

(* A start after a write that was cut short: up to some setting what was   *)
(* to be stored, after it the defaults.                                    *)
Damaged(c, w) ==
  \E k \in 0 .. Len(Order) : \A j \in 1 .. Len(Order) :
    \/ j < k /\ c[Order[j]] = w[Order[j]]
    \/ j > k /\ c[Order[j]] = Default[Order[j]]
    \/ j = k /\ c[Order[j]] \in {w[Order[j]]} \union Cfg!CutValue(w[Order[j]])

(* Whatever part of a text is on the card reads as a damaged configuration. *)
LEMMA BeginningsAreDamaged ==
  ASSUME NEW c \in [Cfg!Names -> Values], NEW f \in Cfg!Beginnings(Cfg!Text(c))
  PROVE  f \in Texts /\ Damaged(Cfg!Meaning(f), AsPrinted(c))
<1> DEFINE t == Cfg!Text(c)
<1>1. /\ t \in Texts
      /\ Len(t) = Len(Order) \/ Len(t) = Len(Order) - 1
      /\ \A k \in 1 .. Len(t) : t[k].name = Order[k] /\ t[k].value = AsPrinted(c)[Order[k]]
  BY TextLines
<1>2. \/ \E k \in 0 .. Len(t) : f = SubSeq(t, 1, k)
      \/ \E k \in 1 .. Len(t) : \E v \in Cfg!CutValue(t[k].value) :
           f = Append(SubSeq(t, 1, k - 1), Cfg!Line(t[k].name, v))
  BY DEF Cfg!Beginnings
<1> HIDE DEF t
<1>3. Len(t) \in Nat /\ Len(Order) \in Nat \ {0} /\ Len(t) <= Len(Order)
  BY <1>1, ConfigFacts DEF Texts
<1>4. ASSUME NEW k \in 0 .. Len(t), f = SubSeq(t, 1, k)
      PROVE  f \in Texts /\ Damaged(Cfg!Meaning(f), AsPrinted(c))
  <2>1. f \in Texts /\ Len(f) = k /\ \A j \in 1 .. k : f[j] = t[j]
    BY <1>1, <1>3, <1>4 DEF Texts
  <2>2. \A j \in 1 .. Len(Order) :
          Cfg!Meaning(f)[Order[j]] = IF j <= k THEN f[j].value ELSE Default[Order[j]]
    <3>1. Len(f) <= Len(Order) /\ \A j \in 1 .. Len(f) : f[j].name = Order[j]
      BY <1>1, <1>3, <2>1
    <3> QED
      BY <2>1, <3>1, MeaningInOrder
  <2>3. \A j \in 1 .. k : f[j].value = AsPrinted(c)[Order[j]]
    BY <1>1, <1>3, <2>1
  <2>4. k \in 0 .. Len(Order)
    BY <1>3
  <2>5. ASSUME NEW j \in 1 .. Len(Order)
        PROVE  \/ j <= k /\ Cfg!Meaning(f)[Order[j]] = AsPrinted(c)[Order[j]]
               \/ j > k /\ Cfg!Meaning(f)[Order[j]] = Default[Order[j]]
    BY <2>2, <2>3
  <2>6. ASSUME NEW j \in 1 .. Len(Order)
        PROVE  \/ j < k /\ Cfg!Meaning(f)[Order[j]] = AsPrinted(c)[Order[j]]
               \/ j > k /\ Cfg!Meaning(f)[Order[j]] = Default[Order[j]]
               \/ j = k /\ Cfg!Meaning(f)[Order[j]] = AsPrinted(c)[Order[j]]
    BY <2>5, <2>4
  <2> QED
    BY <2>1, <2>4, <2>6 DEF Damaged
<1>5. ASSUME NEW k \in 1 .. Len(t), NEW v \in Cfg!CutValue(t[k].value),
             f = Append(SubSeq(t, 1, k - 1), Cfg!Line(t[k].name, v))
      PROVE  f \in Texts /\ Damaged(Cfg!Meaning(f), AsPrinted(c))
  <2>1. Cfg!Line(t[k].name, v) = [name |-> Order[k], value |-> v]
    BY <1>1 DEF Cfg!Line
  <2>2. k \in 1 .. Len(Order) /\ Order[k] \in Cfg!Names /\ v \in Values
    BY <1>3, ConfigFacts DEF Cfg!CutValue
  <2>3. [name |-> Order[k], value |-> v] \in Cfg!Lines
    BY <2>2 DEF Cfg!Lines
  <2>4. /\ f \in Texts /\ Len(f) = k /\ \A j \in 1 .. k - 1 : f[j] = t[j]
        /\ f[k] = [name |-> Order[k], value |-> v]
    <3> DEFINE g == SubSeq(t, 1, k - 1)
    <3>1. g \in Texts /\ Len(g) = k - 1 /\ \A j \in 1 .. k - 1 : g[j] = t[j]
      BY <1>1, <1>3 DEF Texts
    <3>2. f = Append(g, [name |-> Order[k], value |-> v])
      BY <1>5, <2>1
    <3> HIDE DEF g
    <3> QED
      BY <2>3, <3>1, <3>2 DEF Texts
  <2>5. \A j \in 1 .. Len(Order) :
          Cfg!Meaning(f)[Order[j]] = IF j <= k THEN f[j].value ELSE Default[Order[j]]
    <3>1. Len(f) <= Len(Order)
      BY <2>2, <2>4
    <3>2. \A j \in 1 .. Len(f) : f[j].name = Order[j]
      BY <1>1, <1>3, <2>4
    <3> QED
      BY <2>4, <3>1, <3>2, MeaningInOrder
  <2>6. /\ \A j \in 1 .. k - 1 : f[j].value = AsPrinted(c)[Order[j]]
        /\ f[k].value \in Cfg!CutValue(AsPrinted(c)[Order[k]])
    BY <1>1, <1>3, <2>4
  <2>7. k \in 0 .. Len(Order)
    BY <1>3
  <2>8. ASSUME NEW j \in 1 .. Len(Order)
        PROVE  \/ j < k /\ Cfg!Meaning(f)[Order[j]] = AsPrinted(c)[Order[j]]
               \/ j > k /\ Cfg!Meaning(f)[Order[j]] = Default[Order[j]]
               \/ j = k /\ Cfg!Meaning(f)[Order[j]] \in Cfg!CutValue(AsPrinted(c)[Order[j]])
    BY <2>2, <2>5, <2>6
  <2> QED
    BY <2>4, <2>7, <2>8 DEF Damaged
<1> QED
  BY <1>2, <1>4, <1>5

(* The program's variables keep their types;                               *)
ConfigTypes ==
  /\ file = NoFile \/ file \in Texts
  /\ config \in [Cfg!Names -> Values]
  /\ configPc \in {"off", "reading", "unread", "spinning", "writing", "check", "game"}
  /\ line \in Nat
  /\ then \in {"off", "check", "game"}
  /\ before \in [Cfg!Names -> Values]
  /\ written \in [Cfg!Names -> Values]
  /\ origin \in {"user", "write", "cut"}

(* the settings in memory are what the lines read so far mean, or the      *)
(* defaults when there was nothing to read;                                *)
InMemory ==
  /\ configPc = "reading" =>
       /\ file \in Texts /\ line \in 1 .. Len(file) + 1
       /\ config = Cfg!Meaning(SubSeq(file, 1, line - 1))
  /\ configPc = "unread" => config = Default
  /\ configPc = "check" => config = Default \/ config = Cfg!Meaning(file)

(* and the file is what the last write has stored, or its beginning, once  *)
(* that is over and the user has not edited it.                            *)
OnCard ==
  /\ configPc = "writing" =>
       /\ written = AsPrinted(config) /\ origin = "cut" /\ then \in {"check", "game"}
       /\ then = "check" => config = Default
  /\ origin = "write" => file \in Texts /\ Cfg!Meaning(file) = written
  /\ origin = "cut" /\ configPc # "writing" =>
       file \in Texts /\ Damaged(Cfg!Meaning(file), written)

ConfigInv == ConfigTypes /\ InMemory /\ OnCard

(* What is to be stored is settings.                                       *)
LEMMA PrintedTypes ==
  ASSUME NEW c \in [Cfg!Names -> Values]
  PROVE  AsPrinted(c) \in [Cfg!Names -> Values]
BY ConfigFacts DEF AsPrinted

(* Reading nothing leaves the defaults, and reading all the meaning.       *)
LEMMA MeaningOfEnds ==
  /\ Cfg!Meaning(<<>>) = Default
  /\ \A f \in Texts : SubSeq(f, 1, 0) = <<>> /\ SubSeq(f, 1, Len(f)) = f
  /\ <<>> \in Texts
<1>1. <<>> \in Texts
  BY DEF Texts
<1>2. \A s \in Cfg!Names : Cfg!Meaning(<<>>)[s] = Default[s]
  BY <1>1, MeaningOfNone
<1>3. Cfg!Meaning(<<>>) = [s \in Cfg!Names |-> Cfg!Meaning(<<>>)[s]]
  BY DEF Cfg!Meaning
<1>4. Default = [s \in Cfg!Names |-> Default[s]]
  BY ConfigFacts
<1>5. \A f \in Texts : SubSeq(f, 1, 0) = <<>> /\ SubSeq(f, 1, Len(f)) = f
  BY SubSeqEmpty, SubSeqFull DEF Texts
<1> QED
  BY <1>1, <1>2, <1>3, <1>4, <1>5

(* The file is the user's, the program does not run.                       *)
LEMMA ConfigInit == Cfg!Init => ConfigInv
<1> SUFFICES ASSUME Cfg!Init PROVE ConfigInv
  OBVIOUS
<1>1. file = NoFile \/ file \in Texts
  BY ConfigConstants DEF Cfg!Init, Cfg!ConfigFileAssumption, Texts
<1>2. Default \in [Cfg!Names -> Values]
  BY ConfigFacts
<1> QED
  BY <1>1, <1>2 DEF Cfg!Init, ConfigInv, ConfigTypes, InMemory, OnCard

(* read_config.                                                            *)
LEMMA ReadStep ==
  ASSUME ConfigInv,
         Cfg!OpenToRead \/ Cfg!ParseLine \/ Cfg!EndOfFile \/ Player!ReadError
  PROVE  ConfigInv'
<1> USE DEF ConfigInv
<1>0. UNCHANGED <<file, then, before, written, origin>>
  BY DEF Cfg!OpenToRead, Cfg!ParseLine, Cfg!EndOfFile, Player!ReadError,
         Cfg!history, Player!history
<1>1. OnCard'
  <2>1. configPc # "writing" /\ configPc' # "writing"
    BY DEF Cfg!OpenToRead, Cfg!ParseLine, Cfg!EndOfFile, Player!ReadError
  <2> QED
    BY <1>0, <2>1 DEF OnCard
<1>2. CASE Cfg!OpenToRead
  <2>1. /\ config' = Default /\ line' = 1 /\ configPc' \in {"reading", "unread"}
        /\ configPc' = "reading" => file # NoFile
    BY <1>2 DEF Cfg!OpenToRead
  <2>2. configPc' = "reading" =>
          /\ file \in Texts /\ line' \in 1 .. Len(file) + 1
          /\ config' = Cfg!Meaning(SubSeq(file, 1, line' - 1))
    <3> SUFFICES ASSUME configPc' = "reading"
                 PROVE  /\ file \in Texts /\ line' \in 1 .. Len(file) + 1
                        /\ config' = Cfg!Meaning(SubSeq(file, 1, line' - 1))
      OBVIOUS
    <3>1. file \in Texts /\ Len(file) \in Nat
      BY <2>1 DEF ConfigTypes, Texts
    <3>2. SubSeq(file, 1, line' - 1) = <<>>
      BY <2>1, <3>1, MeaningOfEnds
    <3>3. line' \in 1 .. Len(file) + 1
      BY <2>1, <3>1
    <3>4. config' = Cfg!Meaning(SubSeq(file, 1, line' - 1))
      BY <2>1, <3>2, MeaningOfEnds, Zenon
    <3> QED
      BY <3>1, <3>3, <3>4
  <2>3. InMemory'
    BY <1>0, <2>1, <2>2 DEF InMemory
  <2>4. ConfigTypes'
    BY <1>0, <2>1, ConfigFacts DEF ConfigTypes
  <2> QED
    BY <1>1, <2>3, <2>4
<1>3. CASE Cfg!ParseLine
  <2>1. /\ configPc = "reading" /\ configPc' = "reading" /\ line <= Len(file)
        /\ config' = Cfg!parse_var(config, file[line]) /\ line' = line + 1
    BY <1>3 DEF Cfg!ParseLine
  <2>2. /\ file \in Texts /\ Len(file) \in Nat /\ line - 1 \in 0 .. Len(file)
        /\ line - 1 < Len(file) /\ line \in 1 .. Len(file)
        /\ config = Cfg!Meaning(SubSeq(file, 1, line - 1))
    BY <2>1 DEF InMemory, Texts
  <2>3. config' = Cfg!Meaning(SubSeq(file, 1, line' - 1))
    <3> DEFINE n == line - 1
    <3>1. n \in 0 .. Len(file) /\ n < Len(file) /\ line = n + 1 /\ line' - 1 = n + 1
      BY <2>1, <2>2
    <3>2. config' = Cfg!parse_var(Cfg!Meaning(SubSeq(file, 1, n)), file[n + 1])
      BY <2>1, <2>2, <3>1
    <3> HIDE DEF n
    <3> QED
      BY <2>2, <3>1, <3>2, MeaningOfParsed
  <2>4. SubSeq(file, 1, line' - 1) \in Texts
    BY <2>1, <2>2 DEF Texts
  <2>5. config' \in [Cfg!Names -> Values]
    BY <2>3, <2>4, MeaningTypes
  <2> QED
    BY <1>0, <1>1, <2>1, <2>2, <2>3, <2>5 DEF InMemory, ConfigTypes
<1>4. CASE Cfg!EndOfFile
  <2>1. /\ configPc = "reading" /\ configPc' = "check" /\ line > Len(file)
        /\ UNCHANGED <<config, line>>
    BY <1>4 DEF Cfg!EndOfFile
  <2>2. file \in Texts /\ Len(file) \in Nat /\ line \in 1 .. Len(file) + 1
        /\ config = Cfg!Meaning(SubSeq(file, 1, line - 1))
    BY <2>1 DEF InMemory, Texts
  <2>3. line - 1 = Len(file)
    BY <2>1, <2>2
  <2>4. config = Cfg!Meaning(file)
    BY <2>2, <2>3, MeaningOfEnds
  <2> QED
    BY <1>0, <1>1, <2>1, <2>4 DEF InMemory, ConfigTypes
<1>5. CASE Player!ReadError
  <2>1. configPc' = "spinning" /\ UNCHANGED <<config, line>>
    BY <1>5 DEF Player!ReadError
  <2> QED
    BY <1>0, <1>1, <2>1 DEF InMemory, ConfigTypes
<1> QED
  BY <1>2, <1>3, <1>4, <1>5

(* write_config: it begins, and what arrives.                              *)
LEMMA StartStep ==
  ASSUME ConfigInv, NEW c \in [Cfg!Names -> Values], NEW at \in {"check", "game"},
         Cfg!StartWriting(c, at), config' = c, line' = line,
         at = "check" => c = Default
  PROVE  ConfigInv'
<1>1. /\ file' = <<>> /\ before' = Cfg!Meaning(file) /\ written' = AsPrinted(c)
      /\ origin' = "cut" /\ then' = at /\ configPc' = "writing"
  BY DEF Cfg!StartWriting, AsPrinted
<1>2. Cfg!Meaning(file) \in [Cfg!Names -> Values]
  BY MeaningTypes, ConfigFacts DEF ConfigInv, ConfigTypes
<1>3. AsPrinted(c) \in [Cfg!Names -> Values] /\ file' \in Texts
  BY <1>1, PrintedTypes, MeaningOfEnds
<1>4. AsPrinted(config)' = AsPrinted(c)
  BY DEF AsPrinted
<1>5. ConfigTypes'
  BY <1>1, <1>2, <1>3 DEF ConfigInv, ConfigTypes
<1>6. OnCard'
  BY <1>1, <1>3, <1>4 DEF OnCard
<1>7. InMemory'
  BY <1>1 DEF InMemory
<1> QED
  BY <1>5, <1>6, <1>7 DEF ConfigInv

(* The text is whole on the card.                                          *)
LEMMA CloseStep == ASSUME ConfigInv, Cfg!Close PROVE ConfigInv'
<1>1. /\ configPc = "writing" /\ configPc' = then
      /\ UNCHANGED <<config, line, then, before, written>>
  BY DEF Cfg!Close
<1>2. /\ written = AsPrinted(config) /\ then \in {"check", "game"} /\ origin = "cut"
      /\ then = "check" => config = Default
      /\ config \in [Cfg!Names -> Values]
  BY <1>1 DEF ConfigInv, OnCard, ConfigTypes
<1>3. \/ /\ origin' = "write" /\ file' \in Texts /\ Cfg!Meaning(file') = written
      \/ /\ origin' = "cut" /\ file' \in Texts /\ Damaged(Cfg!Meaning(file'), written)
  <2>1. CASE file' = Cfg!Text(config) /\ origin' = "write"
    BY <1>2, <2>1, TextLines, MeaningOfText
  <2>2. CASE file' \in Cfg!Beginnings(Cfg!Text(config)) /\ UNCHANGED origin
    BY <1>2, <2>2, BeginningsAreDamaged
  <2> QED
    BY <2>1, <2>2 DEF Cfg!Close
<1>4. OnCard'
  BY <1>1, <1>2, <1>3 DEF OnCard, Damaged
<1>5. InMemory'
  BY <1>1, <1>2 DEF InMemory
<1>6. ConfigTypes'
  BY <1>1, <1>2, <1>3 DEF ConfigInv, ConfigTypes
<1> QED
  BY <1>4, <1>5, <1>6 DEF ConfigInv

(* The process is gone; what of a write had arrived stays.                 *)
LEMMA ExitKeeps ==
  ASSUME ConfigInv, Cfg!Exit, UNCHANGED <<file, before, written, origin>>,
         configPc # "writing"
  PROVE  ConfigInv'
BY ConfigFacts DEF ConfigInv, Cfg!Exit, ConfigTypes, InMemory, OnCard

(* A program that stops while it writes leaves a part of the text.         *)
LEMMA StopStep == ASSUME ConfigInv, Cfg!Stop PROVE ConfigInv'
<1>1. /\ Cfg!Exit /\ UNCHANGED <<before, written, origin>>
      /\ IF configPc = "writing" THEN file' \in Cfg!Beginnings(Cfg!Text(config))
         ELSE UNCHANGED file
  BY DEF Cfg!Stop, Cfg!history
<1>2. CASE configPc = "writing"
  <2>1. /\ written = AsPrinted(config) /\ origin = "cut"
        /\ config \in [Cfg!Names -> Values]
    BY <1>2 DEF ConfigInv, OnCard, ConfigTypes
  <2>2. file' \in Texts /\ Damaged(Cfg!Meaning(file'), written)
    BY <1>1, <1>2, <2>1, BeginningsAreDamaged
  <2>3. configPc' = "off" /\ config' = Default /\ line' = 1 /\ then' = "off"
    BY <1>1 DEF Cfg!Exit
  <2>4. OnCard'
    BY <1>1, <2>1, <2>2, <2>3 DEF OnCard, Damaged
  <2>5. InMemory'
    BY <2>3 DEF InMemory
  <2>6. ConfigTypes'
    BY <1>1, <2>2, <2>3, ConfigFacts DEF ConfigInv, ConfigTypes
  <2> QED
    BY <2>4, <2>5, <2>6 DEF ConfigInv
<1>3. CASE configPc # "writing"
  BY <1>1, <1>3, ExitKeeps
<1> QED
  BY <1>2, <1>3

(* Every step of the program, or of the user, keeps ConfigInv.             *)
LEMMA ConfigStep ==
  ASSUME ConfigInv, Cfg!Next \/ Player!ReadError \/ UNCHANGED configVars
  PROVE  ConfigInv'
<1>1. CASE Cfg!OpenToRead \/ Cfg!ParseLine \/ Cfg!EndOfFile \/ Player!ReadError
  BY <1>1, ReadStep
<1>2. CASE Cfg!CreateFile
  <2>1. /\ Cfg!StartWriting(config, "check") /\ config' = config /\ line' = line
        /\ config = Default /\ config \in [Cfg!Names -> Values]
    BY <1>2 DEF Cfg!CreateFile, ConfigInv, InMemory, ConfigTypes
  <2> QED
    BY <2>1, StartStep
<1>3. CASE Cfg!CannotCreate
  <2>1. /\ configPc = "unread" /\ configPc' = "check"
        /\ UNCHANGED <<file, config, line, then, before, written, origin>>
    BY <1>3 DEF Cfg!CannotCreate, Cfg!history
  <2> QED
    BY <2>1 DEF ConfigInv, ConfigTypes, InMemory, OnCard
<1>4. CASE Cfg!Close
  BY <1>4, CloseStep
<1>5. CASE Cfg!CheckData
  <2>1. configPc = "check" /\ UNCHANGED <<file, before, written, origin>>
    BY <1>5 DEF Cfg!CheckData, Cfg!history
  <2>2. CASE Cfg!Exit
    BY <2>1, <2>2, ExitKeeps
  <2>3. CASE configPc' = "game" /\ UNCHANGED <<config, line, then>>
    BY <2>1, <2>3 DEF ConfigInv, ConfigTypes, InMemory, OnCard
  <2> QED
    BY <1>5, <2>2, <2>3 DEF Cfg!CheckData
<1>6. CASE Cfg!GetAndroidCurrentLanguage
  <2>1. /\ configPc = "game"
        /\ UNCHANGED <<file, configPc, line, then, before, written, origin>>
        /\ config' = [config EXCEPT !["language"] =
                        IF config["language"] \in Cfg!Languages THEN config["language"] ELSE 0]
    BY <1>6 DEF Cfg!GetAndroidCurrentLanguage, Cfg!history
  <2>2. config' \in [Cfg!Names -> Values]
    BY <2>1, ConfigFacts DEF ConfigInv, ConfigTypes
  <2> QED
    BY <2>1, <2>2 DEF ConfigInv, ConfigTypes, InMemory, OnCard
<1>7. ASSUME NEW l \in Cfg!Languages, Cfg!SetAndroidCurrentLanguage(l)
      PROVE  ConfigInv'
  <2>1. /\ configPc = "game" /\ line' = line
        /\ config' = [config EXCEPT !["language"] = l]
        /\ \/ Cfg!StartWriting(config', "game")
           \/ UNCHANGED <<file, configPc, then, before, written, origin>>
    BY <1>7 DEF Cfg!SetAndroidCurrentLanguage, Cfg!history
  <2>2. config' \in [Cfg!Names -> Values]
    BY <2>1, ConfigFacts DEF ConfigInv, ConfigTypes
  <2>3. CASE Cfg!StartWriting(config', "game")
    <3> DEFINE c == config'
    <3>1. /\ c \in [Cfg!Names -> Values] /\ Cfg!StartWriting(c, "game")
          /\ config' = c /\ line' = line
      BY <2>1, <2>2, <2>3
    <3> HIDE DEF c
    <3> QED
      BY <3>1, StartStep
  <2>4. CASE UNCHANGED <<file, configPc, then, before, written, origin>>
    BY <2>1, <2>2, <2>4 DEF ConfigInv, ConfigTypes, InMemory, OnCard
  <2> QED
    BY <2>1, <2>3, <2>4
<1>8. CASE Cfg!Stop
  BY <1>8, StopStep
<1>9. CASE Cfg!EditFile
  <2>1. /\ configPc = "off" /\ file' \in Files /\ origin' = "user"
        /\ written' = Cfg!Meaning(file')
        /\ UNCHANGED <<config, configPc, line, then, before>>
    BY <1>9 DEF Cfg!EditFile
  <2>2. file' \in Texts
    BY <2>1, ConfigConstants DEF Cfg!ConfigFileAssumption, Texts
  <2>3. written' \in [Cfg!Names -> Values]
    BY <2>1, <2>2, MeaningTypes
  <2> QED
    BY <2>1, <2>2, <2>3 DEF ConfigInv, ConfigTypes, InMemory, OnCard
<1>10. CASE UNCHANGED configVars
  <2>1. UNCHANGED <<file, config, configPc, line, then, before, written, origin>>
    BY <1>10 DEF configVars
  <2> QED
    BY <2>1 DEF ConfigInv, ConfigTypes, InMemory, OnCard, AsPrinted, Damaged
<1>11. ~Cfg!ReadError
  BY DEF Cfg!ReadError
<1> QED
  BY <1>1, <1>2, <1>3, <1>4, <1>5, <1>6, <1>7, <1>8, <1>9, <1>10, <1>11
     DEF Cfg!Next

(* Without edits, cut writes and failing fopen the program does a part of  *)
(* what it does with them, except that fgets may fail.                     *)
LEMMA PlayerMeans ==
  /\ \A f : Player!Meaning(f) = Cfg!Meaning(f)
  /\ \A c : Player!Text(c) = Cfg!Text(c)
  /\ Player!Names = Cfg!Names /\ Player!Languages = Cfg!Languages
<1>1. Player!Names = Cfg!Names /\ Player!Languages = Cfg!Languages
  BY DEF Player!Names, Cfg!Names, Player!Languages, Cfg!Languages
<1>2. ASSUME NEW f PROVE Player!Meaning(f) = Cfg!Meaning(f)
  BY DEF Player!Meaning, Cfg!Meaning, Player!Naming, Cfg!Naming, Player!LastOf,
         Cfg!LastOf, Player!Names, Cfg!Names
<1>3. ASSUME NEW c PROVE Player!Text(c) = Cfg!Text(c)
  BY DEF Player!Text, Cfg!Text, Player!Kept, Cfg!Kept, Player!Line, Cfg!Line
<1> QED
  BY <1>1, <1>2, <1>3

(* A step of the player's instance is one of the whole configuration.      *)
LEMMA PlayerSteps == Player!Next => Cfg!Next \/ Player!ReadError
<1> USE PlayerMeans
<1>1. \A c, at : Player!StartWriting(c, at) => Cfg!StartWriting(c, at)
  BY DEF Player!StartWriting, Cfg!StartWriting
<1>2. Player!OpenToRead => Cfg!OpenToRead
  BY DEF Player!OpenToRead, Cfg!OpenToRead, Player!history, Cfg!history
<1>3. Player!ParseLine => Cfg!ParseLine
  BY DEF Player!ParseLine, Cfg!ParseLine, Player!parse_var, Cfg!parse_var,
         Player!history, Cfg!history
<1>4. Player!EndOfFile => Cfg!EndOfFile
  BY DEF Player!EndOfFile, Cfg!EndOfFile, Player!history, Cfg!history
<1>5. Player!CreateFile => Cfg!CreateFile
  BY <1>1 DEF Player!CreateFile, Cfg!CreateFile
<1>6. ~Player!CannotCreate /\ ~Player!EditFile
  BY DEF Player!CannotCreate, Player!EditFile
<1>7. Player!Close => Cfg!Close
  BY DEF Player!Close, Cfg!Close
<1>8. Player!CheckData => Cfg!CheckData
  BY DEF Player!CheckData, Cfg!CheckData, Player!Exit, Cfg!Exit, Player!history,
         Cfg!history
<1>9. Player!GetAndroidCurrentLanguage => Cfg!GetAndroidCurrentLanguage
  BY DEF Player!GetAndroidCurrentLanguage, Cfg!GetAndroidCurrentLanguage,
         Player!history, Cfg!history
<1>10. \A l \in Cfg!Languages :
         Player!SetAndroidCurrentLanguage(l) => Cfg!SetAndroidCurrentLanguage(l)
  BY <1>1 DEF Player!SetAndroidCurrentLanguage, Cfg!SetAndroidCurrentLanguage
<1>11. Player!Stop => Cfg!Stop
  BY DEF Player!Stop, Cfg!Stop, Player!Exit, Cfg!Exit, Player!history, Cfg!history
<1> QED
  BY <1>2, <1>3, <1>4, <1>5, <1>6, <1>7, <1>8, <1>9, <1>10, <1>11
     DEF Player!Next, Cfg!Next

(* ConfigInv says what SettingsLast promises.                              *)
LEMMA ConfigInvImplies == ConfigInv => SettingsLast
<1> SUFFICES ASSUME ConfigInv PROVE SettingsLast
  OBVIOUS
<1>1. Cfg!TypeOK
  <2>1. ASSUME file \in Texts PROVE \A k \in 1 .. Len(file) : file[k] \in Cfg!Lines
    BY <2>1 DEF Texts
  <2> QED
    BY <2>1 DEF ConfigInv, ConfigTypes, Cfg!TypeOK
<1>2. Cfg!ReadsLastLine
  BY DEF ConfigInv, InMemory, Cfg!ReadsLastLine
<1>3. Cfg!SavedIsRead
  <2> SUFFICES ASSUME configPc = "reading", line > Len(file), origin = "write"
               PROVE  config = written
    BY DEF Cfg!SavedIsRead
  <2>1. /\ file \in Texts /\ Len(file) \in Nat /\ line \in 1 .. Len(file) + 1
        /\ config = Cfg!Meaning(SubSeq(file, 1, line - 1))
    BY DEF ConfigInv, InMemory, Texts
  <2>2. line - 1 = Len(file)
    BY <2>1
  <2>3. config = Cfg!Meaning(file)
    BY <2>1, <2>2, MeaningOfEnds
  <2> QED
    BY <2>3 DEF ConfigInv, OnCard
<1>4. Cfg!DamageIsATail
  <2> SUFFICES ASSUME configPc = "check", origin = "cut"
               PROVE  Damaged(config, written)
    BY DEF Cfg!DamageIsATail, Damaged
  <2>1. CASE config = Default
    <3>1. Len(Order) \in Nat
      BY ConfigFacts
    <3>2. \A j \in 1 .. Len(Order) : j > 0
      BY <3>1
    <3> QED
      BY <2>1, <3>1, <3>2 DEF Damaged
  <2>2. CASE config = Cfg!Meaning(file)
    BY <2>2 DEF ConfigInv, OnCard
  <2> QED
    BY <2>1, <2>2 DEF ConfigInv, InMemory
<1> QED
  BY <1>1, <1>2, <1>3, <1>4 DEF SettingsLast

(* ConfigInv holds in all parts of Waits.                                  *)
LEMMA ConfigInvHolds == WaitsSpec => []ConfigInv
<1>1. WaitsInit => ConfigInv
  BY ConfigInit DEF WaitsInit
<1>2. ConfigInv /\ [WaitsNext]_allVars => ConfigInv'
  <2> SUFFICES ASSUME ConfigInv, [WaitsNext]_allVars PROVE ConfigInv'
    OBVIOUS
  <2>1. Cfg!Next \/ Player!Next \/ UNCHANGED configVars
    BY DEF WaitsNext, allVars
  <2> QED
    BY <2>1, PlayerSteps, ConfigStep
<1> QED
  BY <1>1, <1>2, PTL DEF WaitsSpec

(* For any settings, texts of the user, values and digits printed, through *)
(* edits, power losses in the middle of a write and files that cannot be   *)
(* opened: of several lines for a setting the last counts, what was saved  *)
(* is read, and a write that was cut short damages a tail of the settings  *)
(* only (config.c:33-108).                                                 *)
THEOREM SettingsAreKept == WaitsSpec => []SettingsLast
BY ConfigInvHolds, ConfigInvImplies, PTL

(* Where nothing goes wrong but a read: what the program has in memory     *)
(* would print as what is in the file, except for the language.            *)
SamePrinted(c, d) ==
  \A s \in Cfg!Names \ {"language"} : Printed[c[s]] = Printed[d[s]]

PlayInv ==
  part = "player" =>
    /\ configPc = "unread" => file = NoFile
    /\ configPc \in {"check", "game"} => SamePrinted(config, Cfg!Meaning(file))
    /\ configPc = "writing" /\ then = "check" => before = Default
    /\ configPc = "writing" /\ then = "game" =>
         config["language"] \in Cfg!Languages /\ SamePrinted(config, before)

(* The defaults print as themselves, and what was printed prints the same. *)
LEMMA PrintedTwice ==
  /\ AsPrinted(Default) = Default
  /\ \A c \in [Cfg!Names -> Values] : SamePrinted(c, AsPrinted(c))
<1>1. AsPrinted(Default) = [s \in Cfg!Names |-> Default[s]]
  BY ConfigFacts DEF AsPrinted
<1>2. Default = [s \in Cfg!Names |-> Default[s]]
  BY ConfigFacts
<1>3. ASSUME NEW c \in [Cfg!Names -> Values] PROVE SamePrinted(c, AsPrinted(c))
  <2>1. \A s \in Cfg!Names : c[s] \in Values /\ AsPrinted(c)[s] = Printed[c[s]]
    BY DEF AsPrinted
  <2> QED
    BY <2>1, ConfigFacts DEF SamePrinted
<1> QED
  BY <1>1, <1>2, <1>3

(* A write of the player's program is complete.                            *)
LEMMA PlayerCloses ==
  ASSUME ConfigInv, Player!Close
  PROVE  /\ configPc = "writing" /\ configPc' = then /\ then \in {"check", "game"}
         /\ then = "check" => config = Default
         /\ UNCHANGED <<config, line, then, before, written>>
         /\ config \in [Cfg!Names -> Values]
         /\ Cfg!Meaning(file') = AsPrinted(config)
<1>1. /\ configPc = "writing" /\ configPc' = then /\ file' = Cfg!Text(config)
      /\ UNCHANGED <<config, line, then, before, written>>
  BY PlayerMeans DEF Player!Close
<1>2. /\ config \in [Cfg!Names -> Values] /\ then \in {"check", "game"}
      /\ then = "check" => config = Default
  BY <1>1 DEF ConfigInv, ConfigTypes, OnCard
<1> QED
  BY <1>1, <1>2, MeaningOfText

(* PlayInv is kept.                                                        *)
LEMMA PlayerStep ==
  ASSUME ConfigInv, PlayInv, part = "player", part' = part, Player!Next
  PROVE  PlayInv'
<1> USE PlayerMeans
<1>1. CASE Player!OpenToRead
  BY <1>1 DEF Player!OpenToRead, PlayInv, Player!history
<1>2. CASE Player!ParseLine \/ Player!ReadError
  BY <1>2 DEF Player!ParseLine, Player!ReadError, PlayInv, Player!history
<1>3. CASE Player!EndOfFile
  <2>1. /\ configPc = "reading" /\ configPc' = "check" /\ line > Len(file)
        /\ UNCHANGED <<file, config, then, before>>
    BY <1>3 DEF Player!EndOfFile, Player!history
  <2>2. /\ file \in Texts /\ Len(file) \in Nat /\ line \in 1 .. Len(file) + 1
        /\ config = Cfg!Meaning(SubSeq(file, 1, line - 1))
    BY <2>1 DEF ConfigInv, InMemory, Texts
  <2>3. line - 1 = Len(file)
    BY <2>1, <2>2
  <2>4. config = Cfg!Meaning(file)
    BY <2>2, <2>3, MeaningOfEnds
  <2> QED
    BY <2>1, <2>4 DEF PlayInv, SamePrinted
<1>4. CASE Player!CreateFile
  <2>1. /\ configPc = "unread" /\ configPc' = "writing" /\ then' = "check"
        /\ before' = Cfg!Meaning(file)
    BY <1>4 DEF Player!CreateFile, Player!StartWriting
  <2>2. file = NoFile
    BY <2>1 DEF PlayInv
  <2>3. before' = Default
    BY <2>1, <2>2, MeaningTypes
  <2> QED
    BY <2>1, <2>3 DEF PlayInv
<1>5. CASE Player!Close
  <2>1. SamePrinted(config, Cfg!Meaning(file'))
    BY <1>5, PlayerCloses, PrintedTwice
  <2>2. SamePrinted(config, Cfg!Meaning(file))'
    BY <1>5, <2>1, PlayerCloses DEF SamePrinted
  <2> QED
    BY <1>5, <2>2, PlayerCloses DEF PlayInv
<1>6. CASE Player!CheckData
  <2>1. /\ configPc = "check" /\ file' = file
        /\ \/ configPc' = "game" /\ config' = config
           \/ configPc' = "off"
    BY <1>6 DEF Player!CheckData, Player!Exit
  <2> QED
    BY <2>1 DEF PlayInv, SamePrinted
<1>7. CASE Player!GetAndroidCurrentLanguage
  <2>1. /\ configPc = "game" /\ UNCHANGED <<file, configPc>>
        /\ config' = [config EXCEPT !["language"] =
                        IF config["language"] \in Player!Languages
                        THEN config["language"] ELSE 0]
    BY <1>7 DEF Player!GetAndroidCurrentLanguage
  <2>2. \A s \in Cfg!Names \ {"language"} : config'[s] = config[s]
    BY <2>1 DEF ConfigInv, ConfigTypes
  <2> QED
    BY <2>1, <2>2 DEF PlayInv, SamePrinted
<1>8. ASSUME NEW l \in Cfg!Languages, Player!SetAndroidCurrentLanguage(l)
      PROVE  PlayInv'
  <2>1. /\ configPc = "game" /\ configPc' = "writing" /\ then' = "game"
        /\ config' = [config EXCEPT !["language"] = l]
        /\ before' = Cfg!Meaning(file)
    BY <1>8 DEF Player!SetAndroidCurrentLanguage, Player!StartWriting
  <2>2. /\ config'["language"] = l
        /\ \A s \in Cfg!Names \ {"language"} : config'[s] = config[s]
    BY <2>1, ConfigFacts DEF ConfigInv, ConfigTypes
  <2> QED
    BY <2>1, <2>2 DEF PlayInv, SamePrinted
<1>9. CASE Player!Stop
  BY <1>9 DEF Player!Stop, Player!Exit, PlayInv
<1>10. ~Player!CannotCreate /\ ~Player!EditFile
  BY DEF Player!CannotCreate, Player!EditFile
<1> QED
  BY <1>1, <1>2, <1>3, <1>4, <1>5, <1>6, <1>7, <1>8, <1>9, <1>10 DEF Player!Next

(* What the next start will use changes only when a write for another      *)
(* language is over.                                                       *)
LEMMA StoredChanges ==
  ASSUME ConfigInv, PlayInv, part = "player", Player!Next
  PROVE  Player!Stored' = Player!Stored \/ Player!ChangesLanguage
<1> USE PlayerMeans
<1>1. CASE \/ Player!OpenToRead \/ Player!ParseLine \/ Player!EndOfFile
           \/ Player!ReadError \/ Player!CheckData \/ Player!GetAndroidCurrentLanguage
           \/ Player!Stop
  <2>1. configPc # "writing" /\ configPc' # "writing" /\ file' = file
    BY <1>1 DEF Player!OpenToRead, Player!ParseLine, Player!EndOfFile,
                Player!ReadError, Player!CheckData, Player!GetAndroidCurrentLanguage,
                Player!Stop, Player!Exit
  <2> QED
    BY <2>1 DEF Player!Stored
<1>2. CASE Player!CreateFile \/ \E l \in Player!Languages : Player!SetAndroidCurrentLanguage(l)
  <2>1. /\ configPc # "writing" /\ configPc' = "writing"
        /\ before' = Player!Meaning(file)
    BY <1>2 DEF Player!CreateFile, Player!SetAndroidCurrentLanguage,
                Player!StartWriting
  <2> QED
    BY <2>1 DEF Player!Stored
<1>3. CASE Player!Close
  <2>1. Player!Stored = before /\ Player!Stored' = AsPrinted(config)
    BY <1>3, PlayerCloses DEF Player!Stored
  <2>2. CASE then = "check"
    BY <1>3, <2>1, <2>2, PlayerCloses, PrintedTwice DEF PlayInv
  <2>3. CASE then = "game"
    <3> DEFINE l == config["language"]
    <3>1. l \in Cfg!Languages /\ Printed[l] = l /\ SamePrinted(config, before)
      BY <1>3, <2>3, PlayerCloses, ConfigFacts DEF PlayInv
    <3>2. AsPrinted(config) =
            [s \in Cfg!Names |-> IF s = "language" THEN l ELSE Printed[before[s]]]
      BY <3>1 DEF AsPrinted, SamePrinted
    <3> HIDE DEF l
    <3>3. Player!Player!ChangeLanguage(l)
      BY <2>1, <3>2 DEF Player!Player!ChangeLanguage
    <3> QED
      BY <3>1, <3>3 DEF Player!ChangesLanguage
  <2> QED
    BY <1>3, <2>2, <2>3, PlayerCloses
<1>4. ~Player!CannotCreate /\ ~Player!EditFile
  BY DEF Player!CannotCreate, Player!EditFile
<1> QED
  BY <1>1, <1>2, <1>3, <1>4 DEF Player!Next

(* For any settings and texts of the user, when writes are complete and    *)
(* files open: the settings of the next start change only by the language  *)
(* hook, which truncates the file and writes back all of them, and then in *)
(* the language and in what printing loses (config.c:92-108).              *)
THEOREM SettingsRefined == WaitsSpec => KeepsSettings
<1>1. WaitsInit => PlayInv
  BY DEF WaitsInit, Cfg!Init, PlayInv
<1>2. ConfigInv /\ PlayInv /\ [WaitsNext]_allVars => PlayInv'
  <2> SUFFICES ASSUME ConfigInv, PlayInv, [WaitsNext]_allVars PROVE PlayInv'
    OBVIOUS
  <2>1. part' = part /\ (part = "player" => Player!Next \/ UNCHANGED configVars)
    BY DEF WaitsNext, allVars
  <2>2. CASE part = "player" /\ Player!Next
    BY <2>1, <2>2, PlayerStep
  <2>3. CASE UNCHANGED configVars
    BY <2>1, <2>3 DEF configVars, PlayInv, SamePrinted
  <2>4. CASE part # "player"
    BY <2>1, <2>4 DEF PlayInv
  <2> QED
    BY <2>1, <2>2, <2>3, <2>4
<1>3. ConfigInv /\ PlayInv /\ [WaitsNext]_allVars =>
        [part = "player" => Player!ChangesLanguage]_(Player!Stored)
  <2> SUFFICES ASSUME ConfigInv, PlayInv, [WaitsNext]_allVars, part = "player"
               PROVE  Player!Stored' = Player!Stored \/ Player!ChangesLanguage
    OBVIOUS
  <2>1. Player!Next \/ UNCHANGED configVars
    BY DEF WaitsNext, allVars
  <2>2. CASE UNCHANGED configVars
    BY <2>2 DEF configVars, Player!Stored
  <2> QED
    BY <2>1, <2>2, StoredChanges
<1> QED
  BY <1>1, <1>2, <1>3, ConfigInvHolds, PTL DEF WaitsSpec, KeepsSettings
=============================================================================
