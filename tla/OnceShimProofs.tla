--------------------------- MODULE OnceShimProofs ---------------------------
(***************************************************************************)
(* Proofs about pthread_once_fake, for any number of threads and control   *)
(* words and calls nested to any depth.  OnceInv ties the word to what was *)
(* done with it: it is 1 exactly when the routine was started, whoever     *)
(* has started it is running it or has finished it, and it is 1 for every  *)
(* call past the test.                                                     *)
(***************************************************************************)
EXTENDS OnceShim, TLAPS

Frames == [control : Controls, at : {"test", "routine", "return"}]
InRoutine(t, i, c) == calls[t][i].control = c /\ calls[t][i].at = "routine"
Runs(c) == \E t \in Threads : \E i \in 1 .. Len(calls[t]) : InRoutine(t, i, c)

Types ==
  /\ word \in [Controls -> {0, 1}]
  /\ calls \in [Threads -> Seq(Frames)]
  /\ runs \in [Controls -> Nat]
  /\ done \subseteq Controls
  /\ passed \in [Threads -> SUBSET Controls]

Started == \A c \in Controls : word[c] = 1 => c \in done \/ Runs(c)

PastTheTest ==
  \A t \in Threads : \A i \in 1 .. Len(calls[t]) :
    calls[t][i].at # "test" => word[calls[t][i].control] = 1

Passed == \A t \in Threads : \A c \in passed[t] : word[c] = 1

OnceInv == Types /\ RunsOnce /\ Started /\ PastTheTest /\ Passed

(* The stack of calls when the innermost has returned or is replaced.      *)
LEMMA PopInnermost ==
  ASSUME NEW S, NEW s \in Seq(S), s # <<>>
  PROVE  /\ Len(s) \in Nat \ {0}
         /\ Front(s) \in Seq(S)
         /\ Len(Front(s)) = Len(s) - 1
         /\ \A i \in 1 .. Len(s) - 1 : Front(s)[i] = s[i]
<1>1. Len(s) \in Nat \ {0}
  OBVIOUS
<1>2. \A i \in 1 .. Len(s) - 1 : s[i] \in S
  BY <1>1
<1>3. Front(s) = [i \in 1 .. Len(s) - 1 |-> s[i]]
  BY <1>1 DEF Front
<1> QED
  BY <1>1, <1>2, <1>3

(* The same when another call takes the innermost's place.                 *)
LEMMA ReplaceInnermost ==
  ASSUME NEW S, NEW s \in Seq(S), s # <<>>, NEW e \in S
  PROVE  /\ Append(Front(s), e) \in Seq(S)
         /\ Len(Append(Front(s), e)) = Len(s)
         /\ Append(Front(s), e)[Len(s)] = e
         /\ \A i \in 1 .. Len(s) - 1 : Append(Front(s), e)[i] = s[i]
BY PopInnermost

(* The innermost call is the last of the stack.                            *)
LEMMA InnermostIs ==
  ASSUME Types, NEW t \in Threads, calls[t] # <<>>
  PROVE  /\ Innermost(t) = calls[t][Len(calls[t])]
         /\ Innermost(t) \in Frames
         /\ Len(calls[t]) \in Nat \ {0}
BY DEF Types, Innermost, Last

(* Runs and Running are the same.                                          *)
LEMMA RunsIsRunning == Types => \A c \in Controls : Runs(c) <=> Running(c)
<1> SUFFICES ASSUME Types, NEW c \in Controls PROVE Runs(c) <=> Running(c)
  OBVIOUS
<1>1. \A t \in Threads : DOMAIN calls[t] = 1 .. Len(calls[t])
  BY DEF Types
<1>2. ASSUME NEW t \in Threads, NEW i \in 1 .. Len(calls[t])
      PROVE  InRoutine(t, i, c) <=> calls[t][i] = Call(c, "routine")
  <2>1. calls[t][i] \in Frames
    BY DEF Types
  <2> QED
    BY <2>1 DEF InRoutine, Call, Frames
<1> QED
  BY <1>1, <1>2 DEF Runs, Running

-----------------------------------------------------------------------------
(* What a step makes of the calls of thread t: other threads' stacks and   *)
(* all of t's but the innermost call stay as they are.                     *)
Keeps(t) ==
  /\ calls' \in [Threads -> Seq(Frames)]
  /\ \A u \in Threads \ {t} : calls'[u] = calls[u]
  /\ \A i \in 1 .. Len(calls[t]) - 1 :
       i \in 1 .. Len(calls'[t]) /\ calls'[t][i] = calls[t][i]

Replaces(t, call) ==
  /\ Keeps(t)
  /\ Len(calls'[t]) = Len(calls[t])
  /\ calls'[t][Len(calls[t])] = call

(* That is what Moves does to the calls.                                   *)
LEMMA MovesReplaces ==
  ASSUME Types, NEW t \in Threads, calls[t] # <<>>,
         NEW call \in Frames, Moves(t, call)
  PROVE  Replaces(t, call)
<1>1. calls[t] \in Seq(Frames)
  BY DEF Types
<1>2. calls' = [calls EXCEPT ![t] = Append(Front(calls[t]), call)]
  BY DEF Moves
<1> DEFINE new == Append(Front(calls[t]), call)
<1>3. /\ new \in Seq(Frames) /\ Len(new) = Len(calls[t])
      /\ new[Len(calls[t])] = call
      /\ \A i \in 1 .. Len(calls[t]) - 1 : new[i] = calls[t][i]
  BY <1>1, ReplaceInnermost
<1>4. calls'[t] = new /\ \A u \in Threads \ {t} : calls'[u] = calls[u]
  BY <1>2 DEF Types
<1>5. calls' \in [Threads -> Seq(Frames)]
  BY <1>2, <1>3 DEF Types
<1>6. Len(calls[t]) \in Nat
  BY <1>1
<1> QED
  BY <1>3, <1>4, <1>5, <1>6 DEF Replaces, Keeps

(* A routine that runs goes on running unless it is the innermost call of  *)
(* the thread that takes the step.                                         *)
LEMMA RunsOn ==
  ASSUME Types, NEW t \in Threads, Keeps(t), NEW c \in Controls, Runs(c),
         calls[t] # <<>> => ~InRoutine(t, Len(calls[t]), c)
  PROVE  Runs(c)'
<1>0. PICK u \in Threads : \E i \in 1 .. Len(calls[u]) : InRoutine(u, i, c)
  BY DEF Runs
<1>1. PICK i \in 1 .. Len(calls[u]) : InRoutine(u, i, c)
  BY <1>0
<1>2. CASE u # t
  BY <1>1, <1>2 DEF Keeps, Runs, InRoutine
<1>3. CASE u = t
  <2>1. Len(calls[t]) \in Nat /\ calls[t] # <<>>
    BY <1>1, <1>3 DEF Types
  <2>2. i \in 1 .. Len(calls[t]) - 1
    BY <1>1, <1>3, <2>1
  <2>3. i \in 1 .. Len(calls'[t]) /\ calls'[t][i] = calls[t][i]
    BY <2>2 DEF Keeps
  <2> QED
    BY <1>1, <1>3, <2>3 DEF Runs, InRoutine
<1> QED
  BY <1>2, <1>3

(* Nobody has called pthread_once yet.                                     *)
LEMMA OnceInit == Init => OnceInv
<1> SUFFICES ASSUME Init PROVE OnceInv
  OBVIOUS
<1>1. Types
  BY DEF Init, Types
<1>2. \A t \in Threads : Len(calls[t]) = 0
  BY DEF Init
<1> QED
  BY <1>1, <1>2 DEF Init, OnceInv, RunsOnce, Started, PastTheTest, Passed

(* A new call is at its test, and changes nothing else.                    *)
LEMMA CallOnceStep ==
  ASSUME OnceInv, NEW t \in Threads, NEW c \in Controls, CallOnce(t, c)
  PROVE  OnceInv'
<1> USE DEF OnceInv
<1>1. /\ UNCHANGED <<word, runs, done, passed>>
      /\ calls' = [calls EXCEPT ![t] = Append(calls[t], Call(c, "test"))]
  BY DEF CallOnce
<1> DEFINE n == Len(calls[t])
           new == Append(calls[t], Call(c, "test"))
<1>2. n \in Nat /\ Call(c, "test") \in Frames
  BY DEF Types, Call, Frames
<1>3. /\ new \in Seq(Frames) /\ Len(new) = n + 1 /\ new[n + 1] = Call(c, "test")
      /\ \A i \in 1 .. n : new[i] = calls[t][i]
  BY <1>2 DEF Types
<1>4. calls'[t] = new /\ \A u \in Threads \ {t} : calls'[u] = calls[u]
  BY <1>1 DEF Types
<1>5. calls' \in [Threads -> Seq(Frames)]
  BY <1>1, <1>3 DEF Types
<1>6. Types' /\ RunsOnce' /\ Passed'
  BY <1>1, <1>5 DEF Types, RunsOnce, Passed
<1>7. Started'
  <2>1. ASSUME NEW d \in Controls, Runs(d) PROVE Runs(d)'
    <3>0. PICK u \in Threads : \E i \in 1 .. Len(calls[u]) : InRoutine(u, i, d)
      BY <2>1 DEF Runs
    <3>1. PICK i \in 1 .. Len(calls[u]) : InRoutine(u, i, d)
      BY <3>0
    <3>2. i \in 1 .. Len(calls'[u]) /\ calls'[u][i] = calls[u][i]
      BY <1>2, <1>3, <1>4
    <3> QED
      BY <3>1, <3>2 DEF Runs, InRoutine
  <2> QED
    BY <1>1, <2>1 DEF Started
<1>8. PastTheTest'
  <2> SUFFICES ASSUME NEW u \in Threads, NEW i \in 1 .. Len(calls'[u]),
                      calls'[u][i].at # "test"
               PROVE  word[calls'[u][i].control] = 1
    BY <1>1 DEF PastTheTest
  <2>1. CASE u = t /\ i = n + 1
    BY <1>3, <1>4, <2>1 DEF Call
  <2>2. CASE ~(u = t /\ i = n + 1)
    <3>1. i \in 1 .. Len(calls[u]) /\ calls'[u][i] = calls[u][i]
      BY <1>2, <1>3, <1>4, <2>2
    <3> QED
      BY <3>1 DEF PastTheTest
  <2> QED
    BY <2>1, <2>2
<1> QED
  BY <1>6, <1>7, <1>8

(* The word is set to 1 by whoever tests it, and a 0 makes the routine run. *)
LEMMA TestAndSetStep ==
  ASSUME OnceInv, NEW t \in Threads, TestAndSet(t)
  PROVE  OnceInv'
<1> USE DEF OnceInv
<1> DEFINE n == Len(calls[t])
           c == Innermost(t).control
           at == IF word[c] = 0 THEN "routine" ELSE "return"
<1>1. /\ calls[t] # <<>> /\ Innermost(t).at = "test"
      /\ Innermost(t) = calls[t][n] /\ n \in Nat \ {0}
      /\ c \in Controls /\ Call(c, at) \in Frames
  BY InnermostIs DEF TestAndSet, Call, Frames
<1>2. /\ word' = [word EXCEPT ![c] = 1]
      /\ Moves(t, Call(c, at))
      /\ runs' = IF word[c] = 0 THEN [runs EXCEPT ![c] = @ + 1] ELSE runs
      /\ UNCHANGED <<done, passed>>
  BY DEF TestAndSet
<1>3. Replaces(t, Call(c, at))
  BY <1>1, <1>2, MovesReplaces
<1>4. Types'
  BY <1>1, <1>2, <1>3 DEF Types, Replaces, Keeps
<1>5. RunsOnce' /\ Passed'
  BY <1>1, <1>2 DEF Types, RunsOnce, Passed
<1>6. Started'
  <2> SUFFICES ASSUME NEW d \in Controls, word'[d] = 1
               PROVE  d \in done' \/ Runs(d)'
    BY DEF Started
  <2>1. CASE word[d] = 1
    <3>1. d \in done \/ Runs(d)
      BY <2>1 DEF Started
    <3>2. ~InRoutine(t, Len(calls[t]), d)
      BY <1>1 DEF InRoutine
    <3>3. Runs(d) => Runs(d)'
      BY <1>3, <3>2, RunsOn DEF Replaces
    <3> QED
      BY <1>2, <3>1, <3>3
  <2>2. CASE word[d] # 1
    <3>1. d = c /\ word[c] = 0
      BY <1>1, <1>2, <2>2 DEF Types
    <3>2. n \in 1 .. Len(calls'[t]) /\ calls'[t][n] = Call(c, "routine")
      BY <1>1, <1>3, <3>1 DEF Replaces
    <3> QED
      BY <3>1, <3>2 DEF Runs, InRoutine, Call
  <2> QED
    BY <2>1, <2>2
<1>7. PastTheTest'
  <2> SUFFICES ASSUME NEW u \in Threads, NEW i \in 1 .. Len(calls'[u]),
                      calls'[u][i].at # "test"
               PROVE  word'[calls'[u][i].control] = 1
    BY DEF PastTheTest
  <2>1. CASE u = t /\ i = n
    <3>1. calls'[u][i].control = c
      BY <1>3, <2>1 DEF Replaces, Call
    <3> QED
      BY <1>1, <1>2, <3>1 DEF Types
  <2>2. CASE ~(u = t /\ i = n)
    <3>1. i \in 1 .. Len(calls[u]) /\ calls'[u][i] = calls[u][i]
      BY <1>1, <1>3, <2>2 DEF Replaces, Keeps
    <3>2. word[calls[u][i].control] = 1 /\ calls[u][i] \in Frames
      BY <3>1 DEF PastTheTest, Types
    <3>3. calls[u][i].control \in Controls
      BY <3>2 DEF Frames
    <3> QED
      BY <1>1, <1>2, <3>1, <3>2, <3>3 DEF Types
  <2> QED
    BY <2>1, <2>2
<1> QED
  BY <1>4, <1>5, <1>6, <1>7

(* A routine that ends is done, and its word was 1 since it was started.   *)
LEMMA RoutineEndsStep ==
  ASSUME OnceInv, NEW t \in Threads, RoutineEnds(t)
  PROVE  OnceInv'
<1> USE DEF OnceInv
<1> DEFINE n == Len(calls[t])
           c == Innermost(t).control
<1>1. /\ calls[t] # <<>> /\ Innermost(t).at = "routine"
      /\ Innermost(t) = calls[t][n] /\ n \in Nat \ {0}
      /\ c \in Controls /\ Call(c, "return") \in Frames
  BY InnermostIs DEF RoutineEnds, Call, Frames
<1>2. /\ done' = done \union {c}
      /\ Moves(t, Call(c, "return"))
      /\ UNCHANGED <<word, runs, passed>>
  BY DEF RoutineEnds
<1>3. Replaces(t, Call(c, "return"))
  BY <1>1, <1>2, MovesReplaces
<1>4. Types' /\ RunsOnce' /\ Passed'
  BY <1>1, <1>2, <1>3 DEF Types, Replaces, Keeps, RunsOnce, Passed
<1>5. Started'
  <2> SUFFICES ASSUME NEW d \in Controls, word[d] = 1, d # c
               PROVE  d \in done' \/ Runs(d)'
    BY <1>2 DEF Started
  <2>1. d \in done \/ Runs(d)
    BY DEF Started
  <2>2. ~InRoutine(t, Len(calls[t]), d)
    BY <1>1 DEF InRoutine
  <2>3. Runs(d) => Runs(d)'
    BY <1>3, <2>2, RunsOn DEF Replaces
  <2> QED
    BY <1>2, <2>1, <2>3
<1>6. PastTheTest'
  <2> SUFFICES ASSUME NEW u \in Threads, NEW i \in 1 .. Len(calls'[u]),
                      calls'[u][i].at # "test"
               PROVE  word[calls'[u][i].control] = 1
    BY <1>2 DEF PastTheTest
  <2>1. CASE u = t /\ i = n
    <3>1. calls'[u][i].control = c
      BY <1>3, <2>1 DEF Replaces, Call
    <3>2. word[c] = 1
      BY <1>1 DEF PastTheTest
    <3> QED
      BY <3>1, <3>2
  <2>2. CASE ~(u = t /\ i = n)
    <3>1. i \in 1 .. Len(calls[u]) /\ calls'[u][i] = calls[u][i]
      BY <1>1, <1>3, <2>2 DEF Replaces, Keeps
    <3> QED
      BY <3>1 DEF PastTheTest
  <2> QED
    BY <2>1, <2>2
<1> QED
  BY <1>4, <1>5, <1>6

(* A thread that returns has found the word 1 or has made it so.           *)
LEMMA ReturnStep ==
  ASSUME OnceInv, NEW t \in Threads, Return(t)
  PROVE  OnceInv'
<1> USE DEF OnceInv
<1> DEFINE n == Len(calls[t])
           c == Innermost(t).control
<1>1. /\ calls[t] # <<>> /\ Innermost(t).at = "return"
      /\ Innermost(t) = calls[t][n] /\ n \in Nat \ {0}
      /\ c \in Controls
  BY InnermostIs DEF Return, Frames
<1>2. /\ passed' = [passed EXCEPT ![t] = @ \union {c}]
      /\ calls' = [calls EXCEPT ![t] = Front(calls[t])]
      /\ UNCHANGED <<word, runs, done>>
  BY DEF Return
<1>3. /\ Front(calls[t]) \in Seq(Frames) /\ Len(Front(calls[t])) = n - 1
      /\ \A i \in 1 .. n - 1 : Front(calls[t])[i] = calls[t][i]
  <2>1. calls[t] \in Seq(Frames)
    BY DEF Types
  <2> QED
    BY <1>1, <2>1, PopInnermost
<1>4. calls'[t] = Front(calls[t]) /\ \A u \in Threads \ {t} : calls'[u] = calls[u]
  BY <1>2 DEF Types
<1>5. calls' \in [Threads -> Seq(Frames)]
  BY <1>2, <1>3 DEF Types
<1>6. Keeps(t)
  BY <1>1, <1>3, <1>4, <1>5 DEF Keeps
<1>7. word[c] = 1
  BY <1>1 DEF PastTheTest
<1>8. Types' /\ RunsOnce' /\ Passed'
  BY <1>1, <1>2, <1>5, <1>7 DEF Types, RunsOnce, Passed
<1>9. Started'
  <2>1. ASSUME NEW d \in Controls PROVE ~InRoutine(t, Len(calls[t]), d)
    BY <1>1 DEF InRoutine
  <2>2. ASSUME NEW d \in Controls, Runs(d) PROVE Runs(d)'
    BY <1>6, <2>1, <2>2, RunsOn
  <2> QED
    BY <1>2, <2>2 DEF Started
<1>10. PastTheTest'
  <2> SUFFICES ASSUME NEW u \in Threads, NEW i \in 1 .. Len(calls'[u])
               PROVE  i \in 1 .. Len(calls[u]) /\ calls'[u][i] = calls[u][i]
    BY <1>2 DEF PastTheTest
  <2> QED
    BY <1>1, <1>3, <1>4
<1> QED
  BY <1>8, <1>9, <1>10

-----------------------------------------------------------------------------
(* Every step of every thread keeps OnceInv.                               *)
LEMMA OnceStep == OnceInv /\ [Next]_vars => OnceInv'
<1> SUFFICES ASSUME OnceInv, [Next]_vars PROVE OnceInv'
  OBVIOUS
<1>1. CASE UNCHANGED vars
  BY <1>1 DEF vars, OnceInv, Types, RunsOnce, Started, PastTheTest, Passed,
       Runs, InRoutine
<1> QED
  BY <1>1, CallOnceStep, TestAndSetStep, RoutineEndsStep, ReturnStep
     DEF Next, Step

(* So it holds in every behaviour.                                         *)
LEMMA OnceInvHolds == Spec => []OnceInv
BY OnceInit, OnceStep, PTL DEF Spec

(* However the calls of any number of threads overlap and nest, a routine  *)
(* is started at most once, and by the thread that found the word 0.       *)
THEOREM StartedOnce == Spec => []RunsOnce
<1>1. OnceInv => RunsOnce
  BY DEF OnceInv
<1> QED
  BY <1>1, OnceInvHolds, PTL

(* Whoever returned while the routine was not done did so while a thread   *)
(* was running it: the race that pthread_once_fake leaves is this one.     *)
THEOREM EarlyWhileRunning == Spec => []EarlyOnlyWhileRunning
<1>1. OnceInv => EarlyOnlyWhileRunning
  <2> SUFFICES ASSUME OnceInv, NEW t \in Threads, NEW c \in passed[t]
               PROVE  c \in done \/ Running(c)
    BY DEF EarlyOnlyWhileRunning
  <2>1. c \in Controls /\ word[c] = 1
    BY DEF OnceInv, Types, Passed
  <2> QED
    BY <2>1, RunsIsRunning DEF OnceInv, Started
<1> QED
  BY <1>1, OnceInvHolds, PTL

(* Types are kept by every step.                                           *)
THEOREM OnceTypeCorrect == Spec => []TypeOK
<1>1. OnceInv => TypeOK
  BY DEF OnceInv, Types, TypeOK, Frames
<1> QED
  BY <1>1, OnceInvHolds, PTL

(* What is kept of pthread_once's promise, for any threads and words.      *)
THEOREM OnceIsKept == Spec => []OnceKept
<1>1. RunsOnce /\ EarlyOnlyWhileRunning => OnceKept
  BY DEF OnceKept
<1> QED
  BY <1>1, StartedOnce, EarlyWhileRunning, PTL
=============================================================================
