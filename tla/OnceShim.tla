------------------------------ MODULE OnceShim ------------------------------
(***************************************************************************)
(* pthread_once_fake (imports.c, lines 232-238): the control word is set   *)
(* to 1 atomically, and who found it 0 runs the routine.  The word says    *)
(* that the routine was started, not that it has ended, so another thread  *)
(* may return while it runs.                                               *)
(*                                                                         *)
(* A routine may call pthread_once with other control words: a thread has  *)
(* a stack of calls.  The game never calls it from a routine with the      *)
(* control word of that routine or of one that waits for it, nor with NULL.*)
(***************************************************************************)
EXTENDS Integers, Sequences, SequencesExt

CONSTANTS
  Threads,
  Controls,   \* the game's pthread_once_t words
  Overlap     \* TRUE: a thread may call while another runs the routine

ASSUME OnceAssumption == Overlap \in BOOLEAN

VARIABLES
  word,    \* *once_control
  calls,   \* calls[t]: the calls thread t is in, the innermost last
  runs,    \* runs[c]: how often the routine of c was started
  done,    \* the control words whose routine has come to its end
  passed   \* passed[t]: the control words t has returned with

vars == <<word, calls, runs, done, passed>>

Init ==
  /\ word = [c \in Controls |-> 0]
  /\ calls = [t \in Threads |-> <<>>]
  /\ runs = [c \in Controls |-> 0]
  /\ done = {}
  /\ passed = [t \in Threads |-> {}]

Call(c, at) == [control |-> c, at |-> at]
Innermost(t) == Last(calls[t])
Moves(t, call) == calls' = [calls EXCEPT ![t] = Append(Front(@), call)]

Within(t) == {calls[t][i].control : i \in DOMAIN calls[t]}
Running(c) ==
  \E t \in Threads : \E i \in DOMAIN calls[t] :
    calls[t][i] = Call(c, "routine")

-----------------------------------------------------------------------------
(* The game calls pthread_once, from its own code or from a routine.       *)
CallOnce(t, c) ==
  /\ calls[t] # <<>> => Innermost(t).at = "routine"
  /\ c \notin Within(t)
  /\ ~Overlap => \A u \in Threads \ {t} : c \notin Within(u)
  /\ calls' = [calls EXCEPT ![t] = Append(@, Call(c, "test"))]
  /\ UNCHANGED <<word, runs, done, passed>>

(* Mutant: the word is read, and set only when the routine has been run.   *)
TestAndSetLate(t) ==
  /\ calls[t] # <<>> /\ Innermost(t).at = "test"
  /\ LET c == Innermost(t).control IN
       IF word[c] = 0
       THEN /\ Moves(t, Call(c, "routine"))
            /\ runs' = [runs EXCEPT ![c] = @ + 1]
            /\ UNCHANGED word
       ELSE /\ Moves(t, Call(c, "return"))
            /\ UNCHANGED <<word, runs>>
  /\ UNCHANGED <<done, passed>>

(* Mutant: the test is the wrong way round.                                *)
TestAndSetInverted(t) ==
  /\ calls[t] # <<>> /\ Innermost(t).at = "test"
  /\ LET c == Innermost(t).control IN
       /\ word' = [word EXCEPT ![c] = 1]
       /\ Moves(t, Call(c, IF word[c] = 1 THEN "routine" ELSE "return"))
       /\ UNCHANGED runs
  /\ UNCHANGED <<done, passed>>

(* __sync_lock_test_and_set, and the decision.                             *)
TestAndSet(t) ==
  /\ calls[t] # <<>> /\ Innermost(t).at = "test"
  /\ LET c == Innermost(t).control IN
       /\ word' = [word EXCEPT ![c] = 1]
       /\ IF word[c] = 0
          THEN /\ Moves(t, Call(c, "routine"))
               /\ runs' = [runs EXCEPT ![c] = @ + 1]
          ELSE /\ Moves(t, Call(c, "return"))
               /\ UNCHANGED runs
  /\ UNCHANGED <<done, passed>>

(* init_routine comes back.                                                *)
RoutineEnds(t) ==
  /\ calls[t] # <<>> /\ Innermost(t).at = "routine"
  /\ LET c == Innermost(t).control IN
       /\ done' = done \union {c}
       /\ Moves(t, Call(c, "return"))
  /\ UNCHANGED <<word, runs, passed>>

Return(t) ==
  /\ calls[t] # <<>> /\ Innermost(t).at = "return"
  /\ passed' = [passed EXCEPT ![t] = @ \union {Innermost(t).control}]
  /\ calls' = [calls EXCEPT ![t] = Front(@)]
  /\ UNCHANGED <<word, runs, done>>

Step(t) == TestAndSet(t) \/ RoutineEnds(t) \/ Return(t)

Next == \E t \in Threads : Step(t) \/ \E c \in Controls : CallOnce(t, c)

Spec == Init /\ [][Next]_vars

(* A thread in the shim runs on, since the shim never waits, and a routine *)
(* does not make calls for ever.                                           *)
FairSpec ==
  Spec /\ \A t \in Threads : WF_vars(Step(t)) /\ SF_vars(RoutineEnds(t))

-----------------------------------------------------------------------------
TypeOK ==
  /\ word \in [Controls -> {0, 1}]
  /\ calls \in [Threads -> Seq([control : Controls,
                                at : {"test", "routine", "return"}])]
  /\ runs \in [Controls -> Nat]
  /\ done \subseteq Controls
  /\ passed \in [Threads -> SUBSET Controls]

(* However calls overlap or nest, a routine is started at most once, and   *)
(* only by the thread that found the word 0.                               *)
RunsOnce == \A c \in Controls : runs[c] <= 1 /\ (runs[c] = 1 <=> word[c] = 1)

(* A thread that returned before the routine was done did so while another *)
(* thread was running it: the only way the shim breaks the promise of      *)
(* pthread_once.                                                           *)
EarlyOnlyWhileRunning ==
  \A t \in Threads : \A c \in passed[t] : c \in done \/ Running(c)

(* Both: what is kept of pthread_once's promise whoever calls when.        *)
OnceKept == RunsOnce /\ EarlyOnlyWhileRunning

(* What a thread returned with early is done in the end.  Since the shim   *)
(* never waits, two routines that call each other's control word end too.  *)
EarlyIsMadeGood ==
  \A t \in Threads, c \in Controls : c \in passed[t] ~> c \in done

(* Without overlapping calls the shim implements pthread_once.             *)
Promise == INSTANCE Once WITH
             Threads <- Threads, Controls <- Controls,
             done <- done, passed <- passed
=============================================================================
