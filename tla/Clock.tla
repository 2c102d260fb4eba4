------------------------------- MODULE Clock -------------------------------
(***************************************************************************)
(* The clocks and the sleep the game gets (imports.c, lines 248-276).      *)
(*                                                                         *)
(* Clock 0 is the process time, which only grows; clock 1 is the local     *)
(* time of the console, which its owner may set; no other is known.        *)
(* nanosleep turns its request into a number of microseconds of one word,  *)
(* after two writes through rem, which POSIX lets the caller leave NULL.   *)
(* The units are constants, so that a word can overflow in a small run.    *)
(***************************************************************************)
EXTENDS Integers

CONSTANTS
  Micros,    \* microseconds in a second (1000 * 1000)
  Nanos,     \* nanoseconds in a microsecond (1000)
  Word,      \* 2^32, the values of a uint32_t
  MaxTicks,  \* bound on the process time of a run
  MaxWall,   \* bound on the local time
  Requests   \* what nanosleep is asked for: [sec, nsec]

ClockAssumption ==
  /\ {Micros, Nanos, Word, MaxTicks, MaxWall} \subseteq Nat \ {0}
  /\ \A r \in Requests : r.sec \in Nat /\ r.nsec \in 0 .. Micros * Nanos - 1

ENOSYS == 88
NoSleep == [sec |-> 0, nsec |-> 0, since |-> -1, until |-> -1]
Faulted == [NoSleep EXCEPT !.until = -2]

VARIABLES
  ticks,  \* sceKernelGetProcessTime, in microseconds
  wall,   \* the local time, in microseconds
  tp,     \* the last answer of clock_gettime: [id, ret, sec, nsec]
  read,   \* history: what the clock tp is of showed when tp was taken
  turned, \* history: the local time was set back since then
  sleep   \* the sleep of the calling thread, NoSleep or Faulted

vars == <<ticks, wall, tp, read, turned, sleep>>

Init ==
  /\ ticks = 0 /\ wall \in 0 .. MaxWall
  /\ tp = [id |-> 0, ret |-> 0, sec |-> 0, nsec |-> 0]
  /\ read = 0 /\ turned = FALSE
  /\ sleep = NoSleep

Awake == sleep = NoSleep
Asleep == sleep \notin {NoSleep, Faulted}

(* A count of microseconds as seconds and nanoseconds.                     *)
Timespec(id, us) == [id |-> id, ret |-> 0, sec |-> us \div Micros,
                     nsec |-> (us * Nanos) % (Micros * Nanos)]

clock_gettime(id) ==
  /\ Awake
  /\ \/ /\ id = 0 /\ tp' = Timespec(0, ticks) /\ read' = ticks /\ turned' = FALSE
     \/ /\ id = 1 /\ tp' = Timespec(1, wall) /\ read' = wall /\ turned' = FALSE
     \/ /\ id \notin {0, 1}
        /\ tp' = [tp EXCEPT !.id = id, !.ret = -ENOSYS] /\ UNCHANGED <<read, turned>>
  /\ UNCHANGED <<ticks, wall, sleep>>

(* Mutant: the seconds are taken for milliseconds.                         *)
DelayMillis(r) == (r.sec * (Micros \div 2) + r.nsec \div Nanos) % Word

(* const uint32_t usec                                                     *)
Delay(r) == (r.sec * Micros + r.nsec \div Nanos) % Word

(* rem->tv_sec = 0 and what follows it.                                    *)
nanosleep ==
  /\ Awake
  /\ \E r \in Requests :
       sleep' = [sec |-> r.sec, nsec |-> r.nsec,
                 since |-> ticks, until |-> ticks + Delay(r)]
  /\ UNCHANGED <<ticks, wall, tp, read, turned>>

(* The same with a rem that is NULL: the process faults before it sleeps.  *)
NanosleepFaults ==
  /\ Awake
  /\ sleep' = Faulted
  /\ UNCHANGED <<ticks, wall, tp, read, turned>>

-----------------------------------------------------------------------------
(* The kernel: sceKernelDelayThreadCB returns when its delay is over; time *)
(* passes; the owner of the console sets its clock.                        *)
Wake ==
  /\ Asleep /\ ticks >= sleep.until
  /\ sleep' = NoSleep
  /\ UNCHANGED <<ticks, wall, tp, read, turned>>

Tick ==
  /\ ticks < MaxTicks
  /\ ticks' = ticks + 1
  /\ wall' = IF wall < MaxWall THEN wall + 1 ELSE wall
  /\ UNCHANGED <<tp, read, turned, sleep>>

SetClock ==
  /\ wall' \in 0 .. MaxWall
  /\ turned' = IF wall' < wall THEN TRUE ELSE turned
  /\ UNCHANGED <<ticks, tp, read, sleep>>

Next ==
  \/ \E id \in 0 .. 2 : clock_gettime(id)
  \/ nanosleep \/ NanosleepFaults \/ Wake \/ Tick \/ SetClock

Fairness == WF_vars(Wake) /\ WF_vars(Tick)
Spec == Init /\ [][Next]_vars
FairSpec == Spec /\ Fairness

-----------------------------------------------------------------------------
(* The variables keep to their types; the nanoseconds are below a second.  *)
TypeOK ==
  /\ ticks \in 0 .. MaxTicks /\ wall \in 0 .. MaxWall
  /\ tp \in [id : 0 .. 2, ret : {0, -ENOSYS}, sec : Nat,
             nsec : 0 .. Micros * Nanos - 1]
  /\ turned \in BOOLEAN
  /\ sleep.until \in -2 .. MaxTicks + Word

(* An answer is the clock's reading and loses nothing of it, and one that  *)
(* fails says so.                                                          *)
AnswerIsTheReading ==
  /\ tp.ret = 0 <=> tp.id \in {0, 1}
  /\ tp.ret = 0 => tp.sec * Micros * Nanos + tp.nsec = read * Nanos

(* Of two answers of one clock the later shows no less, whatever the owner *)
(* of the console does to the local time if it is clock 0, and unless he   *)
(* set it back between the two if it is clock 1.                           *)
OnlyTheOwnerTurnsBack ==
  [][ tp'.id = tp.id /\ tp.id \in {0, 1} /\ (tp.id = 1 => ~turned) =>
        \/ tp'.sec > tp.sec
        \/ tp'.sec = tp.sec /\ tp'.nsec >= tp.nsec ]_tp

(* The microseconds a sleep asks for, and those the word drops of them.    *)
Asked == sleep.sec * Micros + sleep.nsec \div Nanos
Dropped == (Asked \div Word) * Word

(* nanosleep returns early by less than a microsecond and whole words of   *)
(* microseconds, of which there are none if what was asked for fits one.   *)
SleepsLongEnough ==
  [][ Asleep /\ sleep' = NoSleep =>
        (ticks - sleep.since + Dropped + 1) * Nanos
          > sleep.sec * Micros * Nanos + sleep.nsec ]_vars

(* A sleep whose time comes during the run ends: the units asked for are   *)
(* those the kernel is asked for.                                          *)
SleepsEnd == (Asleep /\ sleep.since + Asked <= MaxTicks) ~> Awake
=============================================================================
