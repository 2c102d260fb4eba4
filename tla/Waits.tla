------------------------------- MODULE Waits -------------------------------
(***************************************************************************)
(* The parts in which something has to end: the shims of pthread_once and  *)
(* of semaphores, the launch of threads, the dialog of fatal_error, the    *)
(* clocks and sleeps, and config.txt.                                      *)
(*                                                                         *)
(* The parts share no variable, so a behaviour is one of one of them: part *)
(* says of which, and the others stay where they start.  Two are run in    *)
(* two ways: "serial" is "once" without overlapping calls, and "player" is *)
(* "config" without edits, cut writes and failing fopen, but with errors   *)
(* of fgets.  These are the conditions of their abstract specifications.   *)
(***************************************************************************)
EXTENDS OnceShim

-----------------------------------------------------------------------------
(* SemShim has the same threads.                                           *)
CONSTANTS Wanted, Most, MaxLives, MaxPosts
VARIABLES uid, count, waiting, semRet, asked, posted, taken, lives
semVars == <<uid, count, waiting, semRet, asked, posted, taken, lives>>
Sem == INSTANCE SemShim WITH ret <- semRet

-----------------------------------------------------------------------------
CONSTANTS Callers, Ids, NoId, Jobs, NoJob, Priority, Failing
VARIABLES
  state, args, urgency, buf, launchPc, job, thid, launchRet, mine, stranded, since
launchVars ==
  <<state, args, urgency, buf, launchPc, job, thid, launchRet, mine, stranded, since>>
Launch == INSTANCE ThreadLaunch WITH pc <- launchPc, ret <- launchRet

-----------------------------------------------------------------------------
CONSTANTS Count, MaxPending, MayFail
VARIABLES
  dialogPc, back, front, memory, drawn, drawing, queue, scanned, next, locked,
  late, message
dialogVars ==
  <<dialogPc, back, front, memory, drawn, drawing, queue, scanned, next, locked,
    late, message>>
Dialog == INSTANCE ErrorDialog WITH pc <- dialogPc

-----------------------------------------------------------------------------
CONSTANTS Micros, Nanos, Word, MaxTicks, MaxWall, Requests
VARIABLES ticks, wall, tp, read, turned, sleep
clockVars == <<ticks, wall, tp, read, turned, sleep>>
Clk == INSTANCE Clock

-----------------------------------------------------------------------------
CONSTANTS Order, NoFile, Unknown, Default, Values, Printed, MaxLanguage, Mods, Files
VARIABLES file, config, configPc, line, then, before, written, origin
configVars == <<file, config, configPc, line, then, before, written, origin>>
Cfg == INSTANCE ConfigFile WITH
         pc <- configPc, Edits <- TRUE, CutsShort <- TRUE, OpenFails <- TRUE,
         ReadErrors <- FALSE
Player == INSTANCE ConfigFile WITH
            pc <- configPc, Edits <- FALSE, CutsShort <- FALSE,
            OpenFails <- FALSE, ReadErrors <- TRUE

-----------------------------------------------------------------------------
(* OnceShim without overlapping calls.                                     *)
Serial == INSTANCE OnceShim WITH Overlap <- FALSE

ASSUME SemConstants == Sem!SemAssumption
ASSUME LaunchConstants == Launch!LaunchAssumption
ASSUME DialogConstants == Dialog!DialogAssumption
ASSUME ClockConstants == Clk!ClockAssumption
ASSUME ConfigConstants == Cfg!ConfigFileAssumption

VARIABLE part

Parts == {"once", "serial", "semaphore", "launch", "dialog", "clock", "config", "player"}

allVars ==
  <<part, vars, semVars, launchVars, dialogVars, clockVars, configVars>>

WaitsInit ==
  /\ part \in Parts
  /\ Init /\ Sem!Init /\ Launch!Init /\ Dialog!Init
  /\ Clk!Init /\ (part # "clock" => wall = 0)
  /\ Cfg!Init /\ (part \notin {"config", "player"} => file = NoFile)

WaitsNext ==
  /\ UNCHANGED part
  /\ \/ /\ \/ part = "once" /\ Next
           \/ part = "serial" /\ Serial!Next
        /\ UNCHANGED <<semVars, launchVars, dialogVars, clockVars, configVars>>
     \/ /\ part = "semaphore" /\ Sem!Next
        /\ UNCHANGED <<vars, launchVars, dialogVars, clockVars, configVars>>
     \/ /\ part = "launch" /\ Launch!Next
        /\ UNCHANGED <<vars, semVars, dialogVars, clockVars, configVars>>
     \/ /\ part = "dialog" /\ Dialog!Next
        /\ UNCHANGED <<vars, semVars, launchVars, clockVars, configVars>>
     \/ /\ part = "clock" /\ Clk!Next
        /\ UNCHANGED <<vars, semVars, launchVars, dialogVars, configVars>>
     \/ /\ \/ part = "config" /\ Cfg!Next
           \/ part = "player" /\ Player!Next
        /\ UNCHANGED <<vars, semVars, launchVars, dialogVars, clockVars>>

(* The fairness of each part, which asks nothing while another one runs.   *)
Fairness ==
  /\ \A t \in Threads :
       /\ WF_vars(part \in {"once", "serial"} /\ Step(t))
       /\ SF_vars(part \in {"once", "serial"} /\ RoutineEnds(t))
       /\ SF_semVars(part = "semaphore" /\ Sem!WaitTakes(t))
       /\ WF_semVars(part = "semaphore" /\ Sem!WaitRefused(t))
  /\ \A c \in Callers :
       WF_launchVars(part = "launch" /\ (Launch!StoreId(c) \/ Launch!StartThread(c)))
  /\ \A i \in Ids :
       WF_launchVars(part = "launch" /\ (Launch!StubRuns(i) \/ Launch!StubEnds(i)))
  /\ WF_dialogVars(part = "dialog" /\ Dialog!fatal_error)
  /\ WF_dialogVars(part = "dialog" /\ Dialog!Swap)
  /\ WF_dialogVars(part = "dialog" /\ Dialog!CloseMessage)
  /\ WF_clockVars(part = "clock" /\ Clk!Wake)
  /\ WF_clockVars(part = "clock" /\ Clk!Tick)
  /\ WF_configVars(part = "config" /\ (Cfg!ParseLine \/ Cfg!EndOfFile))

WaitsSpec == WaitsInit /\ [][WaitsNext]_allVars /\ Fairness

-----------------------------------------------------------------------------
(* Without overlapping calls pthread_once_fake keeps the promise of        *)
(* pthread_once: whoever has returned finds the work of the routine done.  *)
SerialImplementsOnce ==
  Promise!OnceInit
    /\ [][part = "serial" => Promise!OnceNext]_<<part, done, passed>>

(* Every wait that returned 0 was paid for by a post: no thread gets past  *)
(* the semaphore because it was destroyed, never created or full, and no   *)
(* unit is lost while it lives.  For semaphores the game creates with 0 the *)
(* shim is a semaphore of at most 0x7fffffff units.                        *)
SemaphoresCount ==
  [](Sem!TypeOK /\ Sem!NothingForNothing) /\ Sem!ImplementsSemaphore

(* However launches overlap, every thread runs the job it was created for, *)
(* in spite of the handle they share; of two threads, the one the game gave *)
(* the greater of its four priorities is the more urgent one to the kernel; *)
(* the handle names the caller's thread or one launched since; and the     *)
(* threads the kernel keeps without running them are those whose launch is *)
(* under way, and for ever those whose start failed.                       *)
LaunchesStayApart ==
  /\ Launch!TypeOK /\ Launch!RunsItsOwnJob /\ Launch!UrgencyFollowsPriority
  /\ Launch!HandleNamesALaterThread /\ Launch!FailedStartsAreForgotten

(* The dialog never draws into the buffer that was last set for the        *)
(* screen, and into the one still being scanned only right after a swap    *)
(* that was late; what reaches the screen was drawn before; no swap is     *)
(* made to freed memory, and the buffer on the screen is freed under it    *)
(* only in gxm_term, after the message was closed.                         *)
DialogShowsPictures ==
  /\ Dialog!TypeOK /\ Dialog!NoTearing
  /\ Dialog!OnlyPicturesShown /\ Dialog!ShowsFreedAtTheEnd

(* An answer of clock_gettime is the clock's reading and loses nothing of  *)
(* it; clock 0 never shows less than before, whatever the owner does to the *)
(* local time, and clock 1 only when he set it back in between; and        *)
(* nanosleep returns early by less than a microsecond and whole words of   *)
(* microseconds.                                                           *)
TimeIsTold ==
  /\ [](Clk!TypeOK /\ Clk!AnswerIsTheReading)
  /\ Clk!OnlyTheOwnerTurnsBack /\ Clk!SleepsLongEnough

(* Of several lines for a setting the last counts, and one that has none   *)
(* keeps its default; what a completed write_config stored is what the next *)
(* start reads, the empty mod file included; and after a write that was cut *)
(* short by a power loss or a full card, the settings before some point are *)
(* those that were being written and those after it the defaults.          *)
SettingsLast ==
  Cfg!TypeOK /\ Cfg!ReadsLastLine /\ Cfg!SavedIsRead /\ Cfg!DamageIsATail

(* Without edits, cut writes and failing fopen, the settings of the next   *)
(* start change only by SetAndroidCurrentLanguage, which truncates the     *)
(* file and writes back all of them.                                       *)
KeepsSettings == [][part = "player" => Player!ChangesLanguage]_(Player!Stored)

(* What a thread waits for comes.  The work of a routine of pthread_once   *)
(* with which somebody returned early is done in the end; nobody is left   *)
(* asleep in a semaphore that is gone, nor passed over for ever by one that *)
(* can be taken again and again; and a thread that was created ends up     *)
(* deleted, if it was started at all.                                      *)
WaitsEnd == EarlyIsMadeGood /\ Sem!WaitEnds /\ Launch!ThreadsGoAway

(* What one thread runs on its own ends.  The double buffer never makes the *)
(* loop of fatal_error wait for itself: every message that is closed ends  *)
(* the process, and so does one that was never shown.  A sleep whose time  *)
(* comes ends: the units asked for are those the kernel is asked for.  And *)
(* read_config ends when no fgets fails.                                   *)
LoopsEnd ==
  /\ part = "dialog" => Dialog!ProcessEnds
  /\ Clk!SleepsEnd
  /\ part = "config" => Cfg!ReadEnds
=============================================================================
