# A verification development for max_vita

max_vita is a wrapper that runs the Android build of Max Payne Mobile on the
PS Vita: it loads the game's ARM library, binds the library's imports to its own
functions, overwrites some of the library's functions with hooks, and jumps into
it. This directory holds TLA+ models of the parts of it that keep state, the TLC
configurations that check them on small instances, and proofs checked by TLAPS.

## 1. Inventory

| Component | Code | State | Operations | Talks to |
|---|---|---|---|---|
| pthread mutex shim | `imports.c` 90-139 | the word of each game mutex, host mutexes on the heap | init, destroy, lock, unlock | game threads (calls), host pthread |
| condition variable shim | `imports.c` 174-230 | the word of each game condition variable | init, destroy, wait, timedwait, signal, broadcast | game threads, host pthread, the mutex shim's words |
| semaphores, once, thread creation | `imports.c` 141-172, 232-244 | kernel semaphores, the once word | init, post, wait, trywait, destroy; once; create | game threads, kernel |
| clock and sleep | `imports.c` 246-276 | none | `clock_gettime`, `nanosleep` | kernel |
| GL hooks and import table | `imports.c` 285-633, `hooks/opengl.c` | `dynlib_functions`, the game's shader strings | `update_imports`, texture hooks, memory functions, `patch_opengl` | config, loader, vitaGL, newlib, the libc bridge |
| library loader | `so_util.c` | blocks, ELF pointers into the temporary block, code memory | `so_load`, `so_resolve`, `so_excute_init_array`, `so_free_temp`, `so_flush_caches`, `so_find_addr`, `hook_thumb`, `hook_arm` | main, patches, kernel allocator |
| boot sequence | `main.c` | the stage of `main` | the checks, then the fixed sequence of calls | everything |
| configuration file | `config.c`, `config.h` | `config`, `config.txt` | `read_config`, `write_config` | main, language hooks |
| OpenAL hooks | `hooks/openal.c` | `last_stopped_src` | stop, delete buffers, create context | game threads, OpenAL |
| thread launch and device hooks | `hooks/game.c` 40-149, 324-437 | one static thread handle, pointers into the library | `OS_ThreadLaunch`, `AND_SystemInitialize`, `patch_game` | game threads, loader, kernel |
| savegame storage | `hooks/game.c` 152-192 | savegame files | read, write | game, the host's files |
| gamepad and touch input | `hooks/game.c` 200-301 | static pad and touch copies, the crouch latch | type, buttons, axes, crouch | game, controllers, touch screen |
| FIOS2 set-up | `fios.c`, `fios.h` | the RAM cache buffer | init, terminate | main, `ExitAndroidGame` |
| fatal error dialog | `error.c` | two display buffers, front and back index | `fatal_error` | every check, GXM |

What is hard here:

* *Concurrency.* The game is multithreaded and the shims were written as if it
  was not: the first use of a statically initialised mutex or condition variable
  tests, allocates and stores without a lock; the OpenAL hooks share one static
  variable; all threads share one handle.
* *Order.* `main` works only in one order: settings before imports, imports before
  relocation, relocation and hooks before the cache flush, the flush before the
  first constructor, constructors before the section headers are freed, all
  symbol lookups (which may end in `fatal_error`, which initialises GXM) before
  vitaGL initialises GXM.
* *Partial failure.* `so_load` takes three blocks and gives them back through a
  chain of labels; `fatal_error` may come at a dozen places; a savegame is read by four
  calls of the host any of which may fail, and the settings by a loop that a failing
  `fgets` never leaves.
* *Crashes.* Two files are rewritten in place, `config.txt` and a savegame.
* *Numbers.* A cache size and a length of sleep are products in 32 bits; axes,
  margins and thread priorities are rescaled.

What makes each component correct: a lock excludes and is given to somebody; a
wakeup is not lost; an error return leaves nothing allocated and is seen by its
caller; a success has everything in place; game code runs only in its final form;
a deletion deletes what was asked; a settings or savegame file survives.
`PROJECT.json` lists every hazard with its line and the properties that watch it.

## 2. Modules

| Module | Models | Extends or instantiates |
|---|---|---|
| `Mutex` | what the game expects of a mutex (abstract) | |
| `MutexShim` | `pthread_mutex_*_fake` | `Mutex` (refinement) |
| `CondShim` | `pthread_cond_*_fake` under a monitor | uses what `Mutex` promises |
| `SoLoad` | `so_load` | |
| `Boot` | `main`, with `fatal_error`, `fios_init`, `read_config` and the patches as stages | `SoLoad`, every step of it |
| `AlHooks` | `alSourceStopHook`, `alDeleteBuffersHook` | |
| `SoResolve` | `so_resolve` | |
| `Hooks` | `hook_thumb` | |
| `GameHooks` | `patch_game`, `so_find_addr`, `so_excute_init_array`, `AND_SystemInitialize` | |
| `Once`, `OnceShim` | what `pthread_once` promises (abstract); `pthread_once_fake` | `Once` (refinement) |
| `Semaphore`, `SemShim` | a counting semaphore (abstract); `sem_*_fake` | `Semaphore` (refinement) |
| `SaveFile`, `Storage` | what the game expects of a savegame (abstract); reading and writing one | `SaveFile` (refinement) |
| `Settings`, `ConfigFile` | what the player expects of the settings (abstract); `read_config`, `write_config` and their callers | `Settings` (refinement) |
| `ThreadLaunch` | `OS_ThreadLaunch`, `thread_stub` | |
| `Fios` | `fios_init`, `fios_terminate`, `ExitAndroidGame` | |
| `ErrorDialog` | the loop of `fatal_error`, `gxm_*` | |
| `Input` | `WarGamepad_*`, `MaxPayne_ConfiguredInput_readCrouch` | |
| `Clock` | `clock_gettime`, `nanosleep` | |
| `Imports` | `dynlib_functions`, `update_imports`, the texture hooks | |
| `Shaders` | the string arrays of `hooks/opengl.c` and `patch_opengl` | |
| `Memory` | `sceClibMemclr`, `sceClibMemset2` and what the table binds to them | |
| `MCMutexShim`, `MCCondShim`, `MCBoot`, `MCAlHooks` | model values and symmetry for TLC | the module of that name |
| `MCSoUtil` | the parts of `so_util.c`, one at a time | `SoLoad`, `SoResolve`, `Hooks` |
| `Services` | what the game asks for and gets at once, one at a time | `Storage`, and instances of `Fios`, `Input`, `Imports`, `Shaders`, `Memory`, `GameHooks` |
| `Waits` | what has to end, one at a time | `OnceShim`, and instances of `SemShim`, `ThreadLaunch`, `ErrorDialog`, `Clock`, `ConfigFile` |
| `MCServices`, `MCWaits` | values for TLC | the module of that name |
| `MutexShimProofs`, `CondShimProofs`, `AlHooksProofs`, `OnceShimProofs`, `ServicesProofs`, `WaitsProofs` | theorems and proofs | the module of that name |
| `BootProofs` | theorems and proofs about `SoLoad` and `Boot` | `Boot` |
| `SoUtilProofs` | theorems and proofs about `SoResolve` and `Hooks` | both |

`MCSoUtil`, `Services` and `Waits` hold several components that share no variable. A
behaviour of theirs is one of one component: the variable `part` is chosen at the
start and says which one moves, and the others stay in a state they start in. (A
component may be two parts: `Storage` with and without failures of `fclose`, `OnceShim`
with and without overlapping calls, `ConfigFile` with all that can go wrong and with
errors of `fgets` only, and `Input`, whose pads and whose crouch latch do not meet.) That
is the sum of their state spaces, and nothing is lost by it, because components
without common state cannot disturb one another. Fairness is asked of a component
only while it is the one that moves. What is asked of a component is stated in its
module, property by property and each with its own comment; these three modules join
those that belong together into the property a run checks:

| Property of a run | Joins |
|---|---|
| `SoContract` | `FailureIsClean`, `SuccessIsComplete`, `OrderedFaultIsReported` (`SoLoad`) |
| `HooksAreExact` | `Redirected`, `NeighboursCut` (`Hooks`) |
| `BootAnswers` | `BootEnds`, `RefusalIsShown` (`Boot`) |
| `OnceKept` | `RunsOnce`, `EarlyOnlyWhileRunning` (`OnceShim`) |
| `CacheIsSound` | the type invariant, `CacheIsBacked`, `NoUseAfterFree`, `FreedOnce`, `StoragesSuffice` (`Fios`) |
| `AnswersAreTrue` | the type invariant, `AnswersAreOfThePortRead`, `MarginsAreDead`, `CrouchTogglesOnPress` (`Input`) |
| `TakesWhatItIsGiven` | the type invariants, `ObjectsStayHome` (`Imports`), `AsPromised` (`Memory`) |
| `TexturesAsConfigured` | `NoMipmaps`, `Trilinear` (`Imports`) |
| `VariantsCompile` | the type invariant, `VariantsDeclareWhatTheyUse`, `VariantsAreCg`, `ColorIsAddedOnDemand` (`Shaders`) |
| `PatchesLand` | the type invariant, `ReplacementsAreReady`, `WrittenWhereMeant`, `ConstructorsInOrder` (`GameHooks`) |
| `SemaphoresCount` | the type invariant, `NothingForNothing`, `ImplementsSemaphore` (`SemShim`) |
| `LaunchesStayApart` | the type invariant, `RunsItsOwnJob`, `UrgencyFollowsPriority`, `HandleNamesALaterThread`, `FailedStartsAreForgotten` (`ThreadLaunch`) |
| `DialogShowsPictures` | the type invariant, `NoTearing`, `OnlyPicturesShown`, `ShowsFreedAtTheEnd` (`ErrorDialog`) |
| `TimeIsTold` | the type invariant, `AnswerIsTheReading`, `OnlyTheOwnerTurnsBack`, `SleepsLongEnough` (`Clock`) |
| `SettingsLast` | the type invariant, `ReadsLastLine`, `SavedIsRead`, `DamageIsATail` (`ConfigFile`) |
| `WaitsEnd` | `EarlyIsMadeGood` (`OnceShim`), `WaitEnds` (`SemShim`), `ThreadsGoAway` (`ThreadLaunch`) |
| `LoopsEnd` | `ProcessEnds` (`ErrorDialog`), `SleepsEnd` (`Clock`), `ReadEnds` (`ConfigFile`) |

The type invariants of the other modules are not run by themselves: they are
theorems (section 4).

Definitions under a comment that begins with "Mutant" are variants with a
plausible bug; no specification uses them. There is one for each property of each
run, which TLC finds violated when the variant takes the definition's place.

### MutexShim

One action per step that another thread can see: the test of the word
(`SeesInitialiser`, `SeesObject`), `calloc` (`CallocFails`, `MakeObject`), the store
`*uid = m` (`Publish`), the second load of `*uid` (`Load`) and the host call
(`HostLock`, `HostUnlock`). The word is not volatile, so `Load` may keep the value
tested before or load again. `MakeObject` may yield a mutex that was not set up,
because `ret < 0` does not see the host's positive error codes. The recursive
initialiser has no effect because `pthread_mutex_init(m, NULL)` overwrites it.
`held` is what the game believes it holds; `raced` marks the cells whose first
use was contended, until everybody has left them.

The game is constrained as POSIX constrains it: init and destroy do not overlap
other uses, only a holder unlocks, an initialised mutex is not initialised
again, and a thread holds one cell at a time. `SerialFirstUse` is the further
discipline under which the shim is correct; `Relock` lets a holder of a recursive
mutex lock it again. Error-checking mutexes (0x8000) are not used.

### CondShim

The same first-use steps, and a host condition variable that is a set of
sleepers. It is driven by a monitor: waiters sleep until a flag is set and take
it, posters set it and notify, inside their critical section or after it
(`LockedNotify`). The host's own initialisation of a condition variable is taken
to succeed; `calloc` may fail. Signals wake one sleeper, timeouts may strike any
`Timed` sleeper.

### SoLoad and Boot

A library is a record of what `so_load` looks at (`Files`): the magic number, the kinds
of its loadable segments in order, whether it has `.dynsym` and `.dynstr`. Addresses are
abstracted to the block they lie in, so that "the data block lies right after the text"
is "the place at `data_addr` is not taken yet" (`filled`). Every allocation may fail.
The kernel's blocks are tested for; the `malloc` of line 152 is not, and the `memset`
after it ends the program (`FillCrashes`). `Boot` extends `SoLoad`: its stage `load`
takes `so_load`'s steps one at a time. Of the settings it keeps the ones
`update_imports` looks at; the three patches are stages of their own, and each may end
in `fatal_error` when a symbol is missing (`so_find_addr` is that check); `dirty` is set
by everything that writes code memory. `fatal_error` never returns to its caller.

A start of the program has more ends than the game and a message, and `Boot` has them
all: `read_config` never leaves its loop after a failing `fgets` (`ReadError`, the stage
`hung`); a library that is given up with result 0 goes on to `so_resolve`, which reads
headers that were freed (`Crash`); and when `sceMsgDialogInit` fails the process ends in
silence (`MsgDialogInit`, the stage `silent`). `BootAnswers` says that there is no other.

### SoResolve

A library has its section headers with their relocations (`SectionTables`) and its
dynamic symbols (`SymbolTables`). The two nested loops are the counters `i` and `j`;
each relocation type has its action: `AtRelocation` (the guard) and `Store` (the write).
A slot keeps its contents as a number modulo `Words`, because `R_ARM_ABS32` and
`R_ARM_RELATIVE` add to what is there. `Resolutions` and `Relocated` state independently
of the loops what a relocation asks for (as sets of admissible values, not as a search),
and `ResolvedAsLinked` compares. Where several relocations share a slot the last of them
counts (`Decides`): exactly, if it stores a value of its own; not if it adds to the
slot, which an earlier one has changed by then. `R_ARM_ABS32` with an undefined symbol,
which line 203 would take for one at `text_base`, decides nothing either (`OwnSymbol`).
These two cases are asked nothing of in their own slot and do not excuse any other. A
library whose symbols are missing still loads; its slot holds its own offset, as the
comment on line 221 intends.

### Hooks

Code memory is a sequence of halfwords. A hook is two instructions' worth of jump,
preceded by a NOP when the function does not start at a word, so it takes four or five
halfwords; the layout of functions is a constant. The processor is external: `JumpsAt`
says how `LDR PC, [PC]` finds its literal, which is why line 45 matters. Nothing in the
code knows how long a function is, so a hook of a short one runs over what follows it.
`NeighboursCut` says that a function which is not hooked has lost exactly the halfwords
that such hooks took, and none to any other; `Redirected` holds of a hook until a later
one runs into its own halfwords (`spoilt`). A null address, line 42, does nothing.
`hook_arm` is called by nobody.

### AlHooks

OpenAL is external: sources with a queue, a number of processed buffers and a
type, a mixer that plays, and calls that fail as a whole. The two hooks are
modelled read by read of `last_stopped_src`. `stopped[t]` is the source whose stop
was the thread's previous call, which is what the comment in the code counts on;
`stale` records that a hook has ever read anything else. Nothing is said of what comes
after that: a hook that has looked at another thread's stop unqueues buffers of a source
that still plays, and what is deleted then depends on OpenAL. The runs show how far the
comment carries the code, not that a game keeps to it. `alDeleteSources` is not
modelled: no hook sees it.

### GameHooks

`patch_game` is a sequence of steps, each of which hooks a function or looks up an
address, and which sequence it is depends on two settings. `ReplacementsAreReady` is
about the order that looks wrong at first: the hook of `AND_SystemInitialize` is written
before the variables it stores to are looked up, which is safe only because no code of
the library runs in between. Symbols may be absent (then `fatal_error`), undefined (then
`so_find_addr` returns `text_base` and the hook lands there, which `WrittenWhereMeant`
says of that place and of no other) or repeated. `GameHooksAssumption` is what the
linker gives: symbols of different names lie in different places, unless they are
undefined; the addresses 0 to `LastAddress` are places in the library and 0 is
`text_base`. A constructor is named by its section and its place in it, so that one that
is listed twice is called twice.

### OnceShim and SemShim

A thread has a stack of calls of `pthread_once`, since a routine may call it with
other words. The word says *started*, so a second caller may return early
(`EarlyOnlyWhileRunning`); without overlapping calls (`Overlap` FALSE) the shim
implements `Once`. The semaphores are numbers of kernel semaphores that start at 0
whatever `sem_init` was asked for; the kernel refuses a full semaphore and sends
waiters back when one is deleted. `NothingForNothing` counts units against posts from 0,
whatever value the game asked for (`Wanted`); for those who ask for 0 the shim
implements `Semaphore`.

### Storage and ConfigFile

Both truncate a file and write it again through a buffer that `fclose` empties. A
savegame is a version and the number of its blocks that are on the card; `fopen`,
`ftell`, `malloc`, `fread`, `fwrite` and `fclose` may fail and power may go at any step.
`AckedSurvives` says what a result of 1 is worth: the savegame is on the card, whole, or
it is part of a later one that was begun and did not get a 1 itself, or its own `fclose`
has failed, which the code does not look at. A read is its five calls one after the
other; `ReadsAllOrNothing` says what it returns when one of them fails, that what it
gives is the whole file, and that it leaves no file open and no block behind. When
`fclose` does not fail, `Storage` implements `SaveFile`.

`config.txt` is a sequence of lines, each a setting and a number. A write that is
cut short leaves whole lines and at most one number cut short (`Beginnings`), and
`DamageIsATail` says what the next start makes of that. Without edits, cuts and
failing `fopen` the file implements `Settings`. Numbers are read as they are printed:
`ConfigFileAssumption` says that printing what was printed changes nothing (`Printed`),
that the defaults and the languages print as themselves and that only 0 prints as 0.
`mod_file` comes last in `Order` and its line is left out when it is empty (`Kept`). A
failing `fgets` never ends the loop of `read_config` (`ReadError`), so `ReadEnds` is
asked only where none fails; and what a user has written into the file that is no
setting is lost at the next write, which is why `Settings` has no edits.

### ThreadLaunch, Fios, ErrorDialog, Input, Clock

`ThreadLaunch` has several callers of `OS_ThreadLaunch` at once, and thread ids that are
used again; the handle is one variable, the job and priority are each thread's own. A
caller is given no handle of its own: `HandleNamesALaterThread` says that the one there
is names its thread or one launched since, and no more than that holds. `stranded` are
the threads whose `sceKernelStartThread` failed, which the code does not look at: they
stay for ever, and `FailedStartsAreForgotten` says that no others do. `Fios` takes the
two numbers of the cache from the settings and multiplies them modulo `Word`; its
storages are the macros of `fios.h` with the real numbers. Two threads may call
`ExitAndroidGame` together, and the buffer can then be freed twice (`overlap`);
`FreedOnce` says that it takes that. `ErrorDialog` runs the loop of `fatal_error` beside
the display's thread, which makes the queued swaps when it likes, before or after the
loop's vertical blank. `gxm_term` is three steps: the end of GXM and its queue, the
buffers freed one by one, and the end of the process; between the last two the screen
shows memory that is free (`ShowsFreedAtTheEnd`). `Input` keeps, beside the one static
pad, what each port showed when it was last copied (`WarGamepad_GetGamepadType` refuses
ports it does not know, the other two do not), and compares the answers with the port
that was copied last. `Clock` counts microseconds in a small word; a second has four of
them. `nanosleep` writes through `rem` before it sleeps and faults when that is NULL
(`NanosleepFaults`); what the word drops of a long request is part of `SleepsLongEnough`
(`Dropped`).

### Imports, Shaders, Memory

`Imports` asks whose object meets whose function: a file, block, thread or texture
is marked with the library that made it. `ObjectsStayHome` says when a function of
another library that looks at it is handed it: exactly when the game prints to a file it
opened or to a stream of `__sF`, because `fprintf` alone of the file functions is
newlib's. The texture hooks stand in the table, so that what the game calls by another
name (`glTexParameterf`) or by a pointer `eglGetProcAddress` gave it passes them by
(`Replaced`). `Shaders` keeps of a piece of shader text the
language and the names it declares and uses, and makes every variant of every pixel
shader in `data/maxpayne/es2`. `Memory` compares the memory functions of the table,
with the ARM ABI's own order of arguments, with what C promises.

## 3. Runs

| Run | Instance | Shows |
|---|---|---|
| `mutex_race` | 3 threads, 1 cell, 3 host mutexes, contended first use | `MutualExclusion`: two holders only in the fallout of a race; `QuietCellIsFree`: the fallout ends; `LeakOnlyInRace`; the inductive invariant |
| `mutex_serial` | 2 threads, 2 cells (one recursive), 3 host mutexes, `SerialFirstUse` | `RefinesMutex`: the shim implements `Mutex`; `LockProgress` |
| `mutex_recursive` | 2 threads, 1 recursive cell, `Relock` | `RecursiveRelock` **violated**: a holder of a recursive mutex waits for itself |
| `cond_race` | 2 waiters (one timed), 2 posters, 3 objects, 2 posts, 1 failed allocation | `SleepersReachable`, `NoLostWakeup` |
| `cond_locked` | 2 waiters, 2 posters, 2 objects, 2 posts, 1 failed allocation, notifying inside | `LockedNotifyIsSafe`: no race is possible; `PostTaken`: every post is taken |
| `so_util` | libraries with at most four segments; two relocation tables and a section that is none, up to two and one relocations, two slots, three symbols, 16 addresses; five functions, both alignments, one too short, each hooked any number of times | `SoContract`; `ResolvedAsLinked`; `HooksAreExact` |
| `so_load_order` | the same | `FaultIsReported` **violated**: data before text is given up with result 0 |
| `boot` | all libraries with at most three segments, three settings | `CodeIsFinal`, `HeadersAlive`, `NothingLeftOver`, `GxmTakenOnce`; liveness: `BootAnswers` |
| `al_disciplined` | 1 thread, 2 sources, 3 buffers | `StopWasRightBefore`, `DeletesWhatWasAsked` |
| `al_stray` | 2 threads, 2 sources, 2 buffers, stray stops | `DeletesWhatWasAsked` until a hook has used a stale stop |
| `services` | savegames of 0, 1 and 3 blocks; 2 exiting threads, 6 numbers in a word of 16; 2 ports, 2 pads, 3 states of the screen; one object at a time, 2 texture levels, 3 filters; all shader variants; 5 bytes of memory; 37 symbol tables, 4 section tables, both settings | `AckedSurvives`, `ReadsAllOrNothing`, `SoundImplementsSaveFile`; `CacheIsSound`; `AnswersAreTrue`; `TakesWhatItIsGiven`, `TexturesAsConfigured`; `VariantsCompile`; `PatchesLand` |
| `waits` | 2 threads, 2 once words, 1 semaphore of at most 2 units, asked for with 0 and with 1; 2 callers, 2 thread ids, 3 jobs; 2 display buffers; 6 sleeps in a word of 8; 4 settings, 4 files | `OnceKept`, `SerialImplementsOnce`; `SemaphoresCount`; `LaunchesStayApart`; `DialogShowsPictures`; `TimeIsTold`; `SettingsLast`, `KeepsSettings`; liveness: `WaitsEnd`, `LoopsEnd` |

*Bounds.* The mutex race is between creators of one cell: three of them, so that
one can lose while another holds. Cells do not share state except the heap, which
`mutex_serial` exercises with two. Three host objects let a loser's object be
lost, freed memory be reused and the heap run out. `MaxPosts` and `MaxFails` bound
histories only. Four segments (three inside `boot`) cover a data segment before
the text, two texts and two data segments; the loader is written for one of each
(`Expected`). Two relocations in one table and one in the other meet in one slot
and in different ones, within a table and across; 16 addresses with `text_base` 8
make additions wrap. The hooked functions are packed without gaps, so that every
halfword too many is seen, and the hook of the short one takes the first of its
neighbour's. The proofs have none of these bounds.

In `services`, savegames of no, one and three blocks are empty, all or nothing, and cut
in two places; the products of the cache's numbers are 0, fit, just do not fit and are
negative; the touches lie on both sides of each boundary; the symbol tables are the full
one and each one that differs from it in one symbol; one level beside the first and the
three filters tell each texture hook from none and from the other. In `waits`, two
threads and two once words give overlapping calls and routines that call each other's
word; the semaphore can be full, be destroyed under its waiters and be made again
(`MaxLives`, `MaxPosts`); two ids for three jobs make ids be used again; the sleeps lie
below, at and above one word, and `MaxTicks` and `MaxWall` bound time. Between them the
four files of `config.txt` have a setting twice, a line that means nothing, a language
out of range, a mod that does not exist and a number with more digits than are printed.

*Fairness.* `mutex_serial`: every thread in the shim runs on, and a holder
unlocks. `cond_locked`: every thread runs on; no timeout, init or destroy is owed.
Both are what the Vita's preemptive scheduler gives to threads with something to
do. `boot`: `main` is not stopped in the middle and the user closes the dialog; it is not
assumed that a call which may fail does not.
`waits`: a thread in the shim of `pthread_once` runs on, and a routine that makes
calls of its own ends (strong fairness, since it is not always the innermost call);
the kernel serves a waiter that again and again could be served (strong fairness:
semaphores of the console have a queue), and sends the waiters of a deleted semaphore
back; callers of `OS_ThreadLaunch` run on, launched threads run and return, as the
comment "one-shot" says; `fatal_error` and the display's thread run on and the user
closes the message; time passes and a delay that is over ends; `main` is not stopped
while it reads.

*Deadlock* is checked except where the code ends: in `cond_*` (when all posts are
taken the waiters sleep for ever), `boot` (the process has exited), `so_util` and
`so_load_order` (the function has returned), `services` (the process has exited, or
`patch_game` ended in `fatal_error`) and `waits` (the process has exited; every thread
may wait for a semaphore nobody posts).

## 4. What is proved

For every value of the constants that satisfies the named assumptions
(`ShimAssumption`, `CondAssumption`, `ImageAssumption`, `ConfigAssumption`,
`ResolveAssumption`, `HookAssumption`, `AlAssumption`, `StorageAssumption`,
`OnceAssumption`; the other components' assumptions are made where they are composed,
as `SemConstants`, `LaunchConstants`, `DialogConstants`, `ClockConstants` and
`ConfigConstants` in `Waits`, `FiosConstants`, `InputConstants`, `ImportConstants`,
`MemoryConstants` and `GameConstants` in `Services`):

* `MutexShimProofs`: `IInv` is inductive. Mutual exclusion alone is not: it needs
  that different cells never share a host mutex (`Separation`), that the owner of
  the mutex a word points to holds that cell (`OwnerHolds`), and that a cell whose
  first use was not contended has one pointer that everybody in it works with
  (`OnePointer`). `QuietCellIsFree` follows from `OwnerHolds`, and so holds in spite
  of races. `LeakOnlyInRace` is an action property proved from the invariant. Under
  `SerialFirstUse`, `Serial` makes `raced` empty and the shim refines `Mutex`: its
  `HostLock` and `HostUnlock` are `Acquire` and `Release`, all else is a stutter.
* `CondShimProofs`: `NoLostWakeup` is an invariant with the state of the calls, the
  pointers, the single creator and the monitor's critical sections beside it.
  With `LockedNotify` two creators exclude each other by the game's mutex.
* `BootProofs`: of `so_load`, `Ledger` says at every label which blocks are allocated,
  from which the two contracts of the return value follow. Of `main`, `BootInv` says of
  every stage what the later ones rely on (`MemoryByStage`, `CodeByStage`, `GxmByStage`),
  and in particular that whoever gets past `so_resolve` has the section headers.
* `SoUtilProofs`: `ResolvedAsLinked` speaks of the end of the loops only; `HalfWay`
  says of every slot that it is final when its relocation is behind the loop's
  place (`Past`) and untouched when it is ahead. Lemma `Landed` is the common part
  of the five relocating actions; `ImportFound` says that the linear search of the
  import table finds an entry of the name if there is one. `Redirected` is
  inductive because whether a call arrives depends on the hook's footprint alone
  (`FootprintDecides`), and a hook that is not `spoilt` has its own to itself;
  `NeighboursCut` follows from `FootprintsTaken`, which says of every halfword of the text
  that it is changed if and only if it is in the footprint of a hook. There is no
  condition on the layout beyond `HookAssumption`: footprints lie in the text, and
  functions apart.
* `AlHooksProofs`: `TypeOK` for any threads and any stops: the queue of a source keeps
  distinct buffers that exist, whatever source `last_stopped_src` names when a hook
  looks at it (`AlInv` adds the domains; `QueueAppends`, `QueueShortens` and
  `QueueOutlives` are the three things that happen to a queue). For one thread without
  stray stops, any sources and any buffers,
  `StopWasRightBefore`. Its invariant `StopInv` says at every read of
  `last_stopped_src` that it is the source whose stop came right before, or none.
  `DeletesWhatWasAsked` holds for any threads, until a hook has used a stale stop. Its
  invariant `AskInv` needs that two threads never delete one buffer (`AskedApart`), that
  no buffer is in two queues (`QueuesApart`), that a source which a thread stops or has
  just stopped is no other thread's (`HeldByOne`) and has processed its whole queue
  (`StoppedAtRest`), and at each line of the hook that its array names what the game asked
  for, attached to the stopped source or to none (`AskedFor`).
* `ServicesProofs`, savegames: `StorageInv` says of each place in a call what is on the
  card: between opening and closing, the blocks of what is being written, of which
  `fwrite` has taken at least as many as are there (`Writing`; nothing is, elsewhere:
  `AtRest`), and what the result will be worth (`Answer`). Of a read, `Reading` says at
  each of its calls what the length, the block and the result are. With them
  `AckedSurvives` and `ReadsAllOrNothing` are inductive, and it follows, when
  `CloseFails` is FALSE, that every step is a step of `SaveFile` or none;
  `SoundImplementsSaveFile` is the same for the run.
* `ServicesProofs`, FIOS2: `FiosInv` says which state of the buffer belongs to which
  place in `main` and in the exiting threads (`SetUp`, `Frees`), and that the second
  free needs an overlap (`OneExit`). With an overlap the theorem claims nothing of the
  frees. The four storages are computed from the macros.
* `ServicesProofs`, input: `CopiesAgree` relates the static pad to what the port it was
  copied from showed then; that a game which asks about another port is told of this one
  is part of what is proved. `AnswersTrue` has two hypotheses beside the assumption.
  `Panel.minX = 0`: lines 246 and 250 measure the margins from 0 and not from `minX`; on
  the console it is 0. At most one value of the control besides 0: line 296 compares
  with the last value, so that a change from one to another would toggle as well, and
  `getButton` is only ever tested against 0.
* `ServicesProofs`, imports: lemma `TableIs` says of the whole table which library its
  names lead to, `Hooking` what `so_find_import` and the store change. `ImportsInv`
  carries that through `update_imports` (`Plain`, `Adapted`) and `so_resolve` (`Bound`)
  to the running game, whose objects then all come from the library their kind belongs
  to; lemma `PrintingIsNewlibs` says that of the functions that use a file `fprintf`
  alone is another library's.
* `ServicesProofs`, memory and shaders: `MemoryInv` is `AsPromised` with the types. Of the
  shaders, `Provides` says what the templates have in common, so that `VariantsCompile`
  is proved of each variant by what its keywords are replaced by (`VariantIsSound`) and
  not by going through all of them; `ShaderInv` says that what is not waiting to be
  replaced is Cg already.
* `ServicesProofs`, hooks: `GamInv` says of every step of `patch_game` behind `at` that
  its pointer or its hook is in place and of every other that nothing was written
  (`PatchInv`), and that the hook of an undefined function is at `text_base`
  (`WrittenSoFar`), for each of the four sequences of steps, and that the constructors
  called so far are those before the loops' place (`CalledSoFar`). Any symbol tables and
  section tables will do.
* `WaitsProofs`, semaphores: `SemInv` adds to the count of units that a semaphore that is
  not there has none. `SemRefines` maps each step to one of `Semaphore`.
* `WaitsProofs`, once: without overlapping calls a word is in one call at a time
  (`OneCall`), so that whoever returns does so with the routine done (`DoneByThen`).
* `WaitsProofs`, launches: `LaunchInv` says that launches under way have different threads
  (`Apart`) which were given their own job (`GivenItsJob`) and are as urgent as it asks for
  (`Created`); that the handle names a thread of `since` and that the forgotten threads are
  the stranded ones is inductive with that.
* `WaitsProofs`, dialog: `DialogInv` follows the two indices, the queued swap and the
  buffer that is scanned. It is proved for two or more buffers and one pending swap, which
  are lines 32 and 33 of `error.c`. Both matter: with one buffer the loop draws what is
  shown, and with `MaxPending` = 2 TLC finds a buffer that is drawn while it is set for
  the screen.
* `WaitsProofs`, clocks: `TimeTold` is arithmetic, for any units and words: a reading is
  divided and put together again, the division of a later reading is not smaller
  (`DivisionMonotone`), and a sleep is as long as was asked but for a fraction of a
  microsecond and the whole words that the conversion to 32 bits drops (`SleepIsLong`).
* `WaitsProofs`, settings: `ConfigInv` says what is in memory at each place in the
  program (`InMemory`: half-way through `read_config`, what the lines read so far mean)
  and what is on the card (`OnCard`). Lemma `MeaningOfText` says that what was written
  means what was in memory, but for the digits that are not printed;
  `BeginningsAreDamaged` what a file that was cut short may mean. In the part `player`,
  without edits, cuts and failing `fopen`, `PlayInv` adds that memory and file agree,
  and the file implements `Settings`.
* `OnceShimProofs`: `OnceInv` counts the starts of a routine by the word (`Started`),
  and says that whoever has passed the test with the word set, or has returned, did so
  after the routine was started and while it runs or when it is done (`PastTheTest`,
  `Passed`). `RunsOnce` and `EarlyOnlyWhileRunning` follow, for any number of threads
  and words and any nesting of calls.

Hypotheses beside the assumptions, all named above: `SerialFirstUse` for the refinement
of the mutex; one thread without stray stops for `StopWasRightBefore`; `Panel.minX = 0`
and one value of `getButton` for `AnswersTrue`; several buffers and one pending swap for
`DialogShown`. The others need none; where a property excuses something it says so in
itself, and section 6 lists what is excused.

Every safety property and every action property of the passing runs is a theorem.
Those that join properties of several kinds are theorems about `WaitsSpec` or
`ServicesSpec`, which hold for each part by the argument of section 2: a step of one part
leaves the variables of the others alone.

Only model-checked: the liveness properties `LockProgress`, `PostTaken`, `BootAnswers`,
`WaitsEnd` and `LoopsEnd`, because the prover does not reason about fairness and
ENABLED.

## 5. Disagreements met

Shown by a run:

* `imports.c:97` against the comment on line 122: recursive mutexes are not
  (`mutex_recursive`).
* `so_util.c:133` against `README.md:39`: a library refused with result 0
  (`so_load_order`). The real game's library begins with its text and does not
  meet this.

Seen while modelling, and not shown by a run of their own:

* `main.c:104` says that the settings are written "if it's missing"; line 106 writes
  them whenever `fopen` fails, so a file that could not be opened once is replaced by
  the defaults.
* `hooks/game.c:422` says that the mod becomes the priority archive before the archives
  are loaded; lines 326-328 load first.
* `imports.c:50` says that the fake streams are used to find out whether the game
  prints to stdout or stderr; nothing does that, and `fprintf` (line 464) is newlib's own.

## 6. Not modelled, and what is left

* `elf.h` is a third-party header of 3932 lines of constants and structures. The types of
  `SoLoad` and `SoResolve` stand for the structures `so_util.c` reads and for the ARM
  relocation types, of which it knows four (`RelTypes`); the rest, for other processors and
  systems, nothing uses.
* `libc_bridge` and the data files other than the pixel shaders: generated or assets.
* `util.c`, the device getters, the file names and paths of `hooks/game.c`, the GL
  calls that are passed on, `pthread_create_fake`, the log: they keep no state.
* `hook_arm`: called by nothing. `stat_hook`: it fills in one field at a fixed offset,
  and which fields the game reads is not in the repository.
* The thread-specific data functions and the attributes of mutexes are stubs; whether
  the game relies on them is not in the repository either.
* `R_File_setFileSystemRoot`: three calls into the game, in an order.
* `dram_alloc` and `gxm_init` do not look at the results of their allocations; what the
  console does then is not known, so the allocations of `ErrorDialog` succeed.

Some harm the code does not prevent, and no property can say that it does. These are
modelled, and the properties say where it ends and not that it is absent:

* Two threads that make the same first use of a mutex or a condition variable
  (`raced`), and overlapping calls of `pthread_once`: `MutualExclusion`, `NoLostWakeup`
  and `SerialImplementsOnce` are asked of everything else.
* A deletion after another thread's stop (`stale`): `DeletesWhatWasAsked` ends there.
* Two threads that exit at once (`overlap`): the buffer may be freed twice.
* An error of `fgets` in `read_config`: the start hangs. `BootEnds` names this end, and
  `ReadEnds` is asked where there is none.
* What the user writes into `config.txt` that is no setting: lost at the next write.
  `SettingsLast` holds with edits, `KeepsSettings` without.
* A slot that two relocations add to: the sum of both, of which nothing is asked.
* A savegame whose `fclose` failed or whose write was cut off: `AckedSurvives` says that
  nothing else damages one, and with power losses the old savegame is gone.

Worth doing next: `CondShim` over `MutexShim` in place of the abstract mutex, with the
theorem that `NoLostWakeup` survives it; `mutex_serial`'s `LockProgress` and the other
liveness properties by hand, down to lemmas without fairness that the prover can take.
