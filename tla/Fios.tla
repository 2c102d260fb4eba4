-------------------------------- MODULE Fios --------------------------------
(***************************************************************************)
(* The FIOS2 set-up (fios.c, fios.h): fios_init, called from main, and     *)
(* fios_terminate, called from ExitAndroidGame by whatever threads of the  *)
(* game exit it.  The cache's size is a product of two numbers of the      *)
(* configuration file, in 32 bits, of which Word is the modulus.           *)
(*                                                                         *)
(* FIOS2 and the heap are external: every call may fail, and memalign of 0 *)
(* bytes may give a pointer to nothing.                                    *)
(***************************************************************************)
EXTENDS Integers

CONSTANTS
  Exiters,     \* threads of the game that may call ExitAndroidGame
  Numbers,     \* what io_cache_block_num and io_cache_block_size may be
  Word         \* 2^32

FiosAssumption == Numbers \subseteq Int /\ Word \in Nat \ {0}

VARIABLES
  num,      \* config.io_cache_block_num
  size,     \* config.io_cache_block_size
  fios,     \* "off", "up" or "terminated"
  room,     \* how many bytes g_RamCacheWorkBuffer points to, or -1
  buffer,   \* "null", "held" or "freed"
  filter,   \* the work buffer size the cache was added with, or -1
  pc,       \* where main is
  exit,     \* exit[t]: where thread t is in ExitAndroidGame
  freed,    \* how often the buffer was given to free
  overlap   \* history: a thread called ExitAndroidGame while another was in

vars == <<num, size, fios, room, buffer, filter, pc, exit, freed, overlap>>

(* SCE_FIOS_ALIGN_UP for an alignment that is a power of two, and the      *)
(* number of bytes FIOS2 wants for num objects: the objects and a bit map. *)
AlignUp(val, align) == ((val + (align - 1)) \div align) * align
StorageSize(n, bytes) == n * bytes + AlignUp(AlignUp(n, 8) \div 8, 8)

(* sizeof of the static array of int64_t that is set aside for them.       *)
ArraySize(bytes) == 8 * (bytes \div 8 + 1)

DhStorage(n, pathMax) == StorageSize(n, 80 + pathMax)
FhStorage(n, pathMax) == StorageSize(n, 80 + pathMax)
OpStorage(n, pathMax) == StorageSize(n, 168 + pathMax)
ChunkStorage(n) == StorageSize(n, 64)

(* The four storages fios_init passes with their lengths.                  *)
Storages ==
  { [needs |-> OpStorage(64, 256), length |-> ArraySize(OpStorage(64, 256))],
    [needs |-> ChunkStorage(1024), length |-> ArraySize(ChunkStorage(1024))],
    [needs |-> FhStorage(512, 256), length |-> ArraySize(FhStorage(512, 256))],
    [needs |-> DhStorage(32, 256), length |-> ArraySize(DhStorage(32, 256))] }

WorkBufferSize == (num * size) % Word

Init ==
  /\ num \in Numbers /\ size \in Numbers
  /\ fios = "off"
  /\ room = -1
  /\ buffer = "null"
  /\ filter = -1
  /\ pc = "start"
  /\ exit = [t \in Exiters |-> "playing"]
  /\ freed = 0
  /\ overlap = FALSE

-----------------------------------------------------------------------------
(* fios_init; a result below 0 makes main call fatal_error.                *)

Initialize ==
  /\ pc = "start"
  /\ \/ fios' = "up" /\ pc' = "alloc"
     \/ pc' = "fatal" /\ UNCHANGED fios
  /\ UNCHANGED <<num, size, room, buffer, filter, exit, freed, overlap>>

Allocate ==
  /\ pc = "alloc"
  /\ \/ buffer' = "held" /\ room' = WorkBufferSize /\ pc' = "filter"
     \/ pc' = "fatal" /\ UNCHANGED <<buffer, room>>
  /\ UNCHANGED <<num, size, fios, filter, exit, freed, overlap>>

AddFilter ==
  /\ pc = "filter"
  /\ \/ filter' = WorkBufferSize /\ pc' = "game"
     \/ pc' = "fatal" /\ UNCHANGED filter
  /\ UNCHANGED <<num, size, fios, room, buffer, exit, freed, overlap>>

-----------------------------------------------------------------------------
(* ExitAndroidGame.                                                        *)

Goto(t, at) == exit' = [exit EXCEPT ![t] = at]

(* if (g_RamCacheWorkBuffer)                                               *)
CallExit(t) ==
  /\ pc = "game" /\ exit[t] = "playing"
  /\ overlap' = (overlap \/ \E u \in Exiters : exit[u] # "playing")
  /\ Goto(t, IF buffer # "null" THEN "terminate" ELSE "end")
  /\ UNCHANGED <<num, size, fios, room, buffer, filter, pc, freed>>

(* Mutant: the buffer is freed before FIOS2 is terminated.                 *)
FreeFirst(t) ==
  /\ pc = "game" /\ exit[t] = "terminate"
  /\ buffer' = "freed"
  /\ freed' = freed + 1
  /\ Goto(t, "end")
  /\ UNCHANGED <<num, size, fios, room, filter, pc, overlap>>

Terminate(t) ==
  /\ pc = "game" /\ exit[t] = "terminate"
  /\ fios' = "terminated"
  /\ Goto(t, "free")
  /\ UNCHANGED <<num, size, room, buffer, filter, pc, freed, overlap>>

(* The pointer keeps its value.                                            *)
Free(t) ==
  /\ pc = "game" /\ exit[t] = "free"
  /\ buffer' = "freed"
  /\ freed' = freed + 1
  /\ Goto(t, "end")
  /\ UNCHANGED <<num, size, fios, room, filter, pc, overlap>>

(* sceKernelExitProcess.                                                   *)
ExitProcess(t) ==
  /\ pc = "game" /\ exit[t] = "end"
  /\ pc' = "exited"
  /\ UNCHANGED <<num, size, fios, room, buffer, filter, exit, freed, overlap>>

Next ==
  \/ Initialize \/ Allocate \/ AddFilter
  \/ \E t \in Exiters :
       CallExit(t) \/ Terminate(t) \/ Free(t) \/ ExitProcess(t)

Spec == Init /\ [][Next]_vars

-----------------------------------------------------------------------------
TypeOK ==
  /\ num \in Numbers /\ size \in Numbers
  /\ fios \in {"off", "up", "terminated"}
  /\ room \in -1 .. Word - 1 /\ filter \in -1 .. Word - 1
  /\ buffer \in {"null", "held", "freed"}
  /\ pc \in {"start", "alloc", "filter", "game", "fatal", "exited"}
  /\ exit \in [Exiters -> {"playing", "terminate", "free", "end"}]
  /\ freed \in Nat
  /\ overlap \in BOOLEAN

(* The game starts only with FIOS2 up and its cache in a buffer as large   *)
(* as FIOS2 is told, and that holds all of the blocks that were asked for  *)
(* if their total does not exceed 32 bits.                                 *)
CacheIsBacked ==
  pc = "game" =>
    /\ fios # "off" /\ buffer # "null"
    /\ filter = room
    /\ num * size \in 0 .. Word - 1 => room = num * size

(* FIOS2 never works with a buffer that has been freed.                    *)
NoUseAfterFree == buffer = "freed" => fios = "terminated"

(* game.c:90 relies on fios_terminate doing nothing when there is nothing  *)
(* to terminate.  Its pointer is never cleared, so this is so only until   *)
(* two threads exit the game at once: the buffer is freed once otherwise.  *)
FreedOnce == overlap \/ freed <= 1

(* Each storage fios_init has passed is at least as long as FIOS2 needs    *)
(* for it, bit map included.                                               *)
StoragesSuffice == pc # "start" => \A s \in Storages : s.length >= s.needs
=============================================================================
