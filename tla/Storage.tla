------------------------------ MODULE Storage ------------------------------
(***************************************************************************)
(* ReadDataFromPrivateStorage and WriteDataToPrivateStorage                *)
(* (hooks/game.c, lines 152-192) on one savegame, with a power loss at any *)
(* moment and a host whose file calls may fail.                            *)
(*                                                                         *)
(* The game saves and loads one file at a time.  A savegame is a number of *)
(* blocks; what a file contains is the first so many blocks of a version.  *)
(* The host is external: fopen(f, "wb") empties the file at once, fwrite   *)
(* takes blocks into a buffer it may empty at any time, fclose writes the  *)
(* rest, and what is still in the buffer when power fails is lost.         *)
(***************************************************************************)
EXTENDS Integers

CONSTANTS
  Versions,     \* what the game may save
  None,
  Damaged,
  Blocks,       \* Blocks[v]: how long version v is, in blocks; may be 0
  CallsFail,    \* TRUE: fopen, ftell, malloc, fread and fwrite may fail
  CloseFails    \* TRUE: fclose may fail to write the rest

ASSUME StorageAssumption ==
  /\ Blocks \in [Versions -> Nat]
  /\ None \notin Versions /\ Damaged \notin Versions /\ None # Damaged
  /\ CallsFail \in BOOLEAN /\ CloseFails \in BOOLEAN

VARIABLES
  file,      \* what is on the card: a version and how many blocks of it
  pc,        \* where the call is, "idle" between calls, "off" without power
  data,      \* what is being written (data)
  taken,     \* how many blocks fwrite has taken
  open,      \* TRUE while the call has the file open
  sz,        \* the length a read was told of (sz)
  held,      \* TRUE while a read has memory it has not given away (buf)
  ret,       \* what the last or the present call returns
  loaded,    \* what the last successful read gave the game
  before,    \* history: what the file was when the present write began
  acked,     \* history: the version of the last write that returned 1
  later,     \* history: the versions whose writes were begun since
  lost,      \* history: the fclose of that write has failed
  failed     \* history: a call of the host failed in the last read

writing == <<data, taken>>
reading == <<sz, held, failed>>
history == <<before, acked, later, lost>>
vars == <<file, pc, writing, open, reading, ret, loaded, history>>

Contents(v, n) == [of |-> v, blocks |-> n]
Absent == Contents(None, 0)
Whole(v) == Contents(v, Blocks[v])

(* What a reader of the file would make of it.                             *)
Seen(f) ==
  IF f.of = None THEN None
  ELSE IF f = Whole(f.of) THEN f.of ELSE Damaged

Init ==
  /\ file \in {Absent} \union {Whole(v) : v \in Versions}
  /\ pc = "idle"
  /\ data = None
  /\ taken = 0
  /\ open = FALSE
  /\ sz = 0 /\ held = FALSE /\ failed = FALSE
  /\ ret = 0
  /\ loaded = Absent
  /\ before = None
  /\ acked = None
  /\ later = {} /\ lost = FALSE

-----------------------------------------------------------------------------
(* WriteDataToPrivateStorage.                                              *)

OpenToWrite(v) ==
  /\ pc = "idle"
  /\ file' = Contents(v, 0)
  /\ data' = v
  /\ open' = TRUE
  /\ pc' = "opened"
  /\ later' = later \union {v}
  /\ before' = Seen(file)
  /\ UNCHANGED <<taken, reading, ret, loaded, acked, lost>>

(* if (!f) return 0;                                                       *)
CannotOpen ==
  /\ pc = "idle" /\ CallsFail
  /\ ret' = 0
  /\ UNCHANGED <<file, pc, writing, open, reading, loaded, history>>

(* Mutant: any number of blocks that was taken counts as success.          *)
WriteBlocksLenient ==
  /\ pc = "opened"
  /\ \E n \in 0 .. Blocks[data] :
       /\ n < Blocks[data] => CallsFail
       /\ \E onCard \in 0 .. Blocks[data] :
            onCard <= n /\ file' = Contents(data, onCard)
       /\ taken' = n
       /\ ret' = 1
  /\ pc' = "written"
  /\ UNCHANGED <<data, open, reading, loaded, history>>

(* ret = fwrite(data, size, 1, f): 1 when all of it was taken, 0 otherwise *)
(* and for a size of 0.                                                    *)
WriteBlocks ==
  /\ pc = "opened"
  /\ \E n \in 0 .. Blocks[data] :
       /\ n < Blocks[data] => CallsFail
       /\ \E onCard \in 0 .. Blocks[data] :
            onCard <= n /\ file' = Contents(data, onCard)
       /\ taken' = n
       /\ ret' = IF n = Blocks[data] /\ n > 0 THEN 1 ELSE 0
  /\ pc' = "written"
  /\ UNCHANGED <<data, open, reading, loaded, history>>

(* What the write's caller knows when it has returned.                     *)
Returned(short) ==
  IF ret = 1 THEN acked' = data /\ later' = {} /\ lost' = short
  ELSE UNCHANGED <<acked, later, lost>>

(* fclose(f); return ret;  -- what fclose returns is not looked at.        *)
Close ==
  /\ pc = "written"
  /\ \E n \in file.blocks .. taken :
       /\ n < taken => CloseFails
       /\ file' = Contents(data, n)
       /\ Returned(n < taken)
  /\ pc' = "idle" /\ data' = None /\ taken' = 0 /\ open' = FALSE
  /\ UNCHANGED <<reading, ret, loaded, before>>

-----------------------------------------------------------------------------
(* ReadDataFromPrivateStorage, which changes no file.                      *)

OpenToRead ==
  /\ pc = "idle" /\ file.of # None
  /\ open' = TRUE /\ failed' = FALSE
  /\ pc' = "found"
  /\ UNCHANGED <<file, writing, sz, held, ret, loaded, history>>

(* if (!f) return 0;                                                       *)
CannotFind ==
  /\ pc = "idle"
  /\ file.of = None \/ CallsFail
  /\ ret' = 0
  /\ UNCHANGED <<file, pc, writing, open, reading, loaded, history>>

(* The length by fseek and ftell; int ret = 0; if (sz > 0)                 *)
Measure ==
  /\ pc = "found"
  /\ \/ sz' = file.blocks /\ UNCHANGED failed
     \/ CallsFail /\ sz' = -1 /\ failed' = TRUE
  /\ ret' = 0
  /\ pc' = IF sz' > 0 THEN "sized" ELSE "finished"
  /\ UNCHANGED <<file, writing, open, held, loaded, history>>

(* void *buf = malloc(sz)                                                  *)
Allocate ==
  /\ pc = "sized"
  /\ \/ held' = TRUE /\ pc' = "buffered" /\ UNCHANGED failed
     \/ CallsFail /\ failed' = TRUE /\ pc' = "finished" /\ UNCHANGED held
  /\ UNCHANGED <<file, writing, open, sz, ret, loaded, history>>

(* Mutant: any number of blocks that was read counts as success.           *)
ReadBlocksLenient ==
  /\ pc = "buffered"
  /\ \E n \in 0 .. sz :
       /\ n < sz => CallsFail
       /\ failed' = (n < sz)
       /\ IF n > 0 THEN ret' = 1 /\ loaded' = Contents(file.of, n)
         ELSE UNCHANGED <<ret, loaded>>
  /\ held' = FALSE
  /\ pc' = "finished"
  /\ UNCHANGED <<file, writing, open, sz, history>>

(* fread(buf, sz, 1, f): buf is the game's when all of it was read, and    *)
(* freed otherwise.                                                        *)
ReadBlocks ==
  /\ pc = "buffered"
  /\ \E n \in 0 .. sz :
       /\ n < sz => CallsFail
       /\ failed' = (n < sz)
       /\ IF n = sz THEN ret' = 1 /\ loaded' = Contents(file.of, n)
         ELSE UNCHANGED <<ret, loaded>>
  /\ held' = FALSE
  /\ pc' = "finished"
  /\ UNCHANGED <<file, writing, open, sz, history>>

(* fclose(f); return ret;                                                  *)
CloseRead ==
  /\ pc = "finished"
  /\ open' = FALSE /\ sz' = 0
  /\ pc' = "idle"
  /\ UNCHANGED <<file, writing, held, failed, ret, loaded, history>>

-----------------------------------------------------------------------------
(* Power.                                                                  *)

PowerLoss ==
  /\ pc # "off"
  /\ pc' = "off"
  /\ data' = None /\ taken' = 0 /\ ret' = 0 /\ loaded' = Absent
  /\ open' = FALSE /\ sz' = 0 /\ held' = FALSE /\ failed' = FALSE
  /\ UNCHANGED <<file, history>>

Restart ==
  /\ pc = "off"
  /\ pc' = "idle"
  /\ UNCHANGED <<file, writing, open, reading, ret, loaded, history>>

Next ==
  \/ \E v \in Versions : OpenToWrite(v)
  \/ CannotOpen \/ WriteBlocks \/ Close
  \/ OpenToRead \/ CannotFind \/ Measure \/ Allocate \/ ReadBlocks \/ CloseRead
  \/ PowerLoss \/ Restart

Spec == Init /\ [][Next]_vars

-----------------------------------------------------------------------------
TypeOK ==
  /\ file \in [of : Versions \union {None}, blocks : Nat]
  /\ pc \in {"idle", "opened", "written", "found", "sized", "buffered",
             "finished", "off"}
  /\ data \in Versions \union {None}
  /\ taken \in Nat
  /\ open \in BOOLEAN /\ held \in BOOLEAN /\ failed \in BOOLEAN
  /\ sz \in Nat \union {-1}
  /\ ret \in {0, 1}
  /\ loaded \in [of : Versions \union {None}, blocks : Nat]
  /\ before \in Versions \union {None, Damaged}
  /\ acked \in Versions \union {None}
  /\ later \subseteq Versions
  /\ lost \in BOOLEAN

(* Across any number of power losses the card holds, whole, the version of *)
(* the last write that returned 1, or else something of a later one that   *)
(* was begun and did not return 1 (it truncates in place), or less than    *)
(* the whole only because its fclose has failed (which nobody sees).       *)
AckedSurvives ==
  acked # None =>
    \/ file = Whole(acked)
    \/ file.of \in later
    \/ lost /\ file.of = acked

(* A read gives the game all there is on the card or nothing: it returns 1 *)
(* unless a call of the host failed or there is nothing to be read, what   *)
(* it then gives is what the file holds from its first block to its last,  *)
(* and whichever way it ends it leaves no file open and no memory behind.  *)
ReadsAllOrNothing ==
  /\ pc = "finished" => (ret = 1 <=> ~failed /\ file.blocks > 0)
  /\ pc = "finished" /\ ret = 1 => loaded = file
  /\ pc \in {"idle", "off"} => ~open /\ ~held

-----------------------------------------------------------------------------
(* What a savegame is to the game: a write that has begun shows only when  *)
(* it is over.  Without failures of fclose this implements SaveFile.       *)

Game == INSTANCE SaveFile WITH
          Versions <- Versions, None <- None, Damaged <- Damaged,
          saved <- IF data = None THEN Seen(file) ELSE before,
          writing <- data, promised <- acked, loaded <- Seen(loaded)

ImplementsSaveFile == Game!FileSpec
=============================================================================
