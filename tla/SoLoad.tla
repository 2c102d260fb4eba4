------------------------------- MODULE SoLoad -------------------------------
(***************************************************************************)
(* so_load (so_util.c, lines 73-189): reading the game's library into a    *)
(* temporary block, giving every loadable segment a block of its own, and  *)
(* the chain of labels that gives blocks back when something is wrong.     *)
(*                                                                         *)
(* The file is a record: whether it has the ELF magic number, the kinds of *)
(* its PT_LOAD segments in order, and whether it has the two tables of     *)
(* dynamic symbols.  The kernel's allocator is external; it may refuse any *)
(* request, and refuses an address that is taken.  So may malloc, whose    *)
(* result so_load does not look at: the memset after it then faults.       *)
(***************************************************************************)
EXTENDS Integers, Sequences

CONSTANTS
  Images  \* the files that may lie at the path so_load is given

Exec == "PF_X"
Data == "no PF_X"

(* What so_load looks at in an ELF file.                                   *)
Files == [magic : BOOLEAN, segments : Seq({Exec, Data}), tables : BOOLEAN]

ASSUME ImageAssumption == Images \subseteq Files

Temp == 0       \* the block "file"; segment i's block is i
NoBlock == -1   \* a handle nothing was assigned to, a null address
Refused == -2   \* an error code instead of a handle

VARIABLES
  image,      \* the file that is loaded
  at,         \* where so_load is, "returned" once it is left, or "crashed"
  seg,        \* the loop's i, from 1
  res,        \* what is returned: "negative", "zero" or "positive"
  fd,         \* TRUE while the file descriptor is open
  mem,        \* the blocks that are allocated
  tempId,     \* so_temp_blockid
  textId,     \* text_blockid
  dataId,     \* data_blockid
  textBase,   \* the block text_base points into
  dataAddr,   \* the executable block whose end data_addr is
  filled,     \* a block has been placed at data_addr
  copied      \* the segments whose bytes have been copied

soVars == <<image, at, seg, res, fd, mem, tempId, textId, dataId, textBase,
            dataAddr, filled, copied>>
handles == <<tempId, textId, dataId>>
layout == <<textBase, dataAddr, filled, copied>>

Segments == DOMAIN image.segments

SoInit ==
  /\ image \in Images
  /\ at = "open"
  /\ seg = 1
  /\ res = "zero"
  /\ fd = FALSE
  /\ mem = {}
  /\ tempId = NoBlock /\ textId = NoBlock /\ dataId = NoBlock
  /\ textBase = NoBlock /\ dataAddr = NoBlock
  /\ filled = FALSE
  /\ copied = {}

-----------------------------------------------------------------------------
(* Lines 79-83.                                                            *)
Open ==
  /\ at = "open"
  /\ \/ fd' = TRUE /\ at' = "alloc" /\ UNCHANGED res
     \/ fd' = FALSE /\ at' = "returned" /\ res' = "negative"
  /\ UNCHANGED <<image, seg, mem, handles, layout>>

(* Lines 86-88: a refusal returns at once.                                 *)
AllocTemp ==
  /\ at = "alloc"
  /\ \/ /\ mem' = mem \union {Temp}
        /\ tempId' = Temp
        /\ at' = "read"
        /\ UNCHANGED res
     \/ /\ tempId' = Refused
        /\ res' = "negative"
        /\ at' = "returned"
        /\ UNCHANGED mem
  /\ UNCHANGED <<image, seg, fd, textId, dataId, layout>>

(* Lines 90-104.                                                           *)
ReadFile ==
  /\ at = "read"
  /\ fd' = FALSE
  /\ IF image.magic
     THEN at' = "segments" /\ UNCHANGED res
     ELSE at' = "err_free_so" /\ res' = "negative"
  /\ UNCHANGED <<image, seg, mem, handles, layout>>

(* Lines 111-129, an executable segment.                                   *)
LoadText ==
  /\ at = "segments" /\ seg \in Segments
  /\ image.segments[seg] = Exec
  /\ \/ /\ mem' = mem \union {seg}
        /\ textId' = seg
        /\ textBase' = seg
        /\ dataAddr' = seg
        /\ filled' = FALSE
        /\ res' = "positive"
        /\ at' = "fill"
     \/ /\ textId' = Refused
        /\ res' = "negative"
        /\ at' = "err_free_so"
        /\ UNCHANGED <<mem, textBase, dataAddr, filled>>
  /\ UNCHANGED <<image, seg, fd, tempId, dataId, copied>>

(* Lines 131-133: data_addr == NULL.                                       *)
DataWithoutText ==
  /\ at = "segments" /\ seg \in Segments
  /\ image.segments[seg] = Data
  /\ dataAddr = NoBlock
  /\ at' = "err_free_so"
  /\ UNCHANGED <<image, seg, res, fd, mem, handles, layout>>

(* Mutant: a refused data block leaves by the wrong label.                 *)
LoadDataWrongLabel ==
  /\ at = "segments" /\ seg \in Segments
  /\ image.segments[seg] = Data
  /\ dataAddr # NoBlock
  /\ \/ /\ ~filled
        /\ mem' = mem \union {seg}
        /\ dataId' = seg
        /\ filled' = TRUE
        /\ res' = "positive"
        /\ at' = "fill"
     \/ /\ dataId' = Refused
        /\ res' = "negative"
        /\ at' = "err_free_so"
        /\ UNCHANGED <<mem, filled>>
  /\ UNCHANGED <<image, seg, fd, tempId, textId, textBase, dataAddr, copied>>

(* Lines 135-150, any other segment, which must lie right after the text.  *)
LoadData ==
  /\ at = "segments" /\ seg \in Segments
  /\ image.segments[seg] = Data
  /\ dataAddr # NoBlock
  /\ \/ /\ ~filled
        /\ mem' = mem \union {seg}
        /\ dataId' = seg
        /\ filled' = TRUE
        /\ res' = "positive"
        /\ at' = "fill"
     \/ /\ dataId' = Refused
        /\ res' = "negative"
        /\ at' = "err_free_text"
        /\ UNCHANGED <<mem, filled>>
  /\ UNCHANGED <<image, seg, fd, tempId, textId, textBase, dataAddr, copied>>

(* Lines 152-158, for either: memory of the segment's size is allocated,   *)
(* cleared and copied into the block, then the segment's bytes are.        *)
FillSegment ==
  /\ at = "fill"
  /\ copied' = copied \union {seg}
  /\ seg' = seg + 1
  /\ at' = "segments"
  /\ UNCHANGED <<image, res, fd, mem, handles, textBase, dataAddr, filled>>

(* malloc gave NULL: memset writes through it, and the program is over.    *)
FillCrashes ==
  /\ at = "fill"
  /\ at' = "crashed"
  /\ UNCHANGED <<image, seg, res, fd, mem, handles, layout>>

(* Lines 162-180.                                                          *)
FindTables ==
  /\ at = "segments" /\ seg \notin Segments
  /\ IF image.tables
     THEN at' = "returned" /\ res' = "zero"
     ELSE at' = "err_free_data" /\ res' = "negative"
  /\ UNCHANGED <<image, seg, fd, mem, handles, layout>>

(* Lines 182-188: each label frees one block and falls to the next; to     *)
(* free what is not a block changes nothing.                               *)
FreeData ==
  /\ at = "err_free_data"
  /\ mem' = mem \ {dataId}
  /\ at' = "err_free_text"
  /\ UNCHANGED <<image, seg, res, fd, handles, layout>>

FreeText ==
  /\ at = "err_free_text"
  /\ mem' = mem \ {textId}
  /\ at' = "err_free_so"
  /\ UNCHANGED <<image, seg, res, fd, handles, layout>>

FreeSo ==
  /\ at = "err_free_so"
  /\ mem' = mem \ {tempId}
  /\ at' = "returned"
  /\ UNCHANGED <<image, seg, res, fd, handles, layout>>

SoNext ==
  \/ Open \/ AllocTemp \/ ReadFile
  \/ LoadText \/ DataWithoutText \/ LoadData \/ FillSegment \/ FillCrashes
  \/ FindTables \/ FreeData \/ FreeText \/ FreeSo

SoSpec == SoInit /\ [][SoNext]_soVars

-----------------------------------------------------------------------------
SoTypeOK ==
  /\ image \in Images
  /\ at \in {"open", "alloc", "read", "segments", "fill", "err_free_data",
             "err_free_text", "err_free_so", "returned", "crashed"}
  /\ seg \in 1..(Len(image.segments) + 1)
  /\ at = "fill" => seg \in Segments
  /\ res \in {"negative", "zero", "positive"}
  /\ fd \in BOOLEAN /\ filled \in BOOLEAN
  /\ mem \subseteq Segments \union {Temp}
  /\ tempId \in {NoBlock, Refused, Temp}
  /\ textId \in Segments \union {NoBlock, Refused}
  /\ dataId \in Segments \union {NoBlock, Refused}
  /\ textBase \in Segments \union {NoBlock}
  /\ dataAddr \in Segments \union {NoBlock}
  /\ copied \subseteq Segments

(* What the loader is written for: one executable segment, and at most one *)
(* other one, which comes after it.                                        *)
Expected(img) == img.segments \in {<<Exec>>, <<Exec, Data>>}

Returned == at = "returned"

(* An error return of so_load gives back every block it took, and the      *)
(* descriptor, which only a refusal of the temporary block leaves open.    *)
FailureIsClean ==
  Returned /\ res = "negative" /\ Expected(image) =>
    mem = {} /\ (fd => tempId = Refused)

(* A return of 0 means that the library is loaded: every segment is in a   *)
(* block that is still allocated, text_base is that of the executable one, *)
(* and the file is still there for so_resolve and so_excute_init_array.    *)
SuccessIsComplete ==
  Returned /\ res = "zero" /\ Expected(image) =>
    /\ image.magic /\ image.tables
    /\ mem = Segments \union {Temp}
    /\ copied = Segments
    /\ tempId = Temp
    /\ textBase = textId /\ textId \in Segments
    /\ ~fd

(* A file that so_load finds fault with (it takes one of the err_ labels)  *)
(* is reported by a negative result, the one main tests for.               *)
FaultIsReported == at = "err_free_so" => res = "negative"

StartsWithText == 1 \in Segments => image.segments[1] = Exec

(* The same, for every library whose data segments follow its text.        *)
OrderedFaultIsReported ==
  StartsWithText => FaultIsReported

(* What so_load owes main: a failure keeps nothing, a success has all in   *)
(* place, and for a library that begins with its text every fault is seen. *)
SoContract == FailureIsClean /\ SuccessIsComplete /\ OrderedFaultIsReported

-----------------------------------------------------------------------------
(* The inductive strengthening: what is allocated at every label.          *)
Placed == {s \in Segments : s < seg}
Begun == Placed \union (IF at = "fill" THEN {seg} ELSE {})

Ledger ==
  Expected(image) =>
    /\ at \in {"open", "alloc", "read"} => seg = 1 /\ copied = {}
    /\ at \in {"open", "alloc"} => mem = {}
    /\ at = "read" => mem = {Temp}
    /\ at = "open" => ~fd
    /\ at \notin {"open", "alloc", "returned"} => tempId = Temp
    /\ at \notin {"alloc", "read", "returned"} => ~fd
    /\ at \in {"segments", "fill"} =>
         /\ image.magic
         /\ mem = {Temp} \union Begun
         /\ copied = Placed
         /\ (seg = 2 /\ at = "segments") \/ (seg = 1 /\ at = "fill") => ~filled
         /\ 1 \in Begun => textId = 1 /\ textBase = 1
         /\ 2 \in Begun => dataId = 2
    /\ at = "err_free_data" => mem \subseteq {Temp, textId, dataId}
    /\ at = "err_free_text" => mem \subseteq {Temp, textId}
    /\ at = "err_free_so" => mem \subseteq {Temp}
    /\ FailureIsClean /\ SuccessIsComplete

Reported ==
  StartsWithText =>
    /\ at = "segments" /\ seg > 1 => dataAddr # NoBlock
    /\ at = "fill" => dataAddr # NoBlock
    /\ at \in {"err_free_data", "err_free_text", "err_free_so"} =>
         res = "negative"
    /\ at \in {"open", "alloc", "read"} => seg = 1
    /\ at \in {"read", "segments", "fill"} => Temp \in mem
    /\ Returned => res = "negative" \/ (res = "zero" /\ Temp \in mem)

SoInv == SoTypeOK /\ Ledger /\ Reported
=============================================================================
