---------------------------- MODULE ErrorDialog ----------------------------
(***************************************************************************)
(* The screen of fatal_error (error.c, lines 40-155): two display buffers, *)
(* drawn into and shown in turn by the loop that waits for the user to     *)
(* close the message.                                                      *)
(*                                                                         *)
(* GXM and the dialog are external.  sceGxmDisplayQueueAddEntry puts a     *)
(* swap into a queue of MaxPending entries and waits while it is full; the *)
(* display's thread takes the swaps in order, calls gxm_vsync_cb, which    *)
(* sets the new buffer for the next frame, and then lets the sync object   *)
(* of the old buffer go.  The screen changes over at a vertical blank.     *)
(* The dialog draws into a buffer only when its sync object is free.       *)
(***************************************************************************)
EXTENDS Integers, Sequences

CONSTANTS
  Count,        \* DISPLAY_BUFFER_COUNT
  MaxPending,   \* DISPLAY_MAX_PENDING_SWAPS
  MayFail       \* TRUE: sceMsgDialogInit may fail

DialogAssumption ==
  Count \in Nat \ {0} /\ MaxPending \in Nat \ {0} /\ MayFail \in BOOLEAN

Buffers == 0 .. Count - 1
NoBuffer == -1

VARIABLES
  pc,        \* where fatal_error is
  back,      \* backbuf_idx
  front,     \* frontbuf_idx
  memory,    \* the buffers that are allocated (dbuf[i].uid)
  drawn,     \* the buffers that hold a picture of the message
  queue,     \* the swaps the display has not made yet
  scanned,   \* the buffer on the screen, or NoBuffer
  next,      \* the buffer gxm_vsync_cb has set for the next frame
  locked,    \* the buffers whose sync object waits for a swap
  drawing,   \* the buffer the dialog draws into, or NoBuffer
  late,      \* history: the last swap had not been made when the loop's
             \* vertical blank came
  message    \* "hidden", "open" or "closed"

vars ==
  <<pc, back, front, memory, drawn, queue, scanned, next, locked, drawing, late,
    message>>
buffers == <<memory, drawn, drawing>>
dialog == <<late, message>>
display == <<queue, scanned, next, locked>>

Init ==
  /\ pc = "init"
  /\ back = 0 /\ front = 0
  /\ memory = {} /\ drawn = {} /\ drawing = NoBuffer
  /\ queue = <<>>
  /\ scanned = NoBuffer /\ next = NoBuffer
  /\ locked = {}
  /\ late = FALSE
  /\ message = "hidden"

-----------------------------------------------------------------------------
gxm_init ==
  /\ pc = "init"
  /\ memory' = Buffers
  /\ pc' = "open"
  /\ UNCHANGED <<back, front, drawn, drawing, display, dialog>>

(* if (sceMsgDialogInit(&msg_param) == 0): otherwise nothing is shown and  *)
(* the process ends.                                                       *)
OpenDialog ==
  /\ pc = "open"
  /\ \/ message' = "open" /\ pc' = "loop"
     \/ MayFail /\ pc' = "term" /\ UNCHANGED message
  /\ UNCHANGED <<back, front, buffers, display, late>>

(* while (sceMsgDialogGetStatus() == ...RUNNING)                           *)
TestStatus ==
  /\ pc = "loop"
  /\ pc' = IF message = "open" THEN "draw" ELSE "term"
  /\ UNCHANGED <<back, front, buffers, display, dialog>>

(* sceCommonDialogUpdate draws into the back buffer, under its sync object. *)
DialogUpdate ==
  /\ pc = "draw"
  /\ back \notin locked
  /\ drawing' = back
  /\ drawn' = drawn \union {back}
  /\ pc' = "add"
  /\ UNCHANGED <<back, front, memory, display, dialog>>

(* Mutant: old and new buffer change places in the call.                   *)
AddEntrySwapped ==
  /\ pc = "add" /\ Len(queue) < MaxPending
  /\ queue' = Append(queue, [old |-> back, new |-> front])
  /\ locked' = locked \union {back}
  /\ drawing' = NoBuffer
  /\ pc' = "advance"
  /\ UNCHANGED <<back, front, memory, drawn, scanned, next, dialog>>

(* gxm_swap: the call that queues the swap ...                             *)
AddEntry ==
  /\ pc = "add" /\ Len(queue) < MaxPending
  /\ queue' = Append(queue, [old |-> front, new |-> back])
  /\ locked' = locked \union {front}
  /\ drawing' = NoBuffer
  /\ pc' = "advance"
  /\ UNCHANGED <<back, front, memory, drawn, scanned, next, dialog>>

(* ... and the two indices.                                                *)
Advance ==
  /\ pc = "advance"
  /\ front' = back
  /\ back' = (back + 1) % Count
  /\ pc' = "vblank"
  /\ UNCHANGED <<buffers, display, dialog>>

(* sceDisplayWaitVblankStart: the screen takes what was set for it.        *)
WaitVblank ==
  /\ pc = "vblank"
  /\ scanned' = next
  /\ late' = (queue # <<>>)
  /\ pc' = "loop"
  /\ UNCHANGED <<back, front, buffers, queue, next, locked, message>>

(* gxm_term: sceGxmTerminate, which is the end of the display queue and    *)
(* its thread; ...                                                         *)
GxmTerminate ==
  /\ pc = "term"
  /\ queue' = <<>> /\ locked' = {}
  /\ pc' = "free"
  /\ UNCHANGED <<back, front, buffers, scanned, next, dialog>>

(* Mutant: the memory goes first.                                          *)
FreeBuffersFirst ==
  /\ pc \in {"term", "free"}
  /\ \E b \in memory :
       /\ \A c \in memory : b <= c
       /\ memory' = memory \ {b}
  /\ UNCHANGED <<pc, back, front, drawn, drawing, display, dialog>>

(* ... then the buffers are freed, one after the other.  Nothing takes the *)
(* last one shown off the screen before.                                   *)
FreeBuffer ==
  /\ pc = "free"
  /\ \E b \in memory :
       /\ \A c \in memory : b <= c
       /\ memory' = memory \ {b}
  /\ UNCHANGED <<pc, back, front, drawn, drawing, display, dialog>>

(* sceKernelExitProcess: the screen is the system's again.                 *)
ExitProcess ==
  /\ pc = "free" /\ memory = {}
  /\ scanned' = NoBuffer /\ next' = NoBuffer
  /\ pc' = "exited"
  /\ UNCHANGED <<back, front, buffers, queue, locked, dialog>>

-----------------------------------------------------------------------------
(* The display's thread makes a swap: gxm_vsync_cb, and the old buffer's   *)
(* sync object.                                                            *)
Swap ==
  /\ queue # <<>>
  /\ next' = Head(queue).new
  /\ locked' = locked \ {Head(queue).old}
  /\ queue' = Tail(queue)
  /\ UNCHANGED <<pc, back, front, buffers, scanned, dialog>>

(* A vertical blank the loop does not wait for.                            *)
Vblank ==
  /\ scanned # next
  /\ scanned' = next
  /\ UNCHANGED <<pc, back, front, buffers, queue, next, locked, dialog>>

CloseMessage ==
  /\ message = "open" /\ drawn # {}
  /\ message' = "closed"
  /\ UNCHANGED <<pc, back, front, buffers, display, late>>

fatal_error ==
  \/ gxm_init \/ OpenDialog \/ TestStatus \/ DialogUpdate
  \/ AddEntry \/ Advance \/ WaitVblank
  \/ GxmTerminate \/ FreeBuffer \/ ExitProcess

Next == fatal_error \/ Swap \/ Vblank \/ CloseMessage

Spec == Init /\ [][Next]_vars

(* Both threads run on, vertical blanks come, and the user closes what he  *)
(* sees in the end.                                                        *)
FairSpec ==
  /\ Spec
  /\ WF_vars(fatal_error)
  /\ WF_vars(Swap) /\ WF_vars(CloseMessage)

-----------------------------------------------------------------------------
TypeOK ==
  /\ pc \in {"init", "open", "loop", "draw", "add", "advance", "vblank", "term",
            "free", "exited"}
  /\ back \in Buffers /\ front \in Buffers
  /\ memory \subseteq Buffers /\ drawn \subseteq Buffers
  /\ drawing \in Buffers \union {NoBuffer}
  /\ queue \in Seq([old : Buffers, new : Buffers]) /\ Len(queue) <= MaxPending
  /\ scanned \in Buffers \union {NoBuffer} /\ next \in Buffers \union {NoBuffer}
  /\ locked \subseteq Buffers
  /\ late \in BOOLEAN
  /\ message \in {"hidden", "open", "closed"}

(* The dialog never draws into the buffer that was last set for the        *)
(* screen, though the first swap has one buffer in both places.  It draws  *)
(* into the one still being scanned only right after a swap that was late, *)
(* because gxm_vsync_cb does not wait for the vertical blank itself: the   *)
(* picture after the next swap that is in time is whole again.             *)
NoTearing ==
  drawing # NoBuffer => drawing # next /\ (drawing = scanned => late)

(* What reaches the screen was drawn before, and no swap is ever made to a *)
(* buffer that is no longer allocated.                                     *)
OnlyPicturesShown ==
  /\ next # NoBuffer => next \in drawn
  /\ scanned # NoBuffer => scanned \in drawn
  /\ \A i \in 1 .. Len(queue) : queue[i].new \in drawn \intersect memory

(* The screen loses the buffer it shows in gxm_term only, where it is left *)
(* showing freed memory for as long as the process takes to end.           *)
ShowsFreedAtTheEnd ==
  scanned # NoBuffer /\ scanned \notin memory =>
    pc = "free" /\ queue = <<>> /\ message # "open"

(* The double buffer never makes the loop wait for itself: every message   *)
(* that is closed ends the process, and so does one that was never shown.  *)
ProcessEnds == <>(pc = "exited")
=============================================================================
