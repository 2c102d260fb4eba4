------------------------------ MODULE SaveFile ------------------------------
(***************************************************************************)
(* What the game may expect of one savegame: a write that reports success  *)
(* has replaced it, one that reports failure or is cut off by a power loss *)
(* leaves the old one, the new one or a damaged one, and nothing else      *)
(* changes it.  Storage is shown to implement this specification when the  *)
(* host does not lose data on fclose.                                      *)
(***************************************************************************)

CONSTANTS
  Versions,  \* what the game may save
  None,      \* no savegame, or no write under way
  Damaged    \* a savegame of which a part is missing

VARIABLES
  saved,     \* what is there to be read
  writing,   \* the version a write is storing
  promised,  \* the version of the last write that reported success
  loaded     \* what the last read returned

fileVars == <<saved, writing, promised, loaded>>

FileInit ==
  /\ saved \in Versions \union {None}
  /\ writing = None
  /\ promised = None
  /\ loaded = None

Begin(v) ==
  /\ writing = None
  /\ writing' = v
  /\ UNCHANGED <<saved, promised, loaded>>

Succeed ==
  /\ writing # None
  /\ saved' = writing /\ promised' = writing
  /\ writing' = None
  /\ UNCHANGED loaded

Fail ==
  /\ writing # None
  /\ saved' \in {saved, writing, Damaged}
  /\ writing' = None
  /\ UNCHANGED <<promised, loaded>>

Load ==
  /\ writing = None /\ saved # None
  /\ loaded' = saved
  /\ UNCHANGED <<saved, writing, promised>>

(* A power loss: what was loaded is gone, a write under way has failed.    *)
PowerFails ==
  /\ loaded' = None
  /\ writing' = None
  /\ IF writing = None THEN UNCHANGED saved ELSE saved' \in {saved, writing, Damaged}
  /\ UNCHANGED promised

FileNext ==
  \/ \E v \in Versions : Begin(v)
  \/ Succeed \/ Fail \/ Load \/ PowerFails

FileSpec == FileInit /\ [][FileNext]_fileVars
=============================================================================
