-------------------------------- MODULE Boot --------------------------------
(***************************************************************************)
(* main (main.c, lines 85-157): from power-on to the game's own main loop, *)
(* with so_load step by step (SoLoad) and fatal_error (error.c).           *)
(*                                                                         *)
(* Every check that can end in fatal_error may fail here.  What the later  *)
(* stages need of the earlier ones is kept as state: the temporary block   *)
(* with the section headers, the import table, patched but unflushed code, *)
(* FIOS2 and who has initialised GXM.                                      *)
(***************************************************************************)
EXTENDS SoLoad

CONSTANTS
  ConfigFiles  \* the trilinear_filter/disable_mipmaps settings a file may hold

Default == "off"  \* read_config's own values of those settings

ASSUME ConfigAssumption == Default \in ConfigFiles

VARIABLES
  stage,     \* where main is
  file,      \* the settings in config.txt, or "missing"
  config,    \* the settings in force
  imports,   \* the settings dynlib_functions has been adapted to
  resolved,  \* the settings the game's import slots were filled under
  dirty,     \* TRUE: code was written and the caches not flushed since
  patched,   \* which of the patch_ functions have run
  fios,      \* "off", "half" (initialised, no RAM cache buffer) or "on"
  gxm        \* who has initialised GXM: "nobody", "dialog" or "vgl"

bootVars == <<stage, file, config, imports, resolved, dirty, patched, fios, gxm>>
vars == <<soVars, bootVars>>
codeVars == <<imports, resolved, dirty, patched>>

Patches == {"openal", "opengl", "game"}

Init ==
  /\ SoInit
  /\ stage = "kubridge"
  /\ file \in ConfigFiles \union {"missing"}
  /\ config = Default
  /\ imports = Default
  /\ resolved = "nothing"
  /\ dirty = FALSE
  /\ patched = {}
  /\ fios = "off"
  /\ gxm = "nobody"

-----------------------------------------------------------------------------
At(s) == stage = s

Goto(s) == stage' = s

(* A check that passes to the next stage or ends in fatal_error.           *)
Check(here, next) ==
  /\ At(here)
  /\ Goto(next) \/ Goto("fatal")
  /\ UNCHANGED <<soVars, file, config, codeVars, fios, gxm>>

(* Lines 95-102.                                                           *)
CheckKubridge == Check("kubridge", "shacccg")
CheckShacccg == Check("shacccg", "data")
FindData == Check("data", "config")

(* Lines 105-107: read_config sets the defaults, then reads the file if it *)
(* can be opened; if not, write_config may create it.                      *)
OpenConfig ==
  /\ At("config")
  /\ config' = Default
  /\ \/ file # "missing" /\ Goto("reading") /\ UNCHANGED file
     \/ file' \in {file, Default} /\ Goto("check")
  /\ UNCHANGED <<soVars, codeVars, fios, gxm>>

(* config.c:67-87: the loop takes lines until the end of the file ...      *)
ReadConfig ==
  /\ At("reading")
  /\ config' = file
  /\ Goto("check")
  /\ UNCHANGED <<soVars, file, codeVars, fios, gxm>>

(* ... which it never sees if fgets fails before that: feof stays false.   *)
ReadError ==
  /\ At("reading")
  /\ Goto("hung")
  /\ UNCHANGED <<soVars, file, config, codeVars, fios, gxm>>

(* Line 109.                                                               *)
CheckData == Check("check", "load")

(* Line 112, so_load itself.                                               *)
Load ==
  /\ At("load")
  /\ SoNext
  /\ dirty' = (dirty \/ copied' # copied)
  /\ UNCHANGED <<stage, file, config, imports, resolved, patched, fios, gxm>>

(* Mutant: the result of so_load is not looked at.                         *)
LoadedUnchecked ==
  /\ At("load")
  /\ Returned
  /\ Goto("imports")
  /\ UNCHANGED <<soVars, file, config, codeVars, fios, gxm>>

(* Lines 112-113, its result.                                              *)
Loaded ==
  /\ At("load")
  /\ Returned
  /\ Goto(IF res = "negative" THEN "fatal" ELSE "imports")
  /\ UNCHANGED <<soVars, file, config, codeVars, fios, gxm>>

(* The program is over when so_load has written through NULL, and when     *)
(* so_resolve reads section headers that were freed before so_load         *)
(* returned 0: nothing has been put in their place since.                  *)
Crash ==
  /\ \/ At("load") /\ at = "crashed"
     \/ At("resolve") /\ Temp \notin mem
  /\ Goto("crashed")
  /\ UNCHANGED <<soVars, file, config, codeVars, fios, gxm>>

(* Line 115.                                                               *)
UpdateImports ==
  /\ At("imports")
  /\ imports' = config
  /\ Goto("resolve")
  /\ UNCHANGED <<soVars, file, config, resolved, dirty, patched, fios, gxm>>

(* Line 116: so_resolve fills the game's import slots from the table.      *)
Resolve ==
  /\ At("resolve") /\ Temp \in mem
  /\ resolved' = imports
  /\ dirty' = TRUE
  /\ Goto("patch_openal")
  /\ UNCHANGED <<soVars, file, config, imports, patched, fios, gxm>>

(* Lines 118-120: a patch looks symbols up and writes hooks; a symbol may  *)
(* be missing after some hooks have been written.                          *)
PatchWith(p, here, next) ==
  /\ At(here)
  /\ \/ patched' = patched \union {p} /\ Goto(next)
     \/ Goto("fatal") /\ UNCHANGED patched
  /\ dirty' = TRUE
  /\ UNCHANGED <<soVars, file, config, imports, resolved, fios, gxm>>

PatchOpenal == PatchWith("openal", "patch_openal", "patch_opengl")
PatchOpengl == PatchWith("opengl", "patch_opengl", "patch_game")
PatchGame == PatchWith("game", "patch_game", "flush")

(* Mutant: the caches are not flushed.                                     *)
FlushSkipped ==
  /\ At("flush")
  /\ Goto("constructors")
  /\ UNCHANGED <<soVars, file, config, codeVars, fios, gxm>>

(* Line 125.                                                               *)
Flush ==
  /\ At("flush")
  /\ dirty' = FALSE
  /\ Goto("constructors")
  /\ UNCHANGED <<soVars, file, config, imports, resolved, patched, fios, gxm>>

(* Line 127: the game's static constructors, found through the headers.    *)
ExecuteInitArray ==
  /\ At("constructors")
  /\ Goto("free")
  /\ UNCHANGED <<soVars, file, config, codeVars, fios, gxm>>

(* Mutant: the temporary block is not freed.                               *)
FreeTempSkipped ==
  /\ At("free")
  /\ Goto("fios")
  /\ UNCHANGED <<soVars, file, config, codeVars, fios, gxm>>

(* Line 128.                                                               *)
FreeTemp ==
  /\ At("free")
  /\ mem' = mem \ {tempId}
  /\ Goto("fios")
  /\ UNCHANGED <<image, at, seg, res, fd, handles, layout, file, config,
                 codeVars, fios, gxm>>

(* Lines 135-137 and fios.c:28-59.                                         *)
FiosInit ==
  /\ At("fios")
  /\ \/ fios' \in {"off", "half", "on"} /\ Goto("fatal")
     \/ fios' = "on" /\ Goto("symbols")
  /\ UNCHANGED <<soVars, file, config, codeVars, gxm>>

(* Mutant: vgl is initialised before the symbols are looked up.            *)
FindSymbolsAfterVgl ==
  /\ At("symbols")
  /\ gxm' = "vgl"
  /\ Goto("vgl") \/ Goto("fatal")
  /\ UNCHANGED <<soVars, file, config, codeVars, fios>>

(* Lines 139-145.                                                          *)
FindSymbols == Check("symbols", "vgl")

(* Lines 148-150.                                                          *)
VglInit ==
  /\ At("vgl")
  /\ gxm' = "vgl"
  /\ Goto("game")
  /\ UNCHANGED <<soVars, file, config, codeVars, fios>>

(* Lines 152-154: the game runs until ExitAndroidGame.  It may change the  *)
(* settings file (SetAndroidCurrentLanguage, game.c:310-318).              *)
SaveSettings ==
  /\ At("game")
  /\ file' = config
  /\ UNCHANGED <<soVars, stage, config, codeVars, fios, gxm>>

(* game.c:89-92 and fios.c:61-66.                                          *)
ExitAndroidGame ==
  /\ At("game")
  /\ fios' = IF fios = "on" THEN "off" ELSE fios
  /\ Goto("exited")
  /\ UNCHANGED <<soVars, file, config, codeVars, gxm>>

(* error.c:109-123: fatal_error brings up GXM itself.                      *)
FatalError ==
  /\ At("fatal")
  /\ gxm' = "dialog"
  /\ Goto("message")
  /\ UNCHANGED <<soVars, file, config, codeVars, fios>>

(* Line 135: the system shows the message, or refuses to.                  *)
MsgDialogInit ==
  /\ At("message")
  /\ Goto("dialog") \/ Goto("silent")
  /\ UNCHANGED <<soVars, file, config, codeVars, fios, gxm>>

(* Lines 136-151: when the user has closed it, or at once if there is      *)
(* nothing to close, GXM is shut down and the process ends.                *)
EndProcess ==
  /\ At("dialog") \/ At("silent")
  /\ gxm' = "nobody"
  /\ Goto("exited")
  /\ UNCHANGED <<soVars, file, config, codeVars, fios>>

Next ==
  \/ CheckKubridge \/ CheckShacccg \/ FindData
  \/ OpenConfig \/ ReadConfig \/ ReadError \/ CheckData
  \/ Load \/ Loaded \/ Crash \/ UpdateImports \/ Resolve
  \/ PatchOpenal \/ PatchOpengl \/ PatchGame \/ Flush
  \/ ExecuteInitArray \/ FreeTemp \/ FiosInit \/ FindSymbols \/ VglInit
  \/ SaveSettings \/ ExitAndroidGame
  \/ FatalError \/ MsgDialogInit \/ EndProcess

Spec == Init /\ [][Next]_vars

(* The console runs main to its end, and the user closes the dialog; how   *)
(* long the game runs is up to it.                                         *)
FairSpec == Spec /\ WF_vars(Next)

-----------------------------------------------------------------------------
TypeOK ==
  /\ SoTypeOK
  /\ stage \in {"kubridge", "shacccg", "data", "config", "reading", "hung",
                "check", "load", "crashed", "imports", "resolve",
                "patch_openal", "patch_opengl", "patch_game", "flush",
                "constructors", "free", "fios", "symbols", "vgl", "game",
                "fatal", "message", "dialog", "silent", "exited"}
  /\ file \in ConfigFiles \union {"missing"}
  /\ config \in ConfigFiles /\ imports \in ConfigFiles
  /\ resolved \in ConfigFiles \union {"nothing"}
  /\ dirty \in BOOLEAN
  /\ patched \subseteq Patches
  /\ fios \in {"off", "half", "on"}
  /\ gxm \in {"nobody", "dialog", "vgl"}

(* The stages in which main may still read the section headers, and those  *)
(* of fatal_error.                                                         *)
WithHeaders == {"imports", "resolve", "patch_openal", "patch_opengl",
                "patch_game", "flush", "constructors", "free"}
Refusing == {"fatal", "message", "dialog", "silent"}

Executing == stage \in {"constructors", "game"}

(* Game code never runs with an unflushed instruction, an unpatched entry  *)
(* point, or imports chosen under other settings than those of config.txt: *)
(* what update_imports changes takes effect only if so_resolve comes after *)
(* it and read_config before it.                                           *)
CodeIsFinal == Executing => ~dirty /\ patched = Patches /\ resolved = config

(* Where main reads the section headers, in so_resolve and in              *)
(* so_excute_init_array, the block that holds them is allocated.  Only a   *)
(* library that begins with data, which so_load gives up with a result of  *)
(* 0, gets to so_resolve without, and none gets past it.                   *)
HeadersAlive ==
  /\ stage = "resolve" /\ Temp \notin mem => ~StartsWithText
  /\ stage \in WithHeaders \ {"imports", "resolve"} => Temp \in mem

(* In the game only the library's segments remain allocated; on a fatal    *)
(* error before the library was complete, nothing remains.                 *)
NothingLeftOver ==
  Expected(image) =>
    /\ stage \in {"fios", "symbols", "vgl", "game"} => mem = Segments
    /\ stage \in Refusing /\ res = "negative" => mem = {}

(* GXM is initialised once at a time: fatal_error, which does it for its   *)
(* dialog, is out of the question once vglInitExtended has done it.        *)
GxmTakenOnce ==
  [][gxm' \in {"dialog", "vgl"} /\ gxm' # gxm => gxm = "nobody"]_vars

(* main gets to the game or ends the process, unless a read error keeps it *)
(* in read_config for ever, or the program faults: there is no other place *)
(* where it stops.                                                         *)
BootEnds ==
  \/ <>(stage \in {"game", "exited"})
  \/ <>[](stage = "hung")
  \/ <>[](stage = "crashed")

(* A library that so_load refuses is refused with a message, unless the    *)
(* system refuses the message: the process then ends in silence.           *)
RefusalIsShown ==
  stage = "load" /\ Returned /\ res = "negative" ~>
    stage \in {"dialog", "silent"}

(* Both: what becomes of a start is the game, a message, or one of the     *)
(* ends above.                                                             *)
BootAnswers == BootEnds /\ RefusalIsShown

-----------------------------------------------------------------------------
(* The inductive strengthening: what holds at each stage of main.          *)
BeforeLoad ==
  {"kubridge", "shacccg", "data", "config", "reading", "hung", "check"}
AfterFree == {"fios", "symbols", "vgl", "game"}

MemoryByStage ==
  /\ stage \in BeforeLoad => SoInv /\ at = "open" /\ res = "zero"
  /\ stage = "load" => SoInv
  /\ stage \in WithHeaders => SoInv /\ Returned /\ res # "negative"
  /\ stage \in WithHeaders \ {"imports", "resolve"} => Temp \in mem
  /\ stage \in AfterFree =>
       res # "negative" /\ (Expected(image) => mem = Segments)
  /\ stage \in Refusing /\ res = "negative" /\ Expected(image) => mem = {}

CodeByStage ==
  /\ stage = "reading" => file # "missing"
  /\ stage \in WithHeaders \ {"imports"} => imports = config
  /\ stage \in (WithHeaders \ {"imports", "resolve"}) \union AfterFree =>
       resolved = config
  /\ stage \in {"constructors", "free"} \union AfterFree => ~dirty
  /\ stage = "patch_opengl" => patched = {"openal"}
  /\ stage = "patch_game" => patched = {"openal", "opengl"}
  /\ stage \in {"flush", "constructors", "free"} \union AfterFree =>
       patched = Patches
  /\ stage \in BeforeLoad \union {"load", "imports", "resolve", "patch_openal"} =>
       patched = {}

GxmByStage ==
  stage \notin {"game", "message", "dialog", "silent", "exited"} =>
    gxm = "nobody"

BootInv == TypeOK /\ MemoryByStage /\ CodeByStage /\ GxmByStage
=============================================================================
