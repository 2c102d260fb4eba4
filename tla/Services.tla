------------------------------ MODULE Services ------------------------------
(***************************************************************************)
(* What the game calls for and gets at once: savegames, the gamepad, the   *)
(* import table, shaders, memory, and the set-up of FIOS2 and of the hooks *)
(* before it runs.                                                         *)
(*                                                                         *)
(* The parts share no variable, so a behaviour is one of one of them: part *)
(* says of which, and the others stay at a state they start in.  Savegames *)
(* are run in two ways: in "sound" fclose never fails, the condition under *)
(* which they are what SaveFile specifies.                                 *)
(***************************************************************************)
EXTENDS Storage

-----------------------------------------------------------------------------
Sound == INSTANCE Storage WITH CloseFails <- FALSE

-----------------------------------------------------------------------------
CONSTANTS Exiters, Numbers, Word
VARIABLES num, size, fios, room, buffer, cacheFilter, main, exit, freed, overlap
fiosVars == <<num, size, fios, room, buffer, cacheFilter, main, exit, freed, overlap>>
Fio == INSTANCE Fios WITH filter <- cacheFilter, pc <- main

-----------------------------------------------------------------------------
CONSTANTS PadStates, Unplugged, Touches, Panel, Margin, Controls
VARIABLES
  device, screen, pad, touch, of, snapshot, touched, got, control, polled, prev, latch
inputVars ==
  <<device, screen, pad, touch, of, snapshot, touched, got, control, polled, prev, latch>>
Inp == INSTANCE Input

-----------------------------------------------------------------------------
CONSTANTS Levels, Filters, MaxLive
VARIABLES
  stage, config, table, bound, live, last, uploaded, filter, asked, wanted
importVars ==
  <<stage, config, table, bound, live, last, uploaded, filter, asked, wanted>>
Imp == INSTANCE Imports WITH pc <- stage

-----------------------------------------------------------------------------
VARIABLES left, arrays, shader, choice
shaderVars == <<left, arrays, shader, choice>>
Shd == INSTANCE Shaders WITH pc <- left

-----------------------------------------------------------------------------
CONSTANTS Bytes, Byte, Chars
VARIABLES mem, promised
memoryVars == <<mem, promised>>
Mem == INSTANCE Memory WITH Size <- Bytes

-----------------------------------------------------------------------------
CONSTANTS Tables, Sections, LastAddress
VARIABLES
  syms, sections, crouch, mod, progress, at, pointer, memory, i, j, called
hookVars ==
  <<syms, sections, crouch, mod, progress, at, pointer, memory, i, j, called>>
Gam == INSTANCE GameHooks WITH stage <- progress

ASSUME FiosConstants == Fio!FiosAssumption
ASSUME InputConstants == Inp!InputAssumption
ASSUME ImportConstants == Imp!ImportsAssumption
ASSUME MemoryConstants == Mem!MemoryAssumption
ASSUME GameConstants == Gam!GameHooksAssumption

VARIABLE part

Parts ==
  {"storage", "sound", "fios", "input", "crouch", "imports", "shaders", "memory", "hooks"}

allVars ==
  <<part, vars, fiosVars, inputVars, importVars, shaderVars, memoryVars, hookVars>>

(* The first state of a part that is not run is one of those it may have.  *)
Some(S) == CHOOSE x \in S : TRUE

ServicesInit ==
  /\ part \in Parts
  /\ Init /\ (part \notin {"storage", "sound"} => file = Absent)
  /\ Fio!Init /\ (part # "fios" => num = Some(Numbers) /\ size = num)
  /\ Inp!Init
  /\ Imp!Init /\ (part # "imports" => ~config.disable_mipmaps /\ ~config.trilinear_filter)
  /\ Shd!Init /\ Mem!Init
  /\ Gam!Init /\ (part # "hooks" =>
                    syms = Some(Tables) /\ sections = Some(Sections) /\ ~crouch /\ ~mod)

ServicesNext ==
  /\ UNCHANGED part
  /\ \/ /\ \/ part = "storage" /\ Next
           \/ part = "sound" /\ Sound!Next
        /\ UNCHANGED <<fiosVars, inputVars, importVars, shaderVars, memoryVars, hookVars>>
     \/ /\ part = "fios" /\ Fio!Next
        /\ UNCHANGED <<vars, inputVars, importVars, shaderVars, memoryVars, hookVars>>
     \/ /\ \/ part = "input" /\ Inp!PadNext
           \/ part = "crouch" /\ Inp!CrouchNext
        /\ UNCHANGED <<vars, fiosVars, importVars, shaderVars, memoryVars, hookVars>>
     \/ /\ part = "imports" /\ Imp!Next
        /\ UNCHANGED <<vars, fiosVars, inputVars, shaderVars, memoryVars, hookVars>>
     \/ /\ part = "shaders" /\ Shd!Next
        /\ UNCHANGED <<vars, fiosVars, inputVars, importVars, memoryVars, hookVars>>
     \/ /\ part = "memory" /\ Mem!Next
        /\ UNCHANGED <<vars, fiosVars, inputVars, importVars, shaderVars, hookVars>>
     \/ /\ part = "hooks" /\ Gam!Next
        /\ UNCHANGED <<vars, fiosVars, inputVars, importVars, shaderVars, memoryVars>>

ServicesSpec == ServicesInit /\ [][ServicesNext]_allVars

-----------------------------------------------------------------------------
(* While fclose does not fail, a savegame is what the game may expect: a   *)
(* write that reports success has replaced it, and one that fails or is    *)
(* cut off leaves the old one, the new one or a damaged one.               *)
SoundImplementsSaveFile ==
  Game!FileInit
    /\ [][part = "sound" => Game!FileNext]_(Game!fileVars)

(* The cache of FIOS2.  The game starts only with a cache as large as      *)
(* FIOS2 is told, which holds all of the blocks asked for if their total   *)
(* does not exceed 32 bits; FIOS2 never works with a buffer that was freed; *)
(* game.c:90 relies on fios_terminate doing nothing when there is nothing  *)
(* to terminate, but its pointer is never cleared: the buffer is freed once *)
(* unless two threads exit the game at once; and each of the four storages *)
(* is at least as long as FIOS2 needs it, bit map included.                *)
CacheIsSound ==
  Fio!TypeOK /\ Fio!CacheIsBacked /\ Fio!NoUseAfterFree /\ Fio!FreedOnce /\ Fio!StoragesSuffice

(* What the game is told of its controls.  Whichever port it asks about,   *)
(* its buttons and axes are those of the port whose type was last read     *)
(* with success, as they were then: pad is one variable for both ports, so *)
(* that only a game that asks about the port it has just read is told of   *)
(* that port.  With no shoulder button held, the bits the touch screen     *)
(* stands in for need a finger in the lower half, config.touch_x_margin    *)
(* from both sides.  The crouch latch flips exactly when two successive    *)
(* polls find the control released and then held.                          *)
AnswersAreTrue ==
  /\ []Inp!TypeOK
  /\ Inp!AnswersAreOfThePortRead /\ Inp!MarginsAreDead /\ Inp!CrouchTogglesOnPress

(* Every import but one is bound to a function that takes what the game    *)
(* gives it.  An object the game made, or was given by the launcher, is    *)
(* handed to a function of another library when the game prints to a file  *)
(* it opened or to a stream of __sF, for fprintf alone is newlib's, and at *)
(* no other time; stubs look at nothing.  After any calls the memory is    *)
(* what C and the ARM ABI promise, which needs the arguments in the order  *)
(* each function takes them.                                               *)
TakesWhatItIsGiven ==
  /\ Imp!TypeOK /\ Imp!ObjectsStayHome
  /\ Mem!TypeOK /\ Mem!AsPromised

(* With mipmaps disabled vitaGL is given no level of a compressed texture  *)
(* but the first, and otherwise all; bilinear filtering is replaced when,  *)
(* and only when, the settings ask for it: each hook is in place when      *)
(* so_resolve binds the game, and only under its own setting.  What the    *)
(* game sets by glTexParameterf or by a function eglGetProcAddress gave    *)
(* it passes both hooks by, as the table lets it.                          *)
TexturesAsConfigured == Imp!NoMipmaps /\ Imp!Trilinear

(* Every variant of every pixel shader compiles as far as its names go: it *)
(* declares what it uses exactly once - the sampling macro, the colour it  *)
(* adds, the reference of the alpha test -, mixes no GLSL with the Cg of   *)
(* its template, and adds a colour when it is to and only then.            *)
VariantsCompile ==
  Shd!TypeOK /\ Shd!VariantsDeclareWhatTheyUse /\ Shd!VariantsAreCg /\ Shd!ColorIsAddedOnDemand

(* The patches of the game and its constructors.  No code of the library   *)
(* runs while a function has been replaced by one that would use a pointer *)
(* that was never set; each function that is defined is replaced by what   *)
(* was meant for it, and nothing is written anywhere else but at the       *)
(* beginning of the text, by the hook of a function the library only       *)
(* names; and each constructor is called once, in the order of the         *)
(* sections and of their entries, before the game starts.                  *)
PatchesLand ==
  Gam!TypeOK /\ Gam!ReplacementsAreReady /\ Gam!WrittenWhereMeant /\ Gam!ConstructorsInOrder
=============================================================================
