----------------------------- MODULE GameHooks -----------------------------
(***************************************************************************)
(* patch_game (hooks/game.c, lines 348-437) step by step, with             *)
(* so_find_addr (so_util.c, lines 260-269), then the library's             *)
(* constructors (so_excute_init_array, lines 247-258), then the game.      *)
(*                                                                         *)
(* An address is its distance from text_base, and memory holds at each     *)
(* address either what the library put there or what was written over it.  *)
(* An undefined symbol of the library is in its symbol table, with the     *)
(* value 0.  The replacements that need nothing of the library are one     *)
(* entry, "others"; the bytes of a hook are the subject of Hooks.          *)
(***************************************************************************)
EXTENDS Integers, Sequences, FiniteSetsExt, SequencesExt

CONSTANTS
  Tables,      \* symbol tables: sequences of [name, value]
  Sections,    \* section tables: sequences of [init, entries], entries numbers
  LastAddress  \* of the library

Null == -1
Own == "own"

VARIABLES
  syms,     \* the symbol table of the library
  sections, \* its sections, as so_excute_init_array sees them
  crouch,   \* config.crouch_toggle # 0
  mod,      \* config.mod_file is not empty
  stage,    \* "patch", "constructors", "game" or "fatal"
  at,       \* how many steps of patch_game are done
  pointer,  \* the static pointers to things of the library
  memory,   \* memory[a]: the library's own, or what was written there
  i, j,     \* the loop variables of so_excute_init_array
  called    \* the constructors that were called: [section, entry]

loopVars == <<i, j, called>>
vars == <<syms, sections, crouch, mod, stage, at, pointer, memory, loopVars>>

(* A step of patch_game: to hook a function, or to find an address.        *)
Hook(name) == [does |-> "hook", name |-> name]
FindAddr(name) == [does |-> "find", name |-> name]

DeviceVars == <<FindAddr("deviceChip"), FindAddr("deviceForm"),
                FindAddr("definedDevice")>>

(* Mutant: the condition covers the addresses and not the hook.            *)
CrouchStepsSplit ==
  (IF crouch THEN <<FindAddr("sm_control"), FindAddr("getButton")>> ELSE <<>>)
    \o <<Hook("readCrouch")>>

CrouchSteps ==
  IF crouch
  THEN <<FindAddr("sm_control"), FindAddr("getButton"), Hook("readCrouch")>>
  ELSE <<>>

ModSteps ==
  IF mod
  THEN <<FindAddr("unloadArchives"), FindAddr("loadArchives"),
         FindAddr("enablePriorityArchive"), Hook("setFileSystemRoot")>>
  ELSE <<>>

Steps ==
  <<Hook("others"), Hook("AND_SystemInitialize")>>
    \o CrouchSteps \o ModSteps \o DeviceVars

(* The static pointers, and the functions that are replaced.               *)
Pointers == {"deviceChip", "deviceForm", "definedDevice", "sm_control",
             "getButton", "unloadArchives", "loadArchives",
             "enablePriorityArchive"}
Hooked == {"others", "AND_SystemInitialize", "readCrouch", "setFileSystemRoot"}
Names == Pointers \union Hooked

(* Which of the pointers a replacement uses.                               *)
Uses(name) ==
  CASE name = "AND_SystemInitialize" ->
         {"deviceChip", "deviceForm", "definedDevice"}
    [] name = "readCrouch" -> {"sm_control", "getButton"}
    [] name = "setFileSystemRoot" ->
         {"unloadArchives", "loadArchives", "enablePriorityArchive"}
    [] OTHER -> {}

Places(name) == {k \in DOMAIN syms : syms[k].name = name}

(* The first symbol of the name; without one there is no result.           *)
so_find_addr(name) == syms[Min(Places(name))].value

Addresses == 0 .. LastAddress

(* Of the symbols only those that are looked for; different ones are in    *)
(* different places, unless they are undefined.                            *)
GameHooksAssumption ==
  /\ LastAddress \in Nat
  /\ \A table \in Tables :
       /\ table \in Seq([name : Names, value : Addresses])
       /\ \A k, l \in DOMAIN table :
            table[k].name # table[l].name /\ table[k].value = table[l].value
              => table[k].value = 0
  /\ Sections \subseteq Seq([init : BOOLEAN, entries : Seq(Nat)])

Init ==
  /\ syms \in Tables /\ sections \in Sections
  /\ crouch \in BOOLEAN /\ mod \in BOOLEAN
  /\ stage = "patch"
  /\ at = 0
  /\ pointer = [p \in Pointers |-> Null]
  /\ memory = [a \in Addresses |-> Own]
  /\ i = 1 /\ j = 1
  /\ called = <<>>

-----------------------------------------------------------------------------
Patch ==
  /\ stage = "patch" /\ at < Len(Steps)
  /\ LET step == Steps[at + 1] IN
       /\ Places(step.name) # {}
       /\ IF step.does = "hook"
          THEN /\ memory' = [memory EXCEPT ![so_find_addr(step.name)] = step.name]
               /\ UNCHANGED pointer
          ELSE /\ pointer' = [pointer EXCEPT ![step.name] = so_find_addr(step.name)]
               /\ UNCHANGED memory
  /\ at' = at + 1
  /\ UNCHANGED <<syms, sections, crouch, mod, stage, loopVars>>

(* so_find_addr's fatal_error, which does not come back.                   *)
SymbolMissing ==
  /\ stage = "patch" /\ at < Len(Steps)
  /\ Places(Steps[at + 1].name) = {}
  /\ stage' = "fatal"
  /\ UNCHANGED <<syms, sections, crouch, mod, at, pointer, memory, loopVars>>

Patched ==
  /\ stage = "patch" /\ at = Len(Steps)
  /\ stage' = "constructors"
  /\ UNCHANGED <<syms, sections, crouch, mod, at, pointer, memory, loopVars>>

-----------------------------------------------------------------------------
(* so_excute_init_array.                                                   *)
InSection == i <= Len(sections) /\ sections[i].init
InEntry == InSection /\ j <= Len(sections[i].entries)

CallConstructor ==
  /\ stage = "constructors" /\ InEntry
  /\ called' = IF sections[i].entries[j] # 0
               THEN Append(called, [section |-> i, entry |-> j]) ELSE called
  /\ j' = j + 1
  /\ UNCHANGED <<syms, sections, crouch, mod, stage, at, pointer, memory, i>>

NextSection ==
  /\ stage = "constructors" /\ ~InEntry
  /\ IF i <= Len(sections)
     THEN i' = i + 1 /\ j' = 1 /\ UNCHANGED stage
     ELSE stage' = "game" /\ UNCHANGED <<i, j>>
  /\ UNCHANGED <<syms, sections, crouch, mod, at, pointer, memory, called>>

-----------------------------------------------------------------------------
(* AND_SystemInitialize, when the library's own function is overwritten    *)
(* and a constructor or the game calls it.                                 *)
AND_SystemInitialize ==
  /\ stage \in {"constructors", "game"}
  /\ "AND_SystemInitialize" \in {memory[a] : a \in Addresses}
  /\ memory' = [memory EXCEPT ![pointer["deviceForm"]] = "1",
                              ![pointer["deviceChip"]] = "19",
                              ![pointer["definedDevice"]] = "27"]
  /\ UNCHANGED <<syms, sections, crouch, mod, stage, at, pointer, loopVars>>

Next ==
  \/ Patch \/ SymbolMissing \/ Patched
  \/ CallConstructor \/ NextSection \/ AND_SystemInitialize

Spec == Init /\ [][Next]_vars

-----------------------------------------------------------------------------
TypeOK ==
  /\ syms \in Tables /\ sections \in Sections
  /\ crouch \in BOOLEAN /\ mod \in BOOLEAN
  /\ stage \in {"patch", "constructors", "game", "fatal"}
  /\ at \in 0 .. 12
  /\ pointer \in [Pointers -> Addresses \union {Null}]
  /\ memory \in [Addresses -> Names \union {Own, "1", "19", "27"}]
  /\ i \in 1 .. Len(sections) + 1 /\ j \in Nat \ {0}
  /\ called \in Seq([section : Nat, entry : Nat])

Running == stage \in {"constructors", "game"}
Defined(name) == Places(name) # {} /\ so_find_addr(name) # 0

(* No code of the library runs, not even a constructor, while one of its   *)
(* functions has been replaced by one that would use a pointer that was    *)
(* never set: the device variables are found after their hook is written,  *)
(* the others only under a setting.                                        *)
ReplacementsAreReady ==
  Running =>
    \A a \in Addresses : \A p \in Uses(memory[a]) : pointer[p] # Null

(* What the patches leave behind: each function that is defined is         *)
(* replaced by what was meant for it, those that are not wanted under the  *)
(* settings are the library's own, the device variables are not changed    *)
(* but by AND_SystemInitialize, and nothing is written anywhere else - but *)
(* for the beginning of the text, which a hook of a function that is in    *)
(* the symbol table and undefined has overwritten.                         *)
Meant(name) ==
  CASE name \in {"others", "AND_SystemInitialize"} -> {name}
    [] name = "readCrouch" -> IF crouch THEN {name} ELSE {Own}
    [] name = "setFileSystemRoot" -> IF mod THEN {name} ELSE {Own}
    [] name = "deviceChip" -> {Own, "19"}
    [] name = "deviceForm" -> {Own, "1"}
    [] name = "definedDevice" -> {Own, "27"}
    [] OTHER -> {Own}

WrittenWhereMeant ==
  Running =>
    /\ \A name \in Names : Defined(name) => memory[so_find_addr(name)] \in Meant(name)
    /\ \A a \in Addresses :
         (\A name \in Names : Places(name) # {} => a # so_find_addr(name)) => memory[a] = Own
    /\ (\E k \in DOMAIN Steps : Steps[k].does = "hook" /\ ~Defined(Steps[k].name)) =>
         memory[0] # Own

(* Each constructor is called once, in the order of the sections and of    *)
(* their entries, and the game starts when all have been.                  *)
Constructors ==
  UNION {{[section |-> k, entry |-> e] :
            e \in {n \in DOMAIN sections[k].entries : sections[k].entries[n] # 0}} :
         k \in {n \in DOMAIN sections : sections[n].init}}

Before(c, d) ==
  \/ c.section < d.section
  \/ c.section = d.section /\ c.entry < d.entry

ConstructorsInOrder ==
  /\ \A k, l \in DOMAIN called : k < l => Before(called[k], called[l])
  /\ Range(called) \subseteq Constructors
  /\ \A c \in Range(called), d \in Constructors : Before(d, c) => d \in Range(called)
  /\ stage = "game" => Range(called) = Constructors
=============================================================================
