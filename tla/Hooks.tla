------------------------------- MODULE Hooks -------------------------------
(***************************************************************************)
(* hook_thumb (so_util.c, lines 41-54): overwriting the first instructions *)
(* of a Thumb function of the library by a jump.                           *)
(*                                                                         *)
(* Code memory is a sequence of halfwords; an address is its halfword's    *)
(* number, which is what the code's addr &= ~1 makes of a function pointer *)
(* with the Thumb bit.  A word is two halfwords, the first one even.       *)
(***************************************************************************)
EXTENDS Integers

CONSTANTS
  TextSize,   \* halfwords of code
  Funcs,      \* functions of the library
  Start,      \* Start[f]: the first halfword of f
  Size,       \* Size[f]: how many it has
  Targets,    \* functions of this program
  Unhooked

Text == 0..(TextSize - 1)

(* The halfwords of a function, and those a hook at its start takes.       *)
Extent(f) == Start[f]..(Start[f] + Size[f] - 1)
Padding(f) == Start[f] % 2  \* line 45: a hook starts at a word
Footprint(f) == Start[f]..(Start[f] + Padding(f) + 3)

ASSUME HookAssumption ==
  /\ TextSize \in Nat
  /\ Start \in [Funcs -> Text] /\ Size \in [Funcs -> Nat]
  /\ \A f \in Funcs : Footprint(f) \subseteq Text
  /\ \A f, g \in Funcs : f # g => Extent(f) \intersect Extent(g) = {}
  /\ Unhooked \notin Targets

(* What a halfword may contain.                                            *)
Original(h) == <<"original", h, 0>>
Nop == <<"nop", 0, 0>>
LdrPc(k) == <<"ldr pc, [pc]", 0, k>>
Literal(dst, k) == <<"literal", dst, k>>

VARIABLES
  code,   \* the halfwords of the text
  target, \* target[f]: where f was last hooked to
  spoilt  \* history: functions into whose hook a later one has run

hookVars == <<code, target, spoilt>>

HookInit ==
  /\ code = [h \in Text |-> Original(h)]
  /\ target = [f \in Funcs |-> Unhooked]
  /\ spoilt = {}

(* Lines 47 and 50-53: the code with a jump to dst at halfword a, and what *)
(* is between the start of f and a filled with a NOP.                      *)
WithJump(f, a, dst) ==
  [h \in Text |->
     CASE h \in Start[f]..(a - 1) -> Nop
       [] h = a     -> LdrPc(0)
       [] h = a + 1 -> LdrPc(1)
       [] h = a + 2 -> Literal(dst, 0)
       [] h = a + 3 -> Literal(dst, 1)
       [] OTHER     -> code[h]]

(* Mutant: no padding (lines 45-49 missing).                               *)
PatchedUnpadded(f, dst) == WithJump(f, Start[f], dst)

(* Lines 45-53: a is addr after line 48.                                   *)
Patched(f, dst) == WithJump(f, Start[f] + Padding(f), dst)

Hooked == {f \in Funcs : target[f] # Unhooked}
Overlap(f, g) == Footprint(f) \intersect Footprint(g) # {}

hook_thumb(f, dst) ==
  /\ code' = Patched(f, dst)
  /\ target' = [target EXCEPT ![f] = dst]
  /\ spoilt' = (spoilt \union {g \in Hooked : Overlap(f, g)}) \ {f}

HookNext == \E f \in Funcs, dst \in Targets : hook_thumb(f, dst)

HookSpec == HookInit /\ [][HookNext]_hookVars

-----------------------------------------------------------------------------
(* The processor: an LDR PC, [PC] at halfword a loads its literal from     *)
(* the word at PC, which is a + 2 rounded down to a word.                  *)
JumpsAt(a, dst) ==
  /\ code[a] = LdrPc(0) /\ code[a + 1] = LdrPc(1)
  /\ LET w == (a + 2) - ((a + 2) % 2)
     IN code[w] = Literal(dst, 0) /\ code[w + 1] = Literal(dst, 1)

(* A call of halfword h ends up in dst.                                    *)
Reaches(h, dst) ==
  \/ JumpsAt(h, dst)
  \/ code[h] = Nop /\ JumpsAt(h + 1, dst)

Contents ==
  {Original(h) : h \in Text} \union {Nop, LdrPc(0), LdrPc(1)}
    \union {Literal(d, k) : d \in Targets, k \in {0, 1}}

HookTypeOK ==
  /\ code \in [Text -> Contents]
  /\ target \in [Funcs -> Targets \union {Unhooked}]
  /\ spoilt \subseteq Funcs

(* Every hooked function leads to the target it was last hooked to, at     *)
(* whichever address it starts, until a later hook runs into its own.      *)
Redirected ==
  \A f \in Hooked \ spoilt : Reaches(Start[f], target[f])

(* A function that is not hooked loses exactly the instructions that the   *)
(* hooks of others run over: those of a function too short for its hook    *)
(* reach into the next one, and all of the others stay out of it.          *)
NeighboursCut ==
  \A g \in Funcs \ Hooked : \A h \in Extent(g) \intersect Text :
    code[h] # Original(h) <=>
      \E f \in Hooked : h \in Footprint(f) /\ ~(Footprint(f) \subseteq Extent(f))

(* What a hook is for, and all it does.                                    *)
HooksAreExact == Redirected /\ NeighboursCut

-----------------------------------------------------------------------------
(* The inductive strengthening: the footprints of hooks, and nothing else, *)
(* have changed.                                                           *)
FootprintsTaken ==
  \A h \in Text :
    code[h] = Original(h) <=> (\A f \in Hooked : h \notin Footprint(f))

HookInv == HookTypeOK /\ Redirected /\ FootprintsTaken
=============================================================================
