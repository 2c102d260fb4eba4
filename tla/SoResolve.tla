----------------------------- MODULE SoResolve -----------------------------
(***************************************************************************)
(* so_resolve (so_util.c, lines 191-245): the relocations of the game's    *)
(* library.                                                                *)
(*                                                                         *)
(* A library is its sections in order, each with a name and (for the two   *)
(* relocation tables) a sequence of relocations, its dynamic symbols, and  *)
(* what its slots contain before: for ABS32 and RELATIVE the addend.  A    *)
(* slot is named by its offset from text_base.  Addresses are numbers      *)
(* modulo Words (2^32 on the console).                                     *)
(***************************************************************************)
EXTENDS Integers, Sequences

CONSTANTS
  Words,      \* how many addresses there are
  TextBase,   \* text_base
  Slots,      \* the offsets that are relocated
  Symbols,    \* indices of the dynamic symbol table
  Names,      \* names of symbols
  Functions,  \* the import table: a sequence of [symbol, func]
  Libraries   \* the libraries that may be loaded

Word == 0..(Words - 1)

RelTypes == {"R_ARM_ABS32", "R_ARM_RELATIVE", "R_ARM_GLOB_DAT",
             "R_ARM_JUMP_SLOT", "other"}

Relocations == [offset : Slots, type : RelTypes, sym : Symbols]

(* The section headers, and the table of dynamic symbols.                  *)
SectionTables ==
  Seq([name : {".rel.dyn", ".rel.plt", "other"}, rels : Seq(Relocations)])
SymbolTables == [Symbols -> [name : Names, undef : BOOLEAN, value : Word]]

WellFormed(l) ==
  /\ l.sections \in SectionTables
  /\ l.symbols \in SymbolTables
  /\ l.content \in [Slots -> Word]

ASSUME ResolveAssumption ==
  /\ Words \in Nat \ {0}
  /\ TextBase \in Word
  /\ Slots \subseteq Word
  /\ Functions \in Seq([symbol : Names, func : Word])
  /\ \A l \in Libraries : WellFormed(l)

VARIABLES
  lib,  \* the library that is resolved
  i,    \* the section's number, from 1
  j,    \* the relocation's number, from 1
  slot  \* what the slots contain

resVars == <<lib, i, j, slot>>

Sections == DOMAIN lib.sections

IsTable(s) == lib.sections[s].name \in {".rel.dyn", ".rel.plt"}

ResInit ==
  /\ lib \in Libraries
  /\ i = 1 /\ j = 1
  /\ slot = lib.content

-----------------------------------------------------------------------------
(* Lines 192-196: the end of a table, or a section that is none.           *)
NextSection ==
  /\ i \in Sections
  /\ IsTable(i) => j \notin DOMAIN lib.sections[i].rels
  /\ i' = i + 1 /\ j' = 1
  /\ UNCHANGED <<lib, slot>>

(* Lines 196-200: the current relocation, its slot and its symbol.         *)
Rel == lib.sections[i].rels[j]
Old == slot[Rel.offset]
Sym == lib.symbols[Rel.sym]

(* The loops stand at a relocation of one of the given types.              *)
AtRelocation(types) ==
  /\ i \in Sections /\ IsTable(i) /\ j \in DOMAIN lib.sections[i].rels
  /\ Rel.type \in types

(* *ptr = value, and on to the next relocation.                            *)
Store(value) ==
  /\ slot' = [slot EXCEPT ![Rel.offset] = value]
  /\ j' = j + 1
  /\ UNCHANGED <<lib, i>>

Address(sym) == (TextBase + sym.value) % Words

(* Lines 201-205.                                                          *)
Abs32 ==
  /\ AtRelocation({"R_ARM_ABS32"})
  /\ Store((Old + Address(Sym)) % Words)

(* Lines 207-211.                                                          *)
Relative ==
  /\ AtRelocation({"R_ARM_RELATIVE"})
  /\ Store((Old + TextBase) % Words)

(* Lines 213-219.                                                          *)
BindDefined ==
  /\ AtRelocation({"R_ARM_GLOB_DAT", "R_ARM_JUMP_SLOT"})
  /\ ~Sym.undef
  /\ Store(Address(Sym))

(* Lines 224-231: the first entry of that name.                            *)
Import(name, otherwise) ==
  LET found == {k \in DOMAIN Functions : Functions[k].symbol = name}
  IN IF found = {} THEN otherwise
     ELSE Functions[CHOOSE k \in found : \A l \in found : k <= l].func

(* Mutant: a library's own definition does not take precedence.            *)
BindImportAlways ==
  /\ AtRelocation({"R_ARM_GLOB_DAT", "R_ARM_JUMP_SLOT"})
  /\ Store(Import(Sym.name, Rel.offset))

(* Lines 221-233: what is not found will crash at its own offset.          *)
BindImport ==
  /\ AtRelocation({"R_ARM_GLOB_DAT", "R_ARM_JUMP_SLOT"})
  /\ Sym.undef
  /\ Store(Import(Sym.name, Rel.offset))

(* Lines 236-238: the slot is left as it was.                              *)
Unknown == AtRelocation({"other"}) /\ Store(Old)

ResNext ==
  \/ NextSection
  \/ Abs32 \/ Relative \/ BindDefined \/ BindImport \/ Unknown

ResSpec == ResInit /\ [][ResNext]_resVars

ResDone == i \notin Sections

-----------------------------------------------------------------------------
ResTypeOK ==
  /\ WellFormed(lib)
  /\ i \in 1..(Len(lib.sections) + 1)
  /\ j \in Nat \ {0}
  /\ i \in Sections => j <= Len(lib.sections[i].rels) + 1
  /\ slot \in [Slots -> Word]

(* The relocations of the library, by section and number.                  *)
Places ==
  UNION {{s} \X DOMAIN lib.sections[s].rels : s \in {t \in Sections : IsTable(t)}}

RelAt(p) == lib.sections[p[1]].rels[p[2]]

(* The addresses a symbol stands for: its own, or the one import table     *)
(* entry of its name.                                                      *)
Resolutions(sym) ==
  IF sym.undef
  THEN {Functions[k].func :
          k \in {l \in DOMAIN Functions : Functions[l].symbol = sym.name}}
  ELSE {Address(sym)}

(* What the ARM ELF supplement asks a slot to contain after relocation r:  *)
(* S + A, B + A or S, from the slot's own contents A; the code's choice    *)
(* for a symbol that nothing defines is the slot's offset.                 *)
Relocated(r, value) ==
  LET sym == lib.symbols[r.sym]
      addend == lib.content[r.offset]
  IN CASE r.type = "R_ARM_ABS32" ->
            \E s \in Resolutions(sym) : value = (s + addend) % Words
       [] r.type = "R_ARM_RELATIVE" -> value = (TextBase + addend) % Words
       [] r.type \in {"R_ARM_GLOB_DAT", "R_ARM_JUMP_SLOT"} ->
            \/ value \in Resolutions(sym)
            \/ Resolutions(sym) = {} /\ value = r.offset
       [] OTHER -> value = addend

(* The order in which the loops come to the relocations.                   *)
Before(p, q) == p[1] < q[1] \/ (p[1] = q[1] /\ p[2] < q[2])
SameSlot(p) == {q \in Places : RelAt(q).offset = RelAt(p).offset}

(* The types that take no notice of what the slot contains.                *)
Binds(r) == r.type \in {"R_ARM_GLOB_DAT", "R_ARM_JUMP_SLOT"}

(* R_ARM_ABS32 refers to a symbol of the library itself: line 203 takes an *)
(* undefined one for a symbol at text_base.                                *)
OwnSymbol(r) == r.type = "R_ARM_ABS32" => ~lib.symbols[r.sym].undef

(* A relocation whose outcome stays: no other one of its slot comes after  *)
(* it, and none before it changed an addend it needs (that is kept in the  *)
(* slot, so that a slot listed twice is added to twice).                   *)
Decides(p) ==
  /\ \A q \in SameSlot(p) : ~Before(p, q)
  /\ Binds(RelAt(p)) \/ SameSlot(p) = {p}
  /\ OwnSymbol(RelAt(p))

(* so_resolve gives every slot the value its last relocation asks for, of  *)
(* several that bind the last one's, and touches no other slot, whatever   *)
(* the order of sections and relocations and whatever is wrong with other  *)
(* slots.                                                                  *)
ResolvedAsLinked ==
  ResDone =>
    /\ \A p \in Places :
         Decides(p) => Relocated(RelAt(p), slot[RelAt(p).offset])
    /\ \A s \in Slots :
         (\A p \in Places : RelAt(p).offset # s) => slot[s] = lib.content[s]

-----------------------------------------------------------------------------
(* The relocations before the loop's current place.                        *)
Past(p) == Before(p, <<i, j>>)

(* The inductive strengthening: what is behind the loop is final, what is  *)
(* ahead of it untouched.                                                  *)
HalfWay ==
  /\ \A p \in Places :
       Decides(p) /\ Past(p) => Relocated(RelAt(p), slot[RelAt(p).offset])
  /\ \A s \in Slots :
       (\A p \in Places : RelAt(p).offset = s => ~Past(p)) =>
         slot[s] = lib.content[s]

ResInv == ResTypeOK /\ HalfWay
=============================================================================
