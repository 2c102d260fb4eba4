---------------------------- MODULE SoUtilProofs ----------------------------
(***************************************************************************)
(* Proofs about so_resolve and hook_thumb, for libraries with any sections *)
(* and relocations, and for any layout of functions.                       *)
(***************************************************************************)
EXTENDS SoResolve, Hooks, TLAPS, WellFoundedInduction

(* A set of natural numbers that is not empty has a least one.             *)
LEMMA LeastNumber ==
  ASSUME NEW T, T \subseteq Nat, T # {}
  PROVE  \E k \in T : \A l \in T : k <= l
<1> DEFINE less == {p \in Nat \X Nat : p[1] < p[2]}
<1>1. IsWellFoundedOn(less, Nat)
  <2>1. less = OpToRel(<, Nat)
    BY Zenon DEF OpToRel
  <2> QED
    BY <2>1, NatLessThanWellFounded
<1>2. PICK k \in T : \A l \in T : ~(<<l, k>> \in less)
  <2> HIDE DEF less
  <2> QED
    BY <1>1, WFMin, Zenon
<1>3. \A l \in T : ~(l < k)
  BY <1>2
<1> QED
  BY <1>3

-----------------------------------------------------------------------------
(* so_resolve                                                              *)

(* The parts of a library the loop looks at.                               *)
LEMMA LibraryShape ==
  ASSUME WellFormed(lib)
  PROVE  /\ Len(lib.sections) \in Nat
         /\ Sections = 1..Len(lib.sections)
         /\ \A s \in Sections :
              /\ Len(lib.sections[s].rels) \in Nat
              /\ DOMAIN lib.sections[s].rels = 1..Len(lib.sections[s].rels)
              /\ \A r \in DOMAIN lib.sections[s].rels :
                  lib.sections[s].rels[r] \in Relocations
         /\ \A p : p \in Places <=>
              \E s \in Sections : \E r \in DOMAIN lib.sections[s].rels :
                IsTable(s) /\ p = <<s, r>>
<1>1. lib.sections \in Seq([name : {".rel.dyn", ".rel.plt", "other"},
                            rels : Seq(Relocations)])
  BY DEF WellFormed, SectionTables
<1>2. Len(lib.sections) \in Nat /\ Sections = 1..Len(lib.sections)
  BY <1>1 DEF Sections
<1>3. \A s \in Sections : lib.sections[s].rels \in Seq(Relocations)
  <2> DEFINE Record == [name : {".rel.dyn", ".rel.plt", "other"},
                        rels : Seq(Relocations)]
  <2>1. \A x \in Record : x.rels \in Seq(Relocations)
    OBVIOUS
  <2>2. lib.sections \in Seq(Record)
    BY <1>1
  <2> HIDE DEF Record
  <2>3. \A s \in 1..Len(lib.sections) : lib.sections[s] \in Record
    BY <2>2
  <2> QED
    BY <1>2, <2>1, <2>3
<1>4. \A s \in Sections :
        /\ Len(lib.sections[s].rels) \in Nat
        /\ DOMAIN lib.sections[s].rels = 1..Len(lib.sections[s].rels)
        /\ \A r \in DOMAIN lib.sections[s].rels :
             lib.sections[s].rels[r] \in Relocations
  BY <1>3
<1>5. ASSUME NEW p
      PROVE  p \in Places <=>
               \E s \in Sections : \E r \in DOMAIN lib.sections[s].rels :
                 IsTable(s) /\ p = <<s, r>>
  BY DEF Places
<1> QED
  BY <1>2, <1>4, <1>5

(* Before the loop every slot is as the file has it.                       *)
LEMMA ResInitEstablishes == ResInit => ResInv
<1> SUFFICES ASSUME ResInit PROVE ResInv
  OBVIOUS
<1>1. WellFormed(lib)
  BY ResolveAssumption DEF ResInit
<1>2. ResTypeOK
  <2>1. slot \in [Slots -> Word]
    BY <1>1 DEF ResInit, WellFormed
  <2> QED
    BY <1>1, <2>1, LibraryShape DEF ResInit, ResTypeOK
<1>3. \A p \in Places : ~Past(p)
  BY <1>1, LibraryShape DEF ResInit, Past, Before
<1>4. HalfWay
  BY <1>3 DEF ResInit, HalfWay
<1> QED
  BY <1>2, <1>4 DEF ResInv

(* What depends on the library alone does not change while lib does not.   *)
LEMMA SameLibrary ==
  ASSUME lib' = lib
  PROVE  /\ WellFormed(lib)' = WellFormed(lib)
         /\ Sections' = Sections /\ Places' = Places
         /\ \A p : RelAt(p)' = RelAt(p)
         /\ \A p : Decides(p)' = Decides(p)
         /\ \A r, v : Relocated(r, v)' = Relocated(r, v)
<1>1. Sections' = Sections /\ (\A s : IsTable(s)' = IsTable(s))
  BY DEF Sections, IsTable
<1>2. Places' = Places
  BY <1>1 DEF Places
<1>3. \A p : RelAt(p)' = RelAt(p)
  BY DEF RelAt
<1>4. \A r, v : Relocated(r, v)' = Relocated(r, v)
  BY DEF Relocated
<1>5. \A p : Decides(p)' = Decides(p)
  <2>1. \A p : SameSlot(p)' = SameSlot(p)
    BY <1>2, <1>3 DEF SameSlot
  <2>2. \A r : OwnSymbol(r)' = OwnSymbol(r)
    BY DEF OwnSymbol
  <2> QED
    BY <1>3, <2>1, <2>2 DEF Decides
<1> QED
  BY <1>1, <1>2, <1>3, <1>4, <1>5

(* Where the loop stands is all that HalfWay has from the loop: if slots   *)
(* and the relocations behind it stay, it stays.                           *)
LEMMA HalfWayStays ==
  ASSUME HalfWay, lib' = lib, slot' = slot,
         \A p \in Places : Past(p)' <=> Past(p)
  PROVE  HalfWay'
<1>1. ASSUME NEW p \in Places, Decides(p), Past(p)'
      PROVE  Relocated(RelAt(p), slot[RelAt(p).offset])'
  BY <1>1, SameLibrary DEF HalfWay
<1>2. ASSUME NEW s \in Slots,
             \A p \in Places : RelAt(p).offset = s => ~Past(p)'
      PROVE  slot'[s] = lib'.content[s]
  BY <1>2 DEF HalfWay
<1> QED
  BY <1>1, <1>2, SameLibrary DEF HalfWay

(* Leaving a section, or skipping one, puts no relocation behind the loop. *)
LEMMA NextSectionKeeps == ResInv /\ NextSection => ResInv'
<1> SUFFICES ASSUME ResInv, NextSection PROVE ResInv'
  OBVIOUS
<1>1. ResTypeOK /\ HalfWay
  BY DEF ResInv
<1>2. lib' = lib /\ slot' = slot /\ i' = i + 1 /\ j' = 1 /\ i \in Sections
  BY DEF NextSection
<1>3. WellFormed(lib)
  BY <1>1 DEF ResTypeOK
<1>4. ResTypeOK'
  <2>1. \A s \in Sections : 1 <= Len(lib.sections[s].rels) + 1
    BY <1>3, LibraryShape
  <2>2. i' \in 1..(Len(lib.sections) + 1)
    BY <1>2, <1>3, LibraryShape
  <2> QED
    BY <1>1, <1>2, <2>1, <2>2, SameLibrary DEF ResTypeOK
<1>5. ASSUME NEW p \in Places PROVE Past(p)' <=> Past(p)
  <2>1. PICK s \in Sections :
          \E r \in DOMAIN lib.sections[s].rels : IsTable(s) /\ p = <<s, r>>
    BY <1>3, LibraryShape
  <2> PICK r \in DOMAIN lib.sections[s].rels : IsTable(s) /\ p = <<s, r>>
    BY <2>1
  <2>2. s \in Nat /\ i \in Nat /\ j \in Nat /\ r \in 1..Len(lib.sections[s].rels)
        /\ Len(lib.sections[s].rels) \in Nat
    BY <1>1, <1>3, LibraryShape DEF ResTypeOK
  <2>3. s = i => r < j
    <3>1. SUFFICES ASSUME s = i PROVE r < j
      OBVIOUS
    <3>2. j \notin 1..Len(lib.sections[s].rels)
      BY <1>3, <3>1, LibraryShape DEF NextSection
    <3>3. 1 <= j
      BY <1>1 DEF ResTypeOK
    <3> QED
      BY <2>2, <3>2, <3>3
  <2>4. Past(p) <=> s <= i
    BY <2>2, <2>3 DEF Past, Before
  <2>5. Past(p)' <=> s < i + 1
    BY <1>2, <2>2 DEF Past, Before
  <2> QED
    BY <2>2, <2>4, <2>5
<1>6. HalfWay'
  BY <1>1, <1>2, <1>5, HalfWayStays
<1> QED
  BY <1>4, <1>6 DEF ResInv

(* The common part of the other actions: the slot of the current           *)
(* relocation receives a value that is final if the slot was untouched.    *)
LEMMA Landed ==
  ASSUME ResInv, NEW v \in Word,
         i \in Sections, IsTable(i), j \in DOMAIN lib.sections[i].rels,
         slot' = [slot EXCEPT ![lib.sections[i].rels[j].offset] = v],
         j' = j + 1, i' = i, lib' = lib,
         LET r == lib.sections[i].rels[j]
         IN /\ OwnSymbol(r)
            /\ Binds(r) \/ slot[r.offset] = lib.content[r.offset]
            => Relocated(r, v)
  PROVE  ResInv'
<1> DEFINE r == lib.sections[i].rels[j]
<1> PICK here : here = <<i, j>>
  OBVIOUS
<1>1. ResTypeOK /\ HalfWay /\ WellFormed(lib)
  BY DEF ResInv, ResTypeOK
<1>2. /\ i \in Nat /\ j \in Nat /\ j <= Len(lib.sections[i].rels)
      /\ Len(lib.sections[i].rels) \in Nat
  BY <1>1, LibraryShape DEF ResTypeOK
<1>3. r \in Relocations /\ r.offset \in Slots
  <2>1. r \in Relocations
    BY <1>1, LibraryShape
  <2> HIDE DEF r
  <2> QED
    BY <2>1 DEF Relocations
<1>4. ResTypeOK'
  <2>1. slot' \in [Slots -> Word]
    BY <1>1, <1>3 DEF ResTypeOK
  <2> QED
    BY <1>1, <1>2, <2>1, SameLibrary DEF ResTypeOK
<1>5. here \in Places /\ ~Past(here) /\ RelAt(here) = r
  BY <1>1, <1>2, LibraryShape DEF Past, Before, RelAt
<1>6. \A p \in Places : Past(p)' <=> Past(p) \/ p = here
  <2> SUFFICES ASSUME NEW p \in Places PROVE Past(p)' <=> Past(p) \/ p = here
    OBVIOUS
  <2>1. PICK s \in Sections :
          \E k \in DOMAIN lib.sections[s].rels : IsTable(s) /\ p = <<s, k>>
    BY <1>1, LibraryShape
  <2> PICK k \in DOMAIN lib.sections[s].rels : p = <<s, k>>
    BY <2>1
  <2>2. s \in Nat /\ k \in Nat
    BY <1>1, LibraryShape
  <2> QED
    BY <1>2, <2>2 DEF Past, Before
<1>7. ASSUME NEW p \in Places, Decides(p), Past(p)'
      PROVE  Relocated(RelAt(p), slot'[RelAt(p).offset])
  <2>1. CASE p = here
    <3>1. Binds(r) \/ slot[r.offset] = lib.content[r.offset]
      <4>1. SUFFICES ASSUME ~Binds(r) PROVE slot[r.offset] = lib.content[r.offset]
        OBVIOUS
      <4>2. SameSlot(here) = {here}
        BY <1>5, <1>7, <2>1, <4>1 DEF Decides
      <4>3. \A q \in Places : RelAt(q).offset = r.offset => ~Past(q)
        BY <1>5, <4>2 DEF SameSlot
      <4> QED
        BY <1>1, <1>3, <4>3 DEF HalfWay
    <3>2. OwnSymbol(r)
      BY <1>5, <1>7, <2>1 DEF Decides
    <3>3. slot'[r.offset] = v
      BY <1>1, <1>3 DEF ResTypeOK
    <3> QED
      BY <1>5, <2>1, <3>1, <3>2, <3>3
  <2>2. CASE p # here
    <3>1. Past(p) /\ Before(p, here)
      BY <1>6, <1>7, <2>2 DEF Past
    <3>2. RelAt(p).offset # r.offset
      BY <1>5, <1>7, <3>1 DEF Decides, SameSlot
    <3>3. RelAt(p).offset \in Slots
      BY <1>1, LibraryShape DEF RelAt, Relocations
    <3>4. slot'[RelAt(p).offset] = slot[RelAt(p).offset]
      BY <1>1, <3>2, <3>3 DEF ResTypeOK
    <3> QED
      BY <1>1, <1>7, <3>1, <3>4 DEF HalfWay
  <2> QED
    BY <2>1, <2>2
<1>8. ASSUME NEW s \in Slots,
             \A p \in Places : RelAt(p).offset = s => ~Past(p)'
      PROVE  slot'[s] = lib.content[s]
  <2>1. s # r.offset
    BY <1>5, <1>6, <1>8
  <2>2. slot'[s] = slot[s]
    BY <1>1, <2>1 DEF ResTypeOK
  <2> QED
    BY <1>1, <1>6, <1>8, <2>2 DEF HalfWay
<1>9. HalfWay'
  BY <1>7, <1>8, SameLibrary DEF HalfWay
<1> QED
  BY <1>4, <1>9 DEF ResInv

(* The import table yields an entry of the name, if it has one.            *)
LEMMA ImportFound ==
  ASSUME NEW name \in Names, NEW otherwise \in Word
  PROVE  LET found == {k \in DOMAIN Functions : Functions[k].symbol = name}
         IN /\ Import(name, otherwise) \in Word
            /\ found = {} => Import(name, otherwise) = otherwise
            /\ found # {} =>
                 Import(name, otherwise) \in {Functions[k].func : k \in found}
<1> DEFINE found == {k \in DOMAIN Functions : Functions[k].symbol = name}
<1>1. Functions \in Seq([symbol : Names, func : Word])
  BY ResolveAssumption
<1>2. found \subseteq Nat
  BY <1>1
<1>3. \A k \in found : Functions[k].func \in Word
  <2> DEFINE Entry == [symbol : Names, func : Word]
  <2>1. \A e \in Entry : e.func \in Word
    OBVIOUS
  <2>2. Functions \in Seq(Entry)
    BY <1>1
  <2> HIDE DEF Entry
  <2> QED
    BY <2>1, <2>2
<1>4. CASE found = {}
  BY <1>4 DEF Import
<1>5. CASE found # {}
  <2> DEFINE first == CHOOSE k \in found : \A l \in found : k <= l
  <2>1. Import(name, otherwise) = Functions[first].func
    BY <1>5 DEF Import
  <2>2. first \in found
    <3> HIDE DEF found
    <3> QED
      BY <1>2, <1>5, LeastNumber
  <2> HIDE DEF first
  <2> QED
    BY <1>3, <1>5, <2>1, <2>2
<1> QED
  BY <1>4, <1>5

(* The current relocation, its symbol and its slot have their types.       *)
LEMMA CurrentShape ==
  ASSUME ResInv, i \in Sections, j \in DOMAIN lib.sections[i].rels
  PROVE  LET r == lib.sections[i].rels[j]
         IN /\ r.offset \in Slots /\ r.offset \in Word
            /\ r.sym \in Symbols
            /\ slot[r.offset] \in Word
            /\ lib.symbols[r.sym].name \in Names
            /\ lib.symbols[r.sym].undef \in BOOLEAN
            /\ lib.symbols[r.sym].value \in Word
<1> DEFINE r == lib.sections[i].rels[j]
           Entry == [name : Names, undef : BOOLEAN, value : Word]
<1>1. ResTypeOK /\ WellFormed(lib)
  BY DEF ResInv, ResTypeOK
<1>2. r \in Relocations
  BY <1>1, LibraryShape
<1> HIDE DEF r
<1>3. r.offset \in Slots /\ r.sym \in Symbols
  BY <1>2 DEF Relocations
<1>4. r.offset \in Word /\ slot[r.offset] \in Word
  BY <1>1, <1>3, ResolveAssumption DEF ResTypeOK
<1>5. lib.symbols \in [Symbols -> Entry]
  BY <1>1 DEF WellFormed, SymbolTables
<1>6. lib.symbols[r.sym] \in Entry
  BY <1>3, <1>5
<1>7. \A e \in Entry : e.name \in Names /\ e.undef \in BOOLEAN /\ e.value \in Word
  OBVIOUS
<1> QED
  BY <1>3, <1>4, <1>6, <1>7 DEF r

(* Addresses are numbers.                                                  *)
LEMMA WordsAreNumbers == Word \subseteq Int
BY ResolveAssumption DEF Word

(* Adding and wrapping round stays within the addresses.                   *)
LEMMA Wraps ==
  ASSUME NEW a \in Word, NEW b \in Word
  PROVE  (a + b) % Words \in Word
BY ResolveAssumption DEF Word

(* Every relocation keeps the invariant.                                   *)
LEMMA RelocationKeeps ==
  ResInv /\ (Abs32 \/ Relative \/ BindDefined \/ BindImport \/ Unknown) => ResInv'
<1> DEFINE r == lib.sections[i].rels[j]
           sym == lib.symbols[r.sym]
<1>1. ASSUME ResInv, Abs32 PROVE ResInv'
  <2> DEFINE v == (slot[r.offset] + Address(sym)) % Words
  <2>1. /\ i \in Sections /\ IsTable(i) /\ j \in DOMAIN lib.sections[i].rels
        /\ r.type = "R_ARM_ABS32" /\ slot' = [slot EXCEPT ![r.offset] = v]
        /\ j' = j + 1 /\ i' = i /\ lib' = lib
    BY <1>1 DEF Abs32, AtRelocation, Store, Rel, Sym, Old
  <2>2. Address(sym) \in Word
    BY <1>1, <2>1, CurrentShape, ResolveAssumption, Wraps DEF Address
  <2>3. v \in Word
    BY <1>1, <2>1, <2>2, CurrentShape, Wraps
  <2>4. ASSUME OwnSymbol(r), Binds(r) \/ slot[r.offset] = lib.content[r.offset]
        PROVE  Relocated(r, v)
    <3>1. slot[r.offset] = lib.content[r.offset]
      BY <2>1, <2>4 DEF Binds
    <3>2. Resolutions(sym) = {Address(sym)}
      BY <2>1, <2>4 DEF OwnSymbol, Resolutions
    <3>3. v = (Address(sym) + lib.content[r.offset]) % Words
      <4>1. slot[r.offset] \in Int /\ Address(sym) \in Int
        BY <1>1, <2>1, <2>2, CurrentShape, WordsAreNumbers
      <4> QED
        BY <3>1, <4>1
    <3> QED
      BY <2>1, <3>2, <3>3 DEF Relocated
  <2> HIDE DEF v
  <2> QED
    BY <1>1, <2>1, <2>3, <2>4, Landed
<1>2. ASSUME ResInv, Relative PROVE ResInv'
  <2> DEFINE v == (slot[r.offset] + TextBase) % Words
  <2>1. /\ i \in Sections /\ IsTable(i) /\ j \in DOMAIN lib.sections[i].rels
        /\ r.type = "R_ARM_RELATIVE" /\ slot' = [slot EXCEPT ![r.offset] = v]
        /\ j' = j + 1 /\ i' = i /\ lib' = lib
    BY <1>2 DEF Relative, AtRelocation, Store, Rel, Old
  <2>2. v \in Word
    BY <1>2, <2>1, CurrentShape, Wraps, ResolveAssumption
  <2>3. ASSUME Binds(r) \/ slot[r.offset] = lib.content[r.offset]
        PROVE  Relocated(r, v)
    <3>1. slot[r.offset] \in Int /\ TextBase \in Int
      BY <1>2, <2>1, CurrentShape, ResolveAssumption, WordsAreNumbers
    <3>2. v = (TextBase + lib.content[r.offset]) % Words
      BY <2>1, <2>3, <3>1 DEF Binds
    <3> QED
      BY <2>1, <3>2 DEF Relocated
  <2> HIDE DEF v
  <2> QED
    BY <1>2, <2>1, <2>2, <2>3, Landed
<1>3. ASSUME ResInv, BindDefined PROVE ResInv'
  <2>1. /\ i \in Sections /\ IsTable(i) /\ j \in DOMAIN lib.sections[i].rels
        /\ r.type \in {"R_ARM_GLOB_DAT", "R_ARM_JUMP_SLOT"} /\ ~sym.undef
        /\ slot' = [slot EXCEPT ![r.offset] = Address(sym)]
        /\ j' = j + 1 /\ i' = i /\ lib' = lib
    BY <1>3 DEF BindDefined, AtRelocation, Store, Rel, Sym
  <2>2. Address(sym) \in Word
    BY <1>3, <2>1, CurrentShape, ResolveAssumption, Wraps DEF Address
  <2>3. Relocated(r, Address(sym))
    BY <2>1 DEF Relocated, Resolutions
  <2> QED
    BY <1>3, <2>1, <2>2, <2>3, Landed
<1>4. ASSUME ResInv, BindImport PROVE ResInv'
  <2> DEFINE v == Import(sym.name, r.offset)
             found == {k \in DOMAIN Functions : Functions[k].symbol = sym.name}
  <2>1. /\ i \in Sections /\ IsTable(i) /\ j \in DOMAIN lib.sections[i].rels
        /\ r.type \in {"R_ARM_GLOB_DAT", "R_ARM_JUMP_SLOT"} /\ sym.undef
        /\ slot' = [slot EXCEPT ![r.offset] = v]
        /\ j' = j + 1 /\ i' = i /\ lib' = lib
    BY <1>4 DEF BindImport, AtRelocation, Store, Rel, Sym
  <2>2. /\ v \in Word
        /\ found = {} => v = r.offset
        /\ found # {} => v \in {Functions[k].func : k \in found}
    BY <1>4, <2>1, CurrentShape, ImportFound
  <2>3. Resolutions(sym) = {Functions[k].func : k \in found}
    BY <2>1 DEF Resolutions
  <2>4. Relocated(r, v)
    <3>1. v \in Resolutions(sym) \/ (Resolutions(sym) = {} /\ v = r.offset)
      BY <2>2, <2>3
    <3> HIDE DEF v
    <3> QED
      BY <2>1, <3>1 DEF Relocated
  <2> HIDE DEF v
  <2> QED
    BY <1>4, <2>1, <2>2, <2>4, Landed
<1>5. ASSUME ResInv, Unknown PROVE ResInv'
  <2>1. /\ i \in Sections /\ IsTable(i) /\ j \in DOMAIN lib.sections[i].rels
        /\ r.type = "other"
        /\ slot' = [slot EXCEPT ![r.offset] = slot[r.offset]]
        /\ j' = j + 1 /\ i' = i /\ lib' = lib
    BY <1>5 DEF Unknown, AtRelocation, Store, Rel, Old
  <2>2. slot[r.offset] \in Word
    BY <1>5, <2>1, CurrentShape
  <2>3. Binds(r) \/ slot[r.offset] = lib.content[r.offset] =>
          Relocated(r, slot[r.offset])
    BY <2>1 DEF Relocated, Binds
  <2> QED
    BY <1>5, <2>1, <2>2, <2>3, Landed
<1> QED
  BY <1>1, <1>2, <1>3, <1>4, <1>5

(* The invariant of so_resolve's loop: what is behind it is final, what is *)
(* ahead of it is untouched.                                               *)
THEOREM ResInvariance == ResSpec => []ResInv
<1>1. ResInv /\ [ResNext]_resVars => ResInv'
  <2>1. ResInv /\ UNCHANGED resVars => ResInv'
    <3> SUFFICES ASSUME ResInv, UNCHANGED resVars PROVE ResInv'
      OBVIOUS
    <3>1. lib' = lib /\ i' = i /\ j' = j /\ slot' = slot
      BY DEF resVars
    <3>2. \A p : Past(p)' = Past(p)
      BY <3>1 DEF Past
    <3>3. HalfWay'
      BY <3>1, <3>2, HalfWayStays DEF ResInv
    <3>4. ResTypeOK'
      BY <3>1, SameLibrary DEF ResTypeOK, ResInv
    <3> QED
      BY <3>3, <3>4 DEF ResInv
  <2> QED
    BY <2>1, NextSectionKeeps, RelocationKeeps DEF ResNext
<1> QED
  BY <1>1, ResInitEstablishes, PTL DEF ResSpec

(* so_resolve's variables keep their types, and its addresses wrap round.  *)
THEOREM ResTypeCorrect == ResSpec => []ResTypeOK
<1>1. ResInv => ResTypeOK
  BY DEF ResInv
<1> QED
  BY <1>1, ResInvariance, PTL

(* When so_resolve returns, every slot has what its last relocation asks   *)
(* for, if that binds it or is its only one and refers to a symbol of the  *)
(* library; slots that are not listed have what they had.                  *)
THEOREM Resolved == ResSpec => []ResolvedAsLinked
<1>1. ResInv => ResolvedAsLinked
  <2> SUFFICES ASSUME ResInv, ResDone PROVE ResolvedAsLinked
    BY DEF ResolvedAsLinked
  <2>1. \A p \in Places : Past(p)
    <3> SUFFICES ASSUME NEW p \in Places PROVE Past(p)
      OBVIOUS
    <3>1. PICK s \in Sections : \E k \in DOMAIN lib.sections[s].rels : p = <<s, k>>
      BY LibraryShape DEF ResInv, ResTypeOK
    <3> QED
      BY <3>1, LibraryShape DEF ResInv, ResTypeOK, ResDone, Past, Before
  <2> QED
    BY <2>1 DEF ResInv, HalfWay, ResolvedAsLinked
<1> QED
  BY <1>1, ResInvariance, PTL

-----------------------------------------------------------------------------
(* hook_thumb                                                              *)

(* A function's start is a number, and so the padding is 0 or 1.           *)
LEMMA FunctionShape ==
  ASSUME NEW f \in Funcs
  PROVE  /\ Start[f] \in Nat /\ Start[f] \in Text
         /\ Padding(f) \in {0, 1} /\ (Start[f] + Padding(f)) % 2 = 0
         /\ Footprint(f) \subseteq Text
<1>1. Start[f] \in Text /\ TextSize \in Nat /\ Footprint(f) \subseteq Text
  BY HookAssumption
<1>2. Start[f] \in Nat
  BY <1>1 DEF Text
<1> QED
  BY <1>1, <1>2 DEF Padding

(* Every step of hook_thumb writes its footprint and nothing else.         *)
LEMMA WritesFootprint ==
  ASSUME NEW f \in Funcs, NEW dst, NEW h \in Text
  PROVE  LET a == Start[f] + Padding(f)
         IN Patched(f, dst)[h] =
              IF h \in Start[f]..(a - 1) THEN Nop
              ELSE IF h = a THEN LdrPc(0)
              ELSE IF h = a + 1 THEN LdrPc(1)
              ELSE IF h = a + 2 THEN Literal(dst, 0)
              ELSE IF h = a + 3 THEN Literal(dst, 1)
              ELSE code[h]
<1> DEFINE a == Start[f] + Padding(f)
<1>1. Start[f] \in Nat /\ a \in Nat /\ h \in Int
  BY FunctionShape, HookAssumption DEF Text
<1> HIDE DEF a
<1>2. Patched(f, dst)[h] = WithJump(f, a, dst)[h]
  BY DEF Patched, a
<1>3. WithJump(f, a, dst)[h] =
        CASE h \in Start[f]..(a - 1) -> Nop
          [] h = a     -> LdrPc(0)
          [] h = a + 1 -> LdrPc(1)
          [] h = a + 2 -> Literal(dst, 0)
          [] h = a + 3 -> Literal(dst, 1)
          [] OTHER     -> code[h]
  BY DEF WithJump
<1>4. WithJump(f, a, dst)[h] =
        IF h \in Start[f]..(a - 1) THEN Nop
        ELSE IF h = a THEN LdrPc(0)
        ELSE IF h = a + 1 THEN LdrPc(1)
        ELSE IF h = a + 2 THEN Literal(dst, 0)
        ELSE IF h = a + 3 THEN Literal(dst, 1)
        ELSE code[h]
  BY <1>1, <1>3
<1> QED
  BY <1>2, <1>4 DEF a

(* The instruction is not taken for its literal.                           *)
LEMMA NotALiteral ==
  ASSUME NEW d
  PROVE  LdrPc(1) # Literal(d, 0)
<1>1. LdrPc(1)[1] = "ldr pc, [pc]" /\ Literal(d, 0)[1] = "literal"
  BY DEF LdrPc, Literal
<1>2. "ldr pc, [pc]" # "literal"
  OBVIOUS
<1> QED
  BY <1>1, <1>2

(* What a hook writes is no instruction of the library's.                  *)
LEMMA NotOriginal ==
  ASSUME NEW h
  PROVE  /\ Nop # Original(h) /\ LdrPc(0) # Original(h) /\ LdrPc(1) # Original(h)
         /\ \A d : Literal(d, 0) # Original(h) /\ Literal(d, 1) # Original(h)
<1>1. /\ Nop[1] = "nop" /\ LdrPc(0)[1] = "ldr pc, [pc]"
      /\ LdrPc(1)[1] = "ldr pc, [pc]" /\ Original(h)[1] = "original"
      /\ \A d, k : Literal(d, k)[1] = "literal"
  BY DEF Nop, LdrPc, Original, Literal
<1>2. /\ "nop" # "original" /\ "ldr pc, [pc]" # "original"
      /\ "literal" # "original"
  OBVIOUS
<1> QED
  BY <1>1, <1>2

(* Whether a call of a function reaches dst depends on its footprint only. *)
LEMMA FootprintDecides ==
  ASSUME NEW f \in Funcs, NEW dst, Reaches(Start[f], dst),
         \A h \in Footprint(f) : code'[h] = code[h]
  PROVE  Reaches(Start[f], dst)'
<1>1. Start[f] \in Nat /\ Padding(f) = Start[f] % 2
  BY FunctionShape DEF Padding
<1>2. \A x \in 0..(Padding(f) + 3) : code'[Start[f] + x] = code[Start[f] + x]
  BY <1>1 DEF Footprint
<1>3. CASE Start[f] % 2 = 0
  <2>1. /\ (Start[f] + 2) % 2 = 0 /\ ((Start[f] + 1) + 2) % 2 = 1
        /\ (Start[f] + 2) - 0 = Start[f] + 2
        /\ ((Start[f] + 1) + 2) - 1 = Start[f] + 2
        /\ (Start[f] + 1) + 1 = Start[f] + 2
        /\ (Start[f] + 2) + 1 = Start[f] + 3
    BY <1>1, <1>3
  <2>2. ~JumpsAt(Start[f] + 1, dst)
    BY <2>1, NotALiteral DEF JumpsAt
  <2>3. JumpsAt(Start[f], dst)
    BY <2>2 DEF Reaches
  <2>4. /\ code'[Start[f]] = code[Start[f]]
        /\ code'[Start[f] + 1] = code[Start[f] + 1]
        /\ code'[Start[f] + 2] = code[Start[f] + 2]
        /\ code'[Start[f] + 3] = code[Start[f] + 3]
    BY <1>1, <1>2, <1>3
  <2> QED
    BY <2>1, <2>3, <2>4 DEF JumpsAt, Reaches
<1>4. CASE Start[f] % 2 = 1
  <2>1. /\ (Start[f] + 2) % 2 = 1 /\ ((Start[f] + 1) + 2) % 2 = 0
        /\ (Start[f] + 2) - 1 = Start[f] + 1
        /\ ((Start[f] + 1) + 2) - 0 = Start[f] + 3
        /\ (Start[f] + 1) + 1 = Start[f] + 2
        /\ (Start[f] + 3) + 1 = Start[f] + 4
    BY <1>1, <1>4
  <2>2. ~JumpsAt(Start[f], dst)
    BY <2>1, NotALiteral DEF JumpsAt
  <2>3. code[Start[f]] = Nop /\ JumpsAt(Start[f] + 1, dst)
    BY <2>2 DEF Reaches
  <2>4. /\ code'[Start[f]] = code[Start[f]]
        /\ code'[Start[f] + 1] = code[Start[f] + 1]
        /\ code'[Start[f] + 2] = code[Start[f] + 2]
        /\ code'[Start[f] + 3] = code[Start[f] + 3]
        /\ code'[Start[f] + 4] = code[Start[f] + 4]
    BY <1>1, <1>2, <1>4
  <2> QED
    BY <2>1, <2>3, <2>4 DEF JumpsAt, Reaches
<1> QED
  BY <1>1, <1>3, <1>4

(* Before the first hook all code is the library's.                        *)
LEMMA HookInitEstablishes == HookInit => HookInv
BY DEF HookInit, HookInv, HookTypeOK, Redirected, FootprintsTaken, Hooked, Contents

(* Every hook keeps the types and, for the hooks that are not run into,    *)
(* where they lead.                                                        *)
LEMMA HookKeeps ==
  ASSUME HookInv, NEW f \in Funcs, NEW dst \in Targets, hook_thumb(f, dst)
  PROVE  HookInv'
<1>1. HookTypeOK /\ Redirected /\ FootprintsTaken
  BY DEF HookInv
<1>2. /\ code' = Patched(f, dst)
      /\ target' = [target EXCEPT ![f] = dst]
      /\ target'[f] = dst /\ \A g \in Funcs \ {f} : target'[g] = target[g]
      /\ spoilt' = (spoilt \union {g \in Hooked : Overlap(f, g)}) \ {f}
  BY <1>1 DEF hook_thumb, HookTypeOK
<1>3. Hooked' = Hooked \union {f} /\ Hooked \subseteq Funcs
  BY <1>1, <1>2, HookAssumption DEF Hooked
<1>4. \A h \in Text :
        /\ code'[h] \in Contents
        /\ h \notin Footprint(f) => code'[h] = code[h]
        /\ h \in Footprint(f) => code'[h] # Original(h)
  <2> SUFFICES ASSUME NEW h \in Text
               PROVE  /\ code'[h] \in Contents
                      /\ h \notin Footprint(f) => code'[h] = code[h]
                      /\ h \in Footprint(f) => code'[h] # Original(h)
    OBVIOUS
  <2>1. code[h] \in Contents
    BY <1>1 DEF HookTypeOK
  <2>2. /\ Nop \in Contents /\ LdrPc(0) \in Contents /\ LdrPc(1) \in Contents
        /\ Literal(dst, 0) \in Contents /\ Literal(dst, 1) \in Contents
    BY DEF Contents
  <2>3. code'[h] \in Contents
    BY <1>2, <2>1, <2>2, WritesFootprint
  <2>4. h \in Int
    BY HookAssumption DEF Text
  <2>5. h \notin Footprint(f) => code'[h] = code[h]
    BY <1>2, <2>4, WritesFootprint, FunctionShape DEF Footprint
  <2>6. h \in Footprint(f) => code'[h] # Original(h)
    <3> DEFINE a == Start[f] + Padding(f)
    <3>1. h \in Footprint(f) =>
            \/ h \in Start[f]..(a - 1) \/ h = a \/ h = a + 1
            \/ h = a + 2 \/ h = a + 3
      <4>1. Start[f] \in Nat /\ Padding(f) \in {0, 1}
        BY FunctionShape
      <4>2. Footprint(f) = Start[f]..(a + 3) /\ a \in Nat
        BY <4>1 DEF Footprint
      <4> HIDE DEF a
      <4> QED
        BY <2>4, <4>1, <4>2
    <3>2. code'[h] = IF h \in Start[f]..(a - 1) THEN Nop
                     ELSE IF h = a THEN LdrPc(0)
                     ELSE IF h = a + 1 THEN LdrPc(1)
                     ELSE IF h = a + 2 THEN Literal(dst, 0)
                     ELSE IF h = a + 3 THEN Literal(dst, 1)
                     ELSE code[h]
      BY <1>2, WritesFootprint
    <3> HIDE DEF a
    <3> QED
      BY <3>1, <3>2, NotOriginal
  <2> QED
    BY <2>3, <2>5, <2>6
<1>5. HookTypeOK'
  <2>1. DOMAIN code' = Text /\ code' = [h \in Text |-> code'[h]]
    BY <1>2 DEF Patched, WithJump
  <2>2. code' \in [Text -> Contents]
    BY <1>4, <2>1
  <2>3. target' \in [Funcs -> Targets \union {Unhooked}]
    BY <1>1, <1>2 DEF HookTypeOK
  <2>4. spoilt' \subseteq Funcs
    BY <1>1, <1>2, <1>3 DEF HookTypeOK
  <2> QED
    BY <2>2, <2>3, <2>4 DEF HookTypeOK
<1>6. FootprintsTaken'
  <2> SUFFICES ASSUME NEW h \in Text
               PROVE  code'[h] = Original(h) <=>
                        \A g \in Hooked' : h \notin Footprint(g)
    BY DEF FootprintsTaken, Original, Footprint, Padding
  <2> QED
    BY <1>1, <1>3, <1>4 DEF FootprintsTaken
<1>7. Reaches(Start[f], dst)'
  <2> DEFINE a == Start[f] + Padding(f)
  <2>1. /\ Start[f] \in Nat /\ Padding(f) \in {0, 1} /\ a % 2 = 0
        /\ a \in Nat /\ (a + 2) % 2 = 0 /\ (a + 2) - 0 = a + 2
        /\ (a + 2) + 1 = a + 3
    BY FunctionShape
  <2>2. /\ a \in Text /\ a + 1 \in Text /\ a + 2 \in Text /\ a + 3 \in Text
        /\ ~\E x \in {0, 1, 2, 3} : a + x \in Start[f]..(a - 1)
    <3>1. Start[f]..(a + 3) \subseteq Text /\ Start[f] <= a
      BY <2>1, FunctionShape DEF Footprint
    <3> HIDE DEF a
    <3> QED
      BY <2>1, <3>1
  <2>3. \A h \in Text :
          code'[h] = IF h \in Start[f]..(a - 1) THEN Nop
                     ELSE IF h = a THEN LdrPc(0)
                     ELSE IF h = a + 1 THEN LdrPc(1)
                     ELSE IF h = a + 2 THEN Literal(dst, 0)
                     ELSE IF h = a + 3 THEN Literal(dst, 1)
                     ELSE code[h]
    BY <1>2, WritesFootprint
  <2>4. /\ code'[a] = LdrPc(0) /\ code'[a + 1] = LdrPc(1)
        /\ code'[a + 2] = Literal(dst, 0) /\ code'[a + 3] = Literal(dst, 1)
    <3> HIDE DEF a
    <3> QED
      BY <2>1, <2>2, <2>3
  <2>5. JumpsAt(a, dst)'
    <3> HIDE DEF a
    <3> QED
      BY <2>1, <2>4 DEF JumpsAt
  <2>6. CASE Padding(f) = 0
    BY <2>1, <2>5, <2>6 DEF Reaches
  <2>7. CASE Padding(f) = 1
    <3>1. code'[Start[f]] = Nop
      BY <1>2, <2>1, <2>7, FunctionShape, WritesFootprint
    <3> QED
      BY <2>5, <2>7, <3>1 DEF Reaches
  <2> QED
    BY <2>1, <2>6, <2>7
<1>8. Redirected'
  <2> SUFFICES ASSUME NEW g \in Hooked' \ spoilt'
               PROVE  Reaches(Start[g], target[g])'
    BY DEF Redirected
  <2>1. CASE g = f
    BY <1>2, <1>7, <2>1 DEF Reaches, JumpsAt
  <2>2. CASE g # f
    <3>1. g \in Hooked /\ g \in Funcs /\ target'[g] = target[g]
      BY <1>2, <1>3, <2>2
    <3>2. g \notin spoilt /\ ~Overlap(f, g)
      BY <1>2, <2>2, <3>1
    <3>2a. Reaches(Start[g], target[g])
      BY <1>1, <3>1, <3>2 DEF Redirected
    <3>3. \A h \in Footprint(g) : code'[h] = code[h]
      BY <1>4, <3>1, <3>2, FunctionShape DEF Overlap
    <3> PICK d : d = target[g]
      OBVIOUS
    <3>4. Reaches(Start[g], d)'
      BY <3>1, <3>2a, <3>3, FootprintDecides
    <3> QED
      BY <3>1, <3>4 DEF Reaches, JumpsAt
  <2> QED
    BY <2>1, <2>2
<1> QED
  BY <1>5, <1>6, <1>8 DEF HookInv

(* The invariant of hook_thumb: types, jumps that lead to their targets,   *)
(* and original code outside the footprints, and only there.               *)
THEOREM HookInvariance == HookSpec => []HookInv
<1>1. HookInv /\ [HookNext]_hookVars => HookInv'
  <2>1. HookInv /\ UNCHANGED hookVars => HookInv'
    BY DEF hookVars, HookInv, HookTypeOK, Redirected, FootprintsTaken, Hooked,
           Reaches, JumpsAt
  <2> QED
    BY <2>1, HookKeeps DEF HookNext
<1> QED
  BY <1>1, HookInitEstablishes, PTL DEF HookSpec

(* Code memory contains original, padding and jump halfwords only.         *)
THEOREM HookTypeCorrect == HookSpec => []HookTypeOK
<1>1. HookInv => HookTypeOK
  BY DEF HookInv
<1> QED
  BY <1>1, HookInvariance, PTL

(* A hooked function leads to the target it was last hooked to, for every  *)
(* layout and both alignments, until a later hook runs into its own.       *)
THEOREM HooksLead == HookSpec => []Redirected
<1>1. HookInv => Redirected
  BY DEF HookInv
<1> QED
  BY <1>1, HookInvariance, PTL

(* A function that is not hooked has lost exactly the halfwords that the   *)
(* hooks of too short functions run over.                                  *)
THEOREM NeighboursLose == HookSpec => []NeighboursCut
<1>1. HookInv => NeighboursCut
  <2> SUFFICES ASSUME HookInv, NEW g \in Funcs \ Hooked,
                      NEW h \in Extent(g) \intersect Text
               PROVE  code[h] # Original(h) <=>
                        \E f \in Hooked :
                          h \in Footprint(f) /\ ~(Footprint(f) \subseteq Extent(f))
    BY DEF NeighboursCut
  <2>1. \A f \in Hooked : f \in Funcs /\ f # g
    BY DEF Hooked
  <2>2. \A f \in Hooked : h \in Footprint(f) => ~(Footprint(f) \subseteq Extent(f))
    BY <2>1, HookAssumption
  <2>3. code[h] # Original(h) <=> \E f \in Hooked : h \in Footprint(f)
    BY DEF HookInv, FootprintsTaken
  <2> QED
    BY <2>2, <2>3
<1> QED
  BY <1>1, HookInvariance, PTL

(* Both: for every layout of functions, those too short for their hooks    *)
(* included, and hooks in any order.                                       *)
THEOREM HooksExact == HookSpec => []HooksAreExact
<1>1. Redirected /\ NeighboursCut => HooksAreExact
  BY DEF HooksAreExact
<1> QED
  BY <1>1, HooksLead, NeighboursLose, PTL
=============================================================================
