------------------------------ MODULE MCSoUtil ------------------------------
(* Model-checking instance of so_util.c: loading the library (SoLoad), its *)
(* relocations (SoResolve) and the patching of its code (Hooks).  The      *)
(* three share no variable, so a behaviour is one of one of them: part     *)
(* says of which, and the others stay at a state they start in.            *)
EXTENDS SoLoad, SoResolve, Hooks, SequencesExt, TLC

VARIABLE part

-----------------------------------------------------------------------------
MaxSegments == 4

(* Every file with up to MaxSegments PT_LOAD segments.                     *)
AllImages ==
  [magic : BOOLEAN, segments : BoundedSeq({Exec, Data}, MaxSegments),
   tables : BOOLEAN]

-----------------------------------------------------------------------------
(* Symbol 1 is the library's, 2 is imported, 3 is nobody's; the table has  *)
(* 2's name twice, with the library's own name in between.                 *)
SymbolTable ==
  <<[name |-> "own", undef |-> FALSE, value |-> 3],
    [name |-> "imported", undef |-> TRUE, value |-> 0],
    [name |-> "missing", undef |-> TRUE, value |-> 0]>>

ImportTable ==
  <<[symbol |-> "imported", func |-> 13], [symbol |-> "own", func |-> 14],
    [symbol |-> "imported", func |-> 15]>>

(* The symbol of a relocation that ignores it is always 1; jump slots are  *)
(* in the second table.                                                    *)
DynRelocations ==
  {r \in Relocations :
     /\ r.type # "R_ARM_JUMP_SLOT"
     /\ r.type \in {"R_ARM_RELATIVE", "other"} => r.sym = 1}

PltRelocations == {r \in Relocations : r.type = "R_ARM_JUMP_SLOT"}

(* A relocation table, a section that only looks like one, a second table. *)
Library(dyn, plt) ==
  [sections |-> <<[name |-> ".rel.dyn", rels |-> dyn],
                  [name |-> "other", rels |-> dyn],
                  [name |-> ".rel.plt", rels |-> plt]>>,
   symbols |-> SymbolTable,
   content |-> (0 :> 9 @@ 4 :> 0)]

AllLibraries ==
  {Library(dyn, plt) : dyn \in BoundedSeq(DynRelocations, 2),
                       plt \in BoundedSeq(PltRelocations, 1)}

-----------------------------------------------------------------------------
(* Functions at even and odd halfwords, with just enough room, and one     *)
(* that is too short for its hook.                                         *)
Layout ==
  [even  |-> <<0, 4>>,
   tight |-> <<4, 5>>,
   odd   |-> <<9, 5>>,
   short |-> <<15, 4>>,
   last  |-> <<19, 5>>]

Hookable == DOMAIN Layout
Starts == [f \in Hookable |-> Layout[f][1]]
Sizes == [f \in Hookable |-> Layout[f][2]]

-----------------------------------------------------------------------------
Init ==
  /\ part \in {"load", "resolve", "hooks"}
  /\ SoInit /\ (part # "load" => image = [magic |-> TRUE, segments |-> <<>>,
                                          tables |-> TRUE])
  /\ ResInit /\ (part # "resolve" => lib = Library(<<>>, <<>>))
  /\ HookInit

Next ==
  /\ UNCHANGED part
  /\ \/ part = "load" /\ SoNext /\ UNCHANGED <<resVars, hookVars>>
     \/ part = "resolve" /\ ResNext /\ UNCHANGED <<soVars, hookVars>>
     \/ part = "hooks" /\ HookNext /\ UNCHANGED <<soVars, resVars>>

Spec == Init /\ [][Next]_<<part, soVars, resVars, hookVars>>
=============================================================================
