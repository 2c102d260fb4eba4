------------------------------- MODULE MCBoot -------------------------------
(* Model-checking instances of SoLoad and Boot.                            *)
EXTENDS Boot, SequencesExt

MaxSegments == 3

(* Every file with up to MaxSegments PT_LOAD segments.                     *)
AllImages ==
  [magic : BOOLEAN, segments : BoundedSeq({Exec, Data}, MaxSegments),
   tables : BOOLEAN]
=============================================================================
