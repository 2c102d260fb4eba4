------------------------------ MODULE MCWaits ------------------------------
(***************************************************************************)
(* Model-checking instance of Waits.                                       *)
(***************************************************************************)
EXTENDS Waits, TLC

(* ThreadLaunch: two neighbouring priorities and one the game does not     *)
(* define.                                                                 *)
CONSTANTS j1, j2, j3
ThreeJobs == {j1, j2, j3}
GamePriorities == j1 :> 1 @@ j2 :> 2 @@ j3 :> 7

(* Clock: requests below, at and above one word.                           *)
SleepRequests ==
  { [sec |-> 0, nsec |-> 0], [sec |-> 0, nsec |-> 5], [sec |-> 1, nsec |-> 2],
    [sec |-> 1, nsec |-> 11], [sec |-> 2, nsec |-> 0], [sec |-> 3, nsec |-> 7] }

(* ConfigFile: a setting of each kind; 35 has more digits than are         *)
(* printed.                                                                *)
FourSettings == <<"io_cache_block_size", "language", "decal_limit", "mod_file">>
Numbers == {0, 1, 3, 6, 9, 12, 33, 34, 35, 64}
FirstValues ==
  [io_cache_block_size |-> 64, language |-> 0, decal_limit |-> 33, mod_file |-> 0]
Rounded == [v \in Numbers |-> IF v = 35 THEN 34 ELSE v]

(* Empty; a language out of range; a mod file that exists and a setting    *)
(* given twice; one that does not exist and a number that is rounded.      *)
TextLine(s, v) == [name |-> s, value |-> v]
UserFiles ==
  { <<>>,
    <<TextLine("language", 9), TextLine("decal_limit", 35)>>,
    <<TextLine("io_cache_block_size", 6), TextLine("mod_file", 12),
      TextLine(Unknown, 1), TextLine("io_cache_block_size", 0)>>,
    <<TextLine("mod_file", 3), TextLine("language", 1)>> }
=============================================================================
