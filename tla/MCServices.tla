----------------------------- MODULE MCServices -----------------------------
(***************************************************************************)
(* Model-checking instance of Services.                                    *)
(***************************************************************************)
EXTENDS Services, SequencesExt, TLC

(* Storage: an empty savegame, one of a single block and one of three.     *)
CONSTANTS empty, small, large
Sizes == empty :> 0 @@ small :> 1 @@ large :> 3

(* Fios: products that are 0, that fit into a word, that just do not, and  *)
(* that are negative.                                                      *)
Products == {-1, 0, 1, 3, 4, 5}

(* Input: two pads that differ; touches in both margins and in the upper   *)
(* half, and touches to the left and to the right that count.              *)
TwoPads ==
  { [buttons |-> {"cross", "l1"}, sticks |-> [axis \in 0 .. 3 |-> 128 - 26 * axis]],
    [buttons |-> {"up", "r2"}, sticks |-> [axis \in 0 .. 3 |-> 255]] }
FrontPanel == [minX |-> 0, maxX |-> 19, minY |-> 0, maxY |-> 10]
Fingers ==
  { {}, {[x |-> 3, y |-> 9], [x |-> 18, y |-> 9], [x |-> 8, y |-> 4]},
    {[x |-> 4, y |-> 9], [x |-> 14, y |-> 5]} }

(* GameHooks: a library that has every symbol, in one order; the same with *)
(* one of them absent, undefined, or there a second time at the end.       *)
Order ==
  <<"deviceForm", "readCrouch", "others", "getButton", "deviceChip",
    "unloadArchives", "AND_SystemInitialize", "loadArchives", "sm_control",
    "enablePriorityArchive", "definedDevice", "setFileSystemRoot">>
EverySymbol == [k \in DOMAIN Order |-> [name |-> Order[k], value |-> k]]
SymbolTables ==
  {EverySymbol}
    \union {RemoveAt(EverySymbol, k) : k \in DOMAIN EverySymbol}
    \union {[EverySymbol EXCEPT ![k].value = 0] : k \in DOMAIN EverySymbol}
    \union {Append(EverySymbol, [EverySymbol[k] EXCEPT !.value = 0]) : k \in DOMAIN EverySymbol}

Text == [init |-> FALSE, entries |-> <<9>>]
InitArray(entries) == [init |-> TRUE, entries |-> entries]
SectionTables ==
  {<<>>, <<Text>>, <<Text, InitArray(<<1, 0, 2>>)>>,
   <<InitArray(<<0>>), Text, InitArray(<<1, 2>>)>>}
=============================================================================
