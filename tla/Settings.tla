------------------------------ MODULE Settings ------------------------------
(***************************************************************************)
(* What a player may expect of the settings: what the next start of the    *)
(* game will use changes only when the game changes the language, and then *)
(* in nothing else, but for what printing a number loses.  ConfigFile is   *)
(* shown to implement this when the file is not edited by hand, no write   *)
(* is cut short and the file can be opened.                                *)
(***************************************************************************)

CONSTANTS
  Names,      \* the settings
  Languages,  \* the languages of the game
  Printed     \* Printed[v]: what v is after it was printed and read

VARIABLE stored  \* the settings the next start will use

ChangeLanguage(l) ==
  stored' = [s \in Names |-> IF s = "language" THEN l ELSE Printed[stored[s]]]

SettingsSpec == [][\E l \in Languages : ChangeLanguage(l)]_stored
=============================================================================
