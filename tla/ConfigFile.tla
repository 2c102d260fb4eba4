---------------------------- MODULE ConfigFile ----------------------------
(***************************************************************************)
(* config.txt: read_config, parse_var and write_config (config.c), who     *)
(* calls them (main.c lines 104-107, the language hooks of hooks/game.c)   *)
(* and check_data's look at the mod file, across starts of the program,    *)
(* power losses and edits by hand.                                         *)
(*                                                                         *)
(* A line is the setting it names and the number its value is taken for; a *)
(* line that is a comment, has no value or names nothing known has the     *)
(* name Unknown.  A file name is a number as well, the empty one being 0.  *)
(* Cutting a printed number short drops digits from its end, and nothing   *)
(* at all is read as 0.  The remainder of a comment that is longer than    *)
(* the line buffer is a line of its own, as it is to the code.             *)
(***************************************************************************)
EXTENDS Integers, Sequences

CONSTANTS
  Order,        \* the settings, in the order of CONFIG_VARS
  NoFile,       \* config.txt does not exist
  Unknown,      \* the name on a line that sets nothing
  Default,      \* Default[s]: what read_config starts from
  Values,       \* the numbers in use
  Printed,      \* Printed[v]: what v is after it was printed and read
  MaxLanguage,  \* the last language of the game
  Mods,         \* the mod files that exist
  Files,        \* what the user may make of config.txt
  Edits,        \* TRUE: the user edits the file while the program is off
  CutsShort,    \* TRUE: power may fail during a write, or the card be full
  OpenFails,    \* TRUE: a file that exists may not open
  ReadErrors    \* TRUE: fgets may fail before the end of the file

Names == {Order[i] : i \in DOMAIN Order}
Languages == 0 .. MaxLanguage
Lines == [name : Names \union {Unknown}, value : Values]

ConfigFileAssumption ==
  /\ Order \in Seq(STRING) /\ "language" \in Names
  /\ Order # <<>> /\ Order[Len(Order)] = "mod_file"
  /\ Unknown \notin Names
  /\ Files \subseteq Seq(Lines) /\ NoFile \notin Seq(Lines)
  /\ \A i, j \in DOMAIN Order : Order[i] = Order[j] => i = j
  /\ Values \subseteq Nat /\ 0 \in Values
  /\ MaxLanguage \in Nat /\ Languages \subseteq Values
  /\ Default \in [Names -> Values]
  /\ Printed \in [Values -> Values]
  /\ \A v \in Values : Printed[Printed[v]] = Printed[v]
  /\ \A s \in Names : Printed[Default[s]] = Default[s]
  /\ \A l \in Languages : Printed[l] = l
  /\ Default["language"] = 0 /\ Default["mod_file"] = 0
  /\ \A v \in Values : Printed[v] = 0 => v = 0
  /\ Edits \in BOOLEAN /\ CutsShort \in BOOLEAN
  /\ OpenFails \in BOOLEAN /\ ReadErrors \in BOOLEAN

VARIABLES
  file,     \* the lines of config.txt, or NoFile
  config,   \* the settings in memory
  pc,       \* where the program is; "off" when it does not run
  line,     \* the number of the line fgets reads next
  then,     \* where write_config returns to
  before,   \* history: what the file meant when the present write began
  written,  \* history: what the last write that began was to store
  origin    \* history: where what is in the file comes from

vars == <<file, config, pc, line, then, before, written, origin>>
history == <<before, written, origin>>

-----------------------------------------------------------------------------
(* Text.                                                                   *)

Line(s, v) == [name |-> s, value |-> v]

(* The settings a file stands for: the last line that names one counts.    *)
Naming(f, s) == {k \in 1 .. Len(f) : f[k].name = s}
LastOf(K) == CHOOSE k \in K : \A j \in K : j <= k
Meaning(f) ==
  [s \in Names |->
     IF f = NoFile \/ Naming(f, s) = {} THEN Default[s]
     ELSE f[LastOf(Naming(f, s))].value]

(* The lines fprintf makes of the settings c; an empty mod_file, which is  *)
(* the last of them, is left out.                                          *)
Kept(c) == SubSeq(Order, 1, Len(Order) - IF c["mod_file"] = 0 THEN 1 ELSE 0)
Text(c) == [k \in 1 .. Len(Kept(c)) |-> Line(Kept(c)[k], Printed[c[Kept(c)[k]]])]

(* What of a text can be on the card before it has all arrived: whole      *)
(* lines, and perhaps one more whose value is cut short.                   *)
CutValue(v) == {w \in Values : \E k \in 1 .. 9 : w = v \div (10 ^ k)}
Beginnings(t) ==
  LET whole == {SubSeq(t, 1, k) : k \in 0 .. Len(t)}
      cut == UNION {{Append(SubSeq(t, 1, k - 1), Line(t[k].name, w)) :
                       w \in CutValue(t[k].value)} : k \in 1 .. Len(t)}
  IN  whole \union cut

-----------------------------------------------------------------------------
Init ==
  /\ file \in {NoFile} \union Files
  /\ config = Default
  /\ pc = "off"
  /\ line = 1
  /\ then = "off"
  /\ before = Default
  /\ written = Default
  /\ origin = "user"

(* Mutant: the settings are only cleared.                                  *)
OpenToReadZero ==
  /\ pc = "off"
  /\ config' = [s \in Names |-> 0]
  /\ line' = 1
  /\ file # NoFile /\ pc' = "reading"
  /\ UNCHANGED <<file, then, history>>

(* read_config: the defaults, then fopen.                                  *)
OpenToRead ==
  /\ pc = "off"
  /\ config' = Default
  /\ line' = 1
  /\ \/ file # NoFile /\ pc' = "reading"
     \/ (file = NoFile \/ OpenFails) /\ pc' = "unread"
  /\ UNCHANGED <<file, then, history>>

(* parse_var: the settings c after a line.                                 *)
parse_var(c, l) == [s \in Names |-> IF s = l.name THEN l.value ELSE c[s]]

(* One round of the loop: fgets, and parse_var if the line sets anything.  *)
ParseLine ==
  /\ pc = "reading" /\ line <= Len(file)
  /\ config' = parse_var(config, file[line])
  /\ line' = line + 1
  /\ UNCHANGED <<file, pc, then, history>>

(* Mutant: the end of the file is seen only when the file is empty.        *)
EndOfFileMissed ==
  /\ pc = "reading" /\ line > Len(file) /\ Len(file) = 0
  /\ pc' = "check"
  /\ UNCHANGED <<file, config, line, then, history>>

(* fgets finds nothing more and sets feof.                                 *)
EndOfFile ==
  /\ pc = "reading" /\ line > Len(file)
  /\ pc' = "check"
  /\ UNCHANGED <<file, config, line, then, history>>

(* fgets fails and does not set feof, the next time as well: the loop goes *)
(* on for ever.                                                            *)
ReadError ==
  /\ pc = "reading" /\ ReadErrors
  /\ pc' = "spinning"
  /\ UNCHANGED <<file, config, line, then, history>>

-----------------------------------------------------------------------------
(* write_config, called from main and from SetAndroidCurrentLanguage.      *)

StartWriting(c, at) ==
  /\ file' = <<>>
  /\ before' = Meaning(file)
  /\ written' = [s \in Names |-> Printed[c[s]]]
  /\ origin' = "cut"
  /\ then' = at
  /\ pc' = "writing"

(* if (read_config(path) < 0) write_config(path);                          *)
CreateFile ==
  /\ pc = "unread"
  /\ StartWriting(config, "check")
  /\ UNCHANGED <<config, line>>

CannotCreate ==
  /\ pc = "unread"
  /\ OpenFails
  /\ pc' = "check"
  /\ UNCHANGED <<file, config, line, then, history>>

(* The fprintf calls fill a buffer, fclose writes it out, and 0 is         *)
(* returned in any case.                                                   *)
Close ==
  /\ pc = "writing"
  /\ \/ file' = Text(config) /\ origin' = "write"
     \/ CutsShort /\ file' \in Beginnings(Text(config)) /\ UNCHANGED origin
  /\ pc' = then
  /\ UNCHANGED <<config, line, then, before, written>>

-----------------------------------------------------------------------------
(* The rest of the start, and the game.                                    *)

(* The process is gone, and with it what was in memory.                    *)
Exit == pc' = "off" /\ config' = Default /\ line' = 1 /\ then' = "off"

(* check_data: the mod file must be there, if one is set; main calls       *)
(* fatal_error otherwise.                                                  *)
CheckData ==
  /\ pc = "check"
  /\ IF config["mod_file"] \in {0} \union Mods
     THEN pc' = "game" /\ UNCHANGED <<config, line, then>>
     ELSE Exit
  /\ UNCHANGED <<file, history>>

(* A language out of range is replaced in memory.                          *)
GetAndroidCurrentLanguage ==
  /\ pc = "game"
  /\ config' = [config EXCEPT !["language"] = IF @ \in Languages THEN @ ELSE 0]
  /\ UNCHANGED <<file, pc, line, then, history>>

(* Mutant: the file is written before the setting is changed.              *)
SetLanguageLate(l) ==
  /\ pc = "game" /\ config["language"] # l
  /\ StartWriting(config, "game")
  /\ UNCHANGED <<config, line>>

(* A language other than the present one is saved.                         *)
SetAndroidCurrentLanguage(l) ==
  /\ pc = "game" /\ config["language"] # l
  /\ config' = [config EXCEPT !["language"] = l]
  /\ \/ StartWriting(config', "game")
     \/ OpenFails /\ UNCHANGED <<file, pc, then, history>>
  /\ UNCHANGED line

(* The process exits, or power fails; what of a write had arrived stays.   *)
Stop ==
  /\ pc # "off"
  /\ pc = "writing" => CutsShort
  /\ IF pc = "writing" THEN file' \in Beginnings(Text(config)) ELSE UNCHANGED file
  /\ Exit
  /\ UNCHANGED history

(* The user saves another text.                                            *)
EditFile ==
  /\ pc = "off" /\ Edits
  /\ file' \in Files
  /\ origin' = "user"
  /\ written' = Meaning(file')
  /\ UNCHANGED <<config, pc, line, then, before>>

Next ==
  \/ OpenToRead \/ ParseLine \/ EndOfFile \/ ReadError
  \/ CreateFile \/ CannotCreate \/ Close
  \/ CheckData \/ GetAndroidCurrentLanguage
  \/ \E l \in Languages : SetAndroidCurrentLanguage(l)
  \/ Stop \/ EditFile

Spec == Init /\ [][Next]_vars

(* main is not stopped while it reads.                                     *)
FairSpec == Spec /\ WF_vars(ParseLine \/ EndOfFile)

-----------------------------------------------------------------------------
TypeOK ==
  /\ config \in [Names -> Values]
  /\ pc \in {"off", "reading", "unread", "spinning", "writing", "check", "game"}
  /\ line \in Nat
  /\ then \in {"off", "check", "game"}
  /\ before \in [Names -> Values]
  /\ written \in [Names -> Values]
  /\ origin \in {"user", "write", "cut"}
  /\ file = NoFile \/ \A k \in 1 .. Len(file) : file[k] \in Lines

(* The loop of read_config ends with what the file means: of several lines *)
(* for a setting the last counts, and one that has none keeps its default. *)
ReadsLastLine ==
  pc = "reading" => config = Meaning(SubSeq(file, 1, line - 1))

(* What a completed write_config stored is what the next start reads, for  *)
(* every setting, the empty mod file included.                             *)
SavedIsRead ==
  pc = "reading" /\ line > Len(file) /\ origin = "write" => config = written

(* After a write that was cut short by a power loss or a full card, the    *)
(* settings before some point are those that were being written, those     *)
(* after it are the defaults, and only the one at that point can be        *)
(* anything else, namely the beginning of its value.                       *)
DamageIsATail ==
  pc = "check" /\ origin = "cut" =>
    \E k \in 0 .. Len(Order) : \A j \in 1 .. Len(Order) :
      LET s == Order[j] IN
        \/ j < k /\ config[s] = written[s]
        \/ j > k /\ config[s] = Default[s]
        \/ j = k /\ config[s] \in {written[s]} \union CutValue(written[s])

(* read_config comes to an end when no fgets fails.                        *)
ReadEnds == pc = "reading" ~> pc # "reading"

(* What the next start will use, as Settings specifies it.  A write that   *)
(* has begun shows when it is over.                                        *)
Stored == IF pc = "writing" THEN before ELSE Meaning(file)

Player == INSTANCE Settings WITH
            Names <- Names, Languages <- Languages, Printed <- Printed,
            stored <- Stored

ChangesLanguage == \E l \in Languages : Player!ChangeLanguage(l)
=============================================================================
