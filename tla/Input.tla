------------------------------- MODULE Input -------------------------------
(***************************************************************************)
(* The gamepad hooks (hooks/game.c, lines 200-301).                        *)
(*                                                                         *)
(* WarGamepad_GetGamepadType copies the state of the port it is asked for  *)
(* into the static pad (and, for port 0, of the touch screen into          *)
(* touch_front); WarGamepad_GetGamepadButtons and ..Axis look at these     *)
(* copies, whatever port they are asked for.  readCrouch turns a button    *)
(* into a toggle.  The devices and the game's controls are external.       *)
(***************************************************************************)
EXTENDS Integers, FiniteSets

CONSTANTS
  PadStates,   \* the states of a pad: [buttons, sticks]
  Unplugged,   \* no pad in the port
  Touches,     \* what may be on the screen: sets of [x, y]
  Panel,       \* panelInfoFront: [minX, maxX, minY, maxY]
  Margin,      \* config.touch_x_margin
  Controls     \* what MaxPayne_InputControl::getButton may return

Ports == {0, 1}
NoPort == -1
Asked == {0, 1, 2}   \* the ports the game may name: the code knows two

InputAssumption ==
  /\ \A s \in PadStates : s.sticks \in [0 .. 3 -> 0 .. 255]
  /\ \A ts \in Touches : \A t \in ts : t.x \in Int /\ t.y \in Int
  /\ Panel \in [{"minX", "maxX", "minY", "maxY"} -> Int]
  /\ Controls \subseteq Int /\ 0 \in Controls
  /\ Margin \in Int

VARIABLES
  device,    \* device[p]: the pad in port p, or Unplugged
  screen,    \* the touches on the screen
  pad,       \* the static copy
  touch,     \* touch_front
  of,        \* history: the port pad was copied from, NoPort before the first copy
  snapshot,  \* history: snapshot[p]: port p when it was last copied
  touched,   \* history: the screen when port 0 was last copied
  got,       \* the last query and its answer: bits, or one number
  control,   \* what getButton returns for the crouch control
  polled,    \* history: what it returned the last time it was called
  prev, latch  \* the statics of readCrouch

pads == <<device, screen, pad, touch, of, snapshot, touched>>
crouch == <<control, polled, prev, latch>>
vars == <<pads, got, crouch>>

(* A static is zero: nothing is pressed, but zero is the end of a stick.   *)
Zeroed == [buttons |-> {}, sticks |-> [i \in 0 .. 3 |-> 0]]

Init ==
  /\ device = [p \in Ports |-> Unplugged]
  /\ screen = {} /\ touch = {} /\ touched = {}
  /\ pad = Zeroed
  /\ of = NoPort
  /\ snapshot = [p \in Ports \union {NoPort} |-> Zeroed]
  /\ got = [port |-> NoPort, what |-> "type", value |-> {-1}]
  /\ control = 0 /\ polled = 0
  /\ prev = 0 /\ latch = FALSE

-----------------------------------------------------------------------------
(* Pure parts.                                                             *)

(* The game's bit for a button of the pad; L1 and R1 are axes to the game. *)
Bit == [ cross |-> 1, circle |-> 2, square |-> 4, triangle |-> 8,
         start |-> 16, select |-> 32, l2 |-> 64, r2 |-> 128,
         up |-> 256, down |-> 512, left |-> 1024, right |-> 2048 ]

ButtonBits(buttons) == {Bit[b] : b \in buttons \intersect DOMAIN Bit}

(* The lower half of the screen stands for L1 and R1, outside the margins. *)
TouchBits(ts) ==
  LET low(t) == t.y >= (Panel.minY + Panel.maxY) \div 2
      left(t) == t.x < (Panel.minX + Panel.maxX) \div 2
  IN  {64 : t \in {u \in ts : low(u) /\ left(u) /\ u.x >= Margin}}
        \union {128 : t \in {u \in ts : low(u) /\ ~left(u) /\ u.x < Panel.maxX - Margin}}

(* 128 times the value of a stick, 0 within a fifth of its range.          *)
StickAxis(raw) == IF 5 * (raw - 128) \in -128 .. 128 THEN 0 ELSE raw - 128
TriggerAxis(buttons, b) == IF b \in buttons THEN 128 ELSE 0

(* lx, ly, rx, ry, L1 and R1.                                              *)
AxisOf(state, axis) == CASE axis \in 0 .. 3 -> StickAxis(state.sticks[axis])
                         [] axis = 4 -> TriggerAxis(state.buttons, "l1")
                         [] axis = 5 -> TriggerAxis(state.buttons, "r1")
                         [] OTHER -> 0

Answer(port, what, value) == got' = [port |-> port, what |-> what, value |-> value]

-----------------------------------------------------------------------------
(* Mutant: a pad that cannot be read is taken for one with nothing pressed. *)
TypeClearing(port) ==
  /\ IF port \notin Ports \/ device[port] = Unplugged
     THEN /\ pad' = Zeroed
          /\ Answer(port, "type", {-1})
          /\ UNCHANGED <<of, snapshot, touch, touched>>
     ELSE /\ pad' = device[port] /\ of' = port
          /\ snapshot' = [snapshot EXCEPT ![port] = device[port]]
          /\ touch' = (IF port = 0 THEN screen ELSE touch)
          /\ touched' = touch'
          /\ Answer(port, "type", {8})
  /\ UNCHANGED <<device, screen, crouch>>

WarGamepad_GetGamepadType(port) ==
  /\ IF port \notin Ports \/ device[port] = Unplugged
     THEN /\ Answer(port, "type", {-1})
          /\ UNCHANGED <<pad, of, snapshot, touch, touched>>
     ELSE /\ pad' = device[port] /\ of' = port
          /\ snapshot' = [snapshot EXCEPT ![port] = device[port]]
          /\ touch' = IF port = 0 THEN screen ELSE touch
          /\ touched' = IF port = 0 THEN screen ELSE touched
          /\ Answer(port, "type", {8})
  /\ UNCHANGED <<device, screen, crouch>>

WarGamepad_GetGamepadButtons(port) ==
  /\ Answer(port, "buttons", ButtonBits(pad.buttons) \union TouchBits(touch))
  /\ UNCHANGED <<pads, crouch>>

WarGamepad_GetGamepadAxis(port, axis) ==
  /\ Answer(port, "axis", {AxisOf(pad, axis)})
  /\ UNCHANGED <<pads, crouch>>

-----------------------------------------------------------------------------
MaxPayne_ConfiguredInput_readCrouch ==
  /\ polled' = control
  /\ prev' = control
  /\ latch' = IF prev # control /\ control # 0 THEN ~latch ELSE latch
  /\ UNCHANGED <<pads, got, control>>

-----------------------------------------------------------------------------
(* The world: pads are plugged in and out and pressed, fingers move.       *)
ChangeDevice(p) ==
  /\ \E s \in PadStates \union {Unplugged} : device' = [device EXCEPT ![p] = s]
  /\ UNCHANGED <<screen, pad, touch, of, snapshot, touched, got, crouch>>

ChangeScreen ==
  /\ screen' \in Touches
  /\ UNCHANGED <<device, pad, touch, of, snapshot, touched, got, crouch>>

ChangeControl ==
  /\ control' \in Controls
  /\ UNCHANGED <<pads, got, polled, prev, latch>>

(* The pads and the crouch button share no variable.                       *)
PadNext ==
  \/ \E port \in Asked :
       \/ WarGamepad_GetGamepadType(port)
       \/ WarGamepad_GetGamepadButtons(port)
       \/ \E axis \in 0 .. 6 : WarGamepad_GetGamepadAxis(port, axis)
  \/ \E p \in Ports : ChangeDevice(p)
  \/ ChangeScreen

CrouchNext == MaxPayne_ConfiguredInput_readCrouch \/ ChangeControl

Next == PadNext \/ CrouchNext

Spec == Init /\ [][Next]_vars

-----------------------------------------------------------------------------
(* The variables keep to their types; answers are of the game's bits.      *)
TypeOK ==
  /\ device \in [Ports -> PadStates \union {Unplugged}]
  /\ pad \in PadStates \union {Zeroed}
  /\ of \in Ports \union {NoPort}
  /\ screen \in Touches \union {{}} /\ touch \in Touches \union {{}}
  /\ got.what = "buttons" => got.value \subseteq {Bit[b] : b \in DOMAIN Bit}
  /\ got.what = "axis" => got.value \subseteq -128 .. 128
  /\ latch \in BOOLEAN /\ {control, prev, polled} \subseteq Controls

(* Whichever port a game asks about, the buttons and axes it is told are   *)
(* those of the port that was last read with success, as it was at that    *)
(* read: a read that fails, a port the code does not know and a pad pulled *)
(* out since change nothing.  A game that reads one port and asks about    *)
(* the other is told of the first, and before the first read the sticks    *)
(* stand at their ends: pad is one static for both ports.                  *)
AnswersAreOfThePortRead ==
  [][ LET read == snapshot[of]
      IN  /\ got'.what = "buttons" =>
               got'.value \ {64, 128} = ButtonBits(read.buttons) \ {64, 128}
          /\ got'.what = "axis" =>
               \E axis \in 0 .. 6 : got'.value = {AxisOf(read, axis)} ]_got

(* With no shoulder button held, the two bits the touch screen stands in   *)
(* for are reported only when a finger was in the lower half and at least  *)
(* config.touch_x_margin from both sides.                                  *)
MarginsAreDead ==
  [][ got'.what = "buttons" /\ got'.value \intersect {64, 128} # {} =>
        \/ pad.buttons \intersect {"l2", "r2"} # {}
        \/ \E t \in touched : /\ Margin <= t.x /\ t.x < Panel.maxX - Margin
                             /\ t.y >= (Panel.minY + Panel.maxY) \div 2 ]_got

(* The crouch latch flips exactly when two successive polls find the       *)
(* control released and then held: not again while it stays held, not on   *)
(* its release, and no press that was polled is lost.                      *)
CrouchTogglesOnPress ==
  [][ latch' # latch <=> polled = 0 /\ polled' # 0 ]_vars
=============================================================================
