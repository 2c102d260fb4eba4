------------------------------- MODULE Memory -------------------------------
(***************************************************************************)
(* The functions on memory the game imports (imports.c, lines 326-332,     *)
(* 342-348 and 557-562).  The compiler of the game calls the helpers of    *)
(* the ARM ABI, whose arguments are in an order of their own:              *)
(* __aeabi_memset takes the length before the byte.                        *)
(*                                                                         *)
(* sceClibMemset, ..Memcpy and ..Memmove are external, and do what the     *)
(* functions of C do; the arguments of a call are a sequence, as they are  *)
(* to a function that is bound to another's symbol.                        *)
(***************************************************************************)
EXTENDS Integers, Sequences

CONSTANTS
  Size,    \* bytes of memory
  Byte,    \* 256, the values of a byte
  Chars    \* what the game fills memory with: any int

MemoryAssumption == Size \in Nat /\ Byte \in Nat \ {0} /\ Chars \subseteq Nat

Addresses == 0 .. Size - 1

VARIABLES
  mem,       \* the memory
  promised   \* history: what it is after these calls by C and the ARM ABI

vars == <<mem, promised>>

Init == mem = [a \in Addresses |-> 0] /\ promised = mem

(* The memory m with n bytes at d set to c, or copied from s.              *)
Filled(m, d, c, n) ==
  [a \in Addresses |-> IF a \in d .. d + n - 1 THEN c % Byte ELSE m[a]]
Moved(m, d, s, n) ==
  [a \in Addresses |-> IF a \in d .. d + n - 1 THEN m[s + (a - d)] ELSE m[a]]

sceClibMemset(args) == Filled(mem, args[1], args[2], args[3])
sceClibMemcpy(args) == Moved(mem, args[1], args[2], args[3])
sceClibMemmove(args) == Moved(mem, args[1], args[2], args[3])

sceClibMemclr(args) == sceClibMemset(<<args[1], 0, args[2]>>)
sceClibMemset2(args) == sceClibMemset(<<args[1], args[3], args[2]>>)

(* The table: what a call of a symbol makes of the memory.                 *)
Result(symbol, args) ==
  CASE symbol = "memset" -> sceClibMemset(args)
    [] symbol = "__aeabi_memset" -> sceClibMemset2(args)
    [] symbol \in {"memcpy", "__aeabi_memcpy"} -> sceClibMemcpy(args)
    [] symbol \in {"memmove", "__aeabi_memmove"} -> sceClibMemmove(args)
    [] symbol \in {"__aeabi_memclr", "__aeabi_memclr8"} -> sceClibMemclr(args)

(* The game's calls, with the promise of the function it means.            *)
Lengths(d) == 0 .. Size - d

Fill ==
  \E d \in Addresses : \E n \in Lengths(d), c \in Chars :
    /\ \/ mem' = Result("memset", <<d, c, n>>)
       \/ mem' = Result("__aeabi_memset", <<d, n, c>>)
    /\ promised' = Filled(promised, d, c, n)

Clear ==
  \E d \in Addresses : \E n \in Lengths(d), symbol \in {"__aeabi_memclr", "__aeabi_memclr8"} :
    /\ mem' = Result(symbol, <<d, n>>)
    /\ promised' = Filled(promised, d, 0, n)

Copy ==
  \E d, s \in Addresses : \E n \in Lengths(d) \intersect Lengths(s) :
    /\ \/ \E symbol \in {"memmove", "__aeabi_memmove"} : mem' = Result(symbol, <<d, s, n>>)
       \/ /\ d + n <= s \/ s + n <= d
          /\ \E symbol \in {"memcpy", "__aeabi_memcpy"} : mem' = Result(symbol, <<d, s, n>>)
    /\ promised' = Moved(promised, d, s, n)

Next == Fill \/ Clear \/ Copy
Spec == Init /\ [][Next]_vars

-----------------------------------------------------------------------------
(* A call changes no byte but those it names, and leaves bytes.            *)
TypeOK == mem \in [Addresses -> 0 .. Byte - 1]

(* After any calls the memory is what C and the ARM ABI promise: every     *)
(* function finds its arguments in the order it takes them.                *)
AsPromised == mem = promised
=============================================================================
