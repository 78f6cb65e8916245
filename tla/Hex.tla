--------------------------------- MODULE Hex ---------------------------------
(***************************************************************************)
(* to_hex and from_hex of src/include/fingera/impl/hex.ipp.                *)
(*                                                                         *)
(* A character is its code.  from_hex reads the string through an iterator *)
(* and writes through another one, which is a back_inserter for containers *)
(* and a plain pointer for the overloads that take a buffer; one action is *)
(* one character, so that what has been written when from_hex gives up is  *)
(* visible, too.                                                           *)
(***************************************************************************)
EXTENDS Naturals, Sequences

CONSTANTS
  Chars,   \* the characters strings are made of, as codes
  MaxLen,  \* bound: the length of a string
  Unset    \* a byte of the caller's buffer that has not been written

ASSUME CharsAssumption == Chars \subseteq 0..255
ASSUME MaxLenAssumption == MaxLen \in Nat
ASSUME UnsetAssumption == Unset \notin 0..255

Overloads == {"container", "buffer"}

VARIABLES
  overload,  \* which from_hex is called
  str,       \* its argument
  pos,       \* characters read so far
  high,      \* the first digit of a pair, once it has been read
  out,       \* the container, or the buffer of half the string's length
  ret        \* "running", or what from_hex has returned

vars == <<overload, str, pos, high, out, ret>>

-----------------------------------------------------------------------------
HexDigits == [lower |-> <<48, 49, 50, 51, 52, 53, 54, 55, 56, 57,
                          97, 98, 99, 100, 101, 102>>,
              upper |-> <<48, 49, 50, 51, 52, 53, 54, 55, 56, 57,
                          65, 66, 67, 68, 69, 70>>]

(* The digits of every byte, the high one first.                           *)
to_hex(bytes, case) ==
  [n \in 1 .. 2 * Len(bytes) |->
     LET byte == bytes[(n + 1) \div 2]
     IN  HexDigits[case][1 + (IF n % 2 = 1 THEN byte \div 16 ELSE byte % 16)]]

(* Mutated form of HEX_MAP: the row of the capital letters is missing.     *)
HEX_MAP_lower ==
  [c \in 0..255 |-> IF c \in 48..57 THEN c - 48
                    ELSE IF c \in 97..102 THEN c - 97 + 10
                    ELSE 255]

HEX_MAP ==
  [c \in 0..255 |-> IF c \in 48..57 THEN c - 48
                    ELSE IF c \in 65..70 THEN c - 65 + 10
                    ELSE IF c \in 97..102 THEN c - 97 + 10
                    ELSE 255]

(* The character an iterator points to; a string ends with a zero.         *)
CharAt(n) == IF n < Len(str) THEN str[n + 1] ELSE 0

-----------------------------------------------------------------------------
Strings == UNION {[1..n -> Chars] : n \in 0..MaxLen}

Init ==
  /\ overload \in Overloads
  /\ str \in Strings
  /\ pos = 0 /\ high = Unset /\ ret = "running"
  /\ out = IF overload = "container" THEN << >>
           ELSE [n \in 1 .. Len(str) \div 2 |-> Unset]

Running == ret = "running"

(* Mutated form of OddLength: the check is missing.                        *)
OddLength_unchecked == FALSE

OddLength == Len(str) % 2 # 0

Refuse ==
  /\ Running /\ OddLength
  /\ ret' = "false"
  /\ UNCHANGED <<overload, str, pos, high, out>>

(* Mutated form of Write: a swapped shift.                                 *)
Write_swapped(byte) ==
  out' = IF overload = "container"
         THEN Append(out, 16 * (byte % 16) + (byte \div 16))
         ELSE [out EXCEPT ![1] = byte]

(* *out = byte: a back_inserter appends, while a pointer, which the loop   *)
(* never advances, writes the first byte of the buffer.                    *)
Write(byte) ==
  out' = IF overload = "container" THEN Append(out, byte)
         ELSE [out EXCEPT ![1] = byte]

ReadHigh ==
  LET digit == HEX_MAP[CharAt(pos)] IN
  /\ Running /\ ~OddLength /\ high = Unset /\ pos # Len(str)
  /\ pos' = pos + 1
  /\ IF digit = 255
     THEN ret' = "false" /\ UNCHANGED high
     ELSE high' = digit /\ UNCHANGED ret
  /\ UNCHANGED <<overload, str, out>>

ReadLow ==
  LET digit == HEX_MAP[CharAt(pos)] IN
  /\ Running /\ ~OddLength /\ high # Unset
  /\ pos' = pos + 1
  /\ high' = Unset
  /\ IF digit = 255
     THEN ret' = "false" /\ UNCHANGED out
     ELSE Write(16 * high + digit) /\ UNCHANGED ret
  /\ UNCHANGED <<overload, str>>

Return ==
  /\ Running /\ ~OddLength /\ high = Unset /\ pos = Len(str)
  /\ ret' = "true"
  /\ UNCHANGED <<overload, str, pos, high, out>>

Next == Refuse \/ ReadHigh \/ ReadLow \/ Return

Spec == Init /\ [][Next]_vars

-----------------------------------------------------------------------------
(* Properties.                                                             *)

IsHexDigit(c) == c \in 48..57 \/ c \in 65..70 \/ c \in 97..102

Lower(c) == IF c \in 65..70 THEN c + 32 ELSE c

(* from_hex reads inside the string only: the loop steps over two          *)
(* characters at a time and stops where the string ends, which an odd      *)
(* length would jump over.                                                 *)
ReadsInBounds == pos <= Len(str)

(* from_hex accepts the strings of an even number of digits, of both       *)
(* cases, and no others.                                                   *)
AcceptsExactlyHex ==
  ~Running => (ret = "true" <=> /\ Len(str) % 2 = 0
                                /\ \A n \in 1..Len(str) : IsHexDigit(str[n]))

(* At every moment, and so also when from_hex has given up in the middle   *)
(* of the string, a container holds the bytes whose digits have been read: *)
(* to_hex makes the lower case form of that part of the string of it.  An  *)
(* accepted string has been decoded to its end.                            *)
DecodesWhatToHexEncodes ==
  overload = "container" =>
    /\ to_hex(out, "lower") = [n \in 1 .. 2 * Len(out) |-> Lower(str[n])]
    /\ ret = "true" => 2 * Len(out) = Len(str)

(* "Assume buf_size = str_size / 2": after a successful call the buffer of *)
(* that size is filled with the decoded bytes.                             *)
FillsBuffer ==
  ret = "true" =>
    /\ \A n \in 1..Len(out) : out[n] # Unset
    /\ to_hex(out, "lower") = [n \in 1..Len(str) |-> Lower(str[n])]
=============================================================================
