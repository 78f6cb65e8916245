---------------------------- MODULE LibraryProofs ----------------------------
(***************************************************************************)
(* Theorems about the parts of the library that stand alone: the hex       *)
(* functions, for strings of any length over any characters; the detection *)
(* of CPU features, for every processor; OpenAES, for any contexts, keys,  *)
(* plaintexts and failures; the integer helpers, for words of any width.   *)
(***************************************************************************)
EXTENDS Hex, FiniteSetTheorems, SequenceTheorems, TLAPS

Type ==
  /\ overload \in Overloads
  /\ str \in Seq(0..255)
  /\ pos \in Nat
  /\ high \in (0..15) \cup {Unset}
  /\ ret \in {"running", "true", "false"}

(* Where the loop is: between two digits of one byte, or between two bytes *)
(* of a string that can be cut into pairs.                                 *)
PlaceInv ==
  /\ pos <= Len(str)
  /\ high # Unset => /\ Running /\ ~OddLength /\ pos % 2 = 1
                     /\ high = HEX_MAP[str[pos]]
  /\ Running /\ high = Unset => pos % 2 = 0
  /\ Running /\ OddLength => pos = 0

(* What has been read consists of digits until one character does not.     *)
DigitInv ==
  /\ ret # "false" => \A n \in 1..pos : IsHexDigit(str[n])
  /\ ret = "true" => ~OddLength /\ pos = Len(str)
  /\ ret = "false" => OddLength \/ \E n \in 1..Len(str) : ~IsHexDigit(str[n])

(* The byte k of a container is made of the digits 2k - 1 and 2k.          *)
Pair(k) == /\ IsHexDigit(str[2 * k - 1]) /\ IsHexDigit(str[2 * k])
           /\ out[k] = 16 * HEX_MAP[str[2 * k - 1]] + HEX_MAP[str[2 * k]]

DecodeInv ==
  overload = "container" =>
    /\ out \in Seq(0..255)
    /\ 2 * Len(out) <= pos
    /\ ret # "false" => pos = 2 * Len(out) + (IF high = Unset THEN 0 ELSE 1)
    /\ \A k \in 1..Len(out) : Pair(k)

IInv == Type /\ PlaceInv /\ DigitInv /\ DecodeInv

-----------------------------------------------------------------------------
(* The table and its inverse.                                              *)

(* HEX_MAP knows exactly the digits.                                       *)
LEMMA HexMap ==
  ASSUME NEW c \in 0..255
  PROVE  /\ HEX_MAP[c] # 255 <=> IsHexDigit(c)
         /\ HEX_MAP[c] # 255 => HEX_MAP[c] \in 0..15
BY DEF HEX_MAP, IsHexDigit

LEMMA LowerDigits ==
  /\ \A d \in 0..9 : HexDigits["lower"][1 + d] = 48 + d
  /\ \A d \in 10..15 : HexDigits["lower"][1 + d] = 87 + d
<1> DEFINE L == <<48, 49, 50, 51, 52, 53, 54, 55, 56, 57, 97, 98, 99, 100, 101, 102>>
<1>1. HexDigits["lower"] = L
  BY DEF HexDigits
<1>2. ASSUME NEW d \in 0..9 PROVE L[1 + d] = 48 + d
  OBVIOUS
<1>3. ASSUME NEW d \in 10..15 PROVE L[1 + d] = 87 + d
  OBVIOUS
<1>. QED
  BY <1>1, <1>2, <1>3

(* to_hex writes a digit that from_hex has read in lower case.             *)
LEMMA DigitRoundTrip ==
  ASSUME NEW c \in 0..255, IsHexDigit(c)
  PROVE  HexDigits["lower"][1 + HEX_MAP[c]] = Lower(c)
<1>1. CASE c \in 48..57
  <2>1. HEX_MAP[c] = c - 48 /\ c - 48 \in 0..9 /\ Lower(c) = c
    BY <1>1 DEF HEX_MAP, Lower
  <2>. QED
    BY <1>1, <2>1, LowerDigits
<1>2. CASE c \in 65..70
  <2>1. HEX_MAP[c] = c - 65 + 10 /\ c - 65 + 10 \in 10..15 /\ Lower(c) = c + 32
    BY <1>2 DEF HEX_MAP, Lower
  <2>. QED
    BY <1>2, <2>1, LowerDigits
<1>3. CASE c \in 97..102
  <2>1. HEX_MAP[c] = c - 97 + 10 /\ c - 97 + 10 \in 10..15 /\ Lower(c) = c
    BY <1>3 DEF HEX_MAP, Lower
  <2>. QED
    BY <1>3, <2>1, LowerDigits
<1>. QED
  BY <1>1, <1>2, <1>3 DEF IsHexDigit

LEMMA Nibbles ==
  ASSUME NEW h \in 0..15, NEW l \in 0..15
  PROVE  /\ 16 * h + l \in 0..255
         /\ (16 * h + l) \div 16 = h
         /\ (16 * h + l) % 16 = l
OBVIOUS

-----------------------------------------------------------------------------
LEMMA StringType ==
  ASSUME NEW s \in Strings
  PROVE  s \in Seq(0..255)
<1>1. PICK n \in 0..MaxLen : s \in [1..n -> Chars]
  BY DEF Strings
<1>2. n \in Nat
  BY <1>1, MaxLenAssumption
<1>3. s \in [1..n -> 0..255]
  BY <1>1, CharsAssumption
<1>. QED
  BY <1>2, <1>3

LEMMA InitIInv == Init => IInv
<1> SUFFICES ASSUME Init PROVE IInv
  OBVIOUS
<1>1. Type
  BY StringType DEF Init, Type
<1>2. Len(str) \in Nat
  BY <1>1 DEF Type
<1>3. PlaceInv /\ DigitInv
  BY <1>2 DEF Init, PlaceInv, DigitInv, Running
<1>4. DecodeInv
  BY DEF Init, DecodeInv
<1>. QED
  BY <1>1, <1>3, <1>4 DEF IInv

LEMMA ElementType ==
  ASSUME NEW S, NEW s \in Seq(S), NEW i \in 1..Len(s)
  PROVE  s[i] \in S
OBVIOUS

(* The character under the iterator, when it is inside the string.         *)
LEMMA Inside ==
  ASSUME Type, pos < Len(str)
  PROVE  /\ CharAt(pos) = str[pos + 1]
         /\ str[pos + 1] \in 0..255
         /\ HEX_MAP[CharAt(pos)] # 255 <=> IsHexDigit(str[pos + 1])
         /\ HEX_MAP[CharAt(pos)] # 255 => HEX_MAP[CharAt(pos)] \in 0..15
<1>1. str \in Seq(0..255) /\ pos \in Nat /\ Len(str) \in Nat
  BY DEF Type
<1>2. pos + 1 \in 1..Len(str)
  BY <1>1
<1>3. str[pos + 1] \in 0..255
  BY <1>1, <1>2, ElementType
<1>4. CharAt(pos) = str[pos + 1]
  BY DEF CharAt
<1> DEFINE c == str[pos + 1]
<1> HIDE DEF c
<1>5. /\ HEX_MAP[c] # 255 <=> IsHexDigit(c)
      /\ HEX_MAP[c] # 255 => HEX_MAP[c] \in 0..15
  BY ZenonT(60), <1>3, HexMap DEF c
<1>. QED
  BY ZenonT(60), <1>3, <1>4, <1>5 DEF c

LEMMA ReadHigh_IInv ==
  ASSUME IInv, ReadHigh
  PROVE  IInv'
<1> DEFINE digit == HEX_MAP[CharAt(pos)]
<1>1. /\ Running /\ ~OddLength /\ high = Unset /\ pos # Len(str)
      /\ pos' = pos + 1
      /\ IF digit = 255 THEN ret' = "false" /\ UNCHANGED high
         ELSE high' = digit /\ UNCHANGED ret
      /\ UNCHANGED <<overload, str, out>>
  BY DEF ReadHigh
<1>2. /\ Type /\ pos \in Nat /\ Len(str) \in Nat /\ pos < Len(str) /\ pos % 2 = 0
      /\ ret = "running"
  BY SMTT(60), <1>1 DEF IInv, Type, PlaceInv, Running
<1>3. /\ digit = HEX_MAP[str[pos + 1]] /\ str[pos + 1] \in 0..255
      /\ digit # 255 <=> IsHexDigit(str[pos + 1])
      /\ digit # 255 => digit \in 0..15
  BY <1>2, Inside
<1> HIDE DEF digit
<1>4. OddLength' = OddLength
  BY <1>1 DEF OddLength
<1>5. CASE digit = 255
  <2>1. ret' = "false" /\ high' = Unset
    BY <1>1, <1>5
  <2>2. Type'
    BY <1>1, <1>2, <2>1 DEF Type
  <2>3. PlaceInv'
    BY <1>1, <1>2, <2>1 DEF PlaceInv, Running
  <2>4. DigitInv'
    BY <1>1, <1>2, <1>3, <1>5, <2>1 DEF DigitInv
  <2>5. DecodeInv'
    BY <1>1, <1>2, <2>1 DEF IInv, DecodeInv, Pair
  <2>. QED
    BY <2>2, <2>3, <2>4, <2>5 DEF IInv
<1>6. CASE digit # 255
  <2>1. ret' = "running" /\ high' = digit /\ high' # Unset
    <3>1. digit \in 0..255
      BY <1>3, <1>6
    <3>. QED
      BY <1>1, <1>2, <1>6, <3>1, UnsetAssumption
  <2>2. Type'
    BY <1>1, <1>2, <1>3, <1>6, <2>1 DEF Type
  <2>3. PlaceInv'
    BY <1>1, <1>2, <1>3, <1>4, <2>1 DEF PlaceInv, Running
  <2>4. DigitInv'
    <3>1. \A n \in 1..(pos + 1) : IsHexDigit(str[n])
      BY <1>2, <1>3, <1>6 DEF IInv, DigitInv
    <3>. QED
      BY <1>1, <2>1, <3>1 DEF DigitInv
  <2>5. DecodeInv'
    BY <1>1, <1>2, <2>1 DEF IInv, DecodeInv, Pair
  <2>. QED
    BY <2>2, <2>3, <2>4, <2>5 DEF IInv
<1>. QED
  BY <1>5, <1>6

LEMMA ReadLow_IInv ==
  ASSUME IInv, ReadLow
  PROVE  IInv'
<1> DEFINE digit == HEX_MAP[CharAt(pos)]
<1>1. /\ Running /\ ~OddLength /\ high # Unset
      /\ pos' = pos + 1 /\ high' = Unset
      /\ IF digit = 255 THEN ret' = "false" /\ UNCHANGED out
         ELSE Write(16 * high + digit) /\ UNCHANGED ret
      /\ UNCHANGED <<overload, str>>
  BY DEF ReadLow
<1>2. /\ Type /\ pos \in Nat /\ Len(str) \in Nat /\ pos <= Len(str) /\ pos % 2 = 1
      /\ ret = "running" /\ high \in 0..15 /\ high = HEX_MAP[str[pos]]
  BY <1>1 DEF IInv, Type, PlaceInv, Running
<1>3. Len(str) % 2 = 0
  BY <1>1, <1>2 DEF OddLength
<1>4. pos < Len(str) /\ (pos + 1) % 2 = 0
  BY SMTT(60), <1>2, <1>3
<1>5. /\ digit = HEX_MAP[str[pos + 1]] /\ str[pos + 1] \in 0..255
      /\ digit # 255 <=> IsHexDigit(str[pos + 1])
      /\ digit # 255 => digit \in 0..15
  BY <1>2, <1>4, Inside
<1> HIDE DEF digit
<1>6. OddLength' = OddLength
  BY <1>1 DEF OddLength
<1>7. CASE digit = 255
  <2>1. ret' = "false" /\ out' = out
    BY <1>1, <1>7
  <2>2. Type'
    BY <1>1, <1>2, <2>1 DEF Type
  <2>3. PlaceInv'
    BY <1>1, <1>2, <1>4, <2>1 DEF PlaceInv, Running
  <2>4. DigitInv'
    BY <1>1, <1>2, <1>4, <1>5, <1>7, <2>1 DEF DigitInv
  <2>5. DecodeInv'
    BY <1>1, <1>2, <2>1 DEF IInv, DecodeInv, Pair
  <2>. QED
    BY <2>2, <2>3, <2>4, <2>5 DEF IInv
<1>8. CASE digit # 255
  <2>1. ret' = "running" /\ Write(16 * high + digit)
    BY <1>1, <1>2, <1>8
  <2>2. Type'
    BY <1>1, <1>2, <2>1 DEF Type
  <2>3. PlaceInv'
    BY <1>1, <1>2, <1>4, <1>6, <2>1 DEF PlaceInv, Running
  <2>4. \A n \in 1..(pos + 1) : IsHexDigit(str[n])
    BY <1>2, <1>5, <1>8 DEF IInv, DigitInv
  <2>5. DigitInv'
    BY <1>1, <2>1, <2>4 DEF DigitInv
  <2>6. ASSUME overload = "container"
        PROVE  /\ out' \in Seq(0..255)
               /\ 2 * Len(out') = pos'
               /\ \A k \in 1..Len(out') : Pair(k)'
    <3>1. /\ out \in Seq(0..255) /\ pos = 2 * Len(out) + 1
          /\ \A k \in 1..Len(out) : Pair(k)
      BY <1>1, <1>2, <2>6 DEF IInv, DecodeInv
    <3>2. out' = Append(out, 16 * high + digit) /\ 16 * high + digit \in 0..255
      BY ZenonT(60), <1>2, <1>5, <1>8, <2>1, <2>6, Nibbles DEF Write
    <3>3. /\ out' \in Seq(0..255) /\ Len(out) \in Nat /\ Len(out') = Len(out) + 1
          /\ \A k \in 1..Len(out) : out'[k] = out[k]
          /\ out'[Len(out) + 1] = 16 * high + digit
      BY <3>1, <3>2
    <3>4. ASSUME NEW k \in 1..Len(out')
          PROVE  Pair(k)'
      <4>1. CASE k \in 1..Len(out)
        BY <1>1, <3>1, <3>3, <4>1 DEF Pair
      <4>2. CASE k = Len(out) + 1
        <5>1. 2 * k - 1 = pos /\ 2 * k = pos + 1 /\ pos \in 1..(pos + 1)
          BY <1>2, <3>1, <3>3, <4>2
        <5>. QED
          BY <1>1, <1>2, <1>5, <2>4, <3>3, <4>2, <5>1 DEF Pair
      <4>. QED
        BY <3>3, <4>1, <4>2
    <3>5. 2 * Len(out') = pos'
      BY <1>1, <3>1, <3>3
    <3>. QED
      BY <3>3, <3>4, <3>5
  <2>7. DecodeInv'
    BY <1>1, <1>2, <2>1, <2>6 DEF DecodeInv
  <2>. QED
    BY <2>2, <2>3, <2>5, <2>7 DEF IInv
<1>. QED
  BY <1>7, <1>8

LEMMA NextIInv == IInv /\ [Next]_vars => IInv'
<1> SUFFICES ASSUME IInv, [Next]_vars PROVE IInv'
  OBVIOUS
<1>1. CASE Refuse
  <2>1. /\ Running /\ OddLength /\ ret' = "false"
        /\ UNCHANGED <<overload, str, pos, high, out>>
    BY <1>1 DEF Refuse
  <2>2. high = Unset
    BY <2>1 DEF IInv, PlaceInv
  <2>3. Type' /\ PlaceInv'
    BY <2>1, <2>2 DEF IInv, Type, PlaceInv, Running
  <2>4. DigitInv'
    BY <2>1 DEF IInv, DigitInv, OddLength
  <2>5. DecodeInv'
    BY <2>1 DEF IInv, DecodeInv, Pair
  <2>. QED
    BY <2>3, <2>4, <2>5 DEF IInv
<1>2. CASE ReadHigh
  BY <1>2, ReadHigh_IInv
<1>3. CASE ReadLow
  BY <1>3, ReadLow_IInv
<1>4. CASE Return
  <2>1. /\ Running /\ ~OddLength /\ high = Unset /\ pos = Len(str) /\ ret' = "true"
        /\ UNCHANGED <<overload, str, pos, high, out>>
    BY <1>4 DEF Return
  <2>2. ret = "running"
    BY <2>1 DEF Running
  <2>3. Type' /\ PlaceInv'
    BY <2>1 DEF IInv, Type, PlaceInv, Running
  <2>4. DigitInv'
    BY <2>1, <2>2 DEF IInv, DigitInv, OddLength
  <2>5. DecodeInv'
    BY <2>1, <2>2 DEF IInv, DecodeInv, Pair
  <2>. QED
    BY <2>3, <2>4, <2>5 DEF IInv
<1>5. CASE UNCHANGED vars
  BY <1>5 DEF vars, IInv, Type, PlaceInv, DigitInv, DecodeInv, Pair, Running,
              OddLength
<1>. QED
  BY <1>1, <1>2, <1>3, <1>4, <1>5 DEF Next

LEMMA Invariance == Spec => []IInv
BY InitIInv, NextIInv, PTL DEF Spec

-----------------------------------------------------------------------------
(* from_hex never moves its iterator behind the end of the string, however *)
(* long it is: an odd length is refused before the loop can jump over it.  *)
THEOREM StaysInsideString == Spec => []ReadsInBounds
<1>1. IInv => ReadsInBounds
  BY DEF IInv, PlaceInv, ReadsInBounds
<1>. QED
  BY <1>1, Invariance, PTL

(* from_hex returns true for the strings of an even number of digits of    *)
(* both cases and for no other string.                                     *)
THEOREM AcceptsHexOnly == Spec => []AcceptsExactlyHex
<1>1. IInv => AcceptsExactlyHex
  <2> SUFFICES ASSUME IInv, ~Running PROVE
        ret = "true" <=> /\ Len(str) % 2 = 0
                         /\ \A n \in 1..Len(str) : IsHexDigit(str[n])
    BY DEF AcceptsExactlyHex
  <2>1. ret \in {"true", "false"}
    BY DEF IInv, Type, Running
  <2>2. CASE ret = "true"
    BY <2>2 DEF IInv, DigitInv, OddLength
  <2>3. CASE ret = "false"
    BY <2>3 DEF IInv, DigitInv, OddLength
  <2>. QED
    BY <2>1, <2>2, <2>3
<1>. QED
  BY <1>1, Invariance, PTL

(* to_hex undoes from_hex: of the bytes decoded so far it makes the part   *)
(* of the string that has been read, in lower case, and an accepted string *)
(* has been decoded whole.                                                 *)
THEOREM ToHexUndoesFromHex == Spec => []DecodesWhatToHexEncodes
<1>1. IInv => DecodesWhatToHexEncodes
  <2> SUFFICES ASSUME IInv, overload = "container"
               PROVE  /\ to_hex(out, "lower") = [n \in 1 .. 2 * Len(out) |-> Lower(str[n])]
                      /\ ret = "true" => 2 * Len(out) = Len(str)
    BY DEF DecodesWhatToHexEncodes
  <2>1. /\ out \in Seq(0..255) /\ str \in Seq(0..255) /\ Len(out) \in Nat
        /\ pos \in Nat /\ Len(str) \in Nat
        /\ 2 * Len(out) <= pos /\ pos <= Len(str)
        /\ \A k \in 1..Len(out) : Pair(k)
    BY DEF IInv, Type, PlaceInv, DecodeInv
  <2>2. ASSUME NEW n \in 1 .. 2 * Len(out)
        PROVE  HexDigits["lower"][1 + (IF n % 2 = 1 THEN out[(n + 1) \div 2] \div 16
                                       ELSE out[(n + 1) \div 2] % 16)] = Lower(str[n])
    <3> DEFINE k == (n + 1) \div 2
               h == HEX_MAP[str[2 * k - 1]]
               l == HEX_MAP[str[2 * k]]
    <3>1. k \in 1..Len(out) /\ n = (IF n % 2 = 1 THEN 2 * k - 1 ELSE 2 * k)
      <4>1. CASE n % 2 = 1
        BY <2>1, <4>1
      <4>2. CASE n % 2 # 1
        BY SMTT(60), <2>1, <4>2
      <4>. QED
        BY <4>1, <4>2
    <3> HIDE DEF k
    <3>2. /\ str[2 * k - 1] \in 0..255 /\ str[2 * k] \in 0..255
          /\ IsHexDigit(str[2 * k - 1]) /\ IsHexDigit(str[2 * k])
          /\ out[k] = 16 * h + l
      <4>1. 2 * k - 1 \in 1..Len(str) /\ 2 * k \in 1..Len(str)
        BY <2>1, <3>1
      <4>2. Pair(k)
        BY <2>1, <3>1
      <4>3. str[2 * k - 1] \in 0..255 /\ str[2 * k] \in 0..255
        BY <2>1, <4>1, ElementType
      <4>. QED
        BY <4>2, <4>3, Zenon DEF Pair
    <3>3. h \in 0..15 /\ l \in 0..15
      BY ZenonT(60), <3>2, HexMap
    <3>4. out[k] \div 16 = h /\ out[k] % 16 = l
      <4> HIDE DEF h, l
      <4>. QED
        BY <3>2, <3>3, Nibbles
    <3>5. HexDigits["lower"][1 + h] = Lower(str[2 * k - 1])
          /\ HexDigits["lower"][1 + l] = Lower(str[2 * k])
      BY <3>2, DigitRoundTrip
    <3> HIDE DEF h, l
    <3>6. CASE n % 2 = 1
      BY <3>1, <3>4, <3>5, <3>6, Zenon DEF k
    <3>7. CASE n % 2 # 1
      BY <3>1, <3>4, <3>5, <3>7, Zenon DEF k
    <3>. QED
      BY <3>6, <3>7
  <2>3. to_hex(out, "lower") = [n \in 1 .. 2 * Len(out) |-> Lower(str[n])]
    BY <2>2, Zenon DEF to_hex
  <2>4. ret = "true" => 2 * Len(out) = Len(str)
    <3> SUFFICES ASSUME ret = "true" PROVE 2 * Len(out) = Len(str)
      OBVIOUS
    <3>1. high = Unset /\ pos = Len(str)
      BY DEF IInv, PlaceInv, DigitInv, Running
    <3>2. pos = 2 * Len(out) + 0
      BY <3>1 DEF IInv, DecodeInv
    <3>. QED
      BY <2>1, <3>1, <3>2
  <2>. QED
    BY <2>3, <2>4
<1>. QED
  BY <1>1, Invariance, PTL

-----------------------------------------------------------------------------
(***************************************************************************)
(* get_cpu_features.                                                       *)
(***************************************************************************)
CONSTANTS Processors, Cpuid(_, _, _)

VARIABLES cpu, pc, reg, has, features

CF == INSTANCE CpuFeatures

(* What has been reported when the code gets to each of its parts.         *)
FromLeaf1 == CF!Set(CF!Leaf1Features, CF!Answer("1"))
FromXgetbv ==
  FromLeaf1 \cup
    CF!When(CF!YmmSaved, {"avx"} \cup CF!Set(CF!Leaf1AvxFeatures, CF!Answer("1")))
FromExtended ==
  FromXgetbv
    \cup CF!When(cpu.ext, CF!Set(CF!ExtFeatures, CF!Answer("ext1")))
    \cup CF!When(cpu.ext /\ CF!YmmSaved, CF!Set(CF!ExtAvxFeatures, CF!Answer("ext1")))
FromLeaf7 ==
  FromExtended
    \cup CF!When(cpu.level >= 7, CF!Set(CF!Leaf7Features, CF!Answer("7")))
    \cup CF!When(cpu.level >= 7 /\ CF!YmmSaved, CF!Set(CF!Leaf7AvxFeatures, CF!Answer("7")))
    \cup CF!When(cpu.level >= 7 /\ CF!ZmmSaved, CF!Set(CF!Avx512Features, CF!Answer("7")))
FromLeafD ==
  FromLeaf7 \cup
    CF!When(cpu.level >= 13 /\ CF!YmmSaved, CF!Set(CF!LeafDFeatures, CF!Answer("d")))

(* The registers hold leaf 1 when XGETBV is decided, and behind that both  *)
(* flags say what the operating system saves.                              *)
SavedInv == (has.avx <=> CF!YmmSaved) /\ (has.avx512 <=> CF!ZmmSaved)

CpuInv ==
  /\ pc = "xgetbv" => reg = CF!Answer("1") /\ features = FromLeaf1
  /\ pc = "extended" => SavedInv /\ features = FromXgetbv
  /\ pc = "leaf 7" => SavedInv /\ features = FromExtended
  /\ pc = "leaf d" => SavedInv /\ features = FromLeaf7
  /\ pc = "return true" => features = FromLeafD

(* The features of a table depend on the processor only.                   *)
LEMMA SameProcessor ==
  ASSUME cpu' = cpu
  PROVE  /\ \A table, registers : CF!Set(table, registers)' = CF!Set(table, registers)
         /\ CF!YmmSaved' = CF!YmmSaved /\ CF!ZmmSaved' = CF!ZmmSaved
<1>1. \A a, b : CF!Bit(a, b)' = CF!Bit(a, b)
  BY DEF CF!Bit
<1>2. ASSUME NEW table, NEW registers
      PROVE  CF!Set(table, registers)' = CF!Set(table, registers)
  BY <1>1 DEF CF!Set
<1>3. CF!YmmSaved' = CF!YmmSaved
  BY <1>1 DEF CF!YmmSaved
<1>. QED
  BY <1>2, <1>3 DEF CF!ZmmSaved

LEMMA SameReports ==
  ASSUME cpu' = cpu
  PROVE  /\ FromLeaf1' = FromLeaf1 /\ FromXgetbv' = FromXgetbv
         /\ FromExtended' = FromExtended /\ FromLeaf7' = FromLeaf7
         /\ FromLeafD' = FromLeafD
         /\ (has' = has => SavedInv' = SavedInv)
<1>1. FromLeaf1' = FromLeaf1
  BY SameProcessor DEF FromLeaf1
<1>2. FromXgetbv' = FromXgetbv
  BY <1>1, SameProcessor DEF FromXgetbv
<1>3. FromExtended' = FromExtended
  BY <1>2, SameProcessor DEF FromExtended, CF!When
<1>4. FromLeaf7' = FromLeaf7
  BY <1>3, SameProcessor DEF FromLeaf7, CF!When
<1>5. FromLeafD' = FromLeafD
  BY <1>4, SameProcessor DEF FromLeafD, CF!When
<1>. QED
  BY <1>1, <1>2, <1>3, <1>4, <1>5, SameProcessor DEF SavedInv

LEMMA Xgetbv_CpuInv ==
  ASSUME CpuInv, CF!Xgetbv
  PROVE  CpuInv'
<1> DEFINE called == CF!Bit(<<"1", "cx">>, 27) /\ CF!Bit(<<"1", "cx">>, 28)
           ax == IF called THEN <<"xcr0", "ax">> ELSE reg["ax"]
           dx == IF called THEN <<"xcr0", "dx">> ELSE reg["dx"]
           avx == called /\ CF!Bit(ax, 1) /\ CF!Bit(ax, 2)
           avx512 == avx /\ CF!Bit(ax, 5) /\ CF!Bit(ax, 6) /\ CF!Bit(ax, 7)
<1>1. /\ reg = CF!Answer("1") /\ features = FromLeaf1 /\ reg["cx"] = <<"1", "cx">>
      /\ pc' = "extended" /\ cpu' = cpu
  BY DEF CpuInv, CF!Xgetbv, CF!Answer, CF!Registers
<1>2. /\ reg' = [reg EXCEPT !["ax"] = ax, !["dx"] = dx]
      /\ has' = [avx |-> avx, avx512 |-> avx512]
      /\ features' = features \cup
           CF!When(avx, {"avx"} \cup CF!Set(CF!Leaf1AvxFeatures, reg'))
  BY <1>1 DEF CF!Xgetbv
<1>3. called => \A b : CF!Bit(ax, b) <=> b \in cpu.xcr0
  BY DEF CF!Bit
<1>4. avx <=> CF!YmmSaved
  <2>1. CF!YmmSaved <=> called /\ 1 \in cpu.xcr0 /\ 2 \in cpu.xcr0
    BY DEF CF!YmmSaved
  <2>. HIDE DEF called, ax
  <2>. QED
    BY <1>3, <2>1
<1>5. avx512 <=> CF!ZmmSaved
  <2>1. CF!ZmmSaved <=> CF!YmmSaved /\ 5 \in cpu.xcr0 /\ 6 \in cpu.xcr0 /\ 7 \in cpu.xcr0
    BY DEF CF!ZmmSaved
  <2>2. avx => called
    OBVIOUS
  <2>. HIDE DEF called, ax, avx
  <2>. QED
    BY <1>3, <1>4, <2>1, <2>2
<1>6. SavedInv'
  <2>1. (has'.avx <=> avx) /\ (has'.avx512 <=> avx512)
    BY <1>2
  <2>. HIDE DEF avx, avx512
  <2>. QED
    BY <1>1, <1>4, <1>5, <2>1, SameProcessor DEF SavedInv
<1>7. CF!Set(CF!Leaf1AvxFeatures, reg') = CF!Set(CF!Leaf1AvxFeatures, CF!Answer("1"))
  <2>1. reg'["cx"] = CF!Answer("1")["cx"]
    <3>. HIDE DEF ax, dx
    <3>. QED
      BY <1>1, <1>2 DEF CF!Answer, CF!Registers
  <2>2. \A f \in CF!Leaf1AvxFeatures : f[2] = "cx"
    BY DEF CF!Leaf1AvxFeatures
  <2>. QED
    BY <2>1, <2>2 DEF CF!Set
<1>8. features' = FromXgetbv'
  <2>. HIDE DEF avx
  <2>1. features' = FromXgetbv
    BY <1>1, <1>2, <1>4, <1>7 DEF FromXgetbv, CF!When
  <2>. QED
    BY <1>1, <2>1, SameReports
<1>. QED
  BY <1>1, <1>6, <1>8 DEF CpuInv

LEMMA Extended_CpuInv ==
  ASSUME CpuInv, CF!Extended
  PROVE  CpuInv'
<1>1. /\ SavedInv /\ features = FromXgetbv /\ pc' = "leaf 7" /\ cpu' = cpu /\ has' = has
      /\ reg' = IF cpu.ext THEN CF!Answer("ext1")
                ELSE [CF!Answer("ext0") EXCEPT !["ax"] = reg["ax"]]
      /\ features' = features \cup CF!When(cpu.ext,
           CF!Set(CF!ExtFeatures, reg') \cup CF!When(has.avx, CF!Set(CF!ExtAvxFeatures, reg')))
  BY DEF CpuInv, CF!Extended
<1>2. features' = FromExtended
  BY <1>1 DEF FromExtended, SavedInv, CF!When
<1>. QED
  BY <1>1, <1>2, SameReports DEF CpuInv

LEMMA Leaf7_CpuInv ==
  ASSUME CpuInv, CF!Leaf7
  PROVE  CpuInv'
<1>1. /\ SavedInv /\ features = FromExtended /\ pc' = "leaf d" /\ cpu' = cpu /\ has' = has
      /\ reg' = IF cpu.level >= 7 THEN CF!Answer("7") ELSE reg
      /\ features' = features \cup CF!When(cpu.level >= 7,
           CF!Set(CF!Leaf7Features, reg')
             \cup CF!When(has.avx, CF!Set(CF!Leaf7AvxFeatures, reg'))
             \cup CF!When(has.avx512, CF!Set(CF!Avx512Features, reg')))
  BY DEF CpuInv, CF!Leaf7
<1>2. features' = FromLeaf7
  BY <1>1 DEF FromLeaf7, SavedInv, CF!When
<1>. QED
  BY <1>1, <1>2, SameReports DEF CpuInv

LEMMA LeafD_CpuInv ==
  ASSUME CpuInv, CF!LeafD
  PROVE  CpuInv'
<1>1. /\ SavedInv /\ features = FromLeaf7 /\ pc' = "return true" /\ cpu' = cpu
      /\ reg' = IF cpu.level >= 13 THEN CF!Answer("d") ELSE reg
      /\ features' = features \cup CF!When(cpu.level >= 13 /\ has.avx,
                                           CF!Set(CF!LeafDFeatures, reg'))
  BY DEF CpuInv, CF!LeafD
<1>2. features' = FromLeafD
  BY <1>1 DEF FromLeafD, SavedInv, CF!When
<1>. QED
  BY <1>1, <1>2, SameReports DEF CpuInv

LEMMA CpuInvariance == CF!Spec => []CpuInv
<1>1. CF!Init => CpuInv
  BY DEF CF!Init, CpuInv
<1>2. CpuInv /\ [CF!Next]_CF!vars => CpuInv'
  <2> SUFFICES ASSUME CpuInv, [CF!Next]_CF!vars PROVE CpuInv'
    OBVIOUS
  <2>1. CASE CF!Leaf0
    BY <2>1 DEF CF!Leaf0, CpuInv
  <2>2. CASE CF!Leaf1
    <3>1. /\ reg' = CF!Answer("1") /\ features' = FromLeaf1 /\ pc' = "xgetbv" /\ cpu' = cpu
      BY <2>2 DEF CF!Leaf1, FromLeaf1
    <3>. QED
      BY <3>1, SameReports DEF CpuInv
  <2>3. CASE CF!Xgetbv
    BY <2>3, Xgetbv_CpuInv
  <2>4. CASE CF!Extended
    BY <2>4, Extended_CpuInv
  <2>5. CASE CF!Leaf7
    BY <2>5, Leaf7_CpuInv
  <2>6. CASE CF!LeafD
    BY <2>6, LeafD_CpuInv
  <2>7. CASE UNCHANGED CF!vars
    <3>1. cpu' = cpu /\ pc' = pc /\ reg' = reg /\ has' = has /\ features' = features
      BY <2>7 DEF CF!vars
    <3>. QED
      BY <3>1, SameReports DEF CpuInv
  <2>. QED
    BY <2>1, <2>2, <2>3, <2>4, <2>5, <2>6, <2>7 DEF CF!Next
<1>. QED
  BY <1>1, <1>2, PTL DEF CF!Spec

(* When get_cpu_features returns true it has reported a feature exactly    *)
(* when the feature's own leaf exists and says so and the operating system *)
(* saves the registers it needs, whatever the processor answers to any     *)
(* leaf: although all leaves and XGETBV are read into the same four        *)
(* variables, no bit is taken from what an earlier call has left there.    *)
THEOREM CpuReportsOwnLeaves == CF!Spec => []CF!ReportsOwnLeaf
<1>1. CpuInv => CF!ReportsOwnLeaf
  BY DEF CpuInv, CF!ReportsOwnLeaf, FromLeaf1, FromXgetbv, FromExtended, FromLeaf7, FromLeafD
<1>. QED
  BY <1>1, CpuInvariance, PTL
-----------------------------------------------------------------------------
(***************************************************************************)
(* OpenAES.                                                                *)
(***************************************************************************)
CONSTANTS Ctxs, BLOCK, KeyLens, Texts, Fails, MaxCalls

VARIABLES ctx, heap, keys, wire, rc, got, busy

OA == INSTANCE OpenAes

(* A heap on which every free has been of an allocated block.              *)
HeapOf(L) == [live |-> L, ok |-> TRUE]

(* A key under construction: its blocks are different, the data or the     *)
(* expansion may be missing.                                               *)
KeyBlocks(k) == IF k = OA!NoKey THEN {} ELSE {k.self, k.buf, k.exp} \ {OA!NoBlock}
PartOf(k) ==
  k = OA!NoKey \/ \E a, n, d, b, e :
    /\ k = [self |-> a, data_len |-> n, data |-> d, buf |-> b, exp |-> e]
    /\ a # OA!NoBlock /\ a # b /\ a # e /\ (b = e => b = OA!NoBlock)

(* A heap with the blocks of one key and others, R, that it does not own.  *)
Sound(s, R) ==
  /\ PartOf(s.key) /\ R \cap KeyBlocks(s.key) = {} /\ OA!NoBlock \notin R
  /\ s.heap = HeapOf(R \cup KeyBlocks(s.key))

(* A record of different blocks is a key under construction.               *)
LEMMA MadePart ==
  ASSUME NEW a, NEW n, NEW d, NEW b, NEW e,
         a # OA!NoBlock, a # b, a # e, b = e => b = OA!NoBlock
  PROVE  LET k == [self |-> a, data_len |-> n, data |-> d, buf |-> b, exp |-> e]
         IN  k # OA!NoKey /\ PartOf(k)
<1> DEFINE k == [self |-> a, data_len |-> n, data |-> d, buf |-> b, exp |-> e]
<1>1. k # OA!NoKey
  <2>1. "self" \in DOMAIN k /\ "self" \notin DOMAIN OA!NoKey
    BY DEF OA!NoKey
  <2>. HIDE DEF k
  <2>. QED
    BY <2>1
<1>2. PartOf(k)
  <2>1. k = k /\ a # OA!NoBlock /\ a # b /\ a # e /\ (b = e => b = OA!NoBlock)
    OBVIOUS
  <2>. QED
    BY <2>1, Zenon DEF PartOf
<1>. QED
  BY <1>1, <1>2

(* A free of an allocated block takes it away and is no error.             *)
LEMMA FreeBlock ==
  ASSUME NEW L, NEW p \in L
  PROVE  OA!free(HeapOf(L), p) = HeapOf(L \ {p})
BY DEF OA!free, HeapOf

(* calloc returns a block that was not allocated: there is one more block  *)
(* <<what, n>> that it may be than there are allocated ones.               *)
LEMMA CallocBlock ==
  ASSUME NEW L, IsFiniteSet(L), NEW what
  PROVE  LET p == OA!NewBlock(HeapOf(L), what)
         IN  /\ p \notin L /\ p # OA!NoBlock
             /\ OA!calloc(HeapOf(L), what) = HeapOf(L \cup {p})
             /\ IsFiniteSet(L \cup {p})
<1> DEFINE N == Cardinality(L)
           I == 1..(N + 1)
           f == [n \in I |-> <<what, n>>]
           p == OA!NewBlock(HeapOf(L), what)
<1>1. N \in Nat
  BY FS_CardinalityType
<1>2. IsFiniteSet(I) /\ Cardinality(I) = N + 1
  BY SMTT(60), <1>1, FS_Interval
<1>3. \E n \in I : <<what, n>> \notin L
  <2>1. SUFFICES ASSUME \A n \in I : <<what, n>> \in L PROVE FALSE
    OBVIOUS
  <2>2. f \in [I -> L]
    BY <2>1
  <2>3. \A m, n \in I : m # n => f[m] # f[n]
    OBVIOUS
  <2>4. f \in Injection(I, L)
    BY <2>2, <2>3 DEF Injection, IsInjective
  <2>. HIDE DEF f, I
  <2>5. Cardinality(I) <= Cardinality(L)
    BY <2>4, FS_Injection
  <2>. QED
    BY <1>1, <1>2, <2>5 DEF N
<1>4. OA!Cardinality(L) = N
  BY Zenon DEF OA!Cardinality, Cardinality
<1>5. p = CHOOSE q \in {<<what, n>> : n \in I} : q \notin L
  BY <1>4 DEF OA!NewBlock, HeapOf
<1>6. p \in {<<what, n>> : n \in I} /\ p \notin L
  BY <1>3, <1>5
<1>7. p # OA!NoBlock
  BY <1>1, <1>6 DEF OA!NoBlock
<1>8. OA!calloc(HeapOf(L), what) = HeapOf(L \cup {p})
  <2>1. \A q : [live |-> HeapOf(L).live \cup {q}, ok |-> HeapOf(L).ok] = HeapOf(L \cup {q})
    BY DEF HeapOf
  <2>. QED
    BY <2>1 DEF OA!calloc
<1>9. IsFiniteSet(L \cup {p})
  BY FS_AddElement
<1>. QED
  BY <1>6, <1>7, <1>8, <1>9

(* oaes_key_destroy frees exactly the blocks of the key.                   *)
LEMMA DestroySound ==
  ASSUME NEW s, NEW R, Sound(s, R)
  PROVE  LET d == OA!oaes_key_destroy(s)
         IN  d.key = OA!NoKey /\ d.heap = HeapOf(R) /\ Sound(d, R)
<1> DEFINE d == OA!oaes_key_destroy(s)
           L == R \cup KeyBlocks(s.key)
<1>1. d.key = OA!NoKey /\ d.heap = HeapOf(R)
  <2>1. CASE s.key = OA!NoKey
    <3>1. d = s /\ KeyBlocks(s.key) = {}
      BY <2>1 DEF OA!oaes_key_destroy, KeyBlocks
    <3>. QED
      BY <2>1, <3>1 DEF Sound
  <2>2. CASE s.key # OA!NoKey
    <3>1. PICK a, n, e, b, x :
            /\ s.key = [self |-> a, data_len |-> n, data |-> e, buf |-> b, exp |-> x]
            /\ a # OA!NoBlock /\ a # b /\ a # x /\ (b = x => b = OA!NoBlock)
      BY <2>2 DEF Sound, PartOf
    <3>2. KeyBlocks(s.key) = {a, b, x} \ {OA!NoBlock}
      BY <2>2, <3>1 DEF KeyBlocks
    <3>3. OA!FreeSet(s.heap, b) = HeapOf(L \ {b})
      <4>1. CASE b = OA!NoBlock
        <5>1. b \notin L
          BY <3>2, <4>1 DEF Sound
        <5>2. L \ {b} = L
          BY <5>1
        <5>. QED
          BY <4>1, <5>2 DEF OA!FreeSet, Sound
      <4>2. CASE b # OA!NoBlock
        <5>1. b \in L
          BY <3>2, <4>2
        <5>. QED
          BY <4>2, <5>1, FreeBlock DEF OA!FreeSet, Sound
      <4>. QED
        BY <4>1, <4>2
    <3>4. OA!FreeSet(HeapOf(L \ {b}), x) = HeapOf(L \ {b, x})
      <4>1. CASE x = OA!NoBlock
        <5>1. x \notin L
          BY <3>2, <4>1 DEF Sound
        <5>2. L \ {b} = L \ {b, x}
          BY <5>1
        <5>. QED
          BY <4>1, <5>2 DEF OA!FreeSet
      <4>2. CASE x # OA!NoBlock
        <5>1. x \in L \ {b} /\ (L \ {b}) \ {x} = L \ {b, x}
          BY <3>1, <3>2, <4>2
        <5>. QED
          BY <4>2, <5>1, FreeBlock DEF OA!FreeSet
      <4>. QED
        BY <4>1, <4>2
    <3>5. OA!free(HeapOf(L \ {b, x}), a) = HeapOf(R)
      <4>1. a \in L \ {b, x} /\ (L \ {b, x}) \ {a} = R
        BY <3>1, <3>2 DEF Sound
      <4>. QED
        BY <4>1, FreeBlock
    <3>6. s.key.buf = b /\ s.key.exp = x /\ s.key.self = a
      BY <3>1
    <3>7. d = OA!State(HeapOf(R), OA!NoKey)
      <4>. HIDE DEF L
      <4>. QED
        BY <2>2, <3>3, <3>4, <3>5, <3>6 DEF OA!oaes_key_destroy
    <3>. QED
      BY <3>7 DEF OA!State
  <2>. QED
    BY <2>1, <2>2
<1>2. Sound(d, R)
  BY <1>1 DEF Sound, PartOf, KeyBlocks
<1>. QED
  BY <1>1, <1>2
(* A key that has just been allocated has no other block.                  *)
LEMMA CallocKeySound ==
  ASSUME NEW R, IsFiniteSet(R), OA!NoBlock \notin R, NEW len, NEW data
  PROVE  LET t == OA!CallocKey(HeapOf(R), len, data)
         IN  /\ Sound(t, R) /\ t.key # OA!NoKey
             /\ t.key.buf = OA!NoBlock /\ t.key.exp = OA!NoBlock
             /\ t.key.data_len = len /\ t.key.data = data
             /\ t.key.self \notin R /\ t.key.self # OA!NoBlock
             /\ t.heap = HeapOf(R \cup {t.key.self})
             /\ IsFiniteSet(R \cup {t.key.self})
<1> DEFINE t == OA!CallocKey(HeapOf(R), len, data)
<1>1. PICK a : /\ a = OA!NewBlock(HeapOf(R), "key")
               /\ a \notin R /\ a # OA!NoBlock /\ IsFiniteSet(R \cup {a})
               /\ OA!calloc(HeapOf(R), "key") = HeapOf(R \cup {a})
  BY CallocBlock
<1> DEFINE k == [self |-> a, data_len |-> len, data |-> data, buf |-> OA!NoBlock,
                 exp |-> OA!NoBlock]
<1>2. t.heap = HeapOf(R \cup {a}) /\ t.key = k
  BY <1>1 DEF OA!CallocKey, OA!State
<1>3. k # OA!NoKey /\ PartOf(k)
  BY <1>1, MadePart
<1>5. KeyBlocks(k) = {a}
  BY <1>1, <1>3 DEF KeyBlocks
<1>6. Sound(t, R)
  <2>. HIDE DEF t, k
  <2>. QED
    BY <1>1, <1>2, <1>3, <1>5 DEF Sound
<1>7. k.self = a /\ k.data_len = len /\ k.data = data /\ k.buf = OA!NoBlock /\ k.exp = OA!NoBlock
  OBVIOUS
<1>. HIDE DEF k
<1>. QED
  BY <1>1, <1>2, <1>3, <1>6, <1>7

(* Nor has a key whose data has been allocated an expansion yet.           *)
LEMMA CallocDataSound ==
  ASSUME NEW s, NEW R, IsFiniteSet(R), Sound(s, R), s.key # OA!NoKey,
         s.key.buf = OA!NoBlock, s.key.exp = OA!NoBlock
  PROVE  LET t == OA!CallocData(s)
         IN  /\ Sound(t, R) /\ t.key # OA!NoKey
             /\ t.key.buf # OA!NoBlock /\ t.key.exp = OA!NoBlock
             /\ t.key.data_len = s.key.data_len /\ t.key.data = s.key.data
<1> DEFINE t == OA!CallocData(s)
           L == R \cup KeyBlocks(s.key)
<1>1. PICK a, n, d, b, x :
        /\ s.key = [self |-> a, data_len |-> n, data |-> d, buf |-> b, exp |-> x]
        /\ a # OA!NoBlock
  BY DEF Sound, PartOf
<1>2. b = OA!NoBlock /\ x = OA!NoBlock /\ KeyBlocks(s.key) = {a}
  BY <1>1 DEF KeyBlocks
<1>3. PICK p : /\ p = OA!NewBlock(s.heap, "data")
               /\ p \notin L /\ p # OA!NoBlock
               /\ OA!calloc(s.heap, "data") = HeapOf(L \cup {p})
  <2>1. IsFiniteSet(L)
    BY <1>2, FS_AddElement
  <2>2. s.heap = HeapOf(L)
    BY DEF Sound
  <2>. HIDE DEF L
  <2>. QED
    BY <2>1, <2>2, CallocBlock
<1> DEFINE k == [self |-> a, data_len |-> n, data |-> d, buf |-> p, exp |-> x]
<1>4. t.heap = HeapOf(L \cup {p}) /\ t.key = [s.key EXCEPT !.buf = p]
  BY <1>3 DEF OA!CallocData, OA!State
<1>5. t.key = k
  BY <1>1, <1>4
<1>6. k # OA!NoKey /\ PartOf(k)
  <2>1. a # p
    BY <1>2, <1>3
  <2>. QED
    BY <1>1, <1>2, <1>3, <2>1, MadePart
<1>8. KeyBlocks(k) = {a, p}
  BY <1>1, <1>2, <1>3, <1>6 DEF KeyBlocks
<1>9. Sound(t, R)
  <2>1. L \cup {p} = R \cup {a, p} /\ R \cap {a, p} = {} /\ OA!NoBlock \notin R
    BY <1>2, <1>3 DEF Sound
  <2>. HIDE DEF t, k, L
  <2>. QED
    BY <1>4, <1>5, <1>6, <1>8, <2>1 DEF Sound
<1>10. /\ k.buf = p /\ k.exp = x /\ k.data_len = n /\ k.data = d
       /\ s.key.data_len = n /\ s.key.data = d
  BY <1>1
<1>. HIDE DEF k
<1>. QED
  BY <1>2, <1>3, <1>5, <1>6, <1>9, <1>10
(* The expansion is the last block of a key.                               *)
LEMMA CallocExpSound ==
  ASSUME NEW s, NEW R, IsFiniteSet(R), Sound(s, R), s.key # OA!NoKey,
         s.key.buf # OA!NoBlock, s.key.exp = OA!NoBlock
  PROVE  LET t == OA!CallocExp(s)
         IN  /\ Sound(t, R) /\ t.key # OA!NoKey
             /\ t.key.buf # OA!NoBlock /\ t.key.exp # OA!NoBlock
             /\ t.key.data_len = s.key.data_len /\ t.key.data = s.key.data
<1> DEFINE t == OA!CallocExp(s)
           L == R \cup KeyBlocks(s.key)
<1>1. PICK a, n, d, b, x :
        /\ s.key = [self |-> a, data_len |-> n, data |-> d, buf |-> b, exp |-> x]
        /\ a # OA!NoBlock /\ a # b
  BY DEF Sound, PartOf
<1>2. b # OA!NoBlock /\ x = OA!NoBlock /\ KeyBlocks(s.key) = {a, b}
  BY <1>1 DEF KeyBlocks
<1>3. PICK p : /\ p = OA!NewBlock(s.heap, "exp")
               /\ p \notin L /\ p # OA!NoBlock
               /\ OA!calloc(s.heap, "exp") = HeapOf(L \cup {p})
  <2>1. IsFiniteSet((R \cup {a}) \cup {b})
    BY FS_AddElement
  <2>2. IsFiniteSet(L)
    <3>1. L = (R \cup {a}) \cup {b}
      BY <1>2
    <3>. QED
      BY <2>1, <3>1
  <2>3. s.heap = HeapOf(L)
    BY DEF Sound
  <2>. HIDE DEF L
  <2>. QED
    BY <2>2, <2>3, CallocBlock
<1> DEFINE k == [self |-> a, data_len |-> n, data |-> d, buf |-> b, exp |-> p]
<1>4. t.heap = HeapOf(L \cup {p}) /\ t.key = [s.key EXCEPT !.exp = p]
  BY <1>3 DEF OA!CallocExp, OA!State
<1>5. t.key = k
  BY <1>1, <1>4
<1>6. k # OA!NoKey /\ PartOf(k)
  <2>1. a # p /\ b # p
    BY <1>2, <1>3
  <2>. QED
    BY <1>1, <1>2, <1>3, <2>1, MadePart
<1>8. KeyBlocks(k) = {a, b, p}
  BY <1>1, <1>2, <1>3, <1>6 DEF KeyBlocks
<1>9. Sound(t, R)
  <2>1. L \cup {p} = R \cup {a, b, p} /\ R \cap {a, b, p} = {} /\ OA!NoBlock \notin R
    BY <1>2, <1>3 DEF Sound
  <2>. HIDE DEF t, k, L
  <2>. QED
    BY <1>4, <1>5, <1>6, <1>8, <2>1 DEF Sound
<1>10. /\ k.buf = b /\ k.exp = p /\ k.data_len = n /\ k.data = d
       /\ s.key.data_len = n /\ s.key.data = d
  BY <1>1
<1>. HIDE DEF k
<1>. QED
  BY <1>2, <1>3, <1>5, <1>6, <1>9, <1>10

(* A key that is complete: what a context may have.                        *)
KeyOk(k) ==
  /\ PartOf(k)
  /\ k # OA!NoKey => k.buf # OA!NoBlock /\ k.exp # OA!NoBlock /\ k.data_len \in KeyLens

(* How a call that makes a key ends: with a key of the length and the data *)
(* it was asked for or with an error, and with a complete key or none.     *)
Ended(r, R, len, data) ==
  /\ Sound(r, R) /\ KeyOk(r.key)
  /\ r.rc = "SUCCESS" => r.key # OA!NoKey /\ r.key.data_len = len /\ r.key.data = data

(* An error that leaves no key and no block of it.                         *)
LEMMA EndedWithout ==
  ASSUME NEW s, NEW R, s.heap = HeapOf(R), s.key = OA!NoKey, OA!NoBlock \notin R,
         NEW code, code # "SUCCESS", NEW len, NEW data
  PROVE  Ended(OA!Return(code, s), R, len, data)
<1> DEFINE r == OA!Return(code, s)
<1>1. r.heap = HeapOf(R) /\ r.key = OA!NoKey /\ r.rc # "SUCCESS"
  BY DEF OA!Return
<1>2. Sound(r, R)
  BY <1>1 DEF Sound, PartOf, KeyBlocks
<1>. QED
  BY <1>1, <1>2 DEF Ended, KeyOk, PartOf

(* oaes_key_expand and the error path after it.                            *)
LEMMA ExpandSound ==
  ASSUME NEW s, NEW R, IsFiniteSet(R), Sound(s, R), s.key # OA!NoKey,
         s.key.buf # OA!NoBlock, s.key.exp = OA!NoBlock,
         NEW len \in KeyLens, s.key.data_len = len, NEW fail
  PROVE  Ended(OA!Expand(s, fail), R, len, s.key.data)
<1>1. CASE fail = "exp"
  <2>1. OA!Expand(s, fail) = OA!Return("UNKNOWN", OA!oaes_key_destroy(s))
    BY <1>1 DEF OA!Expand
  <2>2. PICK d : /\ d = OA!oaes_key_destroy(s) /\ d.key = OA!NoKey /\ d.heap = HeapOf(R)
    BY DestroySound
  <2>3. OA!NoBlock \notin R
    BY DEF Sound
  <2>4. Ended(OA!Return("UNKNOWN", d), R, len, s.key.data)
    BY <2>2, <2>3, EndedWithout
  <2>. QED
    BY <2>1, <2>2, <2>4
<1>2. CASE fail # "exp"
  <2> DEFINE t == OA!CallocExp(s)
             r == OA!Return("SUCCESS", t)
  <2>1. OA!Expand(s, fail) = r
    BY <1>2 DEF OA!Expand
  <2>2. /\ Sound(t, R) /\ t.key # OA!NoKey
        /\ t.key.buf # OA!NoBlock /\ t.key.exp # OA!NoBlock
        /\ t.key.data_len = len /\ t.key.data = s.key.data
    BY CallocExpSound
  <2>3. r.heap = t.heap /\ r.key = t.key
    BY DEF OA!Return
  <2>. HIDE DEF t, r
  <2>4. Sound(r, R) /\ KeyOk(r.key)
    BY <2>2, <2>3 DEF Sound, KeyOk
  <2>. QED
    BY <2>1, <2>2, <2>3, <2>4 DEF Ended
<1>. QED
  BY <1>1, <1>2

(* A key with its block gets its data and its expansion.                   *)
LEMMA FilledSound ==
  ASSUME NEW s, NEW R, IsFiniteSet(R), Sound(s, R), s.key # OA!NoKey,
         s.key.buf = OA!NoBlock, s.key.exp = OA!NoBlock,
         NEW len \in KeyLens, s.key.data_len = len, NEW fail
  PROVE  Ended(OA!Expand(OA!CallocData(s), fail), R, len, s.key.data)
BY CallocDataSound, ExpandSound

(* Both imports: from a sound heap to a sound heap.                        *)
LEMMA ImportSound ==
  ASSUME NEW s, NEW R, IsFiniteSet(R), Sound(s, R), NEW len \in KeyLens, NEW data,
         NEW fail \in OA!Outcomes
  PROVE  Ended(OA!Import(s, len, data, fail), R, len, data)
<1> DEFINE old == OA!oaes_key_destroy(s)
           new == OA!CallocKey(old.heap, len, data)
<1>1. old.key = OA!NoKey /\ old.heap = HeapOf(R) /\ OA!NoBlock \notin R
  BY DestroySound DEF Sound
<1>2. /\ Sound(new, R) /\ new.key # OA!NoKey
      /\ new.key.buf = OA!NoBlock /\ new.key.exp = OA!NoBlock
      /\ new.key.data_len = len /\ new.key.data = data
  <2>1. PICK t : t = OA!CallocKey(HeapOf(R), len, data)
    OBVIOUS
  <2>. HIDE DEF old
  <2>2. new = t
    BY <1>1, <2>1
  <2>3. /\ Sound(t, R) /\ t.key # OA!NoKey
        /\ t.key.buf = OA!NoBlock /\ t.key.exp = OA!NoBlock
        /\ t.key.data_len = len /\ t.key.data = data
        /\ t.key.self \notin R /\ t.key.self # OA!NoBlock
        /\ t.heap = HeapOf(R \cup {t.key.self})
        /\ IsFiniteSet(R \cup {t.key.self})
    BY <1>1, <2>1, CallocKeySound
  <2>. HIDE DEF new
  <2>. QED
    BY <2>2, <2>3
<1>3. CASE fail = "key"
  <2>1. OA!Import(s, len, data, fail) = OA!Return("MEM", old)
    BY <1>3 DEF OA!Import
  <2>. HIDE DEF old
  <2>. QED
    BY <1>1, <2>1, EndedWithout
<1>4. CASE fail = "data"
  <2>1. OA!Import(s, len, data, fail) = OA!Return("MEM", OA!oaes_key_destroy(new))
    BY <1>4 DEF OA!Import
  <2>. HIDE DEF new
  <2>. QED
    BY <1>1, <1>2, <2>1, DestroySound, EndedWithout
<1>5. CASE fail \notin {"key", "data"}
  <2>1. OA!Import(s, len, data, fail) = OA!Expand(OA!CallocData(new), fail)
    BY <1>5 DEF OA!Import
  <2>. HIDE DEF new
  <2>. QED
    BY <1>2, <2>1, FilledSound
<1>. QED
  BY <1>3, <1>4, <1>5

(* oaes_key_gen: the new key is there before the old one is destroyed.     *)
LEMMA GenerateSound ==
  ASSUME NEW h, NEW k, NEW R, IsFiniteSet(R), Sound(OA!State(h, k), R), IsFiniteSet(KeyBlocks(k)),
         KeyOk(k), NEW len \in KeyLens, NEW data, NEW fail \in OA!Outcomes
  PROVE  Ended(OA!Generate(OA!State(h, k), len, data, fail), R, len, data)
<1> DEFINE s == OA!State(h, k)
           L == R \cup KeyBlocks(k)
           new == OA!CallocKey(h, len, data)
           both == OA!State(new.heap, k)
           old == OA!oaes_key_destroy(both)
           a == new.key.self
<1>1. s.heap = h /\ s.key = k
  BY DEF OA!State
<1>2. h = HeapOf(L) /\ IsFiniteSet(L) /\ OA!NoBlock \notin L /\ R \cap KeyBlocks(k) = {}
      /\ PartOf(k) /\ OA!NoBlock \notin R
  <2>1. IsFiniteSet(L)
    BY FS_Union
  <2>2. OA!NoBlock \notin KeyBlocks(k)
    BY DEF KeyBlocks
  <2>. QED
    BY <1>1, <2>1, <2>2 DEF Sound
<1>3. /\ Sound(new, L) /\ new.key # OA!NoKey
      /\ new.key.buf = OA!NoBlock /\ new.key.exp = OA!NoBlock
      /\ new.key.data_len = len /\ new.key.data = data
      /\ a \notin L /\ a # OA!NoBlock /\ new.heap = HeapOf(L \cup {a})
  <2>. HIDE DEF L
  <2>. QED
    BY <1>2, CallocKeySound
<1>4. KeyBlocks(new.key) = {a}
  BY <1>3 DEF KeyBlocks
<1>5. old.key = OA!NoKey /\ old.heap = HeapOf(R \cup {a})
  <2>1. both.heap = new.heap /\ both.key = k
    BY DEF OA!State
  <2>2. Sound(both, R \cup {a})
    <3>1. L \cup {a} = (R \cup {a}) \cup KeyBlocks(k) /\ (R \cup {a}) \cap KeyBlocks(k) = {}
      BY <1>2, <1>3
    <3>. HIDE DEF both, L, a
    <3>. QED
      BY <1>2, <1>3, <2>1, <3>1 DEF Sound
  <2>. HIDE DEF both
  <2>. QED
    BY <2>2, DestroySound
<1>6. CASE fail = "key"
  <2>1. OA!Generate(s, len, data, fail) = OA!Return("MEM", s)
    BY <1>6 DEF OA!Generate
  <2> DEFINE r == OA!Return("MEM", s)
  <2>2. r.heap = h /\ r.key = k /\ r.rc # "SUCCESS"
    BY <1>1 DEF OA!Return
  <2>3. Sound(r, R)
    <3>. HIDE DEF r
    <3>. QED
      BY <1>1, <2>2 DEF Sound
  <2>. HIDE DEF r
  <2>. QED
    BY <2>1, <2>2, <2>3 DEF Ended, r
<1>7. CASE fail = "data"
  <2>1. OA!Generate(s, len, data, fail) = OA!Return("MEM", OA!State(OA!free(old.heap, a), old.key))
    BY <1>1, <1>7 DEF OA!Generate
  <2>2. OA!free(old.heap, a) = HeapOf(R)
    <3>1. (R \cup {a}) \ {a} = R
      BY <1>3
    <3>. HIDE DEF old, a
    <3>. QED
      BY <1>5, <3>1, FreeBlock
  <2> DEFINE t == OA!State(HeapOf(R), OA!NoKey)
  <2>3. t.heap = HeapOf(R) /\ t.key = OA!NoKey
    BY DEF OA!State
  <2>4. OA!Generate(s, len, data, fail) = OA!Return("MEM", t)
    <3>. HIDE DEF old, a
    <3>. QED
      BY <1>5, <2>1, <2>2
  <2>. HIDE DEF t
  <2>. QED
    BY <1>2, <2>3, <2>4, EndedWithout
<1>8. CASE fail \notin {"key", "data"}
  <2> DEFINE t == OA!State(old.heap, new.key)
  <2>1. OA!Generate(s, len, data, fail) = OA!Expand(OA!CallocData(t), fail)
    BY <1>1, <1>8 DEF OA!Generate
  <2>2. t.heap = HeapOf(R \cup {a}) /\ t.key = new.key
    BY <1>5 DEF OA!State
  <2>3. Sound(t, R)
    <3>1. R \cap {a} = {}
      BY <1>3
    <3>. HIDE DEF t, a, new
    <3>. QED
      BY <1>2, <1>3, <1>4, <2>2, <3>1 DEF Sound
  <2>. HIDE DEF t
  <2>. QED
    BY <1>3, <2>1, <2>2, <2>3, FilledSound
<1>. QED
  BY <1>6, <1>7, <1>8

-----------------------------------------------------------------------------
(* A context has a block, a mode, an iv and no key or a complete one.      *)
Blocks(x) == IF x = OA!NULL THEN {} ELSE {x.self} \cup KeyBlocks(x.key)
Modes == {{"ECB"}, {"CBC"}}
ContextOk(x) ==
  x = OA!NULL \/ \E a, k, v : \E o \in Modes :
    /\ KeyOk(k) /\ a # OA!NoBlock /\ a \notin KeyBlocks(k)
    /\ x = [self |-> a, key |-> k, options |-> o, iv |-> v]

CtxInv == /\ ctx = [c \in Ctxs |-> ctx[c]]
          /\ \A c \in Ctxs : ContextOk(ctx[c])

(* What is allocated are the blocks of the contexts, which share none.     *)
AllBlocks == UNION {Blocks(ctx[c]) : c \in Ctxs}
HeapInv ==
  /\ heap = HeapOf(AllBlocks) /\ IsFiniteSet(AllBlocks)
  /\ \A c, d \in Ctxs : c # d => Blocks(ctx[c]) \cap Blocks(ctx[d]) = {}

KeysInv == CtxInv /\ HeapInv

LEMMA Context ==
  ASSUME NEW x, ContextOk(x), x # OA!NULL
  PROVE  /\ KeyOk(x.key) /\ x.options \in Modes
         /\ x.self # OA!NoBlock /\ x.self \notin KeyBlocks(x.key)
         /\ Blocks(x) = {x.self} \cup KeyBlocks(x.key)
         /\ x = [self |-> x.self, key |-> x.key, options |-> x.options, iv |-> x.iv]
BY DEF ContextOk, Blocks

LEMMA MadeContext ==
  ASSUME NEW a, a # OA!NoBlock, NEW k, KeyOk(k), a \notin KeyBlocks(k), NEW o \in Modes, NEW v
  PROVE  LET x == [self |-> a, key |-> k, options |-> o, iv |-> v]
         IN  ContextOk(x) /\ x # OA!NULL /\ Blocks(x) = {a} \cup KeyBlocks(k)
<1> DEFINE x == [self |-> a, key |-> k, options |-> o, iv |-> v]
<1>1. ContextOk(x)
  BY DEF ContextOk
<1>2. "null" \in DOMAIN OA!NULL /\ "null" \notin DOMAIN x
  BY DEF OA!NULL
<1>3. x # OA!NULL
  BY <1>2
<1>4. x.self = a /\ x.key = k
  OBVIOUS
<1>5. Blocks(x) = {a} \cup KeyBlocks(k)
  <2>. HIDE DEF x
  <2>. QED
    BY <1>3, <1>4 DEF Blocks
<1>. QED
  BY <1>1, <1>3, <1>5

LEMMA FiniteBlocks ==
  ASSUME NEW x, ContextOk(x)
  PROVE  IsFiniteSet(Blocks(x))
<1>1. CASE x = OA!NULL
  BY <1>1, FS_EmptySet DEF Blocks
<1>2. CASE x # OA!NULL
  <2> DEFINE B == ((({} \cup {x.self}) \cup {x.key.self}) \cup {x.key.buf}) \cup {x.key.exp}
  <2>1. IsFiniteSet(B)
    BY FS_EmptySet, FS_AddElement
  <2>2. Blocks(x) \subseteq B
    BY <1>2 DEF Blocks, KeyBlocks
  <2>. HIDE DEF B
  <2>. QED
    BY <2>1, <2>2, FS_Subset
<1>. QED
  BY <1>1, <1>2

(* The blocks of a context are allocated, those of its key among them.     *)
LEMMA OwnBlocks ==
  ASSUME KeysInv, NEW c \in Ctxs
  PROVE  /\ Blocks(ctx[c]) \subseteq AllBlocks
         /\ OA!NoBlock \notin AllBlocks
<1>1. Blocks(ctx[c]) \subseteq AllBlocks
  BY DEF AllBlocks
<1>2. OA!NoBlock \notin AllBlocks
  <2>1. SUFFICES ASSUME NEW d \in Ctxs PROVE OA!NoBlock \notin Blocks(ctx[d])
    BY DEF AllBlocks
  <2>2. ContextOk(ctx[d])
    BY DEF KeysInv, CtxInv
  <2>3. CASE ctx[d] # OA!NULL
    <3>1. Blocks(ctx[d]) = {ctx[d].self} \cup KeyBlocks(ctx[d].key) /\ ctx[d].self # OA!NoBlock
      BY <2>2, <2>3, Context
    <3>. QED
      BY <3>1 DEF KeyBlocks
  <2>. QED
    BY <2>3 DEF Blocks
<1>. QED
  BY <1>1, <1>2

(* A call that replaces the blocks of one context in the heap keeps the    *)
(* invariant.                                                              *)
LEMMA Replaced ==
  ASSUME KeysInv, NEW c \in Ctxs, NEW x, ContextOk(x), ctx' = [ctx EXCEPT ![c] = x],
         NEW R, R = AllBlocks \ Blocks(ctx[c]), R \cap Blocks(x) = {},
         heap' = HeapOf(R \cup Blocks(x))
  PROVE  KeysInv'
<1>1. /\ ctx' = [d \in Ctxs |-> ctx'[d]] /\ ctx'[c] = x
      /\ \A d \in Ctxs \ {c} : ctx'[d] = ctx[d]
  BY DEF KeysInv, CtxInv
<1>2. CtxInv'
  BY <1>1 DEF KeysInv, CtxInv
<1>3. \A d \in Ctxs \ {c} : Blocks(ctx[d]) \subseteq R
  BY DEF KeysInv, HeapInv, AllBlocks
<1>4. AllBlocks' = R \cup Blocks(x)
  <2>1. ASSUME NEW p \in AllBlocks' PROVE p \in R \cup Blocks(x)
    <3>1. PICK d \in Ctxs : p \in Blocks(ctx'[d])
      BY <2>1 DEF AllBlocks
    <3>. QED
      BY <1>1, <1>3, <3>1
  <2>2. ASSUME NEW p \in R PROVE p \in AllBlocks'
    <3>1. PICK d \in Ctxs : p \in Blocks(ctx[d])
      BY <2>2 DEF AllBlocks
    <3>2. d # c
      BY <2>2, <3>1
    <3>. QED
      BY <1>1, <3>1, <3>2 DEF AllBlocks
  <2>3. Blocks(x) \subseteq AllBlocks'
    BY <1>1 DEF AllBlocks
  <2>. QED
    BY <2>1, <2>2, <2>3
<1>5. IsFiniteSet(R \cup Blocks(x))
  <2>1. IsFiniteSet(R)
    <3>1. IsFiniteSet(AllBlocks) /\ R \subseteq AllBlocks
      BY DEF KeysInv, HeapInv
    <3>. QED
      BY <3>1, FS_Subset
  <2>. QED
    BY <2>1, FiniteBlocks, FS_Union
<1>6. ASSUME NEW d \in Ctxs, NEW e \in Ctxs, d # e
      PROVE  Blocks(ctx'[d]) \cap Blocks(ctx'[e]) = {}
  <2>1. Blocks(ctx[d]) \cap Blocks(ctx[e]) = {}
    BY <1>6 DEF KeysInv, HeapInv
  <2>. QED
    BY <1>1, <1>3, <1>6, <2>1
<1>7. HeapInv'
  BY <1>4, <1>5, <1>6 DEF HeapInv
<1>. QED
  BY <1>2, <1>7 DEF KeysInv

(* Nothing that the invariants of contexts are about has changed.          *)
LEMMA SameContexts ==
  ASSUME KeysInv, UNCHANGED <<ctx, heap>>
  PROVE  KeysInv'
BY DEF KeysInv, CtxInv, HeapInv, AllBlocks

(* A context in use gets another mode and iv, but keeps its key.           *)
LEMMA NewMode ==
  ASSUME KeysInv, NEW c \in Ctxs, ctx[c] # OA!NULL,
         NEW o \in Modes, NEW v, heap' = heap,
         ctx' = [ctx EXCEPT ![c] =
                   [self |-> ctx[c].self, key |-> ctx[c].key, options |-> o, iv |-> v]]
  PROVE  KeysInv'
<1> DEFINE x == [self |-> ctx[c].self, key |-> ctx[c].key, options |-> o, iv |-> v]
           R == AllBlocks \ Blocks(ctx[c])
<1>1. ContextOk(ctx[c])
  BY DEF KeysInv, CtxInv
<1>2. ContextOk(x) /\ Blocks(x) = Blocks(ctx[c])
  <2>1. /\ KeyOk(ctx[c].key) /\ ctx[c].self # OA!NoBlock /\ ctx[c].self \notin KeyBlocks(ctx[c].key)
        /\ Blocks(ctx[c]) = {ctx[c].self} \cup KeyBlocks(ctx[c].key)
    BY <1>1, Context
  <2>. QED
    BY <2>1, MadeContext
<1>3. heap' = HeapOf(R \cup Blocks(x)) /\ R \cap Blocks(x) = {}
  <2>1. R \cup Blocks(x) = AllBlocks /\ R \cap Blocks(x) = {}
    BY <1>2, OwnBlocks
  <2>. QED
    BY <2>1 DEF KeysInv, HeapInv
<1>4. ctx' = [ctx EXCEPT ![c] = x]
  OBVIOUS
<1>. HIDE DEF x
<1>. QED
  BY <1>2, <1>3, <1>4, Replaced

(* The heap and the key a call starts with; all other blocks are R.        *)
LEMMA StateSound ==
  ASSUME KeysInv, NEW c \in Ctxs, ctx[c] # OA!NULL,
         NEW R, R = AllBlocks \ KeyBlocks(ctx[c].key)
  PROVE  /\ Sound(OA!State(heap, ctx[c].key), R)
         /\ KeyOk(ctx[c].key) /\ IsFiniteSet(R) /\ IsFiniteSet(KeyBlocks(ctx[c].key))
<1> DEFINE k == ctx[c].key
           s == OA!State(heap, k)
<1>1. KeyOk(k) /\ KeyBlocks(k) \subseteq AllBlocks /\ OA!NoBlock \notin AllBlocks
  <2>1. ContextOk(ctx[c])
    BY DEF KeysInv, CtxInv
  <2>. QED
    BY <2>1, Context, OwnBlocks
<1>2. IsFiniteSet(R) /\ IsFiniteSet(KeyBlocks(k))
  <2>1. IsFiniteSet(AllBlocks) /\ R \subseteq AllBlocks
    BY DEF KeysInv, HeapInv
  <2>. QED
    BY <1>1, <2>1, FS_Subset
<1>3. s.heap = heap /\ s.key = k
  BY DEF OA!State
<1>4. heap = HeapOf(R \cup KeyBlocks(k))
  <2>1. R \cup KeyBlocks(k) = AllBlocks
    BY <1>1
  <2>. QED
    BY <2>1 DEF KeysInv, HeapInv
<1>5. Sound(s, R)
  <2>. HIDE DEF s
  <2>. QED
    BY <1>1, <1>3, <1>4 DEF Sound, KeyOk
<1>. QED
  BY <1>1, <1>2, <1>5

(* A context in use gets another key.                                      *)
LEMMA NewKeySet ==
  ASSUME KeysInv, NEW c \in Ctxs, ctx[c] # OA!NULL,
         NEW R, R = AllBlocks \ KeyBlocks(ctx[c].key),
         NEW new, NEW len, NEW data, Ended(new, R, len, data), OA!SetKey(c, new)
  PROVE  KeysInv'
<1> DEFINE x == [ctx[c] EXCEPT !.key = new.key]
           y == [self |-> ctx[c].self, key |-> new.key, options |-> ctx[c].options,
                 iv |-> ctx[c].iv]
           Q == AllBlocks \ Blocks(ctx[c])
<1>1. ContextOk(ctx[c])
  BY DEF KeysInv, CtxInv
<1>2. /\ ctx[c].self # OA!NoBlock /\ ctx[c].self \notin KeyBlocks(ctx[c].key)
      /\ Blocks(ctx[c]) = {ctx[c].self} \cup KeyBlocks(ctx[c].key)
      /\ ctx[c].options \in Modes
      /\ ctx[c] = [self |-> ctx[c].self, key |-> ctx[c].key, options |-> ctx[c].options,
                   iv |-> ctx[c].iv]
  BY <1>1, Context
<1>3. x = y
  BY <1>2
<1>4. ctx[c].self \in R /\ R = Q \cup {ctx[c].self} /\ ctx[c].self \notin Q
  BY <1>2, OwnBlocks
<1>5. /\ KeyOk(new.key) /\ R \cap KeyBlocks(new.key) = {}
      /\ new.heap = HeapOf(R \cup KeyBlocks(new.key))
  BY DEF Ended, Sound
<1>6. ContextOk(y) /\ Blocks(y) = {ctx[c].self} \cup KeyBlocks(new.key)
  BY <1>2, <1>4, <1>5, MadeContext
<1>7. Q \cap Blocks(y) = {} /\ heap' = HeapOf(Q \cup Blocks(y))
  <2>1. Q \cap Blocks(y) = {} /\ Q \cup Blocks(y) = R \cup KeyBlocks(new.key)
    BY <1>4, <1>5, <1>6
  <2>2. heap' = new.heap
    BY DEF OA!SetKey
  <2>. QED
    BY <1>5, <2>1, <2>2
<1>8. ctx' = [ctx EXCEPT ![c] = x]
  BY DEF OA!SetKey
<1>. HIDE DEF x, y
<1>. QED
  BY <1>3, <1>6, <1>7, <1>8, Replaced

LEMMA Alloc_KeysInv ==
  ASSUME KeysInv, NEW c \in Ctxs, OA!oaes_alloc(c)
  PROVE  KeysInv'
<1>1. CASE UNCHANGED <<ctx, heap>>
  BY <1>1, SameContexts
<1>2. CASE ~UNCHANGED <<ctx, heap>>
  <2>1. PICK a : /\ a = OA!NewBlock(heap, c) /\ a \notin AllBlocks /\ a # OA!NoBlock
                 /\ OA!calloc(heap, c) = HeapOf(AllBlocks \cup {a})
    <3>1. heap = HeapOf(AllBlocks) /\ IsFiniteSet(AllBlocks)
      BY DEF KeysInv, HeapInv
    <3>. QED
      BY <3>1, CallocBlock
  <2> DEFINE x == [self |-> a, key |-> OA!NoKey, options |-> {"CBC"}, iv |-> OA!Fresh]
  <2>2. OA!Mode([self |-> a, key |-> OA!NoKey, options |-> {},
                 iv |-> [i \in 1..BLOCK |-> OA!Zero]], "CBC", OA!Fresh) = x
    BY DEF OA!Mode
  <2>3. ctx[c] = OA!NULL /\ ctx' = [ctx EXCEPT ![c] = x] /\ heap' = HeapOf(AllBlocks \cup {a})
    BY <1>2, <2>1, <2>2 DEF OA!oaes_alloc
  <2>4. KeyOk(OA!NoKey) /\ {"CBC"} \in Modes /\ KeyBlocks(OA!NoKey) = {}
    BY DEF KeyOk, PartOf, Modes, KeyBlocks
  <2>5. ContextOk(x) /\ Blocks(x) = {a}
    BY <2>1, <2>4, MadeContext
  <2>6. AllBlocks \ Blocks(ctx[c]) = AllBlocks
    BY <2>3 DEF Blocks
  <2>7. AllBlocks \cap Blocks(x) = {} /\ heap' = HeapOf(AllBlocks \cup Blocks(x))
    BY <2>1, <2>3, <2>5
  <2>8. ContextOk(x) /\ ctx' = [ctx EXCEPT ![c] = x]
    BY <2>3, <2>5
  <2>. HIDE DEF x
  <2>. QED
    BY <2>6, <2>7, <2>8, Replaced
<1>. QED
  BY <1>1, <1>2

LEMMA Free_KeysInv ==
  ASSUME KeysInv, NEW c \in Ctxs, OA!oaes_free(c)
  PROVE  KeysInv'
<1>1. CASE ctx[c] = OA!NULL
  BY <1>1, SameContexts DEF OA!oaes_free
<1>2. CASE ctx[c] # OA!NULL
  <2> DEFINE R == AllBlocks \ KeyBlocks(ctx[c].key)
             Q == AllBlocks \ Blocks(ctx[c])
             a == ctx[c].self
             s == OA!State(heap, ctx[c].key)
  <2>1. Sound(s, R)
    BY <1>2, StateSound
  <2>2. OA!oaes_key_destroy(s).heap = HeapOf(R)
    <3>. HIDE DEF s, R
    <3>. QED
      BY <2>1, DestroySound
  <2>3. a \in R /\ R \ {a} = Q
    <3>1. ContextOk(ctx[c])
      BY DEF KeysInv, CtxInv
    <3>2. a \notin KeyBlocks(ctx[c].key) /\ Blocks(ctx[c]) = {a} \cup KeyBlocks(ctx[c].key)
      BY <1>2, <3>1, Context
    <3>. QED
      BY <3>2, OwnBlocks
  <2>4. OA!free(HeapOf(R), a) = HeapOf(Q)
    <3>. HIDE DEF R, Q, a
    <3>. QED
      BY <2>3, FreeBlock
  <2>5. ctx' = [ctx EXCEPT ![c] = OA!NULL] /\ heap' = HeapOf(Q)
    <3>. HIDE DEF R, Q
    <3>. QED
      BY <1>2, <2>2, <2>4 DEF OA!oaes_free
  <2>6. ContextOk(OA!NULL) /\ Blocks(OA!NULL) = {} /\ Q \cup {} = Q
    BY DEF ContextOk, Blocks
  <2>. QED
    BY <2>5, <2>6, Replaced
<1>. QED
  BY <1>1, <1>2

LEMMA SetOption_KeysInv ==
  ASSUME KeysInv, NEW c \in Ctxs, OA!oaes_set_option(c)
  PROVE  KeysInv'
<1>1. CASE ctx[c] = OA!NULL
  <2>1. UNCHANGED <<ctx, heap>>
    BY <1>1 DEF OA!oaes_set_option
  <2>. QED
    BY <2>1, SameContexts
<1>2. CASE ctx[c] # OA!NULL
  <2>1. PICK o \in {"ECB", "CBC"}, iv \in {OA!Given, OA!Fresh} :
          ctx' = [ctx EXCEPT ![c] = OA!Mode(@, o, iv)] /\ heap' = heap
    BY <1>2 DEF OA!oaes_set_option
  <2>2. /\ ctx[c] = [self |-> ctx[c].self, key |-> ctx[c].key, options |-> ctx[c].options,
                     iv |-> ctx[c].iv]
        /\ ctx[c].options \in Modes
    BY <1>2, Context DEF KeysInv, CtxInv
  <2>3. (ctx[c].options \ {"CBC"}) \cup {"ECB"} = {"ECB"}
        /\ (ctx[c].options \ {"ECB"}) \cup {"CBC"} = {"CBC"}
    BY <2>2 DEF Modes
  <2>4. PICK v : OA!Mode(ctx[c], o, iv) =
                   [self |-> ctx[c].self, key |-> ctx[c].key, options |-> {o}, iv |-> v]
    BY <2>1, <2>2, <2>3 DEF OA!Mode
  <2>5. {o} \in Modes
    BY <2>1 DEF Modes
  <2>. QED
    BY <1>2, <2>1, <2>4, <2>5, NewMode
<1>. QED
  BY <1>1, <1>2

(* Both imports, whichever allocation fails.                               *)
LEMMA Imported_KeysInv ==
  ASSUME KeysInv, NEW c \in Ctxs, ctx[c] # OA!NULL, NEW len \in KeyLens, NEW data,
         NEW fail \in OA!Outcomes,
         OA!SetKey(c, OA!Import(OA!State(heap, ctx[c].key), len, data, fail))
  PROVE  /\ KeysInv'
         /\ rc' = "SUCCESS" => /\ ctx'[c].key # OA!NoKey
                               /\ OA!Value(ctx'[c].key) = [data_len |-> len, data |-> data]
<1> DEFINE R == AllBlocks \ KeyBlocks(ctx[c].key)
           s == OA!State(heap, ctx[c].key)
           new == OA!Import(s, len, data, fail)
<1>1. Sound(s, R) /\ IsFiniteSet(R)
  BY StateSound
<1>2. Ended(new, R, len, data)
  <2>. HIDE DEF s, R
  <2>. QED
    BY <1>1, ImportSound
<1>3. KeysInv'
  <2>. HIDE DEF new
  <2>. QED
    BY <1>2, NewKeySet DEF new
<1>4. rc' = new.rc /\ ctx'[c].key = new.key
  <2>1. ctx' = [ctx EXCEPT ![c].key = new.key] /\ rc' = new.rc
    BY DEF OA!SetKey
  <2>2. ctx = [d \in Ctxs |-> ctx[d]] /\ ContextOk(ctx[c])
    BY DEF KeysInv, CtxInv
  <2>3. ctx[c] = [self |-> ctx[c].self, key |-> ctx[c].key, options |-> ctx[c].options,
                  iv |-> ctx[c].iv]
    BY <2>2, Context
  <2>. HIDE DEF new
  <2>4. ctx'[c] = [ctx[c] EXCEPT !.key = new.key]
    BY <2>1, <2>2
  <2>. QED
    BY <2>1, <2>3, <2>4
<1>. QED
  BY <1>2, <1>3, <1>4 DEF Ended, OA!Value

LEMMA KeyGen_KeysInv ==
  ASSUME KeysInv, NEW c \in Ctxs, OA!oaes_key_gen(c)
  PROVE  KeysInv'
<1>1. CASE UNCHANGED <<ctx, heap>>
  BY <1>1, SameContexts
<1>2. CASE ~UNCHANGED <<ctx, heap>>
  <2>1. PICK len \in KeyLens, fail \in OA!Outcomes :
          /\ ctx[c] # OA!NULL
          /\ OA!SetKey(c, OA!Generate(OA!State(heap, ctx[c].key), len, keys + 1, fail))
    BY <1>2 DEF OA!oaes_key_gen
  <2> DEFINE R == AllBlocks \ KeyBlocks(ctx[c].key)
             new == OA!Generate(OA!State(heap, ctx[c].key), len, keys + 1, fail)
  <2>2. Ended(new, R, len, keys + 1)
    <3>1. /\ Sound(OA!State(heap, ctx[c].key), R) /\ KeyOk(ctx[c].key)
          /\ IsFiniteSet(R) /\ IsFiniteSet(KeyBlocks(ctx[c].key))
      BY <2>1, StateSound
    <3>. HIDE DEF R
    <3>. QED
      BY <2>1, <3>1, GenerateSound
  <2>. HIDE DEF new
  <2>. QED
    BY <2>1, <2>2, NewKeySet DEF new
<1>. QED
  BY <1>1, <1>2

LEMMA KeyImportData_KeysInv ==
  ASSUME KeysInv, NEW c \in Ctxs, NEW len, NEW d, OA!oaes_key_import_data(c, len, d)
  PROVE  KeysInv'
<1>1. CASE UNCHANGED <<ctx, heap>>
  BY <1>1, SameContexts
<1>2. CASE ~UNCHANGED <<ctx, heap>>
  <2>1. PICK fail \in OA!Outcomes :
          /\ ctx[c] # OA!NULL /\ len \in KeyLens
          /\ OA!SetKey(c, OA!Import(OA!State(heap, ctx[c].key), len, d, fail))
    BY <1>2 DEF OA!oaes_key_import_data
  <2>. QED
    BY <2>1, Imported_KeysInv
<1>. QED
  BY <1>1, <1>2

LEMMA KeyImport_KeysInv ==
  ASSUME KeysInv, NEW c \in Ctxs, NEW n, OA!oaes_key_import(c, n)
  PROVE  KeysInv'
<1>1. CASE UNCHANGED <<ctx, heap>>
  BY <1>1, SameContexts
<1>2. CASE ~UNCHANGED <<ctx, heap>>
  <2>1. PICK fail \in OA!Outcomes :
          /\ ctx[c] # OA!NULL /\ wire[n].lenByte \in KeyLens
          /\ OA!SetKey(c, OA!Import(OA!State(heap, ctx[c].key), wire[n].lenByte,
                                    wire[n].body, fail))
    BY <1>2 DEF OA!oaes_key_import
  <2>. QED
    BY <2>1, Imported_KeysInv
<1>. QED
  BY <1>1, <1>2

(* Blocks that belong to nobody else are what pointers are to: the heap is *)
(* what the pointers of the contexts lead to, each to its own block.       *)
LEMMA KeysInvNoLeak ==
  ASSUME KeysInv
  PROVE  OA!NoLeak
<1> DEFINE P(c) == OA!Pointers(ctx[c])
<1>1. ASSUME NEW c \in Ctxs
      PROVE  /\ Len(P(c)) \in 0..4
             /\ \A p : p \in Blocks(ctx[c]) <=>
                  p # OA!NoBlock /\ \E i \in 1..4 : i <= Len(P(c)) /\ P(c)[i] = p
             /\ \A i, j \in 1..4 : i <= Len(P(c)) /\ j <= Len(P(c)) /\ P(c)[i] # OA!NoBlock
                                   /\ P(c)[i] = P(c)[j] => i = j
  <2> DEFINE x == ctx[c]
             k == x.key
  <2>1. ContextOk(x)
    BY DEF KeysInv, CtxInv
  <2>2. CASE x = OA!NULL
    <3>1. P(c) = <<>> /\ Blocks(x) = {}
      BY <2>2 DEF OA!Pointers, Blocks
    <3>. QED
      BY <3>1
  <2>3. CASE x # OA!NULL /\ k = OA!NoKey
    <3>1. P(c) = <<x.self>> /\ Blocks(x) = {x.self} /\ x.self # OA!NoBlock
      BY <2>1, <2>3, Context DEF OA!Pointers, KeyBlocks
    <3>. HIDE DEF x, P
    <3>. QED
      BY <3>1 DEF x
  <2>4. CASE x # OA!NULL /\ k # OA!NoKey
    <3>1. P(c) = <<x.self, k.self, k.buf, k.exp>>
      BY <2>4 DEF OA!Pointers
    <3>2. /\ Blocks(x) = {x.self, k.self, k.buf, k.exp}
          /\ x.self # OA!NoBlock /\ k.self # OA!NoBlock /\ k.buf # OA!NoBlock /\ k.exp # OA!NoBlock
          /\ x.self \notin {k.self, k.buf, k.exp} /\ k.self \notin {k.buf, k.exp} /\ k.buf # k.exp
      <4>1. KeyOk(k) /\ x.self # OA!NoBlock /\ x.self \notin KeyBlocks(k)
            /\ Blocks(x) = {x.self} \cup KeyBlocks(k)
        BY <2>1, <2>4, Context
      <4>2. /\ k.self # OA!NoBlock /\ k.self # k.buf /\ k.self # k.exp
            /\ (k.buf = k.exp => k.buf = OA!NoBlock)
            /\ k.buf # OA!NoBlock /\ k.exp # OA!NoBlock
        <5>1. PICK a, n, d, b, e :
                /\ k = [self |-> a, data_len |-> n, data |-> d, buf |-> b, exp |-> e]
                /\ a # OA!NoBlock /\ a # b /\ a # e /\ (b = e => b = OA!NoBlock)
          BY <2>4, <4>1 DEF KeyOk, PartOf
        <5>2. k.buf # OA!NoBlock /\ k.exp # OA!NoBlock
          BY <2>4, <4>1 DEF KeyOk
        <5>3. k.self = a /\ k.buf = b /\ k.exp = e
          BY <5>1
        <5>. QED
          BY <5>1, <5>2, <5>3
      <4>3. KeyBlocks(k) = {k.self, k.buf, k.exp}
        BY <2>4, <4>2 DEF KeyBlocks
      <4>. QED
        BY <4>1, <4>2, <4>3
    <3>3. \A a, b, d, e : Len(<<a, b, d, e>>) = 4 /\ <<a, b, d, e>>[1] = a /\ <<a, b, d, e>>[2] = b
                          /\ <<a, b, d, e>>[3] = d /\ <<a, b, d, e>>[4] = e
      OBVIOUS
    <3>4. /\ Len(P(c)) = 4 /\ P(c)[1] = x.self /\ P(c)[2] = k.self
          /\ P(c)[3] = k.buf /\ P(c)[4] = k.exp
      BY <3>1, <3>3
    <3>. HIDE DEF x, k, P
    <3>. QED
      BY <3>2, <3>4 DEF x
  <2>. QED
    BY <2>2, <2>3, <2>4
<1>2. \A h \in OA!Held : /\ h[1] \in Ctxs /\ h[2] \in 1..4 /\ h = <<h[1], h[2]>>
                         /\ h[2] <= Len(P(h[1])) /\ OA!Target(h) # OA!NoBlock
                         /\ OA!Target(h) = P(h[1])[h[2]]
  BY DEF OA!Held, OA!Target
<1>3. \A c \in Ctxs, i \in 1..4 :
        i <= Len(P(c)) /\ P(c)[i] # OA!NoBlock =>
          <<c, i>> \in OA!Held /\ OA!Target(<<c, i>>) = P(c)[i]
  BY DEF OA!Held, OA!Target
<1>. HIDE DEF P
<1>4. \A h \in OA!Held : OA!Target(h) \in Blocks(ctx[h[1]])
  BY <1>1, <1>2
<1>5. AllBlocks = {OA!Target(h) : h \in OA!Held}
  <2>1. ASSUME NEW p \in AllBlocks PROVE \E h \in OA!Held : OA!Target(h) = p
    <3>1. PICK c \in Ctxs : p \in Blocks(ctx[c])
      BY <2>1 DEF AllBlocks
    <3>2. PICK i \in 1..4 : i <= Len(P(c)) /\ P(c)[i] = p /\ p # OA!NoBlock
      BY <1>1, <3>1
    <3>. QED
      BY <1>3, <3>2
  <2>2. ASSUME NEW h \in OA!Held PROVE OA!Target(h) \in AllBlocks
    BY <1>2, <1>4 DEF AllBlocks
  <2>. QED
    BY <2>1, <2>2
<1>6. ASSUME NEW g \in OA!Held, NEW h \in OA!Held, OA!Target(g) = OA!Target(h)
      PROVE  g = h
  <2>1. g[1] = h[1]
    BY <1>2, <1>4, <1>6 DEF KeysInv, HeapInv
  <2>2. g[2] = h[2]
    BY <1>1, <1>2, <1>6, <2>1
  <2>. QED
    BY <1>2, <2>1, <2>2
<1>7. heap.ok /\ heap.live = AllBlocks
  BY DEF KeysInv, HeapInv, HeapOf
<1>. QED
  BY <1>5, <1>6, <1>7 DEF OA!NoLeak
-----------------------------------------------------------------------------
(* What has been written: exported keys, and messages whose blocks have    *)
(* been encrypted one by one, with the iv of the message or the block      *)
(* before.                                                                 *)
IsSeq(s) == Len(s) \in Nat /\ s = [i \in 1..Len(s) |-> s[i]]

Header(o, p, v, b, k, m) ==
  [type |-> 2, lenByte |-> 0, options |-> o, pad |-> p,
   len |-> 2 * BLOCK + Len(m) + OA!PadLen(m), body |-> b, iv |-> v, origin |-> k, plain |-> m]

Before(w, j) == IF j = 1 THEN w.iv ELSE w.body[j - 1]

CipherBlock(w, j) ==
  OA!oaes_encrypt_block(w.origin.data,
    IF "CBC" \in w.options THEN OA!XorBlock(OA!Block(w.plain, j), Before(w, j))
    ELSE OA!Block(w.plain, j))

KeyFile(w) == \E k : \E t \in {0, 1} : KeyOk(k) /\ k # OA!NoKey /\ w = OA!Exported(k, t)

IsHeader(w) == /\ w = Header(w.options, w.pad, w.iv, w.body, w.origin, w.plain)
               /\ w.pad <=> OA!PadLen(w.plain) # 0
               /\ w.options \in Modes /\ w.plain \in Texts

Message(w) ==
  /\ IsHeader(w)
  /\ IsSeq(w.body) /\ Len(w.body) * BLOCK <= w.len - 2 * BLOCK
  /\ \A j \in 1..Len(w.body) : w.body[j] = CipherBlock(w, j)

Complete(w) == Len(w.body) * BLOCK = w.len - 2 * BLOCK

WireInv ==
  /\ IsSeq(wire)
  /\ \A n \in 1..Len(wire) :
        \/ KeyFile(wire[n])
        \/ Message(wire[n]) /\ (Complete(wire[n]) \/ (n = Len(wire) /\ busy # {}))

(* oaes_encrypt goes on with the key, the mode and the iv it needs.        *)
BusyInv ==
  /\ \A c, d \in busy : c = d
  /\ \A c \in busy :
       /\ c \in Ctxs /\ ctx[c] # OA!NULL /\ Len(wire) > 0 /\ Message(wire[Len(wire)])
       /\ LET w == wire[Len(wire)]
          IN  /\ OA!Value(ctx[c].key) = w.origin /\ ctx[c].options = w.options
              /\ "CBC" \in w.options => ctx[c].iv = Before(w, Len(w.body) + 1)

GotInv ==
  got # OA!Nothing =>
    /\ got.of \in 1..Len(wire) /\ (got.of = Len(wire) => busy = {})
    /\ got.result = IF wire[got.of].type = 1 THEN <<wire[got.of].origin>>
                    ELSE wire[got.of].plain

AesInv == KeysInv /\ WireInv /\ BusyInv /\ GotInv

(* Sequences.                                                              *)
LEMMA AppendSeq ==
  ASSUME NEW s, IsSeq(s), NEW e
  PROVE  /\ IsSeq(Append(s, e)) /\ Len(Append(s, e)) = Len(s) + 1
         /\ \A i \in 1..Len(s) : Append(s, e)[i] = s[i]
         /\ Append(s, e)[Len(s) + 1] = e
<1> DEFINE S == {s[i] : i \in 1..Len(s)} \cup {e}
<1>1. s \in Seq(S) /\ e \in S
  <2>1. s \in [1..Len(s) -> S] /\ Len(s) \in Nat
    BY DEF IsSeq
  <2>. QED
    BY <2>1
<1>. HIDE DEF S
<1>2. /\ Append(s, e) \in Seq(S) /\ Len(Append(s, e)) = Len(s) + 1
      /\ \A i \in 1..Len(s) : Append(s, e)[i] = s[i]
      /\ Append(s, e)[Len(s) + 1] = e
  BY <1>1, AppendProperties
<1>3. Len(Append(s, e)) \in Nat /\ Append(s, e) \in [1..Len(Append(s, e)) -> S]
  BY <1>2, LenProperties
<1>. QED
  BY <1>2, <1>3 DEF IsSeq

With(s, n, e) == [s EXCEPT ![n] = e]

LEMMA ReplacedAt ==
  ASSUME NEW s, IsSeq(s), NEW n \in 1..Len(s), NEW e
  PROVE  /\ IsSeq(With(s, n, e)) /\ Len(With(s, n, e)) = Len(s)
         /\ With(s, n, e)[n] = e
         /\ \A i \in 1..Len(s) : i # n => With(s, n, e)[i] = s[i]
<1> DEFINE S == {s[i] : i \in 1..Len(s)} \cup {e}
           t == With(s, n, e)
<1>1. s \in [1..Len(s) -> S] /\ Len(s) \in Nat
  BY DEF IsSeq
<1>2. t \in [1..Len(s) -> S]
  BY <1>1 DEF With
<1>3. t[n] = e /\ \A i \in 1..Len(s) : i # n => t[i] = s[i]
  BY <1>1 DEF With
<1>. HIDE DEF t
<1>4. Len(t) = Len(s)
  BY <1>1, <1>2
<1>5. t = [i \in 1..Len(t) |-> t[i]] /\ Len(t) \in Nat
  BY <1>1, <1>2, <1>4
<1>. QED
  BY <1>3, <1>4, <1>5 DEF IsSeq, t

(* Decryption of a block.                                                  *)
LEMMA XorCancels ==
  ASSUME NEW x, NEW y
  PROVE  OA!Xor(OA!Xor(x, y), y) = x
BY DEF OA!Xor

LEMMA BlockUndone ==
  ASSUME BLOCK \in Nat \ {0, 1}, NEW k, NEW b
  PROVE  OA!oaes_decrypt_block(k, OA!oaes_encrypt_block(k, b)) = b
<1> DEFINE e == OA!oaes_encrypt_block(k, b)
           a == CHOOSE s \in e[1] : TRUE
<1>1. e[1] = {<<"E", k, b, 1>>}
  <2>1. 1 \in 1..BLOCK
    OBVIOUS
  <2>. QED
    BY <2>1 DEF OA!oaes_encrypt_block, OA!Byte
<1>2. a = <<"E", k, b, 1>>
  BY <1>1
<1>3. a[1] = "E" /\ a[3] = b /\ e[1] # OA!Zero
  BY <1>1, <1>2 DEF OA!Zero
<1>4. e = OA!oaes_encrypt_block(k, a[3])
  BY <1>3
<1>. QED
  <2>. HIDE DEF e
  <2>1. OA!oaes_decrypt_block(k, e) =
          IF e[1] # OA!Zero /\ a[1] = "E" /\ e = OA!oaes_encrypt_block(k, a[3]) THEN a[3]
          ELSE [i \in 1..BLOCK |-> OA!Byte("D", k, e, i)]
    BY Zenon DEF OA!oaes_decrypt_block
  <2>2. OA!oaes_decrypt_block(k, e) = a[3]
    BY <1>3, <1>4, <2>1, Zenon
  <2>. QED
    BY <1>3, <2>2 DEF e
(* The pad fills up the last block.                                        *)
LEMMA PadFills ==
  ASSUME BLOCK \in Nat \ {0, 1}, NEW m, Len(m) \in Nat
  PROVE  /\ OA!PadLen(m) \in 0 .. BLOCK - 1
         /\ \E q \in Nat : Len(m) + OA!PadLen(m) = q * BLOCK
<1> DEFINE q == Len(m) \div BLOCK
           r == Len(m) % BLOCK
<1>1. q \in Nat /\ r \in 0 .. BLOCK - 1 /\ Len(m) = q * BLOCK + r
  BY SMT
<1>. HIDE DEF q
<1>2. (q + 1) * BLOCK = q * BLOCK + BLOCK /\ q * BLOCK \in Nat
  BY <1>1
<1>3. CASE r = 0
  <2>1. OA!PadLen(m) = 0
    BY <1>3 DEF OA!PadLen
  <2>2. Len(m) + OA!PadLen(m) = q * BLOCK
    <3>. HIDE DEF r
    <3>. QED
      BY <1>1, <1>2, <1>3, <2>1
  <2>3. OA!PadLen(m) \in 0 .. BLOCK - 1
    BY <2>1
  <2>. QED
    BY <1>1, <2>2, <2>3, Zenon
<1>4. CASE r # 0
  <2>1. OA!PadLen(m) = BLOCK - r
    BY <1>4 DEF OA!PadLen
  <2>. HIDE DEF r
  <2>2. Len(m) + OA!PadLen(m) = (q + 1) * BLOCK
    BY <1>1, <1>2, <2>1
  <2>3. q + 1 \in Nat /\ OA!PadLen(m) \in 0 .. BLOCK - 1
    BY <1>1, <1>4, <2>1
  <2>. QED
    BY <2>2, <2>3
<1>. QED
  BY <1>3, <1>4

LEMMA Multiples ==
  ASSUME NEW q \in Nat, NEW b \in Nat \ {0}
  PROVE  /\ q * b \in Nat /\ (q + 2) * b = q * b + 2 * b /\ (q + 1) * b = q * b + b
         /\ (q * b) % b = 0
BY SMT

LEMMA Monotone ==
  ASSUME NEW a \in Nat, NEW b \in Nat, NEW k \in Nat, a <= b
  PROVE  a * k <= b * k
BY SMT

(* Where the byte i of a message lies in its blocks.                       *)
LEMMA ByteInBlock ==
  ASSUME BLOCK \in Nat \ {0, 1}, NEW L \in Nat, NEW i \in 1 .. L * BLOCK
  PROVE  /\ ((i - 1) \div BLOCK) + 1 \in 1..L
         /\ ((i - 1) % BLOCK) + 1 \in 1..BLOCK
         /\ ((((i - 1) \div BLOCK) + 1) - 1) * BLOCK + (((i - 1) % BLOCK) + 1) = i
<1> DEFINE q == (i - 1) \div BLOCK
           r == (i - 1) % BLOCK
<1>1. i \in Nat /\ L * BLOCK \in Nat /\ 1 <= i /\ i <= L * BLOCK
  OBVIOUS
<1>2. q \in Nat /\ r \in 0 .. BLOCK - 1 /\ i - 1 = q * BLOCK + r
  BY <1>1, SMT
<1>. HIDE DEF q, r
<1>3. q + 1 <= L
  <2>1. SUFFICES ASSUME L <= q PROVE FALSE
    BY <1>2
  <2>2. L * BLOCK <= q * BLOCK
    BY <1>2, <2>1
  <2>3. q * BLOCK \in Nat
    BY <1>2
  <2>. QED
    BY <1>1, <1>2, <2>2, <2>3
<1>4. (q + 1) - 1 = q /\ q * BLOCK \in Nat
  BY <1>2
<1>5. ((q + 1) - 1) * BLOCK + (r + 1) = i
  BY <1>1, <1>2, <1>4
<1>6. q + 1 \in 1..L /\ r + 1 \in 1..BLOCK
  BY <1>2, <1>3
<1>. QED
  BY <1>5, <1>6 DEF q, r

LEMMA MessageFields ==
  ASSUME OA!OpenAesAssumption, NEW w, IsHeader(w)
  PROVE  /\ w.type = 2 /\ (w.pad <=> OA!PadLen(w.plain) # 0)
         /\ w.len = 2 * BLOCK + Len(w.plain) + OA!PadLen(w.plain)
         /\ Len(w.plain) \in Nat /\ w.plain = [i \in 1..Len(w.plain) |-> w.plain[i]]
         /\ BLOCK \in Nat \ {0, 1}
<1>1. /\ Header(w.options, w.pad, w.iv, w.body, w.origin, w.plain).type = 2
      /\ Header(w.options, w.pad, w.iv, w.body, w.origin, w.plain).len
           = 2 * BLOCK + Len(w.plain) + OA!PadLen(w.plain)
  BY DEF Header
<1>. QED
  BY <1>1 DEF IsHeader, OA!OpenAesAssumption

LEMMA BlockByte ==
  ASSUME NEW m, NEW j, NEW r \in 1..BLOCK, NEW i, (j - 1) * BLOCK + r = i
  PROVE  OA!Block(m, j)[r] = IF i <= Len(m) THEN m[i] ELSE OA!Number(i - Len(m))
BY Zenon DEF OA!Block

LEMMA NumberInjective ==
  ASSUME NEW a, NEW b, OA!Number(a) = OA!Number(b)
  PROVE  a = b
<1>1. <<"num", a, 0, 0>> \in {<<"num", b, 0, 0>>}
  BY DEF OA!Number, OA!Byte
<1>2. <<"num", a, 0, 0>>[2] = <<"num", b, 0, 0>>[2]
  BY <1>1
<1>. QED
  BY <1>2

(* Of a complete message oaes_decrypt makes the plaintext, pad included.   *)
LEMMA PlainWithPad ==
  ASSUME OA!OpenAesAssumption, NEW w, Message(w), Complete(w)
  PROVE  OA!Decrypted(w, w.origin.data) =
           [i \in 1..(w.len - 2 * BLOCK) |->
              IF i <= Len(w.plain) THEN w.plain[i] ELSE OA!Number(i - Len(w.plain))]
<1> DEFINE k == w.origin.data
           L == Len(w.body)
<1>1. BLOCK \in Nat \ {0, 1} /\ L \in Nat /\ L * BLOCK = w.len - 2 * BLOCK
  BY MessageFields DEF Message, IsSeq, Complete
<1>2. ASSUME NEW j \in 1..L
      PROVE  OA!DecryptBlock(w, k, j) = OA!Block(w.plain, j)
  <2> DEFINE blk == OA!Block(w.plain, j)
             iv == Before(w, j)
  <2>1. w.body[j] = CipherBlock(w, j)
    BY <1>2 DEF Message
  <2>2. CASE "CBC" \in w.options
    <3>1. w.body[j] = OA!oaes_encrypt_block(k, OA!XorBlock(blk, iv))
      BY <2>1, <2>2 DEF CipherBlock
    <3>2. OA!DecryptBlock(w, k, j) = OA!XorBlock(OA!oaes_decrypt_block(k, w.body[j]), iv)
      BY <2>2 DEF OA!DecryptBlock, Before
    <3>3. OA!DecryptBlock(w, k, j) = OA!XorBlock(OA!XorBlock(blk, iv), iv)
      <4>. HIDE DEF blk, iv
      <4>. QED
        BY <1>1, <3>1, <3>2, BlockUndone
    <3>4. OA!XorBlock(OA!XorBlock(blk, iv), iv) = [i \in 1..BLOCK |-> blk[i]]
      <4>. HIDE DEF blk, iv
      <4>. QED
        BY XorCancels DEF OA!XorBlock
    <3>5. blk = [i \in 1..BLOCK |-> blk[i]]
      BY DEF OA!Block
    <3>. QED
      BY <3>3, <3>4, <3>5
  <2>3. CASE "CBC" \notin w.options
    <3>1. w.body[j] = OA!oaes_encrypt_block(k, blk)
      BY <2>1, <2>3 DEF CipherBlock
    <3>2. OA!DecryptBlock(w, k, j) = OA!oaes_decrypt_block(k, w.body[j])
      BY <2>3 DEF OA!DecryptBlock
    <3>. QED
      BY <1>1, <3>1, <3>2, BlockUndone
  <2>. QED
    BY <2>2, <2>3
<1>3. ASSUME NEW i \in 1 .. L * BLOCK
      PROVE  OA!DecryptBlock(w, k, ((i - 1) \div BLOCK) + 1)[((i - 1) % BLOCK) + 1] =
               IF i <= Len(w.plain) THEN w.plain[i] ELSE OA!Number(i - Len(w.plain))
  <2> DEFINE j == ((i - 1) \div BLOCK) + 1
             r == ((i - 1) % BLOCK) + 1
  <2>1. j \in 1..L /\ r \in 1..BLOCK /\ (j - 1) * BLOCK + r = i
    BY <1>1, ByteInBlock
  <2>. HIDE DEF j, r
  <2>2. OA!DecryptBlock(w, k, j) = OA!Block(w.plain, j)
    BY <1>2, <2>1
  <2>4. OA!DecryptBlock(w, k, j)[r] =
          IF i <= Len(w.plain) THEN w.plain[i] ELSE OA!Number(i - Len(w.plain))
    BY <2>1, <2>2, BlockByte
  <2>. QED
    BY <2>4 DEF j, r
<1>. QED
  BY <1>1, <1>3 DEF OA!Decrypted

(* The pad is recognised and taken off.                                    *)
LEMMA Opens ==
  ASSUME OA!OpenAesAssumption, NEW w, Message(w), Complete(w)
  PROVE  w.len % BLOCK = 0 /\ OA!Opened(w, w.origin.data) = w.plain
<1> DEFINE m == w.plain
           N == w.len - 2 * BLOCK
           p == OA!PadLen(m)
           d == OA!Decrypted(w, w.origin.data)
<1>1. w.len = 2 * BLOCK + Len(m) + p /\ Len(m) \in Nat /\ BLOCK \in Nat \ {0, 1}
  BY MessageFields DEF Message
<1>10. w.type = 2 /\ (w.pad <=> p # 0)
  BY MessageFields DEF Message
<1>11. m = [i \in 1..Len(m) |-> m[i]]
  BY MessageFields DEF Message
<1>2. p \in 0 .. BLOCK - 1
  BY <1>1, PadFills
<1>3. w.options \in {{"ECB"}, {"CBC"}}
  BY DEF Message, IsHeader, Modes
<1>4. N = Len(m) + p /\ N \in Nat
  <2>. HIDE DEF p, m
  <2>. QED
    BY <1>1, <1>2
<1>5. d = [i \in 1..N |-> IF i <= Len(m) THEN m[i] ELSE OA!Number(i - Len(m))]
  BY PlainWithPad
<1>12. BLOCK \in Nat \ {0, 1}
  BY <1>1
<1>6. w.len % BLOCK = 0
  <2> DEFINE L == Len(w.body)
  <2>1. L \in Nat /\ L * BLOCK = w.len - 2 * BLOCK
    BY DEF Message, IsSeq, Complete
  <2>2. w.len \in Int
    <3>. HIDE DEF p, m
    <3>. QED
      BY <1>1, <1>2
  <2>. HIDE DEF L
  <2>3. w.len = (L + 2) * BLOCK /\ L + 2 \in Nat
    <3>1. (L + 2) * BLOCK = L * BLOCK + 2 * BLOCK
      BY <1>12, <2>1, Multiples
    <3>2. 2 * BLOCK \in Nat
      BY <1>12
    <3>. QED
      BY <2>1, <2>2, <3>1, <3>2
  <2>. QED
    BY <1>12, <2>3, Multiples
<1>. HIDE DEF d, N, p, m
<1>7. d \in Seq({d[i] : i \in 1..N}) /\ Len(d) = N
  <2>1. d \in [1..N -> {d[i] : i \in 1..N}]
    BY <1>5
  <2>. QED
    BY <1>4, <2>1
<1>8. CASE p = 0
  <2>1. d = m
    BY <1>1, <1>4, <1>5, <1>8, <1>11
  <2>2. OA!Opened(w, w.origin.data) = d
    BY <1>3, <1>8, <1>10 DEF OA!Opened, d
  <2>. QED
    BY <1>6, <2>1, <2>2 DEF m
<1>9. CASE p # 0
  <2>1. OA!PadOf(d) = {p}
    <3>1. ASSUME NEW t \in 1..(BLOCK - 1)
          PROVE  d[Len(d)] = OA!Number(t) <=> t = p
      <4>1. d[N] = OA!Number(N - Len(m)) /\ N - Len(m) = p
        BY <1>1, <1>2, <1>4, <1>5, <1>9
      <4>2. OA!Number(p) = OA!Number(t) <=> t = p
        BY NumberInjective
      <4>. QED
        BY <1>7, <4>1, <4>2
    <3>2. ASSUME NEW j \in 1..p
          PROVE  d[Len(d) - p + j] = OA!Number(j)
      <4>1. Len(d) - p + j = Len(m) + j /\ Len(m) + j \in 1..N /\ ~(Len(m) + j <= Len(m))
            /\ Len(m) + j - Len(m) = j
        BY <1>1, <1>2, <1>4, <1>7
      <4>2. \A i \in 1..N : ~(i <= Len(m)) => d[i] = OA!Number(i - Len(m))
        BY <1>5, Zenon
      <4>. QED
        BY <4>1, <4>2
    <3>3. p \in 1..(BLOCK - 1) /\ p <= Len(d)
      BY <1>1, <1>2, <1>4, <1>7, <1>9
    <3>4. p \in OA!PadOf(d)
      BY <3>1, <3>2, <3>3 DEF OA!PadOf
    <3>5. \A t \in OA!PadOf(d) : t = p
      <4>1. SUFFICES ASSUME NEW t \in OA!PadOf(d) PROVE t = p
        OBVIOUS
      <4>2. 1 \in 1..t /\ t \in 1..(BLOCK - 1)
        BY <1>1, <4>1 DEF OA!PadOf
      <4>3. d[Len(d)] = OA!Number(t)
        BY <4>1, <4>2 DEF OA!PadOf
      <4>. QED
        BY <3>1, <4>2, <4>3
    <3>. QED
      BY <3>4, <3>5
  <2>2. (CHOOSE t \in OA!PadOf(d) : TRUE) = p
    BY <2>1
  <2>3. OA!Opened(w, w.origin.data) = SubSeq(d, 1, Len(d) - p)
    BY <1>3, <1>9, <1>10, <2>1, <2>2 DEF OA!Opened, d
  <2>4. Len(d) - p = Len(m)
    BY <1>1, <1>2, <1>4, <1>7
  <2>5. \A i \in 1..Len(m) : d[i] = m[i]
    BY <1>1, <1>2, <1>4, <1>5
  <2>6. SubSeq(d, 1, Len(m)) = [i \in 1..Len(m) |-> d[i]]
    BY <1>1, <1>2, <1>4, <1>7
  <2>7. SubSeq(d, 1, Len(m)) = m
    BY <1>11, <2>5, <2>6
  <2>. QED
    BY <1>6, <2>3, <2>4, <2>7 DEF m
<1>. QED
  BY <1>8, <1>9
-----------------------------------------------------------------------------
(* A step that writes nothing.                                             *)
LEMMA SameWire ==
  ASSUME WireInv, GotInv, UNCHANGED <<wire, got, busy>>
  PROVE  WireInv' /\ GotInv'
BY DEF WireInv, GotInv

(* Something is added to what has been written.                            *)
LEMMA WireGrows ==
  ASSUME WireInv, GotInv, busy = {}, NEW e, wire' = Append(wire, e), got' = got,
         (KeyFile(e) /\ busy' = busy) \/ (Message(e) /\ busy' # {})
  PROVE  WireInv' /\ GotInv'
<1>1. /\ IsSeq(wire') /\ Len(wire') = Len(wire) + 1 /\ Len(wire) \in Nat
      /\ \A i \in 1..Len(wire) : wire'[i] = wire[i]
      /\ wire'[Len(wire) + 1] = e
  BY AppendSeq DEF WireInv, IsSeq
<1>2. \A n \in 1..Len(wire') : n \in 1..Len(wire) \/ n = Len(wire')
  BY <1>1
<1>3. ASSUME NEW n \in 1..Len(wire')
      PROVE  \/ KeyFile(wire'[n])
             \/ Message(wire'[n]) /\ (Complete(wire'[n]) \/ (n = Len(wire') /\ busy' # {}))
  <2>1. CASE n \in 1..Len(wire)
    BY <1>1, <2>1 DEF WireInv
  <2>2. CASE n = Len(wire')
    BY <1>1, <2>2
  <2>. QED
    BY <1>2, <2>1, <2>2
<1>4. WireInv'
  BY <1>1, <1>3 DEF WireInv
<1>5. GotInv'
  <2> SUFFICES ASSUME got # OA!Nothing
               PROVE  /\ got.of \in 1..Len(wire') /\ got.of # Len(wire')
                      /\ got.result = IF wire'[got.of].type = 1 THEN <<wire'[got.of].origin>>
                                      ELSE wire'[got.of].plain
    BY DEF GotInv
  <2>1. got.of \in 1..Len(wire) /\ wire'[got.of] = wire[got.of]
    BY <1>1 DEF GotInv
  <2>. QED
    BY <1>1, <2>1 DEF GotInv
<1>. QED
  BY <1>4, <1>5

LEMMA Export_AesInv ==
  ASSUME OA!OpenAesAssumption, AesInv, busy = {}, NEW c \in Ctxs, NEW type \in {0, 1}, NEW buf,
         OA!oaes_key_export(c, type, buf)
  PROVE  AesInv'
<1>1. KeysInv' /\ BusyInv'
  BY SameContexts DEF AesInv, BusyInv, OA!oaes_key_export
<1>2. CASE UNCHANGED wire
  BY <1>1, <1>2, SameWire DEF AesInv, OA!oaes_key_export
<1>3. CASE ~UNCHANGED wire
  <2>1. /\ ctx[c] # OA!NULL /\ ctx[c].key # OA!NoKey
        /\ wire' = Append(wire, OA!Exported(ctx[c].key, type))
        /\ got' = got /\ busy' = busy
    BY <1>3 DEF OA!oaes_key_export
  <2>2. KeyOk(ctx[c].key)
    BY <2>1, Context DEF AesInv, KeysInv, CtxInv
  <2>3. KeyFile(OA!Exported(ctx[c].key, type))
    BY <2>1, <2>2 DEF KeyFile
  <2>. QED
    BY <1>1, <2>1, <2>3, WireGrows DEF AesInv
<1>. QED
  BY <1>2, <1>3

(* What oaes_key_import accepts is an exported key.                        *)
LEMMA ImportedKey ==
  ASSUME OA!OpenAesAssumption, NEW w, KeyFile(w) \/ Message(w), w.type = 1
  PROVE  w.origin = [data_len |-> w.lenByte, data |-> w.body]
<1>1. ~Message(w)
  <2>1. Message(w) => IsHeader(w)
    BY DEF Message
  <2>2. IsHeader(w) => w.type = 2
    BY MessageFields
  <2>. QED
    BY <2>1, <2>2
<1>2. PICK k : \E t \in {0, 1} : KeyOk(k) /\ k # OA!NoKey /\ w = OA!Exported(k, t)
  BY <1>1 DEF KeyFile
<1>. QED
  BY <1>2 DEF OA!Exported, OA!Value

LEMMA Import_AesInv ==
  ASSUME OA!OpenAesAssumption, AesInv, busy = {}, NEW c \in Ctxs, NEW n \in 1..Len(wire),
         OA!oaes_key_import(c, n)
  PROVE  AesInv'
<1>1. KeysInv'
  BY KeyImport_KeysInv DEF AesInv
<1>2. UNCHANGED <<wire, busy>>
  BY DEF OA!oaes_key_import
<1>3. WireInv' /\ BusyInv'
  BY <1>2 DEF AesInv, WireInv, BusyInv
<1>4. CASE got' = got
  BY <1>1, <1>2, <1>3, <1>4 DEF AesInv, GotInv
<1>5. CASE got' # got
  <2> DEFINE w == wire[n]
  <2>1. PICK fail \in OA!Outcomes :
          /\ ctx[c] # OA!NULL /\ w.type = 1 /\ w.lenByte \in KeyLens
          /\ OA!SetKey(c, OA!Import(OA!State(heap, ctx[c].key), w.lenByte, w.body, fail))
          /\ rc' = "SUCCESS" /\ got' = [of |-> n, result |-> <<OA!Value(ctx'[c].key)>>]
    BY <1>5 DEF OA!oaes_key_import
  <2>2. OA!Value(ctx'[c].key) = [data_len |-> w.lenByte, data |-> w.body]
    BY <2>1, Imported_KeysInv DEF AesInv
  <2>3. KeyFile(w) \/ Message(w)
    BY DEF AesInv, WireInv
  <2>4. OA!Value(ctx'[c].key) = w.origin
    BY <2>1, <2>2, <2>3, ImportedKey
  <2>5. GotInv'
    BY <1>2, <2>1, <2>4 DEF GotInv
  <2>. QED
    BY <1>1, <1>3, <2>5 DEF AesInv
<1>. QED
  BY <1>4, <1>5

LEMMA Encrypt_AesInv ==
  ASSUME OA!OpenAesAssumption, AesInv, busy = {}, NEW c \in Ctxs, NEW m \in Texts, NEW buf,
         OA!oaes_encrypt(c, m, buf)
  PROVE  AesInv'
<1>1. UNCHANGED <<ctx, heap, got>>
  BY DEF OA!oaes_encrypt
<1>2. KeysInv'
  BY <1>1, SameContexts DEF AesInv
<1>3. CASE UNCHANGED <<wire, busy>>
  BY <1>1, <1>2, <1>3, SameWire DEF AesInv, BusyInv
<1>4. CASE ~UNCHANGED <<wire, busy>>
  <2> DEFINE x == ctx[c]
             w == Header(x.options, OA!PadLen(m) # 0, x.iv, <<>>, OA!Value(x.key), m)
  <2>1. x # OA!NULL /\ x.key # OA!NoKey /\ wire' = Append(wire, w) /\ busy' = {c}
    BY <1>4 DEF OA!oaes_encrypt, Header
  <2>2. x.options \in Modes
    BY <2>1, Context DEF AesInv, KeysInv, CtxInv
  <2>3. /\ w.options = x.options /\ w.iv = x.iv /\ w.body = <<>>
        /\ w.origin = OA!Value(x.key) /\ w.plain = m
        /\ w.len = 2 * BLOCK + Len(m) + OA!PadLen(m) /\ (w.pad <=> OA!PadLen(m) # 0)
        /\ w = Header(w.options, w.pad, w.iv, w.body, w.origin, w.plain)
    BY DEF Header
  <2>4. IsHeader(w)
    BY <2>2, <2>3 DEF IsHeader
  <2>. HIDE DEF w
  <2>5. Len(w.body) = 0 /\ IsSeq(w.body)
    BY <2>3 DEF IsSeq
  <2>6. 0 * BLOCK <= w.len - 2 * BLOCK
    <3>1. BLOCK \in Nat \ {0, 1} /\ Len(m) \in Nat
      BY DEF OA!OpenAesAssumption
    <3>2. OA!PadLen(m) \in Nat
      BY <3>1, PadFills
    <3>. QED
      BY <2>3, <3>1, <3>2
  <2>7. Message(w)
    BY <2>4, <2>5, <2>6 DEF Message
  <2>8. WireInv' /\ GotInv'
    BY <1>1, <2>1, <2>7, WireGrows DEF AesInv
  <2>9. Len(wire') \in Nat /\ Len(wire') > 0 /\ wire'[Len(wire')] = w
    BY <2>1, AppendSeq DEF AesInv, WireInv, IsSeq
  <2>10. BusyInv'
    BY <1>1, <2>1, <2>3, <2>5, <2>7, <2>9 DEF BusyInv, Before
  <2>. QED
    BY <1>2, <2>8, <2>10 DEF AesInv
<1>. QED
  BY <1>3, <1>4
LEMMA HeaderSet ==
  ASSUME NEW o, NEW p, NEW v, NEW b, NEW k, NEW m, NEW e
  PROVE  [Header(o, p, v, b, k, m) EXCEPT !.body = e] = Header(o, p, v, e, k, m)
BY DEF Header

LEMMA HeaderBody ==
  ASSUME NEW w, NEW e, w = Header(w.options, w.pad, w.iv, w.body, w.origin, w.plain)
  PROVE  [w EXCEPT !.body = e] = Header(w.options, w.pad, w.iv, e, w.origin, w.plain)
<1> DEFINE H == Header(w.options, w.pad, w.iv, w.body, w.origin, w.plain)
<1>1. [H EXCEPT !.body = e] = Header(w.options, w.pad, w.iv, e, w.origin, w.plain)
  BY HeaderSet
<1>. HIDE DEF H
<1>2. w = H
  BY DEF H
<1>. QED
  BY <1>1, <1>2, Zenon

(* A message with one more block.                                          *)
LEMMA MessageGrows ==
  ASSUME OA!OpenAesAssumption, NEW w, Message(w), NEW sent, NEW v,
         v = [w EXCEPT !.body = Append(w.body, sent)],
         sent = CipherBlock(w, Len(w.body) + 1),
         ~(Len(w.body) * BLOCK >= w.len - 2 * BLOCK)
  PROVE  /\ Message(v) /\ v.origin = w.origin /\ v.options = w.options
         /\ Before(v, Len(v.body) + 1) = sent
<1> DEFINE L == Len(w.body)
           N == w.len - 2 * BLOCK
<1>1. w = Header(w.options, w.pad, w.iv, w.body, w.origin, w.plain)
  BY DEF Message, IsHeader
<1>2. v = Header(w.options, w.pad, w.iv, Append(w.body, sent), w.origin, w.plain)
  <2>1. [w EXCEPT !.body = Append(w.body, sent)]
          = Header(w.options, w.pad, w.iv, Append(w.body, sent), w.origin, w.plain)
    BY <1>1, HeaderBody, Zenon
  <2>. QED
    BY <2>1, Zenon
<1>3. /\ v.options = w.options /\ v.pad = w.pad /\ v.iv = w.iv /\ v.body = Append(w.body, sent)
      /\ v.origin = w.origin /\ v.plain = w.plain /\ v.len = w.len
  <2>1. w.len = 2 * BLOCK + Len(w.plain) + OA!PadLen(w.plain)
    BY MessageFields DEF Message
  <2>. QED
    BY <1>2, <2>1 DEF Header
<1>4. IsHeader(v)
  BY <1>2, <1>3 DEF IsHeader, Message
<1>5. /\ IsSeq(v.body) /\ L \in Nat /\ Len(v.body) = L + 1
      /\ \A j \in 1..L : v.body[j] = w.body[j]
      /\ v.body[L + 1] = sent
  BY <1>3, AppendSeq DEF Message, IsSeq
<1>6. (L + 1) * BLOCK <= N
  <2>1. /\ BLOCK \in Nat \ {0, 1} /\ Len(w.plain) \in Nat
        /\ w.len = 2 * BLOCK + Len(w.plain) + OA!PadLen(w.plain)
    BY MessageFields DEF Message
  <2>2. PICK q \in Nat : Len(w.plain) + OA!PadLen(w.plain) = q * BLOCK
    BY <2>1, PadFills
  <2>3. OA!PadLen(w.plain) \in Nat
    BY <2>1, PadFills
  <2>4. N = q * BLOCK
    BY <2>1, <2>2, <2>3
  <2>5. L * BLOCK < q * BLOCK
    <3>1. L * BLOCK \in Nat /\ q * BLOCK \in Nat
      BY <1>5, <2>1, <2>2, Multiples
    <3>2. ~(L * BLOCK >= q * BLOCK)
      BY <2>4
    <3>. QED
      BY <3>1, <3>2
  <2>. HIDE DEF L, N
  <2>6. L + 1 <= q
    <3>1. SUFFICES ASSUME q <= L PROVE FALSE
      BY <1>5, <2>2
    <3>2. q * BLOCK <= L * BLOCK
      BY <1>5, <2>1, <2>2, <3>1, Monotone
    <3>3. L * BLOCK \in Nat /\ q * BLOCK \in Nat
      BY <1>5, <2>1, <2>2, Multiples
    <3>. QED
      BY <2>5, <3>2, <3>3
  <2>7. (L + 1) * BLOCK <= q * BLOCK
    <3>1. L + 1 \in Nat /\ BLOCK \in Nat
      BY <1>5, <2>1
    <3>. QED
      BY <2>2, <2>6, <3>1, Monotone
  <2>. QED
    BY <2>4, <2>7
<1>7. ASSUME NEW j \in 1 .. L + 1
      PROVE  v.body[j] = CipherBlock(v, j)
  <2>1. Before(v, j) = Before(w, j)
    <3>1. CASE j = 1
      BY <1>3, <3>1 DEF Before
    <3>2. CASE j # 1
      <4>1. j - 1 \in 1..L
        BY <1>5, <3>2
      <4>. QED
        BY <1>5, <3>2, <4>1 DEF Before
    <3>. QED
      BY <3>1, <3>2
  <2>2. CipherBlock(v, j) = CipherBlock(w, j)
    BY <1>3, <2>1 DEF CipherBlock
  <2>3. CASE j \in 1..L
    BY <1>5, <2>2, <2>3 DEF Message
  <2>4. CASE j = L + 1
    BY <1>5, <2>2, <2>4
  <2>. QED
    BY <1>5, <2>3, <2>4
<1>8. Message(v)
  BY <1>3, <1>4, <1>5, <1>6, <1>7 DEF Message
<1>9. Before(v, Len(v.body) + 1) = sent
  BY <1>5 DEF Before
<1>. QED
  BY <1>3, <1>8, <1>9

LEMMA EncryptBlock_AesInv ==
  ASSUME OA!OpenAesAssumption, AesInv, NEW c \in Ctxs, OA!EncryptBlock(c)
  PROVE  AesInv'
<1> DEFINE x == ctx[c]
           N == Len(wire)
           w == wire[N]
           blk == OA!Block(w.plain, Len(w.body) + 1)
           sent == OA!oaes_encrypt_block(x.key.data,
                    IF "CBC" \in x.options THEN OA!XorBlock(blk, x.iv) ELSE blk)
           v == [w EXCEPT !.body = Append(w.body, sent)]
           iv == IF "CBC" \in x.options THEN sent ELSE x.iv
<1>1. /\ c \in busy /\ ~(Len(w.body) * BLOCK >= w.len - 2 * BLOCK)
      /\ wire' = [wire EXCEPT ![N] = v]
      /\ ctx' = [ctx EXCEPT ![c] = [x EXCEPT !.iv = iv]]
      /\ UNCHANGED <<heap, got, busy>>
  BY DEF OA!EncryptBlock, OA!Encrypted
<1>2. /\ x # OA!NULL /\ N > 0 /\ Message(w)
      /\ OA!Value(x.key) = w.origin /\ x.options = w.options
      /\ "CBC" \in w.options => x.iv = Before(w, Len(w.body) + 1)
  BY <1>1 DEF AesInv, BusyInv
<1>3. sent = CipherBlock(w, Len(w.body) + 1)
  <2>. x.key.data = w.origin.data
    <3>1. OA!Value(x.key).data = x.key.data
      BY DEF OA!Value
    <3>. QED
      BY <1>2, <3>1
  <2>1. CASE "CBC" \in w.options
    BY <1>2, <2>1 DEF CipherBlock
  <2>2. CASE "CBC" \notin w.options
    BY <1>2, <2>2 DEF CipherBlock
  <2>. QED
    BY <2>1, <2>2
<1>. HIDE DEF sent, x, w, N
<1>4. /\ Message(v) /\ v.origin = w.origin /\ v.options = w.options
      /\ Before(v, Len(v.body) + 1) = sent
  <2>1. v = [w EXCEPT !.body = Append(w.body, sent)]
    OBVIOUS
  <2>. HIDE DEF v
  <2>2. Message(w) /\ ~(Len(w.body) * BLOCK >= w.len - 2 * BLOCK)
    BY <1>1, <1>2
  <2>. QED
    BY <1>3, <2>1, <2>2, MessageGrows, Zenon
<1>5. /\ x = [self |-> x.self, key |-> x.key, options |-> x.options, iv |-> x.iv]
      /\ x.options \in Modes /\ x.self # OA!NoBlock /\ x.self \notin KeyBlocks(x.key)
      /\ KeyOk(x.key)
  BY <1>2, Context DEF AesInv, KeysInv, CtxInv, x
<1>6. ctx' = [ctx EXCEPT ![c] =
                 [self |-> x.self, key |-> x.key, options |-> x.options, iv |-> iv]]
  <2>. HIDE DEF v, iv
  <2>1. [x EXCEPT !.iv = iv] =
          [self |-> x.self, key |-> x.key, options |-> x.options, iv |-> iv]
    BY <1>5
  <2>2. ctx' = [ctx EXCEPT ![c] = [x EXCEPT !.iv = iv]]
    BY <1>1
  <2>. QED
    BY <2>1, <2>2
<1>. HIDE DEF v, iv
<1>7. KeysInv'
  <2>1. KeysInv /\ ctx[c] # OA!NULL
    BY <1>2 DEF AesInv, x
  <2>2. /\ x.options \in Modes /\ heap' = heap
        /\ ctx' = [ctx EXCEPT ![c] =
                     [self |-> ctx[c].self, key |-> ctx[c].key, options |-> x.options, iv |-> iv]]
    BY <1>1, <1>5, <1>6 DEF x
  <2>. QED
    BY <2>1, <2>2, NewMode
<1>8. N \in 1..N
  BY <1>2 DEF AesInv, WireInv, IsSeq, N
<1>9. /\ IsSeq(wire') /\ Len(wire') = N /\ wire'[N] = v
      /\ \A i \in 1..N : i # N => wire'[i] = wire[i]
  <2>1. IsSeq(wire)
    BY DEF AesInv, WireInv
  <2>2. N \in 1..Len(wire)
    BY <1>8 DEF N
  <2>3. wire' = With(wire, N, v)
    BY <1>1 DEF With
  <2>4. /\ IsSeq(wire') /\ Len(wire') = Len(wire) /\ wire'[N] = v
        /\ \A i \in 1..Len(wire) : i # N => wire'[i] = wire[i]
    BY <2>1, <2>2, <2>3, ReplacedAt
  <2>. QED
    BY <2>4 DEF N
<1>10. WireInv'
  <2>1. ASSUME NEW n \in 1..N
        PROVE  \/ KeyFile(wire'[n])
               \/ Message(wire'[n]) /\ (Complete(wire'[n]) \/ (n = N /\ busy # {}))
    <3>1. CASE n = N
      BY <1>1, <1>4, <1>9, <3>1
    <3>2. CASE n # N
      BY <1>9, <2>1, <3>2 DEF AesInv, WireInv, N
    <3>. QED
      BY <3>1, <3>2
  <2>. QED
    BY <1>1, <1>9, <2>1 DEF WireInv
<1>11. BusyInv'
  <2> SUFFICES ASSUME NEW d \in busy
               PROVE  /\ d \in Ctxs /\ ctx'[d] # OA!NULL
                      /\ OA!Value(ctx'[d].key) = v.origin /\ ctx'[d].options = v.options
                      /\ "CBC" \in v.options => ctx'[d].iv = sent
    BY <1>1, <1>2, <1>4, <1>9 DEF AesInv, BusyInv
  <2>1. /\ d \in Ctxs /\ ctx[d] # OA!NULL
        /\ OA!Value(ctx[d].key) = w.origin /\ ctx[d].options = w.options
        /\ "CBC" \in w.options => ctx[d].iv = Before(w, Len(w.body) + 1)
    BY DEF AesInv, BusyInv, w, N
  <2>2. d = c
    BY <1>1 DEF AesInv, BusyInv
  <2>3. ctx'[c] = [self |-> x.self, key |-> x.key, options |-> x.options, iv |-> iv]
    BY <1>6 DEF AesInv, KeysInv, CtxInv
  <2>4. ctx'[c] # OA!NULL
    BY <1>5, <2>3, MadeContext
  <2>. QED
    BY <1>2, <1>4, <2>1, <2>2, <2>3, <2>4 DEF iv
<1>12. GotInv'
  <2> SUFFICES ASSUME got # OA!Nothing
               PROVE  /\ got.of \in 1..N /\ got.of # N
                      /\ got.result = IF wire'[got.of].type = 1 THEN <<wire'[got.of].origin>>
                                      ELSE wire'[got.of].plain
    BY <1>1, <1>9 DEF GotInv
  <2>1. got.of \in 1..N /\ got.of # N
    BY <1>1 DEF AesInv, GotInv, N
  <2>. QED
    BY <1>9, <2>1 DEF AesInv, GotInv
<1>. QED
  BY <1>7, <1>10, <1>11, <1>12 DEF AesInv

LEMMA EncryptReturn_AesInv ==
  ASSUME OA!OpenAesAssumption, AesInv, NEW c \in Ctxs, OA!EncryptReturn(c)
  PROVE  AesInv'
<1> DEFINE w == wire[Len(wire)]
<1>1. /\ c \in busy /\ Len(w.body) * BLOCK >= w.len - 2 * BLOCK
      /\ busy' = {} /\ UNCHANGED <<ctx, heap, wire, got>>
  BY DEF OA!EncryptReturn, OA!Encrypted
<1>2. KeysInv' /\ BusyInv'
  BY <1>1, SameContexts DEF AesInv, BusyInv
<1>3. Message(w)
  BY <1>1 DEF AesInv, BusyInv
<1>. HIDE DEF w
<1>4. Complete(w)
  <2> DEFINE L == Len(w.body) * BLOCK
             M == w.len - 2 * BLOCK
  <2>1. L <= M /\ L >= M
    BY <1>1, <1>3 DEF Message
  <2>2. L \in Nat
    <3>1. Len(w.body) \in Nat /\ BLOCK \in Nat \ {0}
      BY <1>3 DEF Message, IsSeq, OA!OpenAesAssumption
    <3>. QED
      BY <3>1, Multiples
  <2>3. M \in Int
    <3>1. /\ w.len = 2 * BLOCK + Len(w.plain) + OA!PadLen(w.plain)
          /\ Len(w.plain) \in Nat /\ BLOCK \in Nat \ {0, 1}
      BY <1>3, MessageFields DEF Message
    <3>2. OA!PadLen(w.plain) \in Nat
      BY <3>1, PadFills
    <3>3. \A b, a, q \in Nat : \A l : l = 2 * b + a + q => l - 2 * b \in Int
      OBVIOUS
    <3>. QED
      BY <3>1, <3>2, <3>3
  <2>4. L = M
    <3>. HIDE DEF L, M
    <3>. QED
      BY <2>1, <2>2, <2>3
  <2>. QED
    BY <2>4 DEF Complete
<1>5. WireInv'
  BY <1>1, <1>3, <1>4 DEF AesInv, WireInv, w
<1>6. GotInv'
  BY <1>1 DEF AesInv, GotInv
<1>. QED
  BY <1>2, <1>5, <1>6 DEF AesInv

LEMMA KeyFileType ==
  ASSUME NEW w, KeyFile(w)
  PROVE  w.type # 2
<1>1. PICK k : \E t \in {0, 1} : w = OA!Exported(k, t)
  BY DEF KeyFile
<1>2. \A t \in {0, 1} : OA!Exported(k, t).type = t
  BY DEF OA!Exported
<1>. QED
  BY <1>1, <1>2

(* With the key of the message, what oaes_decrypt returns is the plaintext *)
(* of a message; it refuses an exported key.                               *)
LEMMA Decrypt_AesInv ==
  ASSUME OA!OpenAesAssumption, AesInv, busy = {}, NEW c \in Ctxs, NEW n \in 1..Len(wire), NEW buf,
         ctx[c] # OA!NULL /\ ctx[c].key # OA!NoKey => OA!Value(ctx[c].key) = wire[n].origin,
         OA!oaes_decrypt(c, n, buf)
  PROVE  AesInv'
<1>1. UNCHANGED <<ctx, heap, wire, busy>>
  BY DEF OA!oaes_decrypt
<1>2. KeysInv' /\ WireInv' /\ BusyInv'
  BY <1>1, SameContexts DEF AesInv, WireInv, BusyInv
<1>3. CASE got' = got
  BY <1>1, <1>2, <1>3 DEF AesInv, GotInv
<1>4. CASE got' # got
  <2> DEFINE w == wire[n]
  <2>1. /\ ctx[c] # OA!NULL /\ ctx[c].key # OA!NoKey
        /\ OA!Opened(w, ctx[c].key.data) # OA!Refused
        /\ got' = [of |-> n, result |-> OA!Opened(w, ctx[c].key.data)]
    BY <1>4 DEF OA!oaes_decrypt
  <2>2. ctx[c].key.data = w.origin.data
    <3>1. OA!Value(ctx[c].key).data = ctx[c].key.data
      BY DEF OA!Value
    <3>. QED
      BY <2>1, <3>1
  <2>3. w.type = 2
    BY <2>1 DEF OA!Opened
  <2>4. Message(w) /\ Complete(w)
    <3>1. ~KeyFile(w)
      BY <2>3, KeyFileType
    <3>. QED
      BY <3>1 DEF AesInv, WireInv
  <2>5. OA!Opened(w, w.origin.data) = w.plain
    BY <2>4, Opens
  <2>6. got' = [of |-> n, result |-> w.plain]
    BY <2>1, <2>2, <2>5
  <2>7. GotInv'
    BY <1>1, <2>3, <2>6 DEF GotInv
  <2>. QED
    BY <1>2, <2>7 DEF AesInv
<1>. QED
  BY <1>3, <1>4

(* The calls that only change contexts.                                    *)
LEMMA OnlyContexts ==
  ASSUME AesInv, busy = {}, KeysInv', UNCHANGED <<wire, got, busy>>
  PROVE  AesInv'
<1>1. WireInv' /\ GotInv'
  BY SameWire DEF AesInv
<1>2. BusyInv'
  BY DEF BusyInv
<1>. QED
  BY <1>1, <1>2 DEF AesInv

LEMMA InitAesInv ==
  ASSUME OA!OpenAesAssumption, OA!Init
  PROVE  AesInv
<1>1. CtxInv
  BY DEF OA!Init, CtxInv, ContextOk
<1>2. HeapInv
  <2>1. \A c \in Ctxs : Blocks(ctx[c]) = {}
    BY DEF OA!Init, Blocks
  <2>2. AllBlocks = {}
    BY <2>1 DEF AllBlocks
  <2>3. heap = HeapOf({})
    BY DEF OA!Init, HeapOf
  <2>. QED
    BY <2>1, <2>2, <2>3, FS_EmptySet DEF HeapInv
<1>3. WireInv
  BY DEF OA!Init, WireInv, IsSeq
<1>4. BusyInv /\ GotInv
  BY DEF OA!Init, BusyInv, GotInv
<1>. QED
  BY <1>1, <1>2, <1>3, <1>4 DEF AesInv, KeysInv

LEMMA CallAesInv ==
  ASSUME OA!OpenAesAssumption, AesInv, busy = {}, NEW c \in Ctxs, OA!Call(c)
  PROVE  AesInv'
<1>1. CASE OA!oaes_alloc(c)
  BY <1>1, Alloc_KeysInv, OnlyContexts DEF AesInv, OA!oaes_alloc
<1>2. CASE OA!oaes_free(c)
  BY <1>2, Free_KeysInv, OnlyContexts DEF AesInv, OA!oaes_free
<1>3. CASE OA!oaes_set_option(c)
  BY <1>3, SetOption_KeysInv, OnlyContexts DEF AesInv, OA!oaes_set_option
<1>4. CASE OA!oaes_key_gen(c)
  BY <1>4, KeyGen_KeysInv, OnlyContexts DEF AesInv, OA!oaes_key_gen
<1>5. ASSUME NEW len, NEW d, OA!oaes_key_import_data(c, len, d)
      PROVE  AesInv'
  BY <1>5, KeyImportData_KeysInv, OnlyContexts DEF AesInv, OA!oaes_key_import_data
<1>6. CASE \E type \in {0, 1}, buf \in OA!Buffers : OA!oaes_key_export(c, type, buf)
  BY <1>6, Export_AesInv
<1>7. CASE \E n \in 1..Len(wire) : OA!oaes_key_import(c, n)
  BY <1>7, Import_AesInv
<1>8. CASE \E m \in Texts, buf \in OA!Buffers : OA!oaes_encrypt(c, m, buf)
  BY <1>8, Encrypt_AesInv
<1>9. CASE \E n \in 1..Len(wire), buf \in OA!Buffers :
             (ctx[c] # OA!NULL /\ ctx[c].key # OA!NoKey => OA!Value(ctx[c].key) = wire[n].origin)
             /\ OA!oaes_decrypt(c, n, buf)
  BY <1>9, Decrypt_AesInv
<1>. QED
  BY <1>1, <1>2, <1>3, <1>4, <1>5, <1>6, <1>7, <1>8, <1>9 DEF OA!Call

LEMMA NextAesInv ==
  ASSUME OA!OpenAesAssumption, AesInv, [OA!Next]_OA!vars
  PROVE  AesInv'
<1>1. CASE UNCHANGED OA!vars
  <2>1. UNCHANGED <<ctx, heap, wire, got, busy>>
    BY <1>1 DEF OA!vars
  <2>2. KeysInv'
    BY <2>1, SameContexts DEF AesInv
  <2>3. WireInv' /\ GotInv'
    BY <2>1, SameWire DEF AesInv
  <2>4. BusyInv'
    BY <2>1 DEF AesInv, BusyInv
  <2>. QED
    BY <2>2, <2>3, <2>4 DEF AesInv
<1>2. ASSUME NEW c \in Ctxs, busy = {}, OA!Call(c)
      PROVE  AesInv'
  BY <1>2, CallAesInv
<1>3. ASSUME NEW c \in Ctxs, OA!EncryptBlock(c)
      PROVE  AesInv'
  BY <1>3, EncryptBlock_AesInv
<1>4. ASSUME NEW c \in Ctxs, OA!EncryptReturn(c)
      PROVE  AesInv'
  BY <1>4, EncryptReturn_AesInv
<1>. QED
  BY <1>1, <1>2, <1>3, <1>4 DEF OA!Next

LEMMA AesInvariant ==
  ASSUME OA!OpenAesAssumption
  PROVE  OA!Spec => []AesInv
<1>1. OA!Init => AesInv
  BY InitAesInv
<1>2. AesInv /\ [OA!Next]_OA!vars => AesInv'
  BY NextAesInv
<1>. QED
  BY <1>1, <1>2, PTL DEF OA!Spec

(* Whichever allocations fail, in whatever sequence of calls: every free   *)
(* has been of a block that was allocated, and every block that is         *)
(* allocated is the target of exactly one pointer of a context or of its   *)
(* key, none of which dangles.  So the error paths of oaes_key_gen,        *)
(* oaes_key_import and oaes_key_import_data, each free of which is a       *)
(* change of the heap of its own, lose no block and free none twice.       *)
THEOREM OpenAesNeverLeaks ==
  ASSUME OA!OpenAesAssumption
  PROVE  OA!Spec => []OA!NoLeak
<1>1. AesInv => OA!NoLeak
  BY KeysInvNoLeak DEF AesInv
<1>. QED
  BY <1>1, AesInvariant, PTL

(* The key of a context has its data, its expansion and a legal length: a  *)
(* key whose expansion failed never stays behind for oaes_encrypt, which   *)
(* reads exp_data without a check.                                         *)
THEOREM OpenAesKeysExpanded ==
  ASSUME OA!OpenAesAssumption
  PROVE  OA!Spec => []OA!KeyIsExpanded
<1>1. AesInv => OA!KeyIsExpanded
  <2> SUFFICES ASSUME AesInv, NEW c \in Ctxs, ctx[c] # OA!NULL, ctx[c].key # OA!NoKey
               PROVE  /\ ctx[c].key.buf # OA!NoBlock /\ ctx[c].key.exp # OA!NoBlock
                      /\ ctx[c].key.data_len \in KeyLens
    BY DEF OA!KeyIsExpanded
  <2>1. KeyOk(ctx[c].key)
    BY Context DEF AesInv, KeysInv, CtxInv
  <2>. QED
    BY <2>1 DEF KeyOk
<1>. QED
  BY <1>1, AesInvariant, PTL

(* Every message that oaes_encrypt has finished is one that oaes_decrypt   *)
(* opens with the same key, and what it returns is the plaintext: for      *)
(* texts of any length and content, in both modes, whatever the context's  *)
(* options and iv have become since.                                       *)
THEOREM OpenAesMessagesOpen ==
  ASSUME OA!OpenAesAssumption
  PROVE  OA!Spec => []OA!MessagesOpen
<1>1. AesInv => OA!MessagesOpen
  <2> SUFFICES ASSUME AesInv, NEW n \in 1..Len(wire), wire[n].type = 2,
                      n = Len(wire) => busy = {}
               PROVE  /\ wire[n].len % BLOCK = 0
                      /\ OA!Opened(wire[n], wire[n].origin.data) = wire[n].plain
    BY DEF OA!MessagesOpen
  <2>1. ~KeyFile(wire[n])
    BY KeyFileType
  <2>2. Message(wire[n]) /\ Complete(wire[n])
    BY <2>1 DEF AesInv, WireInv
  <2>. QED
    BY <2>2, Opens
<1>. QED
  BY <1>1, AesInvariant, PTL

(* What oaes_decrypt and oaes_key_import have returned is what was         *)
(* encrypted and exported; they never take a key for a message or a        *)
(* message for a key.                                                      *)
THEOREM OpenAesRoundTrip ==
  ASSUME OA!OpenAesAssumption
  PROVE  OA!Spec => []OA!RoundTrips
<1>1. AesInv => OA!RoundTrips
  BY DEF AesInv, GotInv, OA!RoundTrips
<1>. QED
  BY <1>1, AesInvariant, PTL

-----------------------------------------------------------------------------
(***************************************************************************)
(* The integer helpers, for every width of a dword.                        *)
(***************************************************************************)
CONSTANTS H, Operands

VARIABLES word1, word2

IU == INSTANCE IntUtil WITH x <- word1, y <- word2

WordsInv == word1 \in 0 .. IU!Full - 1 /\ word2 \in 0 .. IU!Full - 1

(* Quotient and remainder.                                                 *)
LEMMA Divided ==
  ASSUME NEW n \in Nat, NEW b \in Nat, b > 0
  PROVE  n \div b \in Nat /\ n % b \in 0 .. b - 1 /\ n = (n \div b) * b + (n % b)
<1>1. n % b \in 0 .. b - 1
  BY SMT
<1>2. n \div b \in Int
  BY SMT
<1>3. n = b * (n \div b) + (n % b)
  BY SMT
<1>4. n \div b \in Nat
  BY <1>1, <1>2, <1>3, SMT
<1>. QED
  BY <1>1, <1>3, <1>4, SMT

LEMMA DivMod ==
  ASSUME NEW a \in Nat, NEW b \in Nat, b > 0, NEW r \in 0 .. b - 1
  PROVE  (a * b + r) \div b = a /\ (a * b + r) % b = r
BY SMT

LEMMA Remains ==
  ASSUME NEW b \in Nat, b > 0, NEW r \in 0 .. b - 1
  PROVE  r % b = r
BY SMT

(* (u + v) % F < u exactly when the sum does not fit.                      *)
LEMMA CarryOf ==
  ASSUME NEW F \in Nat, F > 0, NEW u \in 0 .. F - 1, NEW v \in 0 .. F - 1,
         NEW w, w = (u + v) % F
  PROVE  w \in 0 .. F - 1 /\ u + v = w + (IF w < u THEN 1 ELSE 0) * F
<1>1. CASE u + v < F
  <2>1. w = u + v
    BY <1>1, Remains
  <2>. QED
    BY <1>1, <2>1
<1>2. CASE u + v >= F
  <2>1. (u + v) - F \in 0 .. F - 1 /\ 1 * F + ((u + v) - F) = u + v
    BY <1>2
  <2>2. w = (u + v) - F
    BY <2>1, DivMod
  <2>. QED
    BY <1>2, <2>1, <2>2
<1>. QED
  BY <1>1, <1>2

(* A product of two dwords leaves room for two more.                       *)
LEMMA Room ==
  ASSUME NEW B \in Nat, B > 1, NEW a \in 0 .. B - 1, NEW b \in 0 .. B - 1
  PROVE  a * b \in Nat /\ a * b + (B - 1) + (B - 1) <= B * B - 1
<1>1. a * b \in Nat
  BY SMT
<1>2. a * b <= (B - 1) * (B - 1)
  <2>1. a * b <= a * (B - 1)
    BY SMT
  <2>2. a * (B - 1) <= (B - 1) * (B - 1)
    BY SMT
  <2>. QED
    BY <2>1, <2>2, SMT
<1>3. (B - 1) * (B - 1) + (B - 1) + (B - 1) = B * B - 1
  BY SMT
<1>. QED
  BY <1>1, <1>2, <1>3

(* A product of words has two words.                                       *)
LEMMA ProductFits ==
  ASSUME NEW F \in Nat, F > 0, NEW p \in 0 .. F - 1, NEW q \in 0 .. F - 1
  PROVE  p * q \in Nat /\ p * q < F * F
<1>1. p * q \in Nat /\ p * q <= p * F /\ p * F <= (F - 1) * F /\ (F - 1) * F < F * F
  BY SMT
<1>. QED
  BY <1>1, SMT

(* Its high word is what is left of its low one.                           *)
LEMMA HighWord ==
  ASSUME NEW F \in Nat, F > 0, NEW n, n < F * F, n \in Nat, NEW h \in Nat, NEW l \in Nat,
         n = h * F + l
  PROVE  h \in 0 .. F - 1
<1>1. h * F < F * F
  BY SMT
<1>. QED
  BY <1>1, SMT

LEMMA ByDwords ==
  ASSUME NEW B \in Nat, B > 1, NEW a \in Nat, NEW b \in Nat, NEW c \in Nat, NEW d \in Nat
  PROVE  (a * B + b) * (c * B + d)
           = (a * c) * (B * B) + (a * d) * B + (b * c) * B + b * d
BY SMT

LEMMA WordSizes ==
  ASSUME IU!WidthAssumption
  PROVE  /\ IU!Half \in Nat /\ IU!Half > 1
         /\ IU!Full \in Nat /\ IU!Full > 1 /\ IU!Full = IU!Half * IU!Half
<1> DEFINE B == IU!Half
<1>1. B \in Nat /\ B > 1
  BY DEF IU!WidthAssumption
<1>. HIDE DEF B
<1>2. B * B \in Nat /\ B * B > 1
  BY <1>1, SMT
<1>. QED
  BY <1>1, <1>2 DEF B, IU!Full

LEMMA Dwords ==
  ASSUME IU!WidthAssumption, NEW v \in Nat
  PROVE  /\ IU!hi_dword(v) \in Nat /\ IU!lo_dword(v) \in 0 .. IU!Half - 1
         /\ v = IU!hi_dword(v) * IU!Half + IU!lo_dword(v)
         /\ v < IU!Full => IU!hi_dword(v) \in 0 .. IU!Half - 1
<1> DEFINE B == IU!Half
           h == v \div B
           l == v % B
<1>1. B \in Nat /\ B > 0 /\ IU!Full = B * B
  BY WordSizes
<1>. HIDE DEF B
<1>2. h \in Nat /\ l \in 0 .. B - 1 /\ v = h * B + l
  BY <1>1, Divided
<1>3. IU!hi_dword(v) = h /\ IU!lo_dword(v) = l
  BY DEF IU!hi_dword, IU!lo_dword, B
<1>. HIDE DEF h, l
<1>4. v < B * B => h \in 0 .. B - 1
  <2>1. l \in Nat
    BY <1>1, <1>2
  <2>. QED
    BY <1>1, <1>2, <2>1, HighWord
<1>. QED
  BY <1>1, <1>2, <1>3, <1>4 DEF B

LEMMA Shifted ==
  ASSUME NEW B \in Nat, NEW g \in Nat, NEW k \in Nat
  PROVE  (g * B + k) * B = g * (B * B) + k * B
BY SMT

LEMMA Regrouped ==
  ASSUME NEW p, NEW u1 \in Int, NEW u2 \in Int, NEW u3 \in Int, NEW u4 \in Int, NEW v1 \in Int,
         NEW v2 \in Int, NEW v3 \in Int, NEW v4 \in Int, NEW v5 \in Int,
         p = u1 + u2 + u3 + u4, u2 + u3 = v1 + v2 + v3, u4 + v2 = v5 + v4
  PROVE  p = u1 + v1 + v3 + v4 + v5
BY SMT

(* mul128: both carries are noticed, and the high word does not overflow.  *)
(* Two words of two dwords each.                                           *)
Factors(B, F, x, y, a, b, c, d) ==
  /\ B \in Nat /\ B > 1 /\ F \in Nat /\ F > 1 /\ F = B * B
  /\ x * y \in Nat /\ x * y < F * F
  /\ a \in 0 .. B - 1 /\ b \in 0 .. B - 1 /\ c \in 0 .. B - 1 /\ d \in 0 .. B - 1
  /\ x = a * B + b /\ y = c * B + d

Mul128Steps(B, F, a, b, c, d, m, g, k, l, s) ==
  /\ m = ((a * d) + (b * c)) % F
  /\ g \in Nat /\ k \in 0 .. B - 1 /\ m = g * B + k
  /\ l = ((b * d) + (m * B)) % F
  /\ s = (a * c) + g + ((IF m < a * d THEN 1 ELSE 0) * B) + (IF l < b * d THEN 1 ELSE 0)

LEMMA Mul128Sum ==
  ASSUME NEW B, NEW F, NEW x, NEW y, NEW a, NEW b, NEW c, NEW d, Factors(B, F, x, y, a, b, c, d),
         NEW m, NEW g, NEW k, NEW l, NEW s, Mul128Steps(B, F, a, b, c, d, m, g, k, l, s)
  PROVE  l \in 0 .. F - 1 /\ s \in 0 .. F - 1 /\ s * F + l = x * y /\ a * c <= s
<1> DEFINE ac == a * c
           ad == a * d
           bc == b * c
           bd == b * d
           kB == k * B
           cm == IF m < ad THEN 1 ELSE 0
           cl == IF l < bd THEN 1 ELSE 0
<1>. USE DEF Factors, Mul128Steps
<1>1. /\ ac \in 0 .. F - 1 /\ ad \in 0 .. F - 1 /\ bc \in 0 .. F - 1 /\ bd \in 0 .. F - 1
  <2>1. ac \in Nat /\ ad \in Nat /\ bc \in Nat /\ bd \in Nat
    BY Room
  <2>2. /\ ac + (B - 1) + (B - 1) <= F - 1 /\ ad + (B - 1) + (B - 1) <= F - 1
        /\ bc + (B - 1) + (B - 1) <= F - 1 /\ bd + (B - 1) + (B - 1) <= F - 1
    BY Room
  <2>. HIDE DEF ac, ad, bc, bd
  <2>. QED
    BY <2>1, <2>2
<1>2. kB \in 0 .. F - 1
  <2>1. kB \in Nat /\ kB <= (B - 1) * B /\ (B - 1) * B <= F - 1
    BY SMT
  <2>. HIDE DEF kB
  <2>. QED
    BY <2>1, SMT
<1>0. m * B = g * F + kB
  <2>1. k \in Nat
    OBVIOUS
  <2>2. (g * B + k) * B = g * (B * B) + k * B
    BY ZenonT(60), <2>1, Shifted
  <2>. QED
    BY <2>2, Zenon
<1>3. x * y = ac * F + ad * B + bc * B + bd
  BY ByDwords
<1>4. m = (ad + bc) % F /\ l = (bd + m * B) % F
  OBVIOUS
<1>5. s = ac + g + cm * B + cl
  OBVIOUS
<1>. HIDE DEF ac, ad, bc, bd
<1>6. F > 0
  BY SMT
<1>7. m \in 0 .. F - 1 /\ ad + bc = m + cm * F
  BY <1>1, <1>4, <1>6, CarryOf
<1>8. cm \in 0..1 /\ cl \in 0..1
  OBVIOUS
<1> DEFINE w == (bd + kB) % F
           cw == IF w < bd THEN 1 ELSE 0
<1>9. w \in 0 .. F - 1 /\ bd + kB = w + cw * F
  BY <1>1, <1>2, <1>6, CarryOf
<1>10. cw \in 0..1
  OBVIOUS
<1>. HIDE DEF cm, cl, w, cw
<1>11. l = w
  <2>1. bd + m * B = (g + cw) * F + w
    <3>. HIDE DEF kB
    <3>2. bd + m * B = g * F + cw * F + w
      BY <1>1, <1>2, <1>8, <1>9, <1>10, <1>0, SMT
    <3>3. g * F + cw * F = (g + cw) * F
      BY <1>10, SMT
    <3>. QED
      BY <3>2, <3>3
  <2>2. g + cw \in Nat
    BY <1>10
  <2>3. ((g + cw) * F + w) % F = w
    <3>1. F \in Nat /\ F > 0 /\ w \in 0 .. F - 1
      BY <1>6, <1>9
    <3>. HIDE DEF Factors, Mul128Steps
    <3>. QED
      BY <2>2, <3>1, DivMod
  <2>. QED
    BY <1>4, <2>1, <2>3
<1>12. cl = cw
  BY <1>11 DEF cl, cw
<1>13. s \in Nat /\ ac <= s
  BY <1>1, <1>5, <1>8, SMT
<1>14. s * F + l = x * y
  <2>2. (ad + bc) * B = ad * B + bc * B
    BY <1>1, SMT
  <2>3. (m + cm * F) * B = m * B + (cm * B) * F
    BY <1>7, <1>8, SMT
  <2>. HIDE DEF kB
  <2>4. /\ ac * F \in Int /\ ad * B \in Int /\ bc * B \in Int /\ bd \in Int /\ g * F \in Int
        /\ kB \in Int /\ (cm * B) * F \in Int /\ cl * F \in Int /\ l \in Int
    BY <1>1, <1>2, <1>8, <1>9, <1>11
  <2>5. ad * B + bc * B = g * F + kB + (cm * B) * F
    BY <1>0, <1>7, <2>2, <2>3
  <2>7. bd + kB = l + cl * F
    BY <1>9, <1>11, <1>12
  <2>8. x * y = ac * F + g * F + (cm * B) * F + cl * F + l
    BY <1>3, <2>4, <2>5, <2>7, Regrouped
  <2>6. s * F = ac * F + g * F + (cm * B) * F + cl * F
    BY <1>1, <1>5, <1>8, SMT
  <2>. QED
    BY <2>6, <2>8
<1>15. s \in 0 .. F - 1
  <2>1. x * y \in Nat /\ l \in Nat
    BY <1>9, <1>11, SMT
  <2>2. x * y = s * F + l
    BY <1>14
  <2>. QED
    BY <1>6, <1>13, <2>1, <2>2, HighWord
<1>. QED
  BY <1>1, <1>9, <1>11, <1>13, <1>14, <1>15 DEF ac

LEMMA TwoWords ==
  ASSUME IU!WidthAssumption, NEW p \in 0 .. IU!Full - 1, NEW q \in 0 .. IU!Full - 1
  PROVE  Factors(IU!Half, IU!Full, p, q, IU!hi_dword(p), IU!lo_dword(p),
                 IU!hi_dword(q), IU!lo_dword(q))
<1> DEFINE F == IU!Full
<1>1. F \in Nat /\ F > 0
  BY WordSizes
<1>2. p \in Nat /\ q \in Nat /\ p < F /\ q < F /\ p \in 0 .. F - 1 /\ q \in 0 .. F - 1
  BY <1>1
<1>3. p * q \in Nat /\ p * q < F * F
  <2>. HIDE DEF F
  <2>. QED
    BY <1>1, <1>2, ProductFits
<1>. QED
  BY <1>2, <1>3, WordSizes, Dwords DEF Factors

LEMMA Mul128Exact ==
  ASSUME IU!WidthAssumption, NEW p \in 0 .. IU!Full - 1, NEW q \in 0 .. IU!Full - 1
  PROVE  LET r == IU!mul128(p, q)
         IN  r.hi * IU!Full + r.lo = p * q /\ r.ac <= r.hi
<1> DEFINE B == IU!Half
           F == IU!Full
           a == IU!hi_dword(p)
           b == IU!lo_dword(p)
           c == IU!hi_dword(q)
           d == IU!lo_dword(q)
           m == ((a * d) + (b * c)) % F
           g == IU!hi_dword(m)
           k == IU!lo_dword(m)
           l == ((b * d) + (m * B)) % F
           s == (a * c) + g + ((IF m < a * d THEN 1 ELSE 0) * B) + (IF l < b * d THEN 1 ELSE 0)
           r == IU!mul128(p, q)
<1>1. B \in Nat /\ B > 1 /\ F \in Nat /\ F > 1 /\ F = B * B
  BY WordSizes
<1>2. Factors(B, F, p, q, a, b, c, d)
  BY TwoWords
<1>3. r = [hi |-> s % F, lo |-> l, ac |-> a * c]
  BY Zenon DEF IU!mul128
<1>. HIDE DEF B, F, a, b, c, d, r
<1>4. m \in Nat
  <2> DEFINE u == (a * d) + (b * c)
  <2>1. u \in Nat
    <3>1. a * d \in Nat /\ b * c \in Nat
      BY <1>1, <1>2, Room DEF Factors
    <3>. QED
      BY <3>1
  <2>. HIDE DEF u
  <2>2. u % F \in 0 .. F - 1
    BY <1>1, <2>1, Divided
  <2>3. u % F \in Nat
    BY <1>1, <2>2
  <2>. QED
    BY <2>3 DEF u
<1>5. g \in Nat /\ k \in 0 .. B - 1 /\ m = g * B + k
  <2>. HIDE DEF m
  <2>. QED
    BY <1>4, Dwords DEF B
<1>10. Mul128Steps(B, F, a, b, c, d, m, g, k, l, s)
  <2>. HIDE DEF g, k
  <2>. QED
    BY <1>5 DEF Mul128Steps
<1>. HIDE DEF g, k, m, l, s
<1>6. l \in 0 .. F - 1 /\ s \in 0 .. F - 1 /\ s * F + l = p * q /\ a * c <= s
  BY <1>2, <1>10, Mul128Sum
<1>7. s % F = s
  BY <1>1, <1>6, Remains
<1>8. r.hi = s /\ r.lo = l /\ r.ac = a * c
  BY <1>3, <1>7
<1>9. r.hi * F + r.lo = p * q /\ r.ac <= r.hi
  BY <1>6, <1>8
<1>. QED
  BY <1>9 DEF r, F

(* mul for ARM: the middle words take up the carries and never overflow.   *)
MulArmSteps(B, a, b, c, d, h0, l0, h1, l1, h2, l2) ==
  /\ h0 \in 0 .. B - 1 /\ l0 \in 0 .. B - 1 /\ b * d = h0 * B + l0
  /\ h2 \in 0 .. B - 1 /\ l2 \in 0 .. B - 1 /\ a * d = h2 * B + l2
  /\ h1 \in 0 .. B - 1 /\ l1 \in 0 .. B - 1 /\ (b * c) + h0 + l2 = h1 * B + l1

LEMMA MulArmSum ==
  ASSUME NEW B, NEW F, NEW x, NEW y, NEW a, NEW b, NEW c, NEW d, Factors(B, F, x, y, a, b, c, d),
         NEW h0, NEW l0, NEW h1, NEW l1, NEW h2, NEW l2,
         MulArmSteps(B, a, b, c, d, h0, l0, h1, l1, h2, l2)
  PROVE  ((a * c) + h1 + h2) * F + (l1 * B + l0) = x * y
<1> DEFINE ac == a * c
           ad == a * d
           bc == b * c
           bd == b * d
<1>1. ac \in Nat /\ ad \in Nat /\ bc \in Nat /\ bd \in Nat
  BY Room DEF Factors
<1>2. x * y = ac * F + ad * B + bc * B + bd
  BY ByDwords DEF Factors
<1>3. /\ B \in Nat /\ F \in Nat /\ F = B * B
      /\ h0 \in Nat /\ l0 \in Nat /\ h1 \in Nat /\ l1 \in Nat /\ h2 \in Nat /\ l2 \in Nat
      /\ bd = h0 * B + l0 /\ ad = h2 * B + l2 /\ bc + h0 + l2 = h1 * B + l1
  BY DEF Factors, MulArmSteps
<1>. HIDE DEF ac, ad, bc, bd
<1>4. ad * B = h2 * F + l2 * B
  BY <1>3, Shifted
<1>5. (bc + h0 + l2) * B = h1 * F + l1 * B
  BY <1>3, Shifted
<1>6. (bc + h0 + l2) * B = bc * B + h0 * B + l2 * B
  BY <1>1, <1>3, SMT
<1>7. (ac + h1 + h2) * F = ac * F + h1 * F + h2 * F
  BY <1>1, <1>3, SMT
<1>8. /\ ac * F \in Int /\ ad * B \in Int /\ bc * B \in Int /\ h0 * B \in Int /\ h1 * F \in Int
      /\ l1 * B \in Int /\ h2 * F \in Int /\ l2 * B \in Int
  BY <1>1, <1>3
<1> DEFINE u1 == ac * F
           u2 == ad * B
           u3 == bc * B
           v0 == h0 * B
           v1 == h1 * F
           v2 == h2 * F
           w1 == l1 * B
           w2 == l2 * B
           p == x * y
<1>9. /\ u1 \in Int /\ u2 \in Int /\ u3 \in Int /\ v0 \in Int /\ v1 \in Int /\ v2 \in Int
      /\ w1 \in Int /\ w2 \in Int /\ l0 \in Int
      /\ p = u1 + u2 + u3 + bd /\ bd = v0 + l0 /\ u2 = v2 + w2 /\ u3 + v0 + w2 = v1 + w1
      /\ (ac + h1 + h2) * F = u1 + v1 + v2
  BY <1>2, <1>3, <1>4, <1>5, <1>6, <1>7, <1>8
<1>. HIDE DEF u1, u2, u3, v0, v1, v2, w1, w2, p
<1>10. u1 + v1 + v2 + (w1 + l0) = p
  BY <1>9
<1>11. (ac + h1 + h2) * F + (w1 + l0) = p
  BY <1>9, <1>10
<1>. QED
  BY <1>11 DEF ac, w1, p

LEMMA MulArmExact ==
  ASSUME IU!WidthAssumption, NEW p \in 0 .. IU!Full - 1, NEW q \in 0 .. IU!Full - 1
  PROVE  LET r == IU!mul_arm(p, q)
         IN  r.hi * IU!Full + r.lo = p * q
<1> DEFINE B == IU!Half
           F == IU!Full
           a == IU!hi_dword(p)
           b == IU!lo_dword(p)
           c == IU!hi_dword(q)
           d == IU!lo_dword(q)
           e0 == b * d
           e2 == a * d
           e1 == (b * c) + IU!hi_dword(e0) + IU!lo_dword(e2)
           e3 == (a * c) + IU!hi_dword(e1) + IU!hi_dword(e2)
           r == IU!mul_arm(p, q)
<1>1. B \in Nat /\ B > 1 /\ F \in Nat /\ F > 1 /\ F = B * B
  BY WordSizes
<1>2. Factors(B, F, p, q, a, b, c, d)
  BY TwoWords
<1>3. r = [hi |-> ((a * c) + IU!hi_dword(e1 % F) + IU!hi_dword(e2)) % F,
           lo |-> IU!lo_dword(e1 % F) * B + IU!lo_dword(e0)]
  BY Zenon DEF IU!mul_arm
<1>. HIDE DEF B, F, a, b, c, d, r
<1>4. /\ a * c \in Nat /\ a * c + (B - 1) + (B - 1) <= F - 1
      /\ b * c \in Nat /\ b * c + (B - 1) + (B - 1) <= F - 1
      /\ e0 \in Nat /\ e0 + (B - 1) + (B - 1) <= F - 1
      /\ e2 \in Nat /\ e2 + (B - 1) + (B - 1) <= F - 1
  BY <1>2, Room DEF Factors
<1>5. /\ IU!hi_dword(e0) \in 0 .. B - 1 /\ IU!lo_dword(e0) \in 0 .. B - 1
      /\ e0 = IU!hi_dword(e0) * B + IU!lo_dword(e0)
      /\ IU!hi_dword(e2) \in 0 .. B - 1 /\ IU!lo_dword(e2) \in 0 .. B - 1
      /\ e2 = IU!hi_dword(e2) * B + IU!lo_dword(e2)
  <2>. HIDE DEF e0, e2
  <2>1. e0 < F /\ e2 < F
    BY <1>1, <1>4
  <2>. QED
    BY <1>4, <2>1, Dwords DEF B, F
<1> DEFINE h0 == IU!hi_dword(e0)
           l0 == IU!lo_dword(e0)
           h2 == IU!hi_dword(e2)
           l2 == IU!lo_dword(e2)
<1>. HIDE DEF e0, e2
<1>6. e1 \in 0 .. F - 1 /\ e1 \in Nat /\ e1 < F /\ e1 = (b * c) + h0 + l2
  <2> DEFINE bc == b * c
  <2>1. bc \in Nat /\ bc + (B - 1) + (B - 1) <= F - 1
    BY <1>4
  <2>2. h0 \in 0 .. B - 1 /\ l2 \in 0 .. B - 1
    BY <1>5
  <2>. HIDE DEF bc, h0, l2
  <2>3. bc + h0 + l2 \in 0 .. F - 1
    BY <1>1, <2>1, <2>2
  <2>4. e1 = bc + h0 + l2
    BY DEF bc, h0, l2
  <2>. HIDE DEF e1
  <2>. QED
    BY <1>1, <2>3, <2>4 DEF bc
<1>. HIDE DEF e1
<1>7. /\ IU!hi_dword(e1) \in 0 .. B - 1 /\ IU!lo_dword(e1) \in 0 .. B - 1
      /\ e1 = IU!hi_dword(e1) * B + IU!lo_dword(e1)
  BY <1>6, Dwords DEF B, F
<1> DEFINE h1 == IU!hi_dword(e1)
           l1 == IU!lo_dword(e1)
<1>8. e1 % F = e1
  BY <1>1, <1>6, Remains
<1>9. MulArmSteps(B, a, b, c, d, h0, l0, h1, l1, h2, l2)
  BY <1>5, <1>6, <1>7 DEF MulArmSteps, e0, e2
<1>10. r = [hi |-> e3 % F, lo |-> l1 * B + l0]
  BY <1>3, <1>8
<1>11. e3 = (a * c) + h1 + h2
  OBVIOUS
<1>12. h1 \in 0 .. B - 1 /\ h2 \in 0 .. B - 1
  BY <1>5, <1>7
<1>. HIDE DEF h0, l0, h1, l1, h2, l2, e3
<1>13. e3 \in 0 .. F - 1
  <2> DEFINE ac == a * c
  <2>1. ac \in Nat /\ ac + (B - 1) + (B - 1) <= F - 1 /\ e3 = ac + h1 + h2
    BY <1>4, <1>11
  <2>. HIDE DEF ac
  <2>. QED
    BY <1>1, <1>12, <2>1
<1>14. e3 * F + (l1 * B + l0) = p * q
  BY <1>2, <1>9, <1>11, MulArmSum
<1>15. e3 % F = e3
  BY <1>1, <1>13, Remains
<1>16. r.hi = e3 /\ r.lo = l1 * B + l0
  BY <1>10, <1>15
<1>17. r.hi * F + r.lo = p * q
  BY <1>14, <1>16
<1>. QED
  BY <1>17 DEF r, F

(* cn_mul128: umlal adds a dword to a product of dwords without overflow.  *)
LEMMA UmlalFits ==
  ASSUME IU!WidthAssumption, NEW lo \in 0 .. IU!Half - 1,
         NEW p \in 0 .. IU!Half - 1, NEW q \in 0 .. IU!Half - 1
  PROVE  LET u == IU!umlal(lo, 0, p, q)
         IN  /\ u.lo \in 0 .. IU!Half - 1 /\ u.hi \in 0 .. IU!Half - 1
             /\ lo + (p * q) = u.hi * IU!Half + u.lo
<1> DEFINE B == IU!Half
           F == IU!Full
           pq == p * q
           v == lo + pq
           w == ((0 * B) + lo + pq) % F
           u == IU!umlal(lo, 0, p, q)
<1>1. B \in Nat /\ B > 1 /\ F \in Nat /\ F > 1 /\ F = B * B
  BY WordSizes
<1>2. u = [lo |-> IU!lo_dword(w), hi |-> IU!hi_dword(w)]
  BY Zenon DEF IU!umlal
<1>3. lo \in 0 .. B - 1 /\ pq \in Nat /\ pq + (B - 1) + (B - 1) <= F - 1
  BY <1>1, Room
<1>. HIDE DEF B, F, pq, u
<1>4. v \in 0 .. F - 1 /\ v \in Nat /\ v < F /\ (0 * B) + lo + pq = v
  BY <1>1, <1>3
<1>. HIDE DEF v
<1>5. w = v
  BY <1>1, <1>4, Remains
<1>6. /\ IU!hi_dword(v) \in 0 .. B - 1 /\ IU!lo_dword(v) \in 0 .. B - 1
      /\ v = IU!hi_dword(v) * B + IU!lo_dword(v)
  BY <1>4, Dwords DEF B, F
<1>7. u.lo = IU!lo_dword(v) /\ u.hi = IU!hi_dword(v)
  BY <1>2, <1>5
<1>8. u.lo \in 0 .. B - 1 /\ u.hi \in 0 .. B - 1 /\ v = u.hi * B + u.lo
  BY <1>6, <1>7
<1>. QED
  BY <1>8 DEF u, B, v, pq

CnMulSteps(B, a, b, c, d, h1, l1, h2, l2, h3, l3, h4, l4, hs, ls) ==
  /\ h1 \in Nat /\ l1 \in 0 .. B - 1 /\ b * d = h1 * B + l1
  /\ h2 \in Nat /\ l2 \in Nat /\ h1 + (b * c) = h2 * B + l2
  /\ h3 \in Nat /\ l3 \in 0 .. B - 1 /\ l2 + (a * d) = h3 * B + l3
  /\ h4 \in Nat /\ l4 \in Nat /\ h2 + (a * c) = h4 * B + l4
  /\ hs \in Nat /\ ls \in 0 .. B - 1 /\ l4 + h3 = hs * B + ls

LEMMA CnMulSum ==
  ASSUME NEW B, NEW F, NEW x, NEW y, NEW a, NEW b, NEW c, NEW d, Factors(B, F, x, y, a, b, c, d),
         NEW h1, NEW l1, NEW h2, NEW l2, NEW h3, NEW l3, NEW h4, NEW l4, NEW hs, NEW ls,
         CnMulSteps(B, a, b, c, d, h1, l1, h2, l2, h3, l3, h4, l4, hs, ls)
  PROVE  /\ ((h4 + hs) * B + ls) * F + (l3 * B + l1) = x * y
         /\ h4 + hs \in 0 .. B - 1
<1> DEFINE ac == a * c
           ad == a * d
           bc == b * c
           bd == b * d
           t == (h4 + hs) * B + ls
           l == l3 * B + l1
<1>1. ac \in Nat /\ ad \in Nat /\ bc \in Nat /\ bd \in Nat
  BY Room DEF Factors
<1>2. x * y = ac * F + ad * B + bc * B + bd
  BY ByDwords DEF Factors
<1>3. /\ B \in Nat /\ B > 1 /\ F \in Nat /\ F > 1 /\ F = B * B
      /\ h1 \in Nat /\ l1 \in Nat /\ h2 \in Nat /\ l2 \in Nat /\ h3 \in Nat /\ l3 \in Nat
      /\ h4 \in Nat /\ l4 \in Nat /\ hs \in Nat /\ ls \in Nat
      /\ bd = h1 * B + l1 /\ h1 + bc = h2 * B + l2 /\ l2 + ad = h3 * B + l3
      /\ h2 + ac = h4 * B + l4 /\ l4 + h3 = hs * B + ls
      /\ x * y \in Nat /\ x * y < F * F
  BY DEF Factors, CnMulSteps
<1>. HIDE DEF ac, ad, bc, bd
<1>4. (h1 + bc) * B = h2 * F + l2 * B
  BY <1>3, Shifted
<1>5. (l2 + ad) * B = h3 * F + l3 * B
  BY <1>3, Shifted
<1>6. /\ (h1 + bc) * B = h1 * B + bc * B /\ (l2 + ad) * B = l2 * B + ad * B
      /\ (h2 + ac) * F = h2 * F + ac * F /\ (l4 + h3) * F = l4 * F + h3 * F
  BY <1>1, <1>3, SMT
<1>7. t * F = (h4 * B) * F + (hs * B) * F + ls * F
  BY <1>3, SMT
<1>8. (h4 * B + l4) * F = (h4 * B) * F + l4 * F /\ (hs * B + ls) * F = (hs * B) * F + ls * F
  BY <1>3, SMT
<1> DEFINE u1 == ac * F
           u2 == ad * B
           u3 == bc * B
           v1 == h1 * B
           v2 == h2 * F
           v3 == h3 * F
           v4 == (h4 * B) * F
           vs == (hs * B) * F
           w2 == l2 * B
           w3 == l3 * B
           w4 == l4 * F
           ws == ls * F
           p == x * y
           tf == t * F
<1>9. /\ u1 \in Int /\ u2 \in Int /\ u3 \in Int /\ v1 \in Int /\ v2 \in Int /\ v3 \in Int
      /\ v4 \in Int /\ vs \in Int /\ w2 \in Int /\ w3 \in Int /\ w4 \in Int /\ ws \in Int
      /\ l1 \in Int /\ bd \in Int
  BY <1>1, <1>3
<1>10. /\ p = u1 + u2 + u3 + bd /\ bd = v1 + l1 /\ v1 + u3 = v2 + w2 /\ w2 + u2 = v3 + w3
       /\ v2 + u1 = v4 + w4 /\ w4 + v3 = vs + ws /\ tf = v4 + vs + ws
  <2>1. p = u1 + u2 + u3 + bd /\ bd = v1 + l1
    BY <1>2, <1>3
  <2>2. v1 + u3 = v2 + w2 /\ w2 + u2 = v3 + w3
    BY <1>4, <1>5, <1>6
  <2>3. v2 + u1 = v4 + w4 /\ w4 + v3 = vs + ws
    BY <1>3, <1>6, <1>8
  <2>. QED
    BY <1>7, <2>1, <2>2, <2>3
<1>. HIDE DEF u1, u2, u3, v1, v2, v3, v4, vs, w2, w3, w4, ws, p, tf
<1>11. tf + (w3 + l1) = p
  BY <1>9, <1>10
<1>12. t * F + l = x * y
  BY <1>11 DEF tf, w3, p
<1>13. t \in Nat /\ l \in Nat /\ h4 + hs \in Nat
  BY <1>3
<1>14. t \in 0 .. F - 1
  <2>. HIDE DEF t, l
  <2>1. F \in Nat /\ F > 0 /\ x * y < F * F /\ x * y \in Nat /\ x * y = t * F + l
    BY <1>3, <1>12
  <2>. QED
    BY <1>13, <2>1, HighWord
<1>15. h4 + hs \in 0 .. B - 1
  <2> DEFINE g == h4 + hs
  <2>1. B \in Nat /\ B > 0 /\ t < B * B /\ t \in Nat /\ g \in Nat /\ ls \in Nat /\ t = g * B + ls
    BY <1>3, <1>13, <1>14
  <2>. HIDE DEF g, t
  <2>2. g \in 0 .. B - 1
    BY <2>1, HighWord
  <2>. QED
    BY <2>2 DEF g
<1>. QED
  BY <1>12, <1>15

LEMMA CnMulExact ==
  ASSUME IU!WidthAssumption, NEW p \in 0 .. IU!Full - 1, NEW q \in 0 .. IU!Full - 1
  PROVE  LET r == IU!cn_mul128(p, q)
         IN  r.hi * IU!Full + r.lo = p * q
<1> DEFINE B == IU!Half
           F == IU!Full
           a == IU!hi_dword(p)
           b == IU!lo_dword(p)
           c == IU!hi_dword(q)
           d == IU!lo_dword(q)
           u1 == IU!umlal(0, 0, b, d)
           u2 == IU!umlal(u1.hi, 0, b, c)
           u3 == IU!umlal(u2.lo, 0, a, d)
           u4 == IU!umlal(u2.hi, 0, a, c)
           sum == u4.lo + u3.hi
           hs == IU!hi_dword(sum)
           ls == IU!lo_dword(sum)
           r == IU!cn_mul128(p, q)
<1>1. B \in Nat /\ B > 1 /\ F \in Nat /\ F > 1 /\ F = B * B
  BY WordSizes
<1>2. Factors(B, F, p, q, a, b, c, d)
  BY TwoWords
<1>3. r = [hi |-> ((u4.hi + hs) % B) * B + ls, lo |-> u3.lo * B + u1.lo]
  BY Zenon DEF IU!cn_mul128
<1>4. a \in 0 .. B - 1 /\ b \in 0 .. B - 1 /\ c \in 0 .. B - 1 /\ d \in 0 .. B - 1 /\ 0 \in 0 .. B - 1
  BY <1>1, <1>2 DEF Factors
<1>. HIDE DEF F, a, b, c, d, r
<1>5. u1.lo \in 0 .. B - 1 /\ u1.hi \in 0 .. B - 1 /\ 0 + (b * d) = u1.hi * B + u1.lo
  BY <1>4, UmlalFits
<1>. HIDE DEF u1
<1>6. u2.lo \in 0 .. B - 1 /\ u2.hi \in 0 .. B - 1 /\ u1.hi + (b * c) = u2.hi * B + u2.lo
  BY ZenonT(60), <1>4, <1>5, UmlalFits
<1>. HIDE DEF u2
<1>7. u3.lo \in 0 .. B - 1 /\ u3.hi \in 0 .. B - 1 /\ u2.lo + (a * d) = u3.hi * B + u3.lo
  BY ZenonT(60), <1>4, <1>6, UmlalFits
<1>8. u4.lo \in 0 .. B - 1 /\ u4.hi \in 0 .. B - 1 /\ u2.hi + (a * c) = u4.hi * B + u4.lo
  BY ZenonT(60), <1>4, <1>6, UmlalFits
<1>. HIDE DEF u3, u4
<1>9. sum \in Nat
  BY <1>1, <1>7, <1>8
<1>10. hs \in Nat /\ ls \in 0 .. B - 1 /\ sum = hs * B + ls
  <2>. HIDE DEF sum
  <2>. QED
    BY <1>9, Dwords
<1>. HIDE DEF hs, ls, B
<1>11. b * d = u1.hi * B + u1.lo
  <2>1. b * d \in Nat
    BY <1>1, <1>4, Room
  <2>. QED
    BY <1>5, <2>1
<1>12. /\ u1.hi \in Nat /\ u2.hi \in Nat /\ u2.lo \in Nat /\ u3.hi \in Nat
       /\ u4.hi \in Nat /\ u4.lo \in Nat
  BY <1>1, <1>5, <1>6, <1>7, <1>8
<1>13. CnMulSteps(B, a, b, c, d, u1.hi, u1.lo, u2.hi, u2.lo, u3.hi, u3.lo, u4.hi, u4.lo, hs, ls)
  BY <1>5, <1>6, <1>7, <1>8, <1>10, <1>11, <1>12 DEF CnMulSteps
<1>14. /\ ((u4.hi + hs) * B + ls) * F + (u3.lo * B + u1.lo) = p * q
       /\ u4.hi + hs \in 0 .. B - 1
  BY <1>2, <1>13, CnMulSum
<1>15. (u4.hi + hs) % B = u4.hi + hs
  <2> DEFINE g == u4.hi + hs
  <2>1. g \in 0 .. B - 1 /\ B > 0
    BY <1>1, <1>14
  <2>. HIDE DEF g
  <2>2. g % B = g
    BY <1>1, <2>1, Remains
  <2>. QED
    BY <2>2 DEF g
<1>16. r.hi = (u4.hi + hs) * B + ls /\ r.lo = u3.lo * B + u1.lo
  BY <1>3, <1>15
<1>17. r.hi * F + r.lo = p * q
  BY <1>14, <1>16
<1>. QED
  BY <1>17 DEF r, F

(* Long division: a remainder below the divisor keeps the next quotient    *)
(* below the base.                                                         *)
LEMMA DivisionStep ==
  ASSUME NEW B \in Nat, B > 1, NEW d \in Nat, d > 0, NEW D \in 0 .. B - 1, NEW c \in 0 .. d - 1,
         NEW n, n = D + c * B
  PROVE  /\ n \div d \in 0 .. B - 1 /\ n % d \in 0 .. d - 1
         /\ D + c * B = (n \div d) * d + (n % d)
<1> DEFINE q == n \div d
           r == n % d
           cB == c * B
<1>1. cB \in Nat /\ cB <= (d - 1) * B /\ (d - 1) * B = d * B - B
  BY SMT
<1>2. n = D + cB
  OBVIOUS
<1>. HIDE DEF cB
<1>3. n \in Nat
  BY <1>1, <1>2
<1>4. q \in Nat /\ r \in 0 .. d - 1 /\ n = q * d + r
  BY <1>3, Divided
<1>. HIDE DEF q, r
<1>5. n < d * B
  <2> DEFINE dB == d * B
  <2>1. dB \in Nat
    BY SMT
  <2>2. cB <= dB - B
    BY <1>1
  <2>. HIDE DEF dB
  <2>3. n < dB
    BY <1>1, <1>2, <2>1, <2>2
  <2>. QED
    BY <2>3 DEF dB
<1>6. q < B
  <2>1. q * d < d * B
    <3> DEFINE qd == q * d
               dB == d * B
    <3>1. qd \in Nat /\ dB \in Nat /\ n = qd + r /\ n < dB /\ r >= 0 /\ r \in Int
      BY <1>4, <1>5
    <3>. HIDE DEF qd, dB
    <3>2. qd < dB
      BY <3>1
    <3>. QED
      BY <3>2 DEF qd, dB
  <2>2. q >= B => q * d >= B * d
    BY <1>4, SMT
  <2>. QED
    BY <1>4, <2>1, <2>2, SMT
<1>. QED
  BY <1>4, <1>6 DEF q, r

DigitSteps(B, d, D1, D0, c, q1, r1, q0, r0) ==
  /\ B \in Nat /\ d \in Nat /\ D1 \in Nat /\ D0 \in Nat /\ c \in Nat
  /\ q1 \in Nat /\ r1 \in Nat /\ q0 \in Nat /\ r0 \in Nat
  /\ D1 + c * B = q1 * d + r1 /\ D0 + r1 * B = q0 * d + r0

LEMMA TwoDigits ==
  ASSUME NEW B, NEW d, NEW D1, NEW D0, NEW c, NEW q1, NEW r1, NEW q0, NEW r0,
         DigitSteps(B, d, D1, D0, c, q1, r1, q0, r0)
  PROVE  c * (B * B) + (D1 * B + D0) = (q1 * B + q0) * d + r0
<1>. USE DEF DigitSteps
<1>1. (D1 + c * B) * B = D1 * B + c * (B * B)
  BY SMT
<1>2. (q1 * d + r1) * B = (q1 * B) * d + r1 * B
  BY SMT
<1>3. (q1 * B + q0) * d = (q1 * B) * d + q0 * d
  BY SMT
<1> DEFINE u1 == D1 * B
           u2 == c * (B * B)
           u3 == (q1 * B) * d
           u4 == r1 * B
           u5 == q0 * d
           u6 == (q1 * B + q0) * d
<1>4. /\ u1 \in Int /\ u2 \in Int /\ u3 \in Int /\ u4 \in Int /\ u5 \in Int /\ u6 \in Int
      /\ u1 + u2 = u3 + u4 /\ D0 + u4 = u5 + r0 /\ u6 = u3 + u5
  BY <1>1, <1>2, <1>3
<1>. HIDE DEF u1, u2, u3, u4, u5, u6
<1>5. u2 + (u1 + D0) = u6 + r0
  BY <1>4
<1>. QED
  BY <1>5 DEF u1, u2, u6

LEMMA QuotientWord ==
  ASSUME NEW B \in Nat, B > 1, NEW q1 \in 0 .. B - 1, NEW q0 \in 0 .. B - 1
  PROVE  (q1 * B) % (B * B) = q1 * B /\ q1 * B + q0 \in 0 .. B * B - 1
<1> DEFINE F == B * B
           u == q1 * B
<1>1. u \in Nat /\ u <= (B - 1) * B /\ (B - 1) * B = F - B /\ F \in Nat
  BY SMT
<1>. HIDE DEF F, u
<1>2. u \in 0 .. F - 1 /\ F > 0 /\ u + q0 \in 0 .. F - 1
  BY <1>1
<1>3. u % F = u
  BY <1>1, <1>2, Remains
<1>. QED
  BY <1>2, <1>3 DEF F, u

LEMMA DivStepDef ==
  ASSUME IU!WidthAssumption, NEW D \in 0 .. IU!Half - 1, NEW d \in Nat, d > 0, NEW c \in 0 .. d - 1
  PROVE  LET e == IU!div_with_reminder(D, c, d)
         IN  /\ e.q \in 0 .. IU!Half - 1 /\ e.r \in 0 .. d - 1
             /\ D + c * IU!Half = e.q * d + e.r
<1> DEFINE B == IU!Half
           n == D + c * B
           e == IU!div_with_reminder(D, c, d)
<1>1. B \in Nat /\ B > 1
  BY WordSizes
<1>2. e = [q |-> n \div d, r |-> n % d]
  BY Zenon DEF IU!div_with_reminder
<1>3. D \in 0 .. B - 1
  OBVIOUS
<1>. HIDE DEF B, e
<1>4. /\ n \div d \in 0 .. B - 1 /\ n % d \in 0 .. d - 1
      /\ D + c * B = (n \div d) * d + (n % d)
  BY <1>1, <1>3, DivisionStep
<1>. HIDE DEF n
<1>5. e.q = n \div d /\ e.r = n % d
  BY <1>2
<1>6. e.q \in 0 .. B - 1 /\ e.r \in 0 .. d - 1 /\ D + c * B = e.q * d + e.r
  BY <1>4, <1>5
<1>. QED
  BY <1>6 DEF e, B

LEMMA Div128Exact ==
  ASSUME IU!WidthAssumption, NEW p \in 0 .. IU!Full - 1, NEW q \in 0 .. IU!Full - 1,
         NEW d \in 1 .. IU!Half - 1
  PROVE  LET r == IU!div128_32(p, q, d)
         IN  /\ (r.hi * IU!Full + r.lo) * d + r.r = p * IU!Full + q
             /\ r.r < d /\ r.hi < IU!Full /\ r.lo < IU!Full
<1> DEFINE B == IU!Half
           F == IU!Full
           D3 == IU!hi_dword(p)
           D2 == IU!lo_dword(p)
           D1 == IU!hi_dword(q)
           D0 == IU!lo_dword(q)
           d3 == IU!div_with_reminder(D3, 0, d)
           d2 == IU!div_with_reminder(D2, d3.r, d)
           d1 == IU!div_with_reminder(D1, d2.r, d)
           d0 == IU!div_with_reminder(D0, d1.r, d)
           r == IU!div128_32(p, q, d)
           h == d3.q * B + d2.q
           l == d1.q * B + d0.q
<1>1. B \in Nat /\ B > 1 /\ F \in Nat /\ F > 1 /\ F = B * B
  BY WordSizes
<1>2. /\ D3 \in 0 .. B - 1 /\ D2 \in 0 .. B - 1 /\ D1 \in 0 .. B - 1 /\ D0 \in 0 .. B - 1
      /\ p = D3 * B + D2 /\ q = D1 * B + D0
  BY TwoWords DEF Factors
<1>3. r = [hi |-> ((d3.q * B) % F) + d2.q, lo |-> ((d1.q * B) % F) + d0.q, r |-> d0.r]
  BY Zenon DEF IU!div128_32
<1>4. d \in Nat /\ d > 0 /\ 0 \in 0 .. d - 1
  BY <1>1
<1>. HIDE DEF F, D3, D2, D1, D0, r
<1>5. d3.q \in 0 .. B - 1 /\ d3.r \in 0 .. d - 1 /\ D3 + 0 * B = d3.q * d + d3.r
  BY <1>2, <1>4, DivStepDef
<1>. HIDE DEF d3
<1>6. d2.q \in 0 .. B - 1 /\ d2.r \in 0 .. d - 1 /\ D2 + d3.r * B = d2.q * d + d2.r
  BY <1>2, <1>4, <1>5, DivStepDef
<1>. HIDE DEF d2
<1>7. d1.q \in 0 .. B - 1 /\ d1.r \in 0 .. d - 1 /\ D1 + d2.r * B = d1.q * d + d1.r
  BY <1>2, <1>4, <1>6, DivStepDef
<1>. HIDE DEF d1
<1>8. d0.q \in 0 .. B - 1 /\ d0.r \in 0 .. d - 1 /\ D0 + d1.r * B = d0.q * d + d0.r
  BY <1>2, <1>4, <1>7, DivStepDef
<1>. HIDE DEF d0, B
<1>9. /\ (d3.q * B) % F = d3.q * B /\ h \in 0 .. F - 1
      /\ (d1.q * B) % F = d1.q * B /\ l \in 0 .. F - 1
  BY <1>1, <1>5, <1>6, <1>7, <1>8, QuotientWord
<1>10. r.hi = h /\ r.lo = l /\ r.r = d0.r
  BY <1>3, <1>9
<1>11. /\ D3 \in Nat /\ D2 \in Nat /\ D1 \in Nat /\ D0 \in Nat
       /\ d3.q \in Nat /\ d3.r \in Nat /\ d2.q \in Nat /\ d2.r \in Nat
       /\ d1.q \in Nat /\ d1.r \in Nat /\ d0.q \in Nat /\ d0.r \in Nat
  BY <1>1, <1>2, <1>4, <1>5, <1>6, <1>7, <1>8
<1>12. 0 * (B * B) + (D3 * B + D2) = h * d + d2.r
  <2>1. DigitSteps(B, d, D3, D2, 0, d3.q, d3.r, d2.q, d2.r)
    BY <1>1, <1>4, <1>5, <1>6, <1>11 DEF DigitSteps
  <2>. QED
    BY <2>1, TwoDigits
<1>13. d2.r * F + q = l * d + d0.r
  <2>1. d2.r * (B * B) + (D1 * B + D0) = (d1.q * B + d0.q) * d + d0.r
    <3>1. DigitSteps(B, d, D1, D0, d2.r, d1.q, d1.r, d0.q, d0.r)
      BY <1>1, <1>4, <1>7, <1>8, <1>11 DEF DigitSteps
    <3>. QED
      BY <3>1, TwoDigits
  <2>. QED
    BY <1>1, <1>2, <2>1
<1>14. p = h * d + d2.r
  <2>1. p \in Nat /\ p = D3 * B + D2
    BY <1>1, <1>2
  <2>2. 0 * (B * B) + p = p
    BY <1>1, <2>1
  <2>. QED
    BY <1>12, <2>1, <2>2
<1>. HIDE DEF h, l
<1>15. (h * F + l) * d + d0.r = p * F + q
  <2>1. h \in Nat /\ l \in Nat /\ p \in Nat /\ q \in Nat
    BY <1>1, <1>9 DEF F
  <2>2. p * F = (h * d) * F + d2.r * F
    <3>1. (h * d + d2.r) * F = (h * d) * F + d2.r * F
      BY <1>1, <1>4, <1>11, <2>1, SMT
    <3>. QED
      BY <1>14, <3>1
  <2>3. (h * F + l) * d = (h * d) * F + l * d
    BY <1>1, <1>4, <2>1, SMT
  <2> DEFINE u1 == (h * d) * F
             u2 == d2.r * F
             u3 == l * d
             u4 == p * F
             u5 == (h * F + l) * d
  <2>4. /\ u1 \in Int /\ u2 \in Int /\ u3 \in Int /\ q \in Int /\ d0.r \in Int
        /\ u4 = u1 + u2 /\ u5 = u1 + u3 /\ u2 + q = u3 + d0.r
    BY <1>1, <1>4, <1>11, <1>13, <2>1, <2>2, <2>3
  <2>. HIDE DEF u1, u2, u3, u4, u5
  <2>5. u5 + d0.r = u4 + q
    BY <2>4
  <2>. QED
    BY <2>5 DEF u4, u5
<1>16. /\ (r.hi * F + r.lo) * d + r.r = p * F + q
       /\ r.r < d /\ r.hi < F /\ r.lo < F
  <2>1. d0.r < d /\ h < F /\ l < F
    BY <1>1, <1>4, <1>8, <1>9
  <2>. QED
    BY <1>10, <1>15, <2>1
<1>. QED
  BY <1>16 DEF r, F

(* The products of mul128, of mul for ARM and of cn_mul128 have the right  *)
(* high and low words for every pair of operands and every width of a      *)
(* dword, no carry is lost, the assertion ac <= *product_hi of mul128      *)
(* holds, and div128_32 divides every pair of words by every dword but 0.  *)
THEOREM IntegersAreExact ==
  ASSUME IU!WidthAssumption
  PROVE  IU!Spec => [](IU!ProductIsExact /\ IU!DivisionIsExact)
<1>1. IU!Init => WordsInv
  <2>1. IU!Full \in Nat /\ IU!Full > 1
    BY WordSizes
  <2>2. 0 \in 0 .. IU!Full - 1
    BY <2>1
  <2>. QED
    BY <2>2 DEF IU!Init, WordsInv, IU!WidthAssumption
<1>2. WordsInv /\ [IU!Next]_<<word1, word2>> => WordsInv'
  <2> SUFFICES ASSUME WordsInv, [IU!Next]_<<word1, word2>>
               PROVE  WordsInv'
    OBVIOUS
  <2> DEFINE F == IU!Full
  <2>1. F \in Nat /\ F > 1 /\ F' = F
    BY WordSizes DEF IU!Full, IU!Half
  <2>2. CASE IU!Next
    <3>1. (word1 + 1) % F \in 0 .. F - 1
      <4>1. word1 + 1 \in Nat /\ F > 0
        BY <2>1 DEF WordsInv
      <4>. HIDE DEF F
      <4>. QED
        BY <2>1, <4>1, Divided
    <3>. QED
      BY <2>1, <2>2, <3>1 DEF WordsInv, IU!Next
  <2>3. CASE UNCHANGED <<word1, word2>>
    BY <2>1, <2>3 DEF WordsInv
  <2>. QED
    BY <2>2, <2>3
<1>3. WordsInv => IU!ProductIsExact /\ IU!DivisionIsExact
  <2> SUFFICES ASSUME WordsInv
               PROVE  IU!ProductIsExact /\ IU!DivisionIsExact
    OBVIOUS
  <2>1. word1 \in 0 .. IU!Full - 1 /\ word2 \in 0 .. IU!Full - 1
    BY DEF WordsInv
  <2>2. IU!ProductIsExact
    BY <2>1, Mul128Exact, MulArmExact, CnMulExact DEF IU!ProductIsExact
  <2>3. IU!DivisionIsExact
    BY <2>1, Div128Exact DEF IU!DivisionIsExact
  <2>. QED
    BY <2>2, <2>3
<1>. QED
  BY <1>1, <1>2, <1>3, PTL DEF IU!Spec
=============================================================================
