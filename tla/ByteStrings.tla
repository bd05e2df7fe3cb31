----------------------------- MODULE ByteStrings -----------------------------
(***************************************************************************)
(* The byte-order and string functions of string_utility.c.  Each is an    *)
(* operator; what varies between builds, the byte order of the host, is a  *)
(* parameter.  A behaviour is one call: its arguments, then its result.    *)
(* Positions in arrays are counted from 1, as in TLA+.                     *)
(***************************************************************************)
EXTENDS Integers, Sequences, SequencesExt

CONSTANTS BYTE,     \* how many values a byte has (256), at least 3
          Symbols,  \* bytes that occur in the arrays searched
          MaxArray, MaxNeedle, MaxString, \* bounds: lengths of the arguments
          NULL

Bytes  == 0 .. BYTE - 1
Orders == {"BENDIAN", "LENDIAN"}
Blank  == 0    \* a character for which isspace holds, in strings to be trimmed

VARIABLES host, call, result
vars == <<host, call, result>>

-------------------------------------------------------------------------------
(* Byte order *)

(* How many values n bytes have. *)
Power[n \in 0 .. 4] == IF n = 0 THEN 1 ELSE Power[n - 1] * BYTE

(* An unsigned of n bytes, most significant byte first, and as the host      *)
(* keeps it in memory; and the value the host finds in memory.               *)
Digits(x, n) == [k \in 1 .. n |-> (x \div Power[n - k]) % BYTE]

Value(s) ==
  LET v[k \in 0 .. Len(s)] == IF k = 0 THEN 0 ELSE v[k - 1] * BYTE + s[k]
  IN  v[Len(s)]

Memory(h, x, n) == IF h = "BENDIAN" THEN Digits(x, n) ELSE Reverse(Digits(x, n))
Load(h, s)      == Value(IF h = "BENDIAN" THEN s ELSE Reverse(s))

(* The first byte of 0x1234. *)
checkNativeEndianness(h) == IF Memory(h, BYTE + 2, 2)[1] = 1 THEN "BENDIAN" ELSE "LENDIAN"

reverse32(h, data) == Load(h, Digits(data, 4))

(* Two's complement arithmetic: the byte moved up is cut off by the type.    *)
reverse16(data) == (((data \div BYTE) % BYTE) + data * BYTE) % Power[2]

(* At most four bytes: the shift by more than the width of an int is         *)
(* undefined.  The sum is reduced to the width of the result.                *)
WeightOffByOne(len, i, order) == Power[IF order = "BENDIAN" THEN len - i + 1 ELSE i - 1]
Weight(len, i, order)         == Power[IF order = "BENDIAN" THEN len - i ELSE i - 1]

string2uint(s, order) ==
  LET r[i \in 0 .. Len(s)] ==
        IF i = 0 THEN 0 ELSE (r[i - 1] + s[i] * Weight(Len(s), i, order)) % Power[4]
  IN  r[Len(s)]

-------------------------------------------------------------------------------
(* Arrays and strings *)

(* How many bytes of needle are found at position p, before the first that   *)
(* differs: the inner loop of strstr_Arr.                                    *)
Matched(haystack, needle, p) ==
  LET m[j \in 0 .. Len(needle)] ==
        IF j < Len(needle) /\ haystack[p + j] = needle[j + 1] THEN m[j + 1] ELSE j
  IN  m[0]

MoreThanEnough(left, needle) == left > Len(needle)
Enough(left, needle)     == left >= Len(needle)

strstr_Arr(haystack, needle) ==
  LET from[p \in 1 .. Len(haystack) + 1] ==
        IF p > Len(haystack) \/ ~Enough(Len(haystack) - p + 1, needle) THEN NULL
        ELSE IF Matched(haystack, needle, p) = Len(needle) THEN p
        ELSE from[p + 1]
  IN  IF haystack = <<>> \/ needle = <<>> THEN NULL ELSE from[1]

(* The string string_trim returns, a part of its argument's memory. *)
string_trim(s) ==
  LET first[p \in 1 .. Len(s) + 1] ==
        IF p <= Len(s) /\ s[p] = Blank THEN first[p + 1] ELSE p
      copy == first[1]
      end[p \in 0 .. Len(s)] ==
        IF p > copy /\ s[p] = Blank THEN end[p - 1] ELSE p
  IN  SubSeq(s, copy, end[Len(s)])

(* The last character is not looked at. *)
LookedAtLess(s) == 1 .. Len(s) - 2
LookedAt(s)     == 1 .. Len(s) - 1

string_emSpace(s) == IF \E p \in LookedAt(s) : s[p] = Blank THEN -1 ELSE 0

-------------------------------------------------------------------------------
(* Calls *)

Words(n) == 0 .. Power[n] - 1

Calls ==
  [f : {"reverse32"}, x : Words(4)]
  \cup [f : {"reverse16"}, x : Words(2)]
  \cup [f : {"string2uint"}, s : BoundedSeq(Bytes, 4), order : Orders]
  \cup [f : {"strstr_Arr"}, s : BoundedSeq(Symbols, MaxArray),
        needle : BoundedSeq(Symbols, MaxNeedle)]
  \cup [f : {"string_trim"}, s : BoundedSeq(Symbols, MaxString)]

Init == host \in Orders /\ call \in Calls /\ result = NULL

Return ==
  /\ result = NULL
  /\ result' = <<
       CASE call.f = "reverse32"   -> reverse32(host, call.x)
         [] call.f = "reverse16"   -> reverse16(call.x)
         [] call.f = "string2uint" -> string2uint(call.s, call.order)
         [] call.f = "strstr_Arr"  -> strstr_Arr(call.s, call.needle)
         [] call.f = "string_trim" -> string_trim(call.s) >>
  /\ UNCHANGED <<host, call>>

Spec == Init /\ [][Return]_vars

-------------------------------------------------------------------------------
(* Properties *)

Returned(f) == result # NULL /\ call.f = f

(* The functions agree about byte order on hosts of either kind: what        *)
(* reverse32 returns lies in memory most significant byte first, so that it  *)
(* swaps the bytes on a little-endian host only and is the identity on a     *)
(* big-endian one; string2uint reads that back, and reads what the host      *)
(* itself has stored in the order checkNativeEndianness answers.  reverse16  *)
(* swaps on either host, so only on a little-endian one does its result lie  *)
(* in memory most significant byte first.                                    *)
BytesAgree ==
  /\ Returned("reverse32") =>
       /\ string2uint(Memory(host, result[1], 4), "BENDIAN") = call.x
       /\ reverse32(host, result[1]) = call.x
       /\ string2uint(Memory(host, call.x, 4), checkNativeEndianness(host)) = call.x
  /\ Returned("reverse16") =>
       /\ host = "LENDIAN" => Memory(host, result[1], 2) = Digits(call.x, 2)
       /\ reverse16(result[1]) = call.x
  /\ Returned("string2uint") =>
       Digits(result[1], Len(call.s))
         = IF call.order = "BENDIAN" THEN call.s ELSE Reverse(call.s)

(* "... the position at which needle occurs first" (string_utility.c:76): at *)
(* the end of the array and where a match breaks off, too.                   *)
Occurs(s, needle) ==
  {p \in 1 .. Len(s) - Len(needle) + 1 :
     needle # <<>> /\ SubSeq(s, p, p + Len(needle) - 1) = needle}

SearchFindsFirst ==
  Returned("strstr_Arr") =>
    LET found == Occurs(call.s, call.needle) IN
    IF found = {} THEN result[1] = NULL
    ELSE result[1] \in found /\ \A p \in found : result[1] <= p

(* string_trim takes the blanks at both ends and nothing else, down to the   *)
(* empty string; and of its result string_emSpace, which does not look at    *)
(* the last character, says truly whether there is a blank in it.            *)
TrimThenTest ==
  Returned("string_trim") =>
    LET r == result[1] IN
    /\ \E a \in 0 .. Len(call.s) : \E b \in 0 .. Len(call.s) :
         call.s = [k \in 1 .. a |-> Blank] \o r \o [k \in 1 .. b |-> Blank]
    /\ r # <<>> => Head(r) # Blank /\ Last(r) # Blank
    /\ string_emSpace(r) = -1 <=> \E p \in DOMAIN r : r[p] = Blank
===============================================================================
