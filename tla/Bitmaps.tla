------------------------------ MODULE Bitmaps ------------------------------
(***************************************************************************)
(* Strings as bits: SETBIT, GETBIT, BITCOUNT, BITPOS, BITOP and BITFIELD.  *)
(* A value is the sequence of its bits, the highest of each byte first, a  *)
(* multiple of ByteSize long; a missing key reads as an empty one.  Times  *)
(* to live are those of module Strings.                                    *)
(***************************************************************************)
EXTENDS Integers, Sequences, FiniteSets, Functions, TLC

CONSTANTS
    BKeys,
    ByteSize,       \* 8 in the code
    MaxBytes,       \* bound: the longest value
    Sizes,          \* bound: the widths of BITFIELD's integers, at most 64 in the code
    Word            \* the modulus of the cast to an unsigned integer, 2^64 in the code

BitmapsAssumption ==
    /\ ByteSize \in Nat \ {0} /\ MaxBytes \in Nat
    /\ Sizes \subseteq Nat \ {0}
    /\ \A n \in Sizes : Word % (2 ^ n) = 0

VARIABLES
    bits            \* bits[k]
bVars == <<bits>>

-----------------------------------------------------------------------------
GetBit(v, offset) == IF offset < Len(v) THEN v[offset + 1] ELSE 0

(* SETBIT grows the value by whole bytes.                                  *)
Extended(v, offset) ==
    LET needed == ByteSize * (offset \div ByteSize + 1)
    IN  IF Len(v) >= needed THEN v ELSE v \o [i \in 1..needed - Len(v) |-> 0]
SetBit(v, offset, bit) == [Extended(v, offset) EXCEPT ![offset + 1] = bit]

(* BITCOUNT over bytes or bits start..end, either counted from the end.    *)
NotNegative(n) == IF n < 0 THEN 0 ELSE n
FixRangeString(start, end, length) ==
    LET s == IF start < 0 THEN NotNegative(start + length) ELSE start
        e == IF end < 0 THEN NotNegative(end + length) ELSE end
    IN  IF start < 0 /\ start > end THEN <<-1, -1>>
        ELSE <<s, (IF e < length - 1 THEN e ELSE length - 1) + 1>>
Ones(v) == Cardinality({i \in DOMAIN v : v[i] = 1})
BitCount(v, start, end, unit) ==
    LET f == FixRangeString(start, end, Len(v) \div unit)
    IN  Ones(SubSeq(v, f[1] * unit + 1, f[2] * unit))

(* BITPOS; without an end a clear bit is found after the value.            *)
FixRange(start, end, length) ==
    LET s == IF start < 0 THEN NotNegative(start + length) ELSE start
        e == IF end < 0 THEN end + length ELSE end
    IN  IF s > e \/ s >= length THEN <<-1, -1>>
        ELSE <<s, (IF e < length - 1 THEN e ELSE length - 1) + 1>>
Find(v, bit) ==
    LET at == {i \in DOMAIN v : v[i] = bit}
    IN  IF at = {} THEN -1 ELSE (CHOOSE i \in at : \A j \in at : i <= j) - 1
BitPos(v, bit, start, end, endGiven, unit) ==
    LET n == Len(v) \div unit
        f == FixRange(start, IF endGiven THEN end ELSE n, n)
        found == Find(SubSeq(v, f[1] * unit + 1, f[2] * unit), bit)
    IN  IF f[1] = -1 THEN -1
        ELSE IF found # -1 THEN found + f[1] * unit
        ELSE IF bit = 0 /\ ~endGiven THEN Len(v) ELSE -1

(* BITOP stops at the end of the shortest value.  (A missing first key     *)
(* makes the handler raise TypeError; here it reads as an empty one.)      *)
BitOpOf(op, a, b) ==
    LET n == IF Len(a) < Len(b) THEN Len(a) ELSE Len(b)
    IN  [i \in 1..n |-> CASE op = "and" -> a[i] * b[i]
                          [] op = "or" -> IF a[i] + b[i] > 0 THEN 1 ELSE 0
                          [] op = "xor" -> (a[i] + b[i]) % 2]
BitNot(a) == [i \in DOMAIN a |-> 1 - a[i]]

-----------------------------------------------------------------------------
(* BITFIELD.  An encoding is [signed, size].                               *)
Encodings == [signed : BOOLEAN, size : Sizes]
Smallest(enc) == IF enc.signed THEN -(2 ^ (enc.size - 1)) ELSE 0
Largest(enc) == IF enc.signed THEN 2 ^ (enc.size - 1) - 1 ELSE 2 ^ enc.size - 1

BitfieldGet(v, enc, offset) ==
    LET ans[i \in 0..enc.size] ==
            IF i = 0 THEN 0
            ELSE 2 * ans[i - 1] + GetBit(v, offset + i - 1) * (IF enc.signed /\ i = 1 THEN -1 ELSE 1)
    IN  ans[enc.size]

(* The value to be written, given the old one: SET has incr 0, INCRBY      *)
(* starts from the old value.                                              *)
(* Mutant of Saturated. *)
SaturatedUpwards(enc, new, incr) ==
    IF new + incr > Largest(enc) THEN Largest(enc) ELSE new + incr
Saturated(enc, new, incr) ==
    LET up == IF new + incr > Largest(enc) THEN <<Largest(enc), 0>> ELSE <<new, incr>>
    IN  IF (enc.signed \/ up[2] < 0) /\ up[1] + up[2] < Smallest(enc) THEN Smallest(enc)
        ELSE up[1] + up[2]
Normalized(enc, n) ==
    LET low == n % (2 ^ enc.size)
    IN  IF enc.signed /\ low > Largest(enc) THEN low - 2 ^ enc.size ELSE low
BitfieldValue(enc, overflow, new, incr) ==
    LET cast == IF enc.signed THEN new ELSE new % Word
    IN  Normalized(enc, IF overflow = "SAT" THEN Saturated(enc, cast, incr) ELSE cast + incr)
BitfieldFails(enc, overflow, new, incr) ==
    LET cast == IF enc.signed THEN new ELSE new % Word
    IN  overflow = "FAIL" /\ cast + incr \notin Smallest(enc)..Largest(enc)

BitfieldPut(v, enc, offset, n) ==
    LET bit(i) == ((n % (2 ^ enc.size)) \div (2 ^ (enc.size - i - 1))) % 2
        put[i \in 0..enc.size] ==
            IF i = 0 THEN v ELSE SetBit(put[i - 1], offset + i - 1, bit(i - 1))
    IN  put[enc.size]
BitfieldSet(v, enc, offset, overflow, value, incr, isSet) ==
    LET new == IF isSet THEN value ELSE BitfieldGet(v, enc, offset)
    IN  IF BitfieldFails(enc, overflow, new, incr) THEN v
        ELSE BitfieldPut(v, enc, offset, BitfieldValue(enc, overflow, new, incr))

-----------------------------------------------------------------------------
Offsets == 0..ByteSize * MaxBytes - 1
Numbers == {-1, 1, 3}           \* bound: the integers BITFIELD is given
BInit == bits = [k \in BKeys |-> <<>>]
BSetBit(k) ==
    \E offset \in Offsets, bit \in 0..1 : bits' = [bits EXCEPT ![k] = SetBit(@, offset, bit)]
Bitfield(k) ==
    \E enc \in Encodings, offset \in Offsets, overflow \in {"WRAP", "SAT", "FAIL"},
       n \in Numbers, isSet \in BOOLEAN :
        /\ offset + enc.size <= ByteSize * MaxBytes
        /\ bits' = [bits EXCEPT ![k] =
              BitfieldSet(@, enc, offset, overflow, n, IF isSet THEN 0 ELSE n, isSet)]
BitOp(k) ==
    \/ \E k1, k2 \in BKeys, op \in {"and", "or", "xor"} :
          bits' = [bits EXCEPT ![k] = BitOpOf(op, bits[k1], bits[k2])]
    \/ \E k1 \in BKeys : bits' = [bits EXCEPT ![k] = BitNot(bits[k1])]
BNext == \E k \in BKeys : BSetBit(k) \/ Bitfield(k) \/ BitOp(k)
BSpec == BInit /\ [][BNext]_bVars

-----------------------------------------------------------------------------
(* PROPERTIES *)

BitStrings == UNION {[1..ByteSize * n -> 0..1] : n \in 0..MaxBytes}

(* The arithmetic BITFIELD promises: WRAP keeps the low bits, SAT stops at *)
(* the nearest value of the type, FAIL writes nothing that does not fit.   *)
Nearest(enc, n) ==
    IF n < Smallest(enc) THEN Smallest(enc) ELSE IF n > Largest(enc) THEN Largest(enc) ELSE n
FieldIs(enc, overflow, exact, old, got) ==
    LET fits == exact \in Smallest(enc)..Largest(enc)
    IN  CASE overflow = "WRAP" -> got \in Smallest(enc)..Largest(enc)
                                    /\ (got - exact) % (2 ^ enc.size) = 0
          [] overflow = "SAT" -> got = Nearest(enc, exact)
          [] overflow = "FAIL" -> got = IF fits THEN exact ELSE old
(* A field that is set or incremented reads back as that arithmetic says,  *)
(* wherever it lies across bytes, and no bit outside of it changes.  (SET  *)
(* of a negative number in an unsigned field is left out: it counts as a   *)
(* very large one.)                                                        *)
FieldsReadBack(v) ==
    \A enc \in Encodings, offset \in Offsets, overflow \in {"WRAP", "SAT", "FAIL"},
       n \in -3..4, isSet \in BOOLEAN :
        LET w == BitfieldSet(v, enc, offset, overflow, n, IF isSet THEN 0 ELSE n, isSet)
            old == BitfieldGet(v, enc, offset)
        IN  offset + enc.size <= ByteSize * MaxBytes /\ (isSet => enc.signed \/ n >= 0) =>
                /\ FieldIs(enc, overflow, IF isSet THEN n ELSE old + n, old, BitfieldGet(w, enc, offset))
                /\ \A i \in Offsets : i \notin offset..offset + enc.size - 1 => GetBit(w, i) = GetBit(v, i)
                /\ Len(w) % ByteSize = 0 /\ Len(w) >= Len(v)

(* BITCOUNT and BITPOS agree with GETBIT over every range of bytes or bits.*)
CountsAgree(v) ==
    \A unit \in {1, ByteSize}, bit \in 0..1 :
        LET n == Len(v) \div unit
            at(i) == IF i < 0 THEN i + n ELSE i
            within(s, e) == {i \in 0..Len(v) - 1 : NotNegative(at(s)) * unit <= i /\ i < (at(e) + 1) * unit
                                                     /\ GetBit(v, i) = bit}
        IN  \A s, e \in -(n + 1)..n + 1 :
                /\ bit = 1 /\ at(e) >= 0 => BitCount(v, s, e, unit) = Cardinality(within(s, e))
                /\ LET p == BitPos(v, bit, s, e, TRUE, unit)
                   IN  IF within(s, e) = {} THEN p = -1
                       ELSE p \in within(s, e) /\ \A i \in within(s, e) : p <= i
=============================================================================
