------------------------------ MODULE Strings ------------------------------
(***************************************************************************)
(* strings.c.  A character is its code, from -128 to 127 as char is signed, *)
(* and a string the sequence of its characters before the NUL.              *)
(***************************************************************************)
EXTENDS Integers, Sequences

CONSTANTS
    ULONG          \* unsigned long counts modulo this, 2^32 in the code

ASSUME WidthAssumption == ULONG \in Nat \ {0}

NUL   == 0
MINUS == 45
ZERO  == 48

(* s[i], the NUL behind the last character included. *)
Ch(s, i) == IF i < Len(s) THEN s[i + 1] ELSE NUL

(* The least number from i to n of which P holds, if it holds of n. *)
FirstFrom(i, n, P(_)) == CHOOSE k \in i..n : P(k) /\ \A j \in i..(k - 1) : ~P(j)

-----------------------------------------------------------------------------
(* Where the comparison stops: at the end of s1, at a difference, or after   *)
(* len characters.                                                          *)
Differ(s1, s2, len) ==
    FirstFrom(0, Len(s1), LAMBDA k : k \in {Len(s1), len} \/ Ch(s1, k) # Ch(s2, k))

(* Of two strings of which the first begins the other, the second is not     *)
(* greater: at the end of s1 the answer is 0 or 1, and never -1.             *)
strncmp(s1, s2, len) ==
    LET i == Differ(s1, s2, len)
    IN  CASE i < Len(s1) /\ i < len -> IF Ch(s1, i) > Ch(s2, i) \/ Ch(s2, i) = NUL THEN 1 ELSE -1
          [] i = Len(s1) \/ i = len -> IF Ch(s2, i) = NUL THEN 0 ELSE 1

strcmp(s1, s2) == strncmp(s1, s2, Len(s1) + 1)

-----------------------------------------------------------------------------
(* strsplit: every separator ends a string, an empty one too; what is left    *)
(* at the end is one unless it is empty.                                     *)
strsplit(s, separators) ==
    LET end(i) == FirstFrom(i, Len(s), LAMBDA j : j = Len(s) \/ s[j + 1] \in separators)
        Words[i \in 0..Len(s)] ==
            IF i = Len(s) THEN <<>>
            ELSE <<SubSeq(s, i + 1, end(i))>> \o
                 Words[IF end(i) < Len(s) THEN end(i) + 1 ELSE Len(s)]
    IN  Words[0]

-----------------------------------------------------------------------------
(* The value of a digit, or 16 of another character. *)
Digit(c) ==
    CASE c \in 48..57  -> c - 48
      [] c \in 65..70  -> c - 65 + 10
      [] c \in 97..102 -> c - 97 + 10
      [] OTHER         -> 16

isdigit(c, base) == Digit(c) < base

(* What the accumulator of strtol keeps of a number. *)
uint16_t(n) == n % 65536

(* strtol from the i-th character on: the value, and where it stops.         *)
strtol(s, i, base) ==
    LET stop == FirstFrom(i, Len(s), LAMBDA k : k = Len(s) \/ ~isdigit(s[k + 1], base))
        Value[k \in i..stop] ==
            IF k = i THEN 0 ELSE uint16_t(Value[k - 1] * base + Digit(s[k]))
    IN  [value |-> Value[stop], rest |-> stop]

(* strtol with base 0: 0x, 0b, 0 and no prefix. *)
atoi(s) ==
    CASE Ch(s, 0) = ZERO /\ Ch(s, 1) = 120 -> strtol(s, 2, 16).value
      [] Ch(s, 0) = ZERO /\ Ch(s, 1) = 98  -> strtol(s, 2, 2).value
      [] Ch(s, 0) = ZERO /\ Ch(s, 1) \notin {120, 98} -> strtol(s, 1, 8).value
      [] Ch(s, 0) # ZERO -> strtol(s, 0, 10).value

-----------------------------------------------------------------------------
(* itoa_last without the reversal: the least significant digit comes first,  *)
(* behind the sign of a negative decimal.                                    *)
itoa_last(value, base) ==
    LET negative == base = 10 /\ value < 0
        char(d)  == IF d < 10 THEN ZERO + d ELSE 97 + d - 10
        Digits[n \in Nat] ==
            <<char(n % base)>> \o (IF n < base THEN <<>> ELSE Digits[n \div base])
    IN  IF negative THEN <<MINUS>> \o Digits[(-value) % ULONG] ELSE Digits[value % ULONG]

(* Mutant: the padding is put on before the digits are reversed. *)
Padded_Before(digits, pad, n) == [k \in 1..n |-> pad] \o digits

(* The padding goes behind the digits, where the reversal brings it to the   *)
(* front.                                                                   *)
Padded(digits, pad, n) == digits \o [k \in 1..n |-> pad]

(* itoa_s reverses all of it: the sign of a negative number comes last.       *)
itoa_s(value, base, pad, w) ==
    LET digits == itoa_last(value, base)
        all    == Padded(digits, pad, IF w > Len(digits) THEN w - Len(digits) ELSE 0)
    IN  [k \in 1..Len(all) |-> all[Len(all) + 1 - k]]
=============================================================================
