-------------------------------- MODULE Text --------------------------------
(***************************************************************************)
(* The conversions of src/src/mw/util.c between numbers and strings.  A    *)
(* string is a sequence of characters; the digits are numbers, as if the   *)
(* code of '0' were subtracted from each character.  A pointer into it is  *)
(* an index, and its terminator follows its last character.                *)
(***************************************************************************)
EXTENDS Integers, Sequences, SequencesExt

Digit == 0 .. 9
Dot == 10
Letter == 11
End == 12
NULL == -1

At(s, i) == IF i <= Len(s) THEN s[i] ELSE End

-----------------------------------------------------------------------------
(* Reading.                                                                *)

\* The length of the number at i, as far as it is looked at: 4 is too long.
Length(s, i) ==
    CHOOSE n \in 0 .. 4 :
        /\ \A k \in 0 .. n - 1 : At(s, i + k) \in Digit
        /\ n = 4 \/ At(s, i + n) \notin Digit

\* The first place from i on where a loop that skips these places stops.
Skip(s, i, places) ==
    CHOOSE j \in i .. Len(s) + 1 : j \notin places /\ i .. j - 1 \subseteq places

Zeros(s) == {k \in DOMAIN s : s[k] = 0}

\* The last digit is not looked at.
TooBig_Bug(s, i) ==
    \/ At(s, i) > 2
    \/ (At(s, i) = 2 /\ At(s, i + 1) > 5)

\* Three digits are more than 255.
TooBig(s, i) ==
    \/ At(s, i) > 2
    \/ (At(s, i) = 2 /\ At(s, i + 1) > 5)
    \/ (At(s, i) = 2 /\ At(s, i + 1) = 5 /\ At(s, i + 2) > 5)

\* Where the number at i ends.
str_is_uint8(s, i) ==
    LET j == Skip(s, i, {k \in Zeros(s) : At(s, k + 1) \in Digit})
        n == Length(s, j)
    IN  IF n \in {0, 4} \/ (n = 3 /\ TooBig(s, j)) THEN NULL ELSE j + n

\* Its up to three digits, by their places.
Counted(s, i, n) ==
    (IF n = 3 THEN 100 * s[i] ELSE 0)
    + (IF n >= 2 THEN 10 * s[i + n - 2] ELSE 0)
    + s[i + n - 1]

\* Where the number at i ends, and its value.  Without a number that is 0.
str_to_uint8(s, i) ==
    LET j == Skip(s, i, Zeros(s))
        n == Length(s, j)
    IN  CASE n = 0 -> [at |-> j, value |-> 0]
          [] n = 4 \/ (n = 3 /\ TooBig(s, j)) -> [at |-> NULL, value |-> 0]
          [] OTHER -> [at |-> j + n, value |-> Counted(s, j, n)]

\* Four numbers with a dot in between, and nothing else.
NextNumber(s, i) ==
    IF i = NULL \/ At(s, i) # Dot THEN NULL ELSE str_is_uint8(s, i + 1)

ip_validate(s) ==
    LET last == NextNumber(s, NextNumber(s, NextNumber(s, str_is_uint8(s, 1))))
    IN  last # NULL /\ At(s, last) = End

\* The four bytes as they lie in memory, and how far the string was read.
NextByte(s, r) ==
    IF r.at = NULL THEN r
    ELSE LET n == str_to_uint8(s, r.at + 1)
         IN  [at |-> n.at, bytes |-> Append(r.bytes, n.value)]

ReadAddress(s) ==
    LET none == [at |-> 0, bytes |-> <<>>]
    IN  NextByte(s, NextByte(s, NextByte(s, NextByte(s, none))))

ip_str_to_uint32(s) ==
    IF ReadAddress(s).at = NULL THEN <<0, 0, 0, 0>> ELSE ReadAddress(s).bytes

-----------------------------------------------------------------------------
(* Writing.                                                                *)

\* The hundreds, the tens if there are any, the ones.
uint8_to_str(n) ==
    LET rest == n % 100
    IN  (IF n > 199 THEN <<2>> ELSE IF n > 99 THEN <<1>> ELSE <<>>)
        \o (IF rest \div 10 > 0 THEN <<rest \div 10>> ELSE <<>>)
        \o <<rest % 10>>

\* The five digits, highest first.
Digits(n) ==
    <<n \div 10000, (n \div 1000) % 10, (n \div 100) % 10, (n \div 10) % 10, n % 10>>

\* Zeros are skipped up to the last digit too.
uint16_to_str_Bug(n) ==
    LET digit == Digits(n)
        first == CHOOSE i \in 1 .. 6 :
                    /\ i = 6 \/ digit[i] # 0
                    /\ \A k \in 1 .. i - 1 : digit[k] = 0
    IN  SubSeq(digit, first, 5)

uint16_to_str(n) ==
    LET digit == Digits(n)
        first == CHOOSE i \in 1 .. 5 :
                    /\ i = 5 \/ digit[i] # 0
                    /\ \A k \in 1 .. i - 1 : digit[k] = 0
    IN  SubSeq(digit, first, 5)

uint8_to_hex_str(n) == <<n \div 16, n % 16>>

\* The number is given by its eight nibbles, highest first.
uint32_to_hex_str(num, pad) ==
    LET written(i) == \/ \E k \in 1 .. i : num[k] # 0
                      \/ 8 - i < pad
                      \/ i = 8
        first == CHOOSE i \in 1 .. 8 : written(i) /\ \A k \in 1 .. i - 1 : ~written(k)
    IN  SubSeq(num, first, 8)

\* The bytes of the address are written as they lie in memory.
uint32_to_ip_str(ip) ==
    FoldLeft(LAMBDA s, b : s \o <<Dot>> \o uint8_to_str(b),
             uint8_to_str(Head(ip)), Tail(ip))

version_cmp(old, new) ==
    LET i == IF new[1] # old[1] THEN 1 ELSE IF new[2] # old[2] THEN 2 ELSE 3
    IN  new[i] - old[i]
=============================================================================
