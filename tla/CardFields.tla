------------------------------ MODULE CardFields ------------------------------
(***************************************************************************)
(* The checks of single fields: card numbers and expiry dates as           *)
(* internal/card accepts them and internal/auth reads them, the schemes of *)
(* internal/scheme, and the amounts of internal/util.                      *)
(*                                                                         *)
(* A byte is its distance from '0' modulo 256, which is what the code      *)
(* computes with, so the digits are 0 .. 9.  A text is a sequence of       *)
(* characters, a character the sequence of its UTF-8 bytes.                *)
(***************************************************************************)
EXTENDS Integers, Sequences, SequencesExt

CONSTANTS
    AmountDigits, \* digits of an amount, 12 in the code; an int64 holds 18
    Instants      \* instants of a month that are told apart, the last one the end

ASSUME FieldAssumption ==
    AmountDigits \in 1 .. 18 /\ Instants \in Nat \ {0, 1}

Digit     == 0 .. 9
WideDigit == <<169, 112>>  \* U+0660, a digit of two bytes
BytesOf(text) == FlattenSeq(text)

------------------------------------------------------------------------------
\* unicode.IsDigit of every character.
isDigits(text) == \A i \in DOMAIN text : text[i] = WideDigit \/ text[i] \in {<<d>> : d \in Digit}

\* A fault: a doubled digit above nine is not reduced.
UnreducedLuhnTerm(b, alt) == IF alt THEN 2 * b ELSE b

\* What a byte adds to the Luhn sum; alt marks every second one from the right.
LuhnTerm(b, alt) ==
    LET d == IF alt THEN 2 * b ELSE b IN IF alt /\ d > 9 THEN d - 9 ELSE d

luhnValid(pan) ==
    LET n == Len(pan)
        sum[i \in 0 .. n] ==
            IF i = 0 THEN 0 ELSE sum[i - 1] + LuhnTerm(pan[i], (n - i) % 2 = 1)
    IN  sum[n] % 10 = 0

\* What CreateCard asks of a number and of an expiry date.
PANAccepted(text)    == text # <<>> /\ isDigits(text) /\ luhnValid(BytesOf(text))
ExpiryAccepted(text) == Len(BytesOf(text)) = 4 /\ isDigits(text)

------------------------------------------------------------------------------
\* An instant is a number of months since January 2000, times Instants, plus
\* the place in the month.  time.Date carries a thirteenth month into January.
StartOfMonth(year, month) == (12 * (year - 2000) + (month - 1)) * Instants

atoi2(b1, b2) == 10 * b1 + b2

\* A fault: the card expires when its last month begins.
EagerExpiryValid(text, now) ==
    LET b == BytesOf(text) IN
    /\ Len(b) = 4 /\ \A i \in 1 .. 4 : b[i] \in Digit
    /\ atoi2(b[3], b[4]) \in 1 .. 12
    /\ now < StartOfMonth(2000 + atoi2(b[1], b[2]), atoi2(b[3], b[4])) - 1

\* The date is YYMM, and now lies before the last instant of that month.
expiryValidYYMM(text, now) ==
    LET b == BytesOf(text) IN
    /\ Len(b) = 4 /\ \A i \in 1 .. 4 : b[i] \in Digit
    /\ atoi2(b[3], b[4]) \in 1 .. 12
    /\ now < StartOfMonth(2000 + atoi2(b[1], b[2]), atoi2(b[3], b[4]) + 1) - 1

------------------------------------------------------------------------------
\* The prefixes of binRanges with the lengths of the numbers they stand for.
Sixteen(prefixes, s) == {[prefix |-> p, lens |-> 16 .. 16, scheme |-> s] : p \in prefixes}

\* A fault: the last block of 2221 to 2720 is entered as 272.
WideMastercardPrefixes ==
    {<<5, d>> : d \in 1 .. 5} \cup {<<2, 2, 2, d>> : d \in 1 .. 9} \cup {<<2, 2, d>> : d \in 3 .. 9}
    \cup {<<2, d>> : d \in 3 .. 6} \cup {<<2, 7, d>> : d \in 0 .. 2}

MastercardPrefixes ==
    {<<5, d>> : d \in 1 .. 5} \cup {<<2, 2, 2, d>> : d \in 1 .. 9} \cup {<<2, 2, d>> : d \in 3 .. 9}
    \cup {<<2, d>> : d \in 3 .. 6} \cup {<<2, 7, d>> : d \in 0 .. 1} \cup {<<2, 7, 2, 0>>}

binRanges ==
    Sixteen({<<9, 7, 9, 2>>}, "TROY") \cup Sixteen(MastercardPrefixes, "MASTERCARD")
    \cup {[prefix |-> <<4>>, lens |-> 13 .. 19, scheme |-> "VISA"]}

\* A number is its first digits and its length.  The code takes the first entry
\* that matches; no two schemes have a prefix in common.
DetectScheme(start, length) ==
    LET found == {e \in binRanges : IsPrefix(e.prefix, start) /\ length \in e.lens}
    IN  IF length < 13 \/ found = {} THEN "UNKNOWN" ELSE (CHOOSE e \in found : TRUE).scheme

IsValidPANLength(start, length) ==
    IF DetectScheme(start, length) \in {"MASTERCARD", "TROY"}
    THEN length = 16 ELSE length \in 13 .. 19

------------------------------------------------------------------------------
\* ParseAmount12: the value, or -1 for an error.
AmountError == -1

\* A fault: a byte that is no digit counts as zero.
LenientParseAmount12(bytes) ==
    LET v[i \in 0 .. Len(bytes)] ==
            IF i = 0 THEN 0 ELSE 10 * v[i - 1] + (IF bytes[i] \in Digit THEN bytes[i] ELSE 0)
    IN  IF Len(bytes) # AmountDigits THEN AmountError ELSE v[Len(bytes)]

ParseAmount12(bytes) ==
    LET v[i \in 0 .. Len(bytes)] == IF i = 0 THEN 0 ELSE 10 * v[i - 1] + bytes[i]
    IN  IF Len(bytes) # AmountDigits \/ \E i \in DOMAIN bytes : bytes[i] \notin Digit
        THEN AmountError ELSE v[Len(bytes)]
==============================================================================
