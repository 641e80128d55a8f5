------------------------------- MODULE EMVData --------------------------------
(***************************************************************************)
(* Field 55 as internal/scheme/emv.go reads and writes it: a sequence of   *)
(* tags, each with a length and a value, over bytes 0 .. 255.  The hex     *)
(* text around the bytes, and the names of tags, are left out.             *)
(***************************************************************************)
EXTENDS Integers, Sequences, SequencesExt

CONSTANT Word  \* values of an int, 2^64; the upper half are the negative ones

ASSUME WordAssumption == Word \in Nat /\ Word >= 256 * 256

Byte == 0 .. 255

\* data[pos] & 0x1F == 0x1F, and data[pos] & 0x80 # 0
TwoByteTag(b) == b % 32 = 31
LongForm(b)   == b >= 128

\* Length, most significant byte first; an int drops what does not fit.
BigEndian(bytes) ==
    LET value[i \in 0 .. Len(bytes)] == IF i = 0 THEN 0 ELSE (256 * value[i - 1] + bytes[i]) % Word
    IN  value[Len(bytes)]

\* A fault: a value that the data end within is cut short.
CutEnd(data, pos, n) == IF pos + n - 1 <= Len(data) THEN pos + n - 1 ELSE Len(data)

\* The position, counted from 1, of the last of n bytes from pos; whether they
\* are there; and the bytes.
End(data, pos, n)   == pos + n - 1
Has(data, pos, n)   == pos <= Len(data) + 1 /\ End(data, pos, n) <= Len(data)
Slice(data, pos, n) == SubSeq(data, pos, End(data, pos, n))

------------------------------------------------------------------------------
\* One round of the loop of ParseEMVData from position pos: the tag and the
\* position after it.  An item that the data end within ends the loop, and is
\* no error.  One whose end is no positive int passes the check of the code, and
\* taking its value panics: nothing is returned, which is written as a last tag.
Panic == [panic |-> TRUE]

Item(data, pos) ==
    LET tagLen == IF TwoByteTag(data[pos]) THEN 2 ELSE 1
        lenPos == pos + tagLen
        count  == IF LongForm(data[lenPos]) THEN data[lenPos] % 128 ELSE 0
        valPos == lenPos + 1 + count
        length == IF LongForm(data[lenPos]) THEN BigEndian(Slice(data, lenPos + 1, count))
                  ELSE data[lenPos]
        header == Has(data, lenPos, 1) /\ Has(data, lenPos + 1, count)
        panics == header /\ valPos - 1 + length >= Word \div 2
        whole  == header /\ Has(data, valPos, length)
    IN  [cut  |-> ~panics /\ ~whole,
         tag  |-> IF whole THEN [id |-> Slice(data, pos, tagLen), val |-> Slice(data, valPos, length)]
                  ELSE Panic,
         next |-> IF whole THEN End(data, valPos, length) + 1 ELSE Len(data) + 1]

\* ParseEMVData: the whole items, up to the first one that is cut off.
ParseEMVData(data) ==
    LET from[pos \in 1 .. Len(data) + 1] ==
            IF pos > Len(data) \/ Item(data, pos).cut THEN <<>>
            ELSE <<Item(data, pos).tag>> \o from[Item(data, pos).next]
    IN  from[1]

------------------------------------------------------------------------------
\* A fault: the short form is used up to and including 128.
OffByOneEncodedLength(n) ==
    IF n <= 128 THEN <<n>> ELSE IF n < 256 THEN <<129, n>> ELSE <<130, (n \div 256) % 256, n % 256>>

\* The length bytes of BuildEMVData; byte() keeps the low eight bits.
EncodedLength(n) ==
    IF n < 128 THEN <<n>> ELSE IF n < 256 THEN <<129, n>> ELSE <<130, (n \div 256) % 256, n % 256>>

Encoded(t) == t.id \o EncodedLength(Len(t.val)) \o t.val

BuildEMVData(tags) == FlattenSeq([i \in DOMAIN tags |-> Encoded(tags[i])])
==============================================================================
