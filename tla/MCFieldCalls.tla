----------------------------- MODULE MCFieldCalls -----------------------------
EXTENDS FieldCalls

Ascii(bytes) == [i \in DOMAIN bytes |-> <<bytes[i]>>]
Letter       == <<17>>

\* All numbers of four digits, and some with a letter or a wide digit.
SomePANs ==
    {Ascii(s) : s \in [1 .. 4 -> Digit]} \cup {<<>>}
    \cup [1 .. 3 -> {<<0>>, <<5>>, <<9>>, Letter, WideDigit}]

\* Dates of four digits, and of fewer characters, wide digits among them.
SomeDates ==
    {Ascii(s) : s \in [1 .. 4 -> {0, 1, 2, 3, 9}]} \cup UpTo({<<1>>, Letter, WideDigit}, 4)

SomeMonths   == 0 .. 26 \cup 1186 .. 1201
AllStarts    == [1 .. 4 -> Digit]
SomeLengths  == {12, 13, 15, 16, 17, 19, 20}
SomeAmounts  == UpTo({0, 1, 9, 17}, 5)

\* One and two tags, with values around the lengths at which the form changes.
SomeTag ==
    {[id |-> i, val |-> [k \in 1 .. n |-> 95]] :
        i \in {<<130>>, <<95, 42>>}, n \in {0, 1, 127, 128, 129, 255, 256, 257}}
SomeTagLists == UpTo(SomeTag, 2)

\* Up to three packets of every length a reader takes, cut off anywhere, and
\* up to two deadlines, anywhere.
SomePackets == {[k \in 1 .. n |-> b] : n \in HeaderLen .. MaxPacket, b \in {0, 1}}
SomeStreams ==
    UNION {[packets : {ps}, arrived : 0 .. Len(FlattenSeq(ps)) + 2 * Len(ps), response : {<<1, 0>>},
            quiet : {{}}] : ps \in UpTo(SomePackets, 3)}
    \cup UNION {[packets : {ps}, arrived : {Len(FlattenSeq(ps)) + 2 * Len(ps)}, response : {<<1, 0>>},
                 quiet : {{j, k} : j, k \in 0 .. (HeaderLen + 4) * Len(ps)}] : ps \in UpTo(SomePackets, 3)}
==============================================================================
