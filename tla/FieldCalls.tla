------------------------------ MODULE FieldCalls ------------------------------
(***************************************************************************)
(* Calls of the functions of CardFields, EMVData, ProcessingCodes and      *)
(* TPDUFraming, one per behaviour: a call has an argument, then a result.  *)
(* The properties compare each result with a definition of what it should  *)
(* be.                                                                     *)
(***************************************************************************)
EXTENDS CardFields, EMVData, ProcessingCodes, TPDUFraming, FiniteSets

CONSTANTS
    PANs,      \* card numbers, as texts
    Dates,     \* expiry dates, as texts
    Months,    \* months since January 2000 in which dates are looked at
    Starts,    \* first four digits of card numbers
    Lengths,   \* lengths of card numbers
    Amounts,   \* amounts, as sequences of bytes
    TagLists,  \* lists of tags to encode
    Bytes,     \* bytes of data to decode
    MaxData,   \* bound: bytes of data to decode
    Streams    \* packets sent to the issuer, how many of their bytes arrive, its
               \* response, and the quiet moments while the switch reads its answers

\* A character is one byte or, in UTF-8, several of which none is a digit's.
Character ==
    {c \in Seq(Byte) : Len(c) = 1 \/ (Len(c) > 1 /\ \A i \in DOMAIN c : c[i] \in 80 .. 207)}

\* An identifier is two bytes if its first says so, and two bytes hold a length.
Tag == {t \in [id : Seq(Byte), val : Seq(Byte)] :
            /\ t.id # <<>> /\ Len(t.id) = IF TwoByteTag(t.id[1]) THEN 2 ELSE 1
            /\ Len(t.val) < 256 * 256}

\* What the code is called with.  The length of a slice is a positive int.
ASSUME InputAssumption ==
    /\ Dates \subseteq Seq(Character) /\ Months \subseteq Nat
    /\ Starts \subseteq [1 .. 4 -> Digit] /\ Lengths \subseteq Nat
    /\ Amounts \subseteq Seq(Byte)
    /\ TagLists \subseteq Seq(Tag)
    /\ Bytes \subseteq Byte /\ MaxData \in Nat /\ MaxData < Word \div 2
    /\ \A s \in Streams :
          /\ s.packets \in Seq(Packet) /\ s.quiet \subseteq Nat
          /\ s.response \in Seq(0 .. Base - 1) /\ HeaderLen + Len(s.response) <= MaxPacket
          /\ s.arrived \in 0 .. Len(FlattenSeq([k \in DOMAIN s.packets |-> Framed(s.packets[k])]))

VARIABLES
    call,   \* the function and its argument
    result  \* what it returned, or Pending

vars == <<call, result>>

Pending == [pending |-> TRUE]

\* The sequences of at most n elements of S.
UpTo(S, n) == UNION {[1 .. k -> S] : k \in 0 .. n}

Calls ==
    [fn : {"pan"}, text : PANs]
    \cup [fn : {"expiry"}, text : Dates, now : {Instants * m + k : m \in Months, k \in 0 .. Instants - 1}]
    \cup [fn : {"scheme"}, start : Starts, length : Lengths]
    \cup [fn : {"amount"}, bytes : Amounts]
    \cup [fn : {"build"}, tags : TagLists]
    \cup [fn : {"parse"}, data : UpTo(Bytes, MaxData)]
    \cup [fn : {"code"}, type : TransactionType, from : AccountType \cup {<<>>},
          to : AccountType \cup {<<>>}]
    \cup [fn : {"stream"}, stream : Streams]

Init == call \in Calls /\ result = Pending

Returns(fn, val) == result = Pending /\ call.fn = fn /\ result' = [val |-> val] /\ UNCHANGED call

CheckPAN     == Returns("pan", PANAccepted(call.text))
CheckExpiry  == Returns("expiry", [accepted |-> ExpiryAccepted(call.text),
                                   valid |-> expiryValidYYMM(call.text, call.now)])
FindScheme   == Returns("scheme", [scheme |-> DetectScheme(call.start, call.length),
                                   ok |-> IsValidPANLength(call.start, call.length)])
ReadAmount   == Returns("amount", ParseAmount12(call.bytes))
BuildTags    == Returns("build", BuildEMVData(call.tags))
ParseTags    == Returns("parse", ParseEMVData(call.data))

\* The issuer answers what it reads of the packets; the switch reads the answers.
Exchange ==
    LET sent    == FlattenSeq([k \in DOMAIN call.stream.packets |-> Framed(call.stream.packets[k])])
        read    == readTPDUFrames(SubSeq(sent, 1, call.stream.arrived))
        answers == [k \in DOMAIN read |-> writeTPDUFrame(call.stream.response, read[k])]
    IN  Returns("stream", [read |-> read, answers |-> answers,
                           heard |-> Listened(FlattenSeq(answers), call.stream.quiet)])

CodeOf       == Returns("code", GetProcessingCode(call.type, call.from, call.to))

Next ==
    CheckPAN \/ CheckExpiry \/ FindScheme \/ ReadAmount \/ BuildTags \/ ParseTags \/ CodeOf \/ Exchange

Spec == Init /\ [][Next]_vars

------------------------------------------------------------------------------
Done(fn) == call.fn = fn /\ result # Pending

\* CreateCard's check of a number catches every wrong digit, and every swap of
\* two neighbours but 0 and 9; and each number has one check digit.
LuhnCatchesTypos ==
    Done("pan") /\ call.text \in Seq({<<d>> : d \in Digit}) \ {<<>>} =>
        LET pan == call.text
            n   == Len(pan)
        IN  /\ result.val =>
                 /\ \A i \in 1 .. n, d \in Digit :
                       <<d>> # pan[i] => ~PANAccepted([pan EXCEPT ![i] = <<d>>])
                 /\ \A i \in 1 .. n - 1 :
                       pan[i] # pan[i + 1] /\ {pan[i], pan[i + 1]} # {<<0>>, <<9>>}
                         => ~PANAccepted([pan EXCEPT ![i] = pan[i + 1], ![i + 1] = pan[i]])
            /\ \E d \in Digit : PANAccepted([pan EXCEPT ![n] = <<d>>])

\* A card is good through the month printed on it, December and the turn of a
\* year included, up to the last instant; and only for dates the API accepts.
ExpiryThroughMonth ==
    Done("expiry") =>
        /\ result.val.valid <=>
             \E yy \in 0 .. 99, mm \in 1 .. 12 :
                /\ call.text = <<<<yy \div 10>>, <<yy % 10>>, <<mm \div 10>>, <<mm % 10>>>>
                /\ \/ call.now \div Instants < 12 * yy + mm - 1
                   \/ /\ call.now \div Instants = 12 * yy + mm - 1
                      /\ call.now % Instants # Instants - 1
        /\ result.val.valid => result.val.accepted

\* The prefix table of bin.go is what its comments say: Troy 9792, Mastercard
\* 51 to 55 and 2221 to 2720, Visa 4; and the length check never rejects a
\* number whose scheme was found.
SchemesAsDocumented ==
    Done("scheme") =>
        LET n   == 1000 * call.start[1] + 100 * call.start[2] + 10 * call.start[3] + call.start[4]
            len == call.length
        IN  /\ result.val.scheme =
                 CASE len = 16 /\ n = 9792                                 -> "TROY"
                   [] len = 16 /\ (n \div 100 \in 51 .. 55 \/ n \in 2221 .. 2720) -> "MASTERCARD"
                   [] len \in 13 .. 19 /\ n \div 1000 = 4                  -> "VISA"
                   [] OTHER                                                -> "UNKNOWN"
            /\ result.val.scheme # "UNKNOWN" => result.val.ok

\* ParseAmount12 rejects what is not an amount, and returns the number whose
\* decimal digits it was given.
AmountsExact ==
    Done("amount") =>
        IF Len(call.bytes) = AmountDigits /\ \A i \in DOMAIN call.bytes : call.bytes[i] \in Digit
        THEN LET rest[k \in 0 .. AmountDigits] ==
                     IF k = 0 THEN result.val ELSE rest[k - 1] \div 10
             IN  /\ \A i \in 1 .. AmountDigits : rest[AmountDigits - i] % 10 = call.bytes[i]
                 /\ rest[AmountDigits] = 0
        ELSE result.val = AmountError

\* What BuildEMVData writes, ParseEMVData reads back, at every length at which
\* the form of the length changes.
TagsSurvive ==
    Done("build") => ParseEMVData(result.val) = call.tags

\* Data that is cut off anywhere yields the tags that are whole, in order, and
\* never a tag, or a value, that the full data does not have.
TruncationLosesTheTail ==
    Done("parse") => \A k \in 0 .. MaxData :
        k <= Len(call.data) => IsPrefix(ParseEMVData(SubSeq(call.data, 1, k)), result.val)

\* Where a packet ends in the bytes of its sequence.
EndOf(frames, k) == Len(FlattenSeq(SubSeq(frames, 1, k)))

\* However the bytes are split, cut off or delayed between packets, the issuer
\* reads exactly the packets that arrived whole, and the switch exactly the
\* answers under their headers; and a deadline that passes within an answer
\* leaves those before it as they are.
FramesReadBack ==
    Done("stream") =>
        LET packets == call.stream.packets
            frames  == [k \in DOMAIN packets |-> Framed(packets[k])]
            answers == result.val.answers
            Answered(n) == [k \in 1 .. n |->
                               SubSeq(packets[k], 1, HeaderLen) \o call.stream.response]
            torn    == {k \in DOMAIN answers : \E q \in call.stream.quiet :
                           EndOf(answers, k - 1) < q /\ q < EndOf(answers, k)}
        IN  /\ result.val.read =
                 SubSeq(packets, 1, Cardinality({k \in DOMAIN packets :
                                        EndOf(frames, k) <= call.stream.arrived}))
            /\ IF torn = {} THEN result.val.heard = Answered(Len(answers))
               ELSE IsPrefix(Answered(Min(torn) - 1), result.val.heard)

\* What the code says twice agrees: the two tables of proccode.go; accounts put
\* into a code and taken out of it; the type of an answer in proccode.go and as
\* the engine forms it, which reverses reversals only.
TablesAgree ==
    Done("code") =>
        LET parsed == ParseProcessingCode(result.val)
            mti    == GetMTIForTransaction(call.type, FALSE)
        IN  /\ ValidProcessingCode(result.val)
            /\ parsed.type = Listed[call.type]
            /\ parsed.from = IF call.from = <<>> THEN AccDefault ELSE call.from
            /\ parsed.to = IF call.to = <<>> THEN AccDefault ELSE call.to
            /\ AnswerMTI(mti) = GetMTIForTransaction(call.type, TRUE)
            /\ TakenAsReversal(mti) <=> call.type = "REVERSAL"

==============================================================================
