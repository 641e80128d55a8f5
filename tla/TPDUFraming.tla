------------------------------ MODULE TPDUFraming ------------------------------
(***************************************************************************)
(* The frames between switch and issuer: two bytes of length, a header that *)
(* carries the correlation identifier, a message (internal/acquirer/         *)
(* switch.go, internal/issuer/tcp_server.go).  Both readers are functions     *)
(* from the bytes that arrive to the packets they take out of them.  The      *)
(* switch reads under a deadline of 60 s per packet; a quiet moment is the     *)
(* number of bytes it has read when a deadline passes.                       *)
(***************************************************************************)
EXTENDS Naturals, Sequences, SequencesExt

CONSTANTS
    Base,       \* values of a byte, 256
    HeaderLen,  \* bytes of a TPDU header, 5
    MaxPacket   \* longest packet a reader takes, 8192

ASSUME FramingAssumption ==
    /\ Base \in Nat \ {0} /\ HeaderLen \in Nat \ {0} /\ MaxPacket \in Nat
    /\ MaxPacket < Base * Base

\* What the switch sends: a header and a message, within the limit.
Packet == {p \in Seq(0 .. Base - 1) : Len(p) \in HeaderLen .. MaxPacket}

\* A fault: the length counts the message only.
ShortFramed(packet) ==
    LET n == (Len(packet) - HeaderLen) % (Base * Base) IN <<n \div Base, n % Base>> \o packet

\* The packet sendToIssuer and writeTPDUFrame write: the length is a uint16.
Framed(packet) ==
    LET n == Len(packet) % (Base * Base) IN <<n \div Base, n % Base>> \o packet

\* The answer goes out under the header of its request.
writeTPDUFrame(response, request) == Framed(SubSeq(request, 1, HeaderLen) \o response)

\* One packet, from the byte after the first i.  A deadline that passes within
\* it loses what has been read of it; one that passes before it changes nothing.
readTPDUPacket(bytes, quiet, i) ==
    LET n          == bytes[i + 1] * Base + bytes[i + 2]
        Torn(last) == {k \in quiet : i < k /\ k < last /\ k <= Len(bytes)}
    IN  IF Torn(i + 2) # {} THEN [kind |-> "timeout", next |-> i + 1]
        ELSE IF Len(bytes) < i + 2 THEN [kind |-> "end"]
        ELSE IF n = 0 \/ n > MaxPacket THEN [kind |-> "refused"]
        ELSE IF Torn(i + 2 + n) # {} THEN [kind |-> "timeout", next |-> Min(Torn(i + 2 + n))]
        ELSE IF Len(bytes) < i + 2 + n THEN [kind |-> "end"]
        ELSE [kind |-> "packet", next |-> i + 2 + n, packet |-> SubSeq(bytes, i + 3, i + 2 + n)]

\* What listenForResponses takes for packets before the connection ends; one
\* too short for a header is passed over.
Listened(bytes, quiet) ==
    LET from[i \in 0 .. Len(bytes)] ==
            LET got  == readTPDUPacket(bytes, quiet, i)
                kept == IF got.kind = "packet" /\ Len(got.packet) >= HeaderLen
                        THEN <<got.packet>> ELSE <<>>
            IN  IF got.kind \in {"packet", "timeout"} THEN kept \o from[got.next] ELSE <<>>
    IN  from[0]

\* What the loop of handleConn reads, with no deadline; a packet too short for
\* a header ends the connection.
readTPDUFrames(bytes) ==
    LET from[i \in 0 .. Len(bytes)] ==
            LET got == readTPDUPacket(bytes, {}, i) IN
            IF got.kind = "packet" /\ Len(got.packet) >= HeaderLen
            THEN <<got.packet>> \o from[got.next] ELSE <<>>
    IN  from[0]

==============================================================================
