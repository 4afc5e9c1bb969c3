-------------------------- MODULE MCStreamFraming --------------------------
(***************************************************************************)
(* Streams for StreamFraming.  A stream is a sequence of messages; frame i *)
(* of payload length n carries "{", n - 2 times a letter of its own, "}".  *)
(***************************************************************************)
EXTENDS RequestPath

\* Descriptor 7, in two bytes.
MCDescriptor == <<55>>

Payload(n, i) == [k \in 1 .. n |-> CASE k = 1 -> 123 [] k = n -> 125 [] OTHER -> 96 + i]
Frame(n, i) == <<PROTOCOL_HEAD>> \o Digits(n) \o Payload(n, i)
Negative == <<PROTOCOL_HEAD, MINUS, 48, 48, 51>>
Truncated(n, i, lost) == SubSeq(Frame(n, i), 1, HEAD_SIZE + n - lost)

\* Well-formed frames, then truncated frames, stray bytes, a header that says
\* -3 and a Q among others.  A payload of 8 is longer than MaxPacket and is not queued; those of
\* 6 and 7 are longer than what a slot has for them.
Messages ==
    << Frame(3, 1), Frame(7, 2), Frame(8, 3), Frame(3, 4), Frame(4, 5),
       Frame(3, 6), Truncated(6, 7, 2), Frame(6, 8), <<65, 66>>, Frame(3, 9),
       <<66, 65, 66, 65, 66>>, Frame(5, 10), Negative, <<LETTER_Q>> >>
Damaged == {7, 9, 11, 13, 14}

MCStream == FlattenSeq(Messages)

\* Where message m ends in the stream.
End(m) == Len(FlattenSeq(SubSeq(Messages, 1, m)))

MCFrames ==
    LET good == SelectSeq([m \in DOMAIN Messages |-> m], LAMBDA m : m \notin Damaged)
    IN  [i \in DOMAIN good |-> [first |-> End(good[i] - 1) + 1, last |-> End(good[i])]]

MCIntact == End(6)

\* The payloads of the well-formed frames.
MCObjects ==
    {SubSeq(Messages[m], HEAD_SIZE + 1, Len(Messages[m])) : m \in DOMAIN Messages \ Damaged}

ChunksBetween(cuts) ==
    {c \in (cuts \cup {0}) \X cuts : c[2] - c[1] \in 1 .. MaxRecv}

\* TCP cuts anywhere.
AllChunks == ChunksBetween(1 .. Len(MCStream))

\* The five bytes of a header, of a truncated frame too, are never cut.
InHeader ==
    UNION {End(m) - Len(Messages[m]) + 1 .. End(m) - Len(Messages[m]) + LENGTH_SIZE :
              m \in {n \in DOMAIN Messages : Messages[n][1] = PROTOCOL_HEAD}}

\* Nor does a chunk of the damaged part hold bytes of two messages: the peer
\* pauses between them.
WholeHeaders ==
    {c \in ChunksBetween((1 .. Len(MCStream)) \ InHeader) :
        c[2] > MCIntact =>
            \A m \in DOMAIN Messages : ~(c[1] < End(m) /\ End(m) < c[2])}

\* That the stream, so cut, is one the theorems speak of.
ASSUME Chunks = WholeHeaders => HeadersWhole /\ BufferSuffices /\ LossesShow
=============================================================================
