--------------------------- MODULE StreamFraming ---------------------------
(***************************************************************************)
(* StickDismantleProtocol: how the receive thread of a client cuts the     *)
(* byte stream of its socket into request frames.                          *)
(*                                                                         *)
(* A frame is one byte PROTOCOL_HEAD, four decimal digits and as many      *)
(* bytes of JSON as they say.  recv returns the stream in chunks of any    *)
(* size; what is left over from one chunk waits in the buffer temp_option  *)
(* (here data, count, bytes_remained, pro_length) for the next.  One call  *)
(* of the procedure runs the code after its label Start several times: an  *)
(* action is one such round.                                               *)
(*                                                                         *)
(* Bytes are the numbers they are in the code.                             *)
(***************************************************************************)
EXTENDS Integers, Sequences, SequencesExt

CONSTANTS
    Stream,      \* the bytes the peer sends on this connection
    Frames,      \* the well-formed frames in it: records of first, last byte
    Intact,      \* how many of its bytes come before the first damaged frame
    Chunks,      \* <<m, n>>: recv may return the bytes after m up to n
    MaxRecv,     \* most bytes of one recv, 512 in the code
    MaxPacket,   \* longest payload that is queued, 512 in the code
    BUFLENGTH    \* size of the buffer, 2048 in the code

PROTOCOL_HEAD == 1
LENGTH_SIZE == 4     \* PROTOCOL_PACKAGE_LENGTH_SIZE
HEAD_SIZE == 5       \* the two together, written 5 in the code
CLOSE_BRACE == 125
LETTER_Q == 81
PLUS == 43
MINUS == 45
Blank == 9 .. 13 \cup {32}   \* what isspace takes

MAX_LENGTH == 9999   \* the most that four digits say

Byte == 0 .. 255
Digit == 48 .. 57
IsDigit(b) == b \in Digit

\* The four digits SendDataToTheThirdParty and every peer write for n.
Digits(n) ==
    <<48 + (n \div 1000), 48 + ((n \div 100) % 10), 48 + ((n \div 10) % 10), 48 + (n % 10)>>

PayloadOf(f) == SubSeq(Stream, f.first + HEAD_SIZE, f.last)

\* The bytes before Intact are those of frames.
ASSUME StreamAssumption ==
    /\ Stream \in Seq(Byte)
    /\ Frames \in Seq([first : Nat, last : Nat])
    /\ Chunks \subseteq {c \in (0 .. Len(Stream)) \X (0 .. Len(Stream)) :
                           c[2] - c[1] \in 1 .. MaxRecv}
    /\ \A i \in DOMAIN Frames :
          LET f == Frames[i]
          IN  /\ f.first \in 1 .. Len(Stream) /\ f.last \in 1 .. Len(Stream)
              /\ f.last - f.first - LENGTH_SIZE \in 1 .. MAX_LENGTH
              /\ Stream[f.first] = PROTOCOL_HEAD
              /\ SubSeq(Stream, f.first + 1, f.first + LENGTH_SIZE)
                    = Digits(f.last - f.first - LENGTH_SIZE)
              /\ Stream[f.last] = CLOSE_BRACE
              /\ \A j \in 1 .. i - 1 : Frames[j].last < f.first
              /\ f.last <= Intact \/ Intact < f.first
    /\ \A n \in 1 .. Intact :
          \E i \in DOMAIN Frames : Frames[i].first <= n /\ n <= Frames[i].last
ASSUME LimitsAssumption ==
    Intact \in 0 .. Len(Stream) /\ MaxRecv \in Nat \ {0} /\ MaxPacket \in Nat /\ BUFLENGTH \in Nat \ {0}

\* Where the next chunk may end after m bytes, and the payload of each frame.
ChunkEnds == [m \in 0 .. Len(Stream) |-> {n \in m + 1 .. Len(Stream) : <<m, n>> \in Chunks}]
Payloads == [i \in DOMAIN Frames |-> PayloadOf(Frames[i])]

VARIABLES
    received,        \* how many bytes recv has returned
    data,            \* option.data, indexed from 0
    count,           \* option.count
    bytes_remained,  \* option.bytes_remained
    pro_length,      \* option.pro_length
    recv_length,     \* the local of that name
    pc,              \* "recv", "start" (the label) or "ended"
    jqueue           \* history: the payloads handed to the queue

vars == <<received, data, count, bytes_remained, pro_length, recv_length, pc,
          jqueue>>

Indices == 0 .. BUFLENGTH - 1
Cleared == [k \in Indices |-> 0]

\* A byte of the buffer, a zero beyond it (no frame of the peer leads there).
At(k) == IF k \in Indices THEN data[k] ELSE 0

\* memcpy of n bytes from offset `from` to the front, memset of the rest.
MoveToFront(from, n) ==
    [k \in Indices |-> IF k < n THEN At(from + k) ELSE 0]

\* The first of the bytes from k on that is not in T, or the one behind the
\* four of the length.
Past(k, T) ==
    CHOOSE n \in k .. LENGTH_SIZE + 1 :
        /\ \A j \in k .. n - 1 : At(j) \in T
        /\ n = LENGTH_SIZE + 1 \/ At(n) \notin T

\* sscanf of the four bytes after the head: blanks, a sign and digits, each of
\* which may be missing; without a digit pro_length is unchanged.
ParsedLength ==
    LET sign == Past(1, Blank)
        first == IF sign <= LENGTH_SIZE /\ At(sign) \in {PLUS, MINUS} THEN sign + 1 ELSE sign
        last == Past(first, Digit) - 1
        place(i) == IF last - i >= first THEN At(last - i) - 48 ELSE 0
        number == place(0) + 10 * place(1) + 100 * place(2) + 1000 * place(3)
    IN  IF last < first THEN pro_length
        ELSE IF At(sign) = MINUS THEN -number ELSE number

\* PushRecvBuffToQueue: the payload of n bytes behind the head is queued, if
\* a slot of the queue can hold it.
PushRecvBuffToQueue(n) ==
    jqueue' = IF n > MaxPacket
              THEN jqueue
              ELSE Append(jqueue, [k \in 1 .. n |-> At(LENGTH_SIZE + k)])

Init ==
    /\ received = 0
    /\ data = Cleared
    /\ count = 0
    /\ bytes_remained = 0
    /\ pro_length = 0
    /\ recv_length = 0
    /\ pc = "recv"
    /\ jqueue = <<>>

-----------------------------------------------------------------------------
\* recv returns a chunk, which is copied behind the bytes waiting.
Recv ==
    /\ pc = "recv"
    /\ \E end \in ChunkEnds[received] :
          LET chunk == SubSeq(Stream, received + 1, end)
          IN  /\ chunk # <<LETTER_Q>>
              /\ data' = [k \in Indices |-> IF k - count \in 0 .. Len(chunk) - 1
                                            THEN chunk[k - count + 1]
                                            ELSE data[k]]
              /\ recv_length' = Len(chunk)
              /\ received' = end
    /\ pc' = "start"
    /\ UNCHANGED <<count, bytes_remained, pro_length, jqueue>>

\* A chunk that is the one letter Q ends the thread.
RecvQuit ==
    /\ pc = "recv"
    /\ received + 1 \in ChunkEnds[received]
    /\ Stream[received + 1] = LETTER_Q
    /\ received' = received + 1
    /\ pc' = "ended"
    /\ UNCHANGED <<data, count, bytes_remained, pro_length, recv_length, jqueue>>

\* The peer closes the connection, or recv fails.
RecvClosed ==
    /\ pc = "recv"
    /\ pc' = "ended"
    /\ UNCHANGED <<received, data, count, bytes_remained, pro_length,
                   recv_length, jqueue>>

-----------------------------------------------------------------------------
AtHead ==
    /\ pc = "start"
    /\ data[0] = PROTOCOL_HEAD
    /\ recv_length >= HEAD_SIZE
    /\ bytes_remained = 0

InBody == pc = "start" /\ bytes_remained > 0

Elsewhere == pc = "start" /\ ~AtHead /\ ~InBody

\* Mutant: the next chunk is put behind the bytes just cleared.
ClearAndReturn_KeepsCount ==
    /\ data' = Cleared
    /\ count' = count
    /\ bytes_remained' = 0
    /\ pro_length' = 0
    /\ pc' = "recv"

\* The buffer is cleared and the next chunk awaited.
ClearAndReturn ==
    /\ data' = Cleared
    /\ count' = 0
    /\ bytes_remained' = 0
    /\ pro_length' = 0
    /\ pc' = "recv"

\* The chunk begins a frame and holds exactly that frame.
HeadExact ==
    /\ AtHead
    /\ ParsedLength = recv_length - HEAD_SIZE
    /\ PushRecvBuffToQueue(ParsedLength)
    /\ ClearAndReturn
    /\ UNCHANGED <<received, recv_length>>

\* The chunk holds only the beginning of the frame ("need to stick").
HeadStick ==
    /\ AtHead
    /\ ParsedLength > recv_length - HEAD_SIZE
    /\ pro_length' = ParsedLength
    /\ bytes_remained' = ParsedLength - (recv_length - HEAD_SIZE)
    /\ count' = count + recv_length
    /\ pc' = "recv"
    /\ UNCHANGED <<received, data, recv_length, jqueue>>

\* The header says a negative number: the chunk holds more, whatever it is,
\* PushRecvBuffToQueue does not refuse it, and memcpy takes it for a size
\* beyond all memory, which ends the program.
SaysNegative == AtHead /\ ParsedLength < 0
HeadNegative ==
    /\ SaysNegative
    /\ pc' = "ended"
    /\ UNCHANGED <<received, data, count, bytes_remained, pro_length,
                   recv_length, jqueue>>

\* Mutant: the negative number of bytes still to come is not reset.
HeadDismantle_NoReset ==
    LET rest == recv_length - HEAD_SIZE - ParsedLength
    IN  /\ AtHead
        /\ ParsedLength >= 0
        /\ rest > 0
        /\ PushRecvBuffToQueue(ParsedLength)
        /\ data' = MoveToFront(ParsedLength + HEAD_SIZE, rest)
        /\ pro_length' = ParsedLength
        /\ recv_length' = rest
        /\ bytes_remained' = -rest
        /\ count' = 0
        /\ UNCHANGED <<received, pc>>

\* The chunk holds more than the frame ("need to dismantle"): the rest is
\* moved to the front and treated as a chunk of its own.
HeadDismantle ==
    LET rest == recv_length - HEAD_SIZE - ParsedLength
    IN  /\ AtHead
        /\ ParsedLength >= 0
        /\ rest > 0
        /\ PushRecvBuffToQueue(ParsedLength)
        /\ data' = MoveToFront(ParsedLength + HEAD_SIZE, rest)
        /\ pro_length' = ParsedLength
        /\ recv_length' = rest
        /\ bytes_remained' = 0
        /\ count' = 0
        /\ UNCHANGED <<received, pc>>

\* The chunk completes the frame that was waiting.
BodyExact ==
    /\ InBody
    /\ bytes_remained = recv_length
    /\ PushRecvBuffToQueue(pro_length)
    /\ ClearAndReturn
    /\ UNCHANGED <<received, recv_length>>

\* The chunk does not yet complete it.
BodyStick ==
    /\ InBody
    /\ bytes_remained > recv_length
    /\ bytes_remained' = bytes_remained - recv_length
    /\ count' = count + recv_length
    /\ pc' = "recv"
    /\ UNCHANGED <<received, data, pro_length, recv_length, jqueue>>

\* Mutant: the rest is at the front, and the next chunk is not put behind it.
BodyDismantle_KeepsCount ==
    LET rest == count + recv_length - pro_length - HEAD_SIZE
    IN  /\ InBody
        /\ bytes_remained < recv_length
        /\ At(pro_length + LENGTH_SIZE) = CLOSE_BRACE
        /\ PushRecvBuffToQueue(pro_length)
        /\ data' = MoveToFront(pro_length + HEAD_SIZE, rest)
        /\ recv_length' = rest
        /\ bytes_remained' = 0
        /\ UNCHANGED <<received, pro_length, count, pc>>

\* Mutant: the frame is not checked to end in a brace.
BodyDismantle_Unchecked ==
    LET rest == count + recv_length - pro_length - HEAD_SIZE
    IN  /\ InBody
        /\ bytes_remained < recv_length
        /\ PushRecvBuffToQueue(pro_length)
        /\ data' = MoveToFront(pro_length + HEAD_SIZE, rest)
        /\ recv_length' = rest
        /\ bytes_remained' = 0
        /\ count' = 0
        /\ UNCHANGED <<received, pro_length, pc>>

\* The chunk completes it and holds more, and the frame ends in a brace.
BodyDismantle ==
    LET rest == count + recv_length - pro_length - HEAD_SIZE
    IN  /\ InBody
        /\ bytes_remained < recv_length
        /\ At(pro_length + LENGTH_SIZE) = CLOSE_BRACE
        /\ PushRecvBuffToQueue(pro_length)
        /\ data' = MoveToFront(pro_length + HEAD_SIZE, rest)
        /\ recv_length' = rest
        /\ bytes_remained' = 0
        /\ count' = 0
        /\ UNCHANGED <<received, pro_length, pc>>

\* Mutant: the frame that lost bytes is still awaited.
BodyLoss_NoReset ==
    /\ InBody
    /\ bytes_remained < recv_length
    /\ At(pro_length + LENGTH_SIZE) # CLOSE_BRACE
    /\ data' = MoveToFront(count, recv_length)
    /\ count' = 0
    /\ UNCHANGED <<received, bytes_remained, pro_length, recv_length, pc, jqueue>>

\* It does not end in a brace ("packet loss"): what waited is dropped and the
\* chunk is treated as the first.
BodyLoss ==
    /\ InBody
    /\ bytes_remained < recv_length
    /\ At(pro_length + LENGTH_SIZE) # CLOSE_BRACE
    /\ data' = MoveToFront(count, recv_length)
    /\ bytes_remained' = 0
    /\ count' = 0
    /\ UNCHANGED <<received, pro_length, recv_length, pc, jqueue>>

\* Fewer bytes than a header and no frame begun: they are kept.
ShortChunk ==
    /\ Elsewhere
    /\ recv_length < HEAD_SIZE
    /\ count' = count + recv_length
    /\ pc' = "recv"
    /\ UNCHANGED <<received, data, bytes_remained, pro_length, recv_length, jqueue>>

\* Anything else is an error: the buffer is cleared, and so is the receive
\* buffer of the socket, with whatever has arrived there by now.
ErrorClear ==
    /\ Elsewhere
    /\ recv_length >= HEAD_SIZE
    /\ ClearAndReturn
    /\ \E m \in received .. Len(Stream) :
          received' \in {received} \cup ChunkEnds[m]
    /\ UNCHANGED <<recv_length, jqueue>>

Round == \/ HeadExact \/ HeadStick \/ HeadDismantle \/ HeadNegative
         \/ BodyExact \/ BodyStick \/ BodyDismantle \/ BodyLoss
         \/ ShortChunk \/ ErrorClear

Next == \/ Recv
        \/ RecvQuit
        \/ RecvClosed
        \/ Round

Spec == Init /\ [][Next]_vars

-----------------------------------------------------------------------------
TypeOK ==
    /\ received \in 0 .. Len(Stream)
    /\ data \in [Indices -> Byte]
    /\ count \in Nat
    /\ bytes_remained \in Nat
    /\ pro_length \in 0 .. MAX_LENGTH
    /\ recv_length \in Nat
    /\ pc \in {"recv", "start", "ended"}
    /\ jqueue \in Seq(Seq(Byte))

\* How many frames are complete in the first n bytes, the payloads that the
\* first i frames should give, and those that the first n bytes should.
Complete(n) == Max({0} \cup {i \in DOMAIN Frames : Frames[i].last <= n})
Queued(i) ==
    FlattenSeq([j \in 1 .. i |-> IF Len(Payloads[j]) > MaxPacket THEN <<>> ELSE <<Payloads[j]>>])
Expected(n) == Queued(Complete(n))

\* Whenever the thread goes back to recv, every frame that has arrived whole
\* has been queued, once and in order, and nothing else has: no frame waits
\* for bytes of the next one, however the stream is cut into chunks.
NothingWithheld ==
    pc = "recv" /\ received <= Intact => jqueue = Expected(received)

\* In the middle of a chunk too, what is queued is a prefix of what was sent.
InOrder == received <= Intact => IsPrefix(jqueue, Expected(received))

\* What the payloads of some of the first m frames make, each once and in order.
Selected(m, some) == FlattenSeq([j \in 1 .. m |-> IF j \in some THEN <<Payloads[j]>> ELSE <<>>])
Selections == [m \in 0 .. Len(Frames) |-> {Selected(m, some) : some \in SUBSET (1 .. m)}]

\* Even when frames arrive damaged, only payloads of frames that have arrived
\* whole are queued, in the order of the stream and none of them twice.
OnlyWholeFrames == jqueue \in Selections[Complete(received)]

\* The bytes waiting and the chunk behind them fit in the buffer.
BufferNotOverrun == pc = "start" => count + recv_length <= BUFLENGTH

\* The jumps back to Start come to an end, and the thread to its next recv.
EveryChunkFinishes == pc = "start" ~> pc # "start"

-----------------------------------------------------------------------------
\* What the properties ask of the peer and of the network.

Size(i) == Frames[i].last - Frames[i].first + 1

\* Intact frames: no header is in two chunks, and the buffer can hold all but
\* one byte of a frame and a chunk.
NotCut(m) ==
    \A i \in DOMAIN Frames :
        Frames[i].last <= Intact =>
            ~(Frames[i].first <= m /\ m < Frames[i].first + LENGTH_SIZE)
HeadersWhole == \A c \in Chunks : NotCut(c[2])
BufferSuffices ==
    /\ MaxRecv <= BUFLENGTH
    /\ \A i \in DOMAIN Frames : Frames[i].last <= Intact => Size(i) - 1 + MaxRecv <= BUFLENGTH

\* The header at byte p is that of a frame of which bytes are lost, and it
\* shows: the chunk that holds the byte where its last should be does not hold
\* the header, goes on behind that byte, and has no brace there.
ShowsLoss(p) ==
    \E n \in 0 .. MAX_LENGTH :
        LET missed == p + LENGTH_SIZE + n
        IN  /\ SubSeq(Stream, p + 1, p + LENGTH_SIZE) = Digits(n)
            /\ \A c \in Chunks :
                  c[1] < missed /\ missed <= c[2] =>
                      p + LENGTH_SIZE <= c[1] /\ missed < c[2] /\ Stream[missed] # CLOSE_BRACE

\* The header at byte p says a negative number.
ShowsNegative(p) ==
    /\ Stream[p + 1] = MINUS
    /\ \A k \in 2 .. LENGTH_SIZE : IsDigit(Stream[p + k])
    /\ \E k \in 2 .. LENGTH_SIZE : Stream[p + k] # 48

\* All frames: the byte PROTOCOL_HEAD is nowhere but at the beginning of a
\* header, no header is in two chunks, and lost bytes show.  (A frame whose
\* length is made negative shows too: it is the last.)
LossesShow ==
    \A p \in DOMAIN Stream :
        Stream[p] = PROTOCOL_HEAD =>
            /\ p + LENGTH_SIZE <= Len(Stream)
            /\ \A c \in Chunks : c[2] \notin p .. p + LENGTH_SIZE - 1
            /\ \/ \E i \in DOMAIN Frames : Frames[i].first = p
               \/ ShowsLoss(p)
               \/ ShowsNegative(p)
=============================================================================
