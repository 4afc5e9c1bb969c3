------------------------- MODULE RequestPath_proof -------------------------
(***************************************************************************)
(* Theorems about StreamFraming and RequestPath, for any stream, any way   *)
(* it is cut into chunks and any interleaving of the two threads.          *)
(*                                                                         *)
(* That no frame is withheld, and that the buffer is not overrun, depend   *)
(* on the peer and the network: see HeadersWhole and BufferSuffices.  The  *)
(* bytes in the buffer are then at all times those behind the last frame   *)
(* queued.                                                                 *)
(*                                                                         *)
(* That only whole frames are queued when the stream is damaged depends on *)
(* LossesShow.  There is then a place in the stream up to which all bytes  *)
(* are used up, and the buffer holds those behind it, or bytes that belong *)
(* to no frame and will be cleared.                                        *)
(*                                                                         *)
(* That nothing is invented depends on neither: what the buffer holds are  *)
(* then some of the bytes behind the place, in their order.                *)
(***************************************************************************)
EXTENDS RequestPath, SequenceFacts

\* The last byte of the first n frames.
End(n) == IF n = 0 THEN 0 ELSE Frames[n].last

\* How many bytes are in the buffer: those behind the first n frames, which
\* are queued, and not yet the whole of the next.
Waiting == count + (IF pc = "start" THEN recv_length ELSE 0)
Framing(n) ==
    /\ received = End(n) + Waiting
    /\ jqueue = Queued(n)
    /\ \A k \in 0 .. Waiting - 1 : data[k] = Stream[End(n) + k + 1]
    /\ bytes_remained = 0 => count = 0
    /\ bytes_remained > 0 =>
          /\ n < Len(Frames)
          /\ count >= HEAD_SIZE
          /\ pro_length = Size(n + 1) - HEAD_SIZE
          /\ bytes_remained = Size(n + 1) - count
    /\ pc = "start" => recv_length \in 1 .. MaxRecv
    /\ NotCut(received)

StreamInv ==
    received <= Intact =>
        IF pc = "ended" THEN IsPrefix(jqueue, Expected(received))
        ELSE \E n \in 0 .. Len(Frames) : Framing(n)

-----------------------------------------------------------------------------
\* The parameters.
LEMMA LimitFacts ==
    /\ Intact \in Nat /\ Intact <= Len(Stream) /\ Len(Stream) \in Nat
    /\ MaxRecv \in Nat /\ MaxRecv >= 1 /\ MaxPacket \in Nat
    /\ BUFLENGTH \in Nat /\ BUFLENGTH >= 1
    /\ Stream \in Seq(Byte)
<1>1. Stream \in Seq(Byte)
  BY StreamAssumption
<1>2. Len(Stream) \in Nat
  BY <1>1, LenProperties
<1> QED
  BY <1>1, <1>2, LimitsAssumption

LEMMA FrameFacts ==
    ASSUME NEW i \in 1 .. Len(Frames)
    PROVE  /\ Frames[i].first \in 1 .. Len(Stream) /\ Frames[i].last \in 1 .. Len(Stream)
           /\ Size(i) \in Nat /\ Size(i) - HEAD_SIZE \in 1 .. MAX_LENGTH
           /\ Frames[i].last = Frames[i].first + Size(i) - 1
           /\ Stream[Frames[i].first] = PROTOCOL_HEAD
           /\ Stream[Frames[i].last] = CLOSE_BRACE
           /\ \A j \in 1 .. i - 1 : Frames[j].last < Frames[i].first
           /\ Frames[i].last <= Intact \/ Intact < Frames[i].first
<1>1. i \in DOMAIN Frames
  BY StreamAssumption
<1>2. LET f == Frames[i]
      IN  /\ f.first \in 1 .. Len(Stream) /\ f.last \in 1 .. Len(Stream)
          /\ f.last - f.first - LENGTH_SIZE \in 1 .. MAX_LENGTH
          /\ Stream[f.first] = PROTOCOL_HEAD
          /\ Stream[f.last] = CLOSE_BRACE
          /\ \A j \in 1 .. i - 1 : Frames[j].last < f.first
          /\ f.last <= Intact \/ Intact < f.first
  BY <1>1, StreamAssumption, Zenon
<1>3. LENGTH_SIZE = 4 /\ HEAD_SIZE = 5
  BY DEF LENGTH_SIZE, HEAD_SIZE
<1>4. /\ Size(i) \in Nat /\ Size(i) - HEAD_SIZE = Frames[i].last - Frames[i].first - LENGTH_SIZE
      /\ Frames[i].last = Frames[i].first + Size(i) - 1
  <2> DEFINE a == Frames[i].first
             b == Frames[i].last
  <2>1. a \in Nat /\ b \in Nat /\ b - a - 4 >= 1
    <3>1. a \in 1 .. Len(Stream) /\ b \in 1 .. Len(Stream) /\ b - a - 4 \in 1 .. MAX_LENGTH
      BY <1>2, <1>3
    <3> HIDE DEF a, b
    <3> QED
      BY <3>1, LimitFacts
  <2>2. Size(i) = b - a + 1
    BY DEF Size
  <2> HIDE DEF a, b
  <2>3. /\ Size(i) \in Nat /\ Size(i) - 5 = b - a - 4 /\ b = a + Size(i) - 1
    BY <2>1, <2>2
  <2> QED
    BY <1>3, <2>3 DEF a, b
<1> QED
  BY <1>2, <1>4, Zenon

\* What four digits say.
LEMMA DigitsFacts ==
    ASSUME NEW n \in Nat, n <= 9999
    PROVE  LET d == Digits(n)
           IN  /\ Len(d) = 4
               /\ \A k \in 1 .. 4 : d[k] \in Digit
               /\ 1000 * (d[1] - 48) + 100 * (d[2] - 48) + 10 * (d[3] - 48) + (d[4] - 48) = n
<1> DEFINE a == n \div 1000
           b == (n \div 100) % 10
           c == (n \div 10) % 10
           d == n % 10
<1>1. a \in Nat /\ b \in Nat /\ c \in Nat /\ d \in Nat /\ a <= 9 /\ b <= 9 /\ c <= 9 /\ d <= 9
  OBVIOUS
<1>2. n = 1000 * a + 100 * b + 10 * c + d
  OBVIOUS
<1>3. Digits(n) = <<48 + a, 48 + b, 48 + c, 48 + d>>
  BY DEF Digits
<1> HIDE DEF a, b, c, d
<1>4. /\ Len(Digits(n)) = 4
      /\ Digits(n)[1] = 48 + a /\ Digits(n)[2] = 48 + b /\ Digits(n)[3] = 48 + c
      /\ Digits(n)[4] = 48 + d
  BY <1>3
<1>5. 48 + a \in Digit /\ 48 + b \in Digit /\ 48 + c \in Digit /\ 48 + d \in Digit
  BY <1>1 DEF Digit
<1>6. \A k \in 1 .. 4 : k \in {1, 2, 3, 4}
  OBVIOUS
<1>7. \A k \in 1 .. 4 : Digits(n)[k] \in Digit
  BY <1>4, <1>5, <1>6
<1> QED
  BY <1>1, <1>2, <1>4, <1>7

LEMMA HeaderFacts ==
    ASSUME NEW i \in 1 .. Len(Frames)
    PROVE  LET v(k) == Stream[Frames[i].first + k]
           IN  /\ \A k \in 1 .. LENGTH_SIZE : v(k) \in Digit
               /\ 1000 * (v(1) - 48) + 100 * (v(2) - 48) + 10 * (v(3) - 48) + (v(4) - 48)
                     = Size(i) - HEAD_SIZE
<1> DEFINE v(k) == Stream[Frames[i].first + k]
           n == Size(i) - HEAD_SIZE
           first == Frames[i].first
<1>1. i \in DOMAIN Frames
  BY StreamAssumption
<1>2. SubSeq(Stream, Frames[i].first + 1, Frames[i].first + LENGTH_SIZE)
         = Digits(Frames[i].last - Frames[i].first - LENGTH_SIZE)
  BY <1>1, StreamAssumption, Zenon
<1>3. LENGTH_SIZE = 4 /\ HEAD_SIZE = 5 /\ MAX_LENGTH = 9999
  BY DEF LENGTH_SIZE, HEAD_SIZE, MAX_LENGTH
<1>4. /\ first \in 1 .. Len(Stream) /\ Frames[i].last \in 1 .. Len(Stream)
      /\ Frames[i].last = first + Size(i) - 1 /\ Size(i) \in Nat /\ Size(i) >= 6
      /\ n \in Nat /\ n <= 9999
  <2>1. n \in 1 .. MAX_LENGTH
    BY FrameFacts
  <2> HIDE DEF n
  <2>2. n \in Nat /\ n <= 9999 /\ n >= 1
    <3>1. MAX_LENGTH \in Nat /\ MAX_LENGTH <= 9999
      BY <1>3
    <3> HIDE DEF MAX_LENGTH
    <3> QED
      BY <2>1, <3>1, SMT
  <2>3. Size(i) >= 6
    BY <1>3, <2>2, FrameFacts DEF n
  <2> QED
    BY <2>2, <2>3, FrameFacts
<1>5. Frames[i].last - Frames[i].first - LENGTH_SIZE = n
  BY <1>3, <1>4, LimitFacts, SMTT(30)
<1>6. \A k \in 1 .. 4 : Digits(n)[k] = v(k)
  <2> DEFINE s == SubSeq(Stream, first + 1, first + 4)
  <2>3. s = Digits(n)
    BY <1>2, <1>3, <1>5
  <2> HIDE DEF s, first, n
  <2>1. first + 1 \in 1 .. Len(Stream) + 1 /\ first + 4 \in (first + 1) - 1 .. Len(Stream)
    BY <1>4, LimitFacts
  <2>2. \A k \in 1 .. (first + 4) - (first + 1) + 1 : s[k] = Stream[(first + 1) + k - 1]
    <3>1. first + 1 \in Int /\ first + 4 \in Int
      BY <2>1, LimitFacts
    <3>2. \A k \in first + 1 .. first + 4 : Stream[k] \in Byte
      BY <2>1, LimitFacts
    <3> DEFINE m == first + 1
               o == first + 4
    <3> HIDE DEF m, o
    <3>3. m \in Int /\ o \in Int /\ \A k \in m .. o : Stream[k] \in Byte
      BY <3>1, <3>2 DEF m, o
    <3>4. \A k \in 1 .. o - m + 1 : SubSeq(Stream, m, o)[k] = Stream[m + k - 1]
      BY <3>3, SubSeqProperties
    <3> QED
      BY <3>4 DEF s, m, o
  <2>4. \A k \in 1 .. 4 : k \in 1 .. (first + 4) - (first + 1) + 1 /\ (first + 1) + k - 1 = first + k
    BY <1>4, LimitFacts
  <2>5. \A k \in 1 .. 4 : s[k] = Stream[first + k]
    BY <2>2, <2>4
  <2> QED
    BY <2>3, <2>5 DEF first
<1> HIDE DEF n
<1>7. /\ \A k \in 1 .. 4 : Digits(n)[k] \in Digit
      /\ 1000 * (Digits(n)[1] - 48) + 100 * (Digits(n)[2] - 48) + 10 * (Digits(n)[3] - 48)
            + (Digits(n)[4] - 48) = n
  BY <1>4, DigitsFacts
<1> HIDE DEF v
<1>8. v(1) = Digits(n)[1] /\ v(2) = Digits(n)[2] /\ v(3) = Digits(n)[3] /\ v(4) = Digits(n)[4]
  BY <1>6
<1>9. 1000 * (v(1) - 48) + 100 * (v(2) - 48) + 10 * (v(3) - 48) + (v(4) - 48) = n
  BY <1>7, <1>8
<1>10. \A k \in 1 .. LENGTH_SIZE : v(k) \in Digit
  BY <1>3, <1>6, <1>7
<1> QED
  BY <1>9, <1>10 DEF v, n

LEMMA FramesLen == Len(Frames) \in Nat /\ DOMAIN Frames = 1 .. Len(Frames)
<1>1. Frames \in Seq([first : Nat, last : Nat])
  BY StreamAssumption
<1> HIDE StreamAssumption
<1> QED
  BY <1>1, LenProperties

LEMMA EndFacts ==
    /\ \A n \in 0 .. Len(Frames) : End(n) \in Nat /\ End(n) <= Len(Stream)
    /\ \A n \in 0 .. Len(Frames) : \A m \in 0 .. n : End(m) <= End(n)
<1>1. ASSUME NEW n \in 0 .. Len(Frames) PROVE End(n) \in Nat /\ End(n) <= Len(Stream)
  <2>1. CASE n = 0
    BY <2>1, LimitFacts DEF End
  <2>2. CASE n # 0
    <3>1. n \in 1 .. Len(Frames)
      BY <2>2, FramesLen
    <3>2. Frames[n].last \in 1 .. Len(Stream)
      BY <3>1, FrameFacts
    <3> QED
      BY <2>2, <3>2, LimitFacts DEF End
  <2> QED
    BY <2>1, <2>2
<1>2. ASSUME NEW n \in 0 .. Len(Frames), NEW m \in 0 .. n PROVE End(m) <= End(n)
  <2>1. m \in 0 .. Len(Frames) /\ End(m) \in Nat /\ End(n) \in Nat
    BY <1>1, FramesLen
  <2>2. CASE m = 0 \/ m = n
    BY <2>1, <2>2 DEF End
  <2>3. CASE m # 0 /\ m # n
    <3>1. n \in 1 .. Len(Frames) /\ m \in 1 .. n - 1 /\ n # 0 /\ m # 0
      BY <2>3, FramesLen
    <3>2. Frames[m].last < Frames[n].first
      BY <3>1, FrameFacts
    <3>3. Frames[n].first \in Nat /\ Frames[n].last = Frames[n].first + Size(n) - 1 /\ Size(n) >= 1
          /\ Size(n) \in Nat
      <4>1. Frames[n].first \in 1 .. Len(Stream) /\ Size(n) \in Nat /\ Size(n) - HEAD_SIZE \in 1 .. MAX_LENGTH
            /\ Frames[n].last = Frames[n].first + Size(n) - 1
        BY <3>1, FrameFacts
      <4>2. HEAD_SIZE = 5 /\ MAX_LENGTH \in Nat
        BY DEF HEAD_SIZE, MAX_LENGTH
      <4> HIDE DEF MAX_LENGTH
      <4> QED
        BY <4>1, <4>2
    <3>4. End(m) = Frames[m].last /\ End(n) = Frames[n].last
      BY <3>1 DEF End
    <3> QED
      BY <2>1, <3>2, <3>3, <3>4
  <2> QED
    BY <2>2, <2>3
<1> QED
  BY <1>1, <1>2

\* Sizes, without the constants.
LEMMA SizeFacts ==
    ASSUME NEW i \in 1 .. Len(Frames)
    PROVE  /\ Size(i) \in Nat /\ Size(i) >= 6
           /\ Frames[i].first \in Nat /\ Frames[i].first >= 1
           /\ Frames[i].last \in Nat /\ Frames[i].last <= Len(Stream)
           /\ Frames[i].last = Frames[i].first + Size(i) - 1
<1>1. /\ Frames[i].first \in 1 .. Len(Stream) /\ Frames[i].last \in 1 .. Len(Stream)
      /\ Size(i) \in Nat /\ Size(i) - HEAD_SIZE \in 1 .. MAX_LENGTH
      /\ Frames[i].last = Frames[i].first + Size(i) - 1
  BY FrameFacts
<1>2. HEAD_SIZE = 5 /\ MAX_LENGTH \in Nat
  BY DEF HEAD_SIZE, MAX_LENGTH
<1> QED
  BY <1>1, <1>2, LimitFacts

\* Behind the first frames is the next one, as long as the stream is intact.
LEMMA NextFrame ==
    ASSUME NEW n \in 0 .. Len(Frames), End(n) < Intact
    PROVE  /\ n + 1 \in 1 .. Len(Frames) /\ n < Len(Frames)
           /\ Frames[n + 1].first = End(n) + 1
           /\ Frames[n + 1].last <= Intact
           /\ End(n + 1) = End(n) + Size(n + 1)
<1> DEFINE x == End(n) + 1
<1>1. End(n) \in Nat /\ x \in 1 .. Intact /\ n \in Nat
  BY EndFacts, FramesLen, LimitFacts
<1>2. PICK i \in 1 .. Len(Frames) : Frames[i].first <= x /\ x <= Frames[i].last
  <2>1. \E i \in DOMAIN Frames : Frames[i].first <= x /\ x <= Frames[i].last
    BY <1>1, StreamAssumption, Zenon
  <2> QED
    BY <2>1, FramesLen
<1>3. i \in Nat /\ i >= 1 /\ i <= Len(Frames) /\ Len(Frames) \in Nat
  BY FramesLen
<1>4. i > n
  <2> SUFFICES ASSUME i <= n PROVE FALSE
    BY <1>1, <1>3
  <2>1. i \in 0 .. n /\ End(i) = Frames[i].last
    BY <1>1, <1>3 DEF End
  <2>2. End(i) <= End(n) /\ End(i) \in Nat
    BY <1>3, <2>1, EndFacts
  <2> QED
    BY <1>1, <1>2, <2>1, <2>2
<1>5. n + 1 \in 1 .. Len(Frames)
  BY <1>1, <1>3, <1>4
<1>6. Frames[n + 1].first > End(n)
  <2>1. CASE n = 0
    BY <1>5, <2>1, SizeFacts DEF End
  <2>2. CASE n # 0
    <3>1. n \in 1 .. (n + 1) - 1
      BY <1>1, <2>2
    <3>2. Frames[n].last < Frames[n + 1].first
      BY <1>5, <3>1, FrameFacts
    <3>3. Frames[n].last \in Nat /\ Frames[n + 1].first \in Nat
      <4>1. n \in 1 .. Len(Frames)
        BY <1>1, <1>3, <2>2
      <4> QED
        BY <1>5, <4>1, SizeFacts
    <3> QED
      BY <2>2, <3>2, <3>3 DEF End
  <2> QED
    BY <2>1, <2>2
<1>7. i = n + 1
  <2> SUFFICES ASSUME i > n + 1 PROVE FALSE
    BY <1>1, <1>3, <1>4
  <2>1. n + 1 \in 1 .. i - 1
    BY <1>1, <1>3
  <2>2. Frames[n + 1].last < Frames[i].first
    BY <2>1, FrameFacts
  <2>3. /\ Frames[n + 1].last = Frames[n + 1].first + Size(n + 1) - 1 /\ Size(n + 1) \in Nat
        /\ Size(n + 1) >= 6 /\ Frames[n + 1].first \in Nat /\ Frames[i].first \in Nat
    BY <1>5, SizeFacts
  <2> QED
    BY <1>1, <1>2, <1>6, <2>2, <2>3
<1>8. Frames[n + 1].first = x
  BY <1>1, <1>2, <1>5, <1>6, <1>7, SizeFacts
<1>9. Frames[n + 1].last <= Intact
  <2>1. Frames[n + 1].last <= Intact \/ Intact < Frames[n + 1].first
    BY <1>5, FrameFacts
  <2> QED
    BY <1>1, <1>8, <2>1, LimitFacts
<1>10. End(n + 1) = End(n) + Size(n + 1)
  <2>1. n + 1 # 0
    BY <1>1
  <2>2. End(n + 1) = Frames[n + 1].last
    BY <2>1 DEF End
  <2> QED
    BY <1>1, <1>5, <1>8, <2>2, SizeFacts
<1> QED
  BY <1>1, <1>3, <1>5, <1>8, <1>9, <1>10

-----------------------------------------------------------------------------
\* What is queued.
LEMMA PayloadFacts ==
    ASSUME NEW i \in 1 .. Len(Frames)
    PROVE  /\ Payloads[i] \in Seq(Byte) /\ Len(Payloads[i]) = Size(i) - HEAD_SIZE
           /\ Len(Payloads[i]) \in Nat /\ Len(Payloads[i]) >= 1
           /\ \A k \in 1 .. Size(i) - HEAD_SIZE :
                 Payloads[i][k] = Stream[Frames[i].first + LENGTH_SIZE + k]
<1> DEFINE m == Frames[i].first + HEAD_SIZE
           n == Frames[i].last
<1>1. HEAD_SIZE = 5 /\ LENGTH_SIZE = 4
  BY DEF HEAD_SIZE, LENGTH_SIZE
<1>2. /\ m \in Int /\ n \in Int /\ m <= n /\ n - m + 1 = Size(i) - HEAD_SIZE
      /\ m >= 1 /\ n <= Len(Stream) /\ Size(i) >= 6 /\ Size(i) \in Nat
      /\ Frames[i].first = m - 5
  <2> DEFINE a == Frames[i].first
  <2>1. /\ a \in Nat /\ a >= 1 /\ n \in Nat /\ n <= Len(Stream) /\ n = a + Size(i) - 1
        /\ Size(i) \in Nat /\ Size(i) >= 6 /\ m = a + 5
    BY <1>1, SizeFacts
  <2> HIDE DEF a, m, n
  <2>2. m \in Int /\ n \in Int /\ m <= n /\ n - m + 1 = Size(i) - 5 /\ m >= 1 /\ a = m - 5
    BY <2>1
  <2> QED
    BY <1>1, <2>1, <2>2 DEF a
<1>3. Payloads[i] = SubSeq(Stream, m, n)
  BY FramesLen DEF Payloads, PayloadOf
<1> HIDE DEF m, n
<1>4. \A k \in m .. n : Stream[k] \in Byte
  BY <1>2, LimitFacts
<1>5. /\ SubSeq(Stream, m, n) \in Seq(Byte)
      /\ Len(SubSeq(Stream, m, n)) = IF m <= n THEN n - m + 1 ELSE 0
      /\ \A k \in 1 .. n - m + 1 : SubSeq(Stream, m, n)[k] = Stream[m + k - 1]
  BY SMTT(30), <1>2, <1>4, SubSeqProperties
<1>6. \A k \in 1 .. Size(i) - HEAD_SIZE : m + k - 1 = Frames[i].first + LENGTH_SIZE + k
  BY <1>1, <1>2
<1> QED
  BY <1>1, <1>2, <1>3, <1>5, <1>6

Admitted(i) == IF Len(Payloads[i]) > MaxPacket THEN <<>> ELSE <<Payloads[i]>>

LEMMA AdmittedFacts ==
    ASSUME NEW n \in 0 .. Len(Frames)
    PROVE  /\ [j \in 1 .. n |-> Admitted(j)] \in Seq(Seq(Seq(Byte)))
           /\ Len([j \in 1 .. n |-> Admitted(j)]) = n
           /\ Queued(n) = FlattenSeq([j \in 1 .. n |-> Admitted(j)])
           /\ Queued(n) \in Seq(Seq(Byte))
<1>1. \A j \in 1 .. Len(Frames) : Admitted(j) \in Seq(Seq(Byte))
  BY PayloadFacts, EmptySeq DEF Admitted
<1>2. n \in Nat /\ \A j \in 1 .. n : j \in 1 .. Len(Frames)
  BY FramesLen
<1>3. [j \in 1 .. n |-> Admitted(j)] \in [1 .. n -> Seq(Seq(Byte))]
  BY <1>1, <1>2
<1>4. /\ [j \in 1 .. n |-> Admitted(j)] \in Seq(Seq(Seq(Byte)))
      /\ Len([j \in 1 .. n |-> Admitted(j)]) = n
  BY <1>2, <1>3, FunctionIsSeq
<1>5. Queued(n) = FlattenSeq([j \in 1 .. n |-> Admitted(j)])
  BY DEF Queued, Admitted
<1> QED
  BY <1>4, <1>5, FlattenType

LEMMA QueuedNext ==
    ASSUME NEW n \in 0 .. Len(Frames), n < Len(Frames)
    PROVE  Queued(n + 1) = IF Len(Payloads[n + 1]) > MaxPacket THEN Queued(n)
                           ELSE Append(Queued(n), Payloads[n + 1])
<1> DEFINE A(m) == [j \in 1 .. m |-> Admitted(j)]
<1>1. n \in Nat /\ n + 1 \in 0 .. Len(Frames) /\ n + 1 \in 1 .. Len(Frames)
  BY FramesLen
<1>2. /\ A(n) \in Seq(Seq(Seq(Byte))) /\ Len(A(n)) = n
      /\ A(n + 1) \in Seq(Seq(Seq(Byte))) /\ Len(A(n + 1)) = n + 1
      /\ Queued(n) = FlattenSeq(A(n)) /\ Queued(n + 1) = FlattenSeq(A(n + 1))
      /\ Queued(n) \in Seq(Seq(Byte))
  BY <1>1, AdmittedFacts
<1>3. Admitted(n + 1) \in Seq(Seq(Byte))
  BY <1>1, PayloadFacts, EmptySeq DEF Admitted
<1>4. A(n + 1) = A(n) \o <<Admitted(n + 1)>>
  <2> DEFINE b == <<Admitted(n + 1)>>
  <2>1. b \in Seq(Seq(Seq(Byte))) /\ Len(b) = 1 /\ b[1] = Admitted(n + 1)
    BY <1>3
  <2>2. \A i \in 1 .. n : A(n + 1)[i] = A(n)[i]
    BY <1>1
  <2>3. A(n + 1)[n + 1] = b[1]
    BY <1>1, <2>1
  <2> DEFINE a == A(n)
             c == A(n + 1)
  <2>4. a \in Seq(Seq(Seq(Byte))) /\ Len(a) = n /\ c \in Seq(Seq(Seq(Byte))) /\ Len(c) = n + 1
    BY <1>2
  <2>5. (\A i \in 1 .. n : c[i] = a[i]) /\ c[n + 1] = b[1]
    BY <2>2, <2>3
  <2> HIDE DEF a, b, c
  <2>6. \A i \in 1 .. Len(b) : c[Len(a) + i] = b[i]
    BY <2>1, <2>4, <2>5
  <2>7. Len(c) = Len(a) + Len(b) /\ \A i \in 1 .. Len(a) : c[i] = a[i]
    BY <1>1, <2>1, <2>4, <2>5
  <2>8. c = a \o b
    BY <2>1, <2>4, <2>6, <2>7, ConcatByElements
  <2> QED
    BY <2>8 DEF a, b, c
<1> HIDE DEF A
<1>5. A(n) \o <<Admitted(n + 1)>> = Append(A(n), Admitted(n + 1))
  BY <1>2, <1>3, AppendIsConcat
<1>6. Queued(n + 1) = Queued(n) \o Admitted(n + 1)
  BY <1>2, <1>3, <1>4, <1>5, FlattenAppend
<1>7. CASE Len(Payloads[n + 1]) > MaxPacket
  BY <1>2, <1>6, <1>7, ConcatEmptySeq DEF Admitted
<1>8. CASE ~(Len(Payloads[n + 1]) > MaxPacket)
  <2>1. Payloads[n + 1] \in Seq(Byte)
    BY <1>1, PayloadFacts
  <2>2. Append(Queued(n), Payloads[n + 1]) = Queued(n) \o <<Payloads[n + 1]>>
    BY <1>2, <2>1, AppendIsConcat
  <2> QED
    BY <1>6, <1>8, <2>2 DEF Admitted
<1> QED
  BY <1>7, <1>8

LEMMA QueuedGrows ==
    ASSUME NEW n \in 0 .. Len(Frames), NEW m \in 0 .. n
    PROVE  IsPrefix(Queued(m), Queued(n))
<1> DEFINE A(k) == [j \in 1 .. k |-> Admitted(j)]
           T == {k \in 0 .. n - m : IsPrefix(Queued(m), Queued(m + k))}
<1>1. m \in Nat /\ n \in Nat /\ m <= n /\ n <= Len(Frames) /\ Len(Frames) \in Nat
  BY FramesLen
<1>2. \A k \in 0 .. n : Queued(k) \in Seq(Seq(Byte))
  <2> SUFFICES ASSUME NEW k \in 0 .. n PROVE Queued(k) \in Seq(Seq(Byte))
    OBVIOUS
  <2>1. k \in 0 .. Len(Frames)
    BY <1>1
  <2> QED
    BY <2>1, AdmittedFacts
<1>3. 0 \in T
  <2>1. m + 0 = m /\ m \in 0 .. n
    BY <1>1
  <2>2. Queued(m) \o <<>> = Queued(m) /\ <<>> \in Seq(Seq(Byte)) /\ Queued(m) \in Seq(Seq(Byte))
    BY <1>2, <2>1, ConcatEmptySeq, EmptySeq
  <2>3. IsPrefix(Queued(m), Queued(m) \o <<>>)
    BY <2>2, PrefixOfConcat
  <2> QED
    BY <1>1, <2>1, <2>2, <2>3
<1>4. \A k \in 0 .. (n - m) - 1 : k \in T => k + 1 \in T
  <2> SUFFICES ASSUME NEW k \in 0 .. (n - m) - 1, IsPrefix(Queued(m), Queued(m + k))
               PROVE  IsPrefix(Queued(m), Queued(m + (k + 1)))
    BY <1>1
  <2>1. m + k \in 0 .. Len(Frames) /\ m + k < Len(Frames) /\ m + (k + 1) = (m + k) + 1
    BY <1>1
  <2>2. m + k \in 0 .. n /\ m + (k + 1) \in 0 .. n /\ m \in 0 .. n
    BY <1>1
  <2> DEFINE l == m + k
  <2>3. l + 1 \in 1 .. Len(Frames) /\ l \in 0 .. Len(Frames) /\ l < Len(Frames)
    BY <1>1, <2>1
  <2>4. /\ Queued(m) \in Seq(Seq(Byte)) /\ Queued(l) \in Seq(Seq(Byte))
        /\ Queued(l + 1) \in Seq(Seq(Byte)) /\ Payloads[l + 1] \in Seq(Byte)
    <3>1. Payloads[l + 1] \in Seq(Byte)
      <4> HIDE DEF l
      <4> QED
        BY <2>3, PayloadFacts
    <3> QED
      BY <1>2, <2>1, <2>2, <3>1
  <2> HIDE DEF l
  <2>5. Queued(l + 1) = IF Len(Payloads[l + 1]) > MaxPacket THEN Queued(l)
                        ELSE Append(Queued(l), Payloads[l + 1])
    BY <2>3, QueuedNext
  <2>6. IsPrefix(Queued(l), Queued(l + 1))
    <3>1. Queued(l) \o <<>> = Queued(l) /\ <<>> \in Seq(Seq(Byte))
      BY <2>4, ConcatEmptySeq, EmptySeq
    <3>2. /\ Append(Queued(l), Payloads[l + 1]) = Queued(l) \o <<Payloads[l + 1]>>
          /\ <<Payloads[l + 1]>> \in Seq(Seq(Byte))
      BY <2>4, AppendIsConcat
    <3>3. \A q \in Seq(Seq(Byte)) : IsPrefix(Queued(l), Queued(l) \o q)
      BY <2>4, PrefixOfConcat
    <3> QED
      BY <2>5, <3>1, <3>2, <3>3, Zenon
  <2>7. IsPrefix(Queued(m), Queued(l))
    BY DEF l
  <2>8. IsPrefix(Queued(m), Queued(l + 1))
    BY <2>4, <2>6, <2>7, PrefixTransitive
  <2> QED
    BY <2>1, <2>8 DEF l
<1>5. n - m \in Nat
  BY <1>1
<1>6. \A k \in 0 .. n - m : k \in T
  <2> HIDE DEF T
  <2> QED
    BY <1>3, <1>4, <1>5, UpTo
<1>7. n - m \in 0 .. n - m /\ m + (n - m) = n
  BY <1>1
<1> QED
  BY <1>6, <1>7

\* How many frames are complete.
LEMMA CompleteFacts ==
    ASSUME NEW m \in Nat
    PROVE  /\ Complete(m) \in 0 .. Len(Frames)
           /\ \A n \in 0 .. Len(Frames) : End(n) <= m => n <= Complete(m)
           /\ End(Complete(m)) <= m
<1> DEFINE T == {0} \cup {i \in DOMAIN Frames : Frames[i].last <= m}
<1>1. T \in SUBSET (0 .. Len(Frames)) /\ T # {} /\ Len(Frames) \in Nat
  BY FramesLen
<1>2. Max(T) \in T /\ \A k \in T : Max(T) >= k
  <2> HIDE DEF T
  <2> QED
    BY <1>1, LargestNumber
<1>3. Complete(m) = Max(T)
  BY DEF Complete
<1>4. \A n \in 0 .. Len(Frames) : End(n) <= m => n \in T
  BY FramesLen DEF End
<1>5. End(Max(T)) <= m
  BY <1>2 DEF End
<1>6. Max(T) \in 0 .. Len(Frames)
  BY <1>1, <1>2
<1> QED
  BY <1>2, <1>3, <1>4, <1>5, <1>6

-----------------------------------------------------------------------------
\* Types, of damaged streams too.  The bytes still to come and those there
\* are at least a frame.
StreamType ==
    /\ TypeOK
    /\ bytes_remained > 0 => bytes_remained + count >= pro_length + HEAD_SIZE

LEMMA ByteFacts ==
    /\ 0 \in Byte /\ Byte \subseteq Nat /\ Digit \subseteq Nat
    /\ \A b \in Digit : b - 48 \in Nat /\ b - 48 <= 9
    /\ Indices = 0 .. BUFLENGTH - 1 /\ 0 \in Indices
    /\ MAX_LENGTH \in Nat
BY LimitFacts DEF Byte, Digit, Indices, MAX_LENGTH

\* How many of the first are in a set.
LEMMA Leading ==
    ASSUME NEW n \in Nat, NEW T
    PROVE  \E i \in 0 .. n : (\A k \in 1 .. i : k \in T) /\ (i = n \/ i + 1 \notin T)
<1> SUFFICES ASSUME \A i \in 0 .. n : (\A k \in 1 .. i : k \in T) => i # n /\ i + 1 \in T
             PROVE  FALSE
  OBVIOUS
<1> DEFINE G == {i \in 0 .. n : \A k \in 1 .. i : k \in T}
<1>1. 0 \in G
  OBVIOUS
<1>2. \A i \in 0 .. n - 1 : i \in G => i + 1 \in G
  <2> SUFFICES ASSUME NEW i \in 0 .. n - 1, \A k \in 1 .. i : k \in T,
                      NEW k \in 1 .. i + 1
               PROVE  k \in T
    OBVIOUS
  <2>1. i \in 0 .. n /\ (k \in 1 .. i \/ k = i + 1)
    OBVIOUS
  <2> QED
    BY <2>1
<1>3. \A i \in 0 .. n : i \in G
  <2> HIDE DEF G
  <2> QED
    BY <1>1, <1>2, UpTo
<1>4. n \in G
  BY <1>3
<1> QED
  BY <1>4

LEMMA AtType ==
    ASSUME TypeOK
    PROVE  /\ \A k : At(k) \in Byte
           /\ \A from, n : MoveToFront(from, n) \in [Indices -> Byte]
           /\ Cleared \in [Indices -> Byte]
<1>1. 0 \in Byte
  BY ByteFacts
<1>2. \A k : At(k) \in Byte
  BY <1>1 DEF At, TypeOK
<1>3. \A from, n : MoveToFront(from, n) \in [Indices -> Byte]
  BY <1>1, <1>2 DEF MoveToFront
<1> QED
  BY <1>1, <1>2, <1>3 DEF Cleared

\* The byte at which the ones of a set end.
LEMMA PastFacts ==
    ASSUME NEW k \in 1 .. 5, NEW T
    PROVE  /\ Past(k, T) \in k .. 5
           /\ \A j \in k .. Past(k, T) - 1 : At(j) \in T
           /\ Past(k, T) = 5 \/ At(Past(k, T)) \notin T
<1> DEFINE P(n) == /\ \A j \in k .. n - 1 : At(j) \in T
                   /\ n = 5 \/ At(n) \notin T
           R == {i \in 1 .. 5 - k : At(k + i - 1) \in T}
<1>1. 5 - k \in Nat
  OBVIOUS
<1>2. PICK i \in 0 .. 5 - k : (\A j \in 1 .. i : j \in R) /\ (i = 5 - k \/ i + 1 \notin R)
  <2> HIDE DEF R
  <2> QED
    BY <1>1, Leading
<1>3. k + i \in k .. 5
  OBVIOUS
<1>4. \A j \in k .. k + i - 1 : At(j) \in T
  <2> SUFFICES ASSUME NEW j \in k .. k + i - 1 PROVE At(j) \in T
    OBVIOUS
  <2>1. j - k + 1 \in 1 .. i /\ k + (j - k + 1) - 1 = j
    OBVIOUS
  <2> QED
    BY <1>2, <2>1
<1>5. k + i = 5 \/ At(k + i) \notin T
  <2>1. CASE i = 5 - k
    BY <2>1
  <2>2. CASE i + 1 \notin R /\ i # 5 - k
    <3>1. i + 1 \in 1 .. 5 - k /\ k + (i + 1) - 1 = k + i
      BY <2>2
    <3> QED
      BY <2>2, <3>1
  <2> QED
    BY <1>2, <2>1, <2>2
<1>6. P(k + i)
  BY <1>4, <1>5
<1>7. Past(k, T) = CHOOSE n \in k .. 5 : P(n)
  BY DEF Past, LENGTH_SIZE
<1> HIDE DEF P
<1>8. Past(k, T) \in k .. 5 /\ P(Past(k, T))
  BY <1>3, <1>6, <1>7
<1> QED
  BY <1>8 DEF P

\* The number read from the header: what four digits say, and less than
\* nothing behind a minus.
LEMMA ParsedFacts ==
    ASSUME TypeOK
    PROVE  /\ ParsedLength \in Int
           /\ ParsedLength >= 0 => ParsedLength \in 0 .. MAX_LENGTH
           /\ (\A k \in 1 .. LENGTH_SIZE : At(k) \in Digit) =>
                ParsedLength = 1000 * (At(1) - 48) + 100 * (At(2) - 48) + 10 * (At(3) - 48)
                                  + (At(4) - 48)
           /\ /\ At(1) = MINUS
              /\ \A k \in 2 .. LENGTH_SIZE : At(k) \in Digit
              /\ \E k \in 2 .. LENGTH_SIZE : At(k) # 48
              => ParsedLength < 0
<1> DEFINE sign == Past(1, Blank)
           first == IF sign <= LENGTH_SIZE /\ At(sign) \in {PLUS, MINUS} THEN sign + 1 ELSE sign
           past == Past(first, Digit)
           last == past - 1
           place(i) == IF last - i >= first THEN At(last - i) - 48 ELSE 0
           number == place(0) + 10 * place(1) + 100 * place(2) + 1000 * place(3)
<1>1. ParsedLength = IF last < first THEN pro_length
                     ELSE IF At(sign) = MINUS THEN -number ELSE number
  BY DEF ParsedLength
<1>2. /\ sign \in 1 .. 5
      /\ \A j \in 1 .. sign - 1 : At(j) \in Blank
      /\ sign = 5 \/ At(sign) \notin Blank
  BY PastFacts
<1> HIDE DEF sign
<1>3. first \in 1 .. 5 /\ first >= sign
  BY <1>2 DEF LENGTH_SIZE
<1>4. first = IF sign <= 4 /\ At(sign) \in {PLUS, MINUS} THEN sign + 1 ELSE sign
  BY DEF LENGTH_SIZE
<1> HIDE DEF first
<1>5. /\ past \in first .. 5
      /\ \A j \in first .. past - 1 : At(j) \in Digit
      /\ past = 5 \/ At(past) \notin Digit
  BY <1>3, PastFacts
<1> HIDE DEF past
<1>6. \A i \in 0 .. 3 : place(i) \in Nat /\ place(i) <= 9
  <2> SUFFICES ASSUME NEW i \in 0 .. 3, last - i >= first
               PROVE  At(last - i) - 48 \in Nat /\ At(last - i) - 48 <= 9
    BY <1>3, <1>5
  <2>1. last - i \in first .. past - 1
    BY <1>3, <1>5
  <2> QED
    BY <1>5, <2>1, ByteFacts
<1> DEFINE a == place(3)
           b == place(2)
           c == place(1)
           d == place(0)
<1>7. /\ a \in Nat /\ a <= 9 /\ b \in Nat /\ b <= 9
      /\ c \in Nat /\ c <= 9 /\ d \in Nat /\ d <= 9
  <2> HIDE DEF place
  <2> QED
    BY <1>6
<1>8. number = d + 10 * c + 100 * b + 1000 * a
  OBVIOUS
<1> HIDE DEF number
<1>9. number \in Nat /\ number <= 9999
  <2> HIDE DEF a, b, c, d, place
  <2> QED
    BY <1>7, <1>8
<1>10. ParsedLength \in Int /\ (ParsedLength >= 0 => ParsedLength \in 0 .. MAX_LENGTH)
  <2>1. pro_length \in 0 .. MAX_LENGTH /\ MAX_LENGTH = 9999
    BY DEF TypeOK, MAX_LENGTH
  <2>2. ParsedLength \in {pro_length, number, -number}
    BY <1>1
  <2> QED
    BY <1>9, <2>1, <2>2
<1>11. /\ \A x \in Digit : x \notin Blank /\ x # PLUS /\ x # MINUS
       /\ MINUS \notin Blank
  BY DEF Digit, Blank, PLUS, MINUS
<1>12. ASSUME At(1) \notin Blank
       PROVE  sign = 1
  BY <1>2, <1>12
<1>13. ASSUME NEW k \in {1, 2}, first = k, \A j \in k .. 4 : At(j) \in Digit
       PROVE  past = 5
  BY <1>5, <1>13
<1>14. ASSUME \A k \in 1 .. LENGTH_SIZE : At(k) \in Digit
       PROVE  ParsedLength = 1000 * (At(1) - 48) + 100 * (At(2) - 48) + 10 * (At(3) - 48)
                                + (At(4) - 48)
  <2>1. \A k \in 1 .. 4 : At(k) \in Digit
    BY <1>14 DEF LENGTH_SIZE
  <2>2. At(1) \in Digit /\ sign = 1 /\ first = 1 /\ At(sign) # MINUS
    BY <1>4, <1>11, <1>12, <2>1
  <2>3. past = 5
    BY <1>13, <2>1, <2>2
  <2>4. ParsedLength = number
    BY <1>1, <2>2, <2>3
  <2>5. a = At(1) - 48 /\ b = At(2) - 48 /\ c = At(3) - 48 /\ d = At(4) - 48
    BY <2>2, <2>3
  <2>6. \A k \in 1 .. 4 : At(k) - 48 \in Nat
    BY <2>1, ByteFacts
  <2> HIDE DEF a, b, c, d
  <2> QED
    BY <1>8, <2>4, <2>5, <2>6
<1>15. ASSUME At(1) = MINUS, \A k \in 2 .. LENGTH_SIZE : At(k) \in Digit,
              NEW k \in 2 .. LENGTH_SIZE, At(k) # 48
       PROVE  ParsedLength < 0
  <2>1. (\A j \in 2 .. 4 : At(j) \in Digit) /\ k \in {2, 3, 4}
    BY <1>15 DEF LENGTH_SIZE
  <2>2. sign = 1 /\ first = 2 /\ At(sign) = MINUS
    BY <1>4, <1>11, <1>12, <1>15
  <2>3. past = 5
    BY <1>13, <2>1, <2>2
  <2>4. ParsedLength = -number
    BY <1>1, <2>2, <2>3
  <2>5. b = At(2) - 48 /\ c = At(3) - 48 /\ d = At(4) - 48
    BY <2>2, <2>3
  <2>6. \A j \in 2 .. 4 : At(j) \in Nat
    <3>1. \A x \in Digit : x \in Nat
      BY DEF Digit
    <3> QED
      BY <2>1, <3>1
  <2>7. b # 0 \/ c # 0 \/ d # 0
    <3>1. At(k) - 48 # 0
      <4>1. At(k) \in Nat
        BY <2>1, <2>6
      <4> QED
        BY <1>15, <4>1
    <3> QED
      BY <2>1, <2>5, <3>1
  <2> HIDE DEF a, b, c, d
  <2>8. number > 0
    BY <1>7, <1>8, <2>7
  <2> QED
    BY <1>9, <2>4, <2>8
<1> QED
  BY <1>10, <1>14, <1>15

\* Wherever a header is acted on, its number is not negative.
LEMMA HeadLength ==
    ASSUME TypeOK, HeadExact \/ HeadStick \/ HeadDismantle
    PROVE  /\ ParsedLength \in Nat /\ ParsedLength \in 0 .. MAX_LENGTH
           /\ recv_length \in Nat /\ recv_length >= HEAD_SIZE /\ ~SaysNegative
<1>1. recv_length \in Nat /\ recv_length >= HEAD_SIZE /\ HEAD_SIZE = 5
  BY DEF HeadExact, HeadStick, HeadDismantle, AtHead, TypeOK, HEAD_SIZE
<1>2. ParsedLength \in Int /\ (ParsedLength >= 0 => ParsedLength \in 0 .. MAX_LENGTH)
  BY ParsedFacts
<1>3. ParsedLength >= 0
  BY <1>1, <1>2 DEF HeadExact, HeadStick, HeadDismantle
<1> QED
  BY <1>1, <1>2, <1>3 DEF SaysNegative

LEMMA PushFacts ==
    ASSUME TypeOK, NEW n \in Nat, PushRecvBuffToQueue(n)
    PROVE  /\ jqueue' \in Seq(Seq(Byte))
           /\ n > MaxPacket => jqueue' = jqueue
           /\ n <= MaxPacket =>
                 /\ [k \in 1 .. n |-> At(LENGTH_SIZE + k)] \in Seq(Byte)
                 /\ Len([k \in 1 .. n |-> At(LENGTH_SIZE + k)]) = n
                 /\ jqueue' = Append(jqueue, [k \in 1 .. n |-> At(LENGTH_SIZE + k)])
<1> DEFINE p == [k \in 1 .. n |-> At(LENGTH_SIZE + k)]
<1>1. p \in [1 .. n -> Byte]
  BY AtType
<1> HIDE DEF p
<1>2. p \in Seq(Byte) /\ Len(p) = n
  BY <1>1, FunctionIsSeq
<1>3. jqueue' = IF n > MaxPacket THEN jqueue ELSE Append(jqueue, p)
  BY DEF PushRecvBuffToQueue, p
<1>4. jqueue \in Seq(Seq(Byte))
  BY DEF TypeOK
<1>5. Append(jqueue, p) \in Seq(Seq(Byte))
  BY <1>2, <1>4, AppendProperties
<1>6. n > MaxPacket <=> ~(n <= MaxPacket)
  BY LimitFacts
<1> QED
  BY <1>2, <1>3, <1>4, <1>5, <1>6 DEF p

\* Chunks are parts of the stream.
LEMMA ChunkFacts ==
    ASSUME NEW m \in 0 .. Len(Stream), NEW n \in ChunkEnds[m]
    PROVE  /\ n \in 0 .. Len(Stream) /\ n > m /\ n - m <= MaxRecv
           /\ <<m, n>> \in Chunks
           /\ Len(SubSeq(Stream, m + 1, n)) = n - m
           /\ \A k \in 1 .. n - m : SubSeq(Stream, m + 1, n)[k] = Stream[m + k]
           /\ \A k \in 1 .. n - m : SubSeq(Stream, m + 1, n)[k] \in Byte
<1>1. n \in m + 1 .. Len(Stream) /\ <<m, n>> \in Chunks
  BY DEF ChunkEnds
<1>2. m \in Nat /\ n \in Nat /\ m + 1 <= n /\ n <= Len(Stream)
  BY <1>1, LimitFacts
<1>3. n - m \in 1 .. MaxRecv
  <2>1. <<m, n>> \in {c \in (0 .. Len(Stream)) \X (0 .. Len(Stream)) : c[2] - c[1] \in 1 .. MaxRecv}
    BY <1>1, StreamAssumption, Zenon
  <2> QED
    BY <2>1
<1> DEFINE a == m + 1
<1>4. \A k \in a .. n : Stream[k] \in Byte
  BY <1>2, LimitFacts
<1>5. a \in Int /\ n \in Int /\ a <= n /\ n - a + 1 = n - m /\ \A k \in 1 .. n - m : a + k - 1 = m + k
  BY <1>2
<1> HIDE DEF a
<1>6. /\ SubSeq(Stream, a, n) \in Seq(Byte)
      /\ Len(SubSeq(Stream, a, n)) = IF a <= n THEN n - a + 1 ELSE 0
      /\ \A k \in 1 .. n - a + 1 : SubSeq(Stream, a, n)[k] = Stream[a + k - 1]
  BY <1>4, <1>5, SubSeqProperties
<1>7. /\ Len(SubSeq(Stream, a, n)) = n - m
      /\ \A k \in 1 .. n - m : SubSeq(Stream, a, n)[k] = Stream[m + k]
  BY <1>5, <1>6
<1>8. \A k \in 1 .. n - m : Stream[m + k] \in Byte
  BY <1>2, LimitFacts
<1> QED
  BY <1>1, <1>2, <1>3, <1>7, <1>8, LimitFacts DEF a

LEMMA StreamTypeInit == Init => StreamType
<1> SUFFICES ASSUME Init PROVE StreamType
  OBVIOUS
<1>1. Cleared \in [Indices -> Byte] /\ 0 \in 0 .. MAX_LENGTH
  BY ByteFacts DEF Cleared
<1>2. 0 \in 0 .. Len(Stream) /\ <<>> \in Seq(Seq(Byte))
  BY LimitFacts, EmptySeq
<1> QED
  BY <1>1, <1>2 DEF Init, StreamType, TypeOK

LEMMA StreamTypeStep == StreamType /\ [Next]_vars => StreamType'
<1> SUFFICES ASSUME StreamType, [Next]_vars PROVE StreamType'
  OBVIOUS
<1> USE DEF HEAD_SIZE
<1>1. /\ received \in 0 .. Len(Stream) /\ data \in [Indices -> Byte] /\ count \in Nat
      /\ bytes_remained \in Nat /\ pro_length \in 0 .. MAX_LENGTH /\ recv_length \in Nat
      /\ jqueue \in Seq(Seq(Byte)) /\ TypeOK
      /\ bytes_remained > 0 => bytes_remained + count >= pro_length + 5
  BY DEF StreamType, TypeOK
<1>2. /\ HeadExact \/ HeadStick \/ HeadDismantle =>
            ParsedLength \in 0 .. MAX_LENGTH /\ ParsedLength \in Nat
      /\ pro_length \in Nat /\ 0 \in 0 .. MAX_LENGTH
  BY <1>1, HeadLength, ByteFacts
<1>3. /\ Cleared \in [Indices -> Byte]
      /\ \A from, n : MoveToFront(from, n) \in [Indices -> Byte]
  BY <1>1, AtType
<1>4. \A n \in Nat : PushRecvBuffToQueue(n) => jqueue' \in Seq(Seq(Byte))
  BY <1>1, PushFacts
<1>5. CASE Recv
  <2>1. PICK end \in ChunkEnds[received] :
           LET chunk == SubSeq(Stream, received + 1, end)
           IN  /\ data' = [k \in Indices |-> IF k - count \in 0 .. Len(chunk) - 1
                                             THEN chunk[k - count + 1]
                                             ELSE data[k]]
               /\ recv_length' = Len(chunk)
               /\ received' = end
    BY <1>5 DEF Recv
  <2> DEFINE chunk == SubSeq(Stream, received + 1, end)
  <2>2. /\ end \in 0 .. Len(Stream) /\ end > received
        /\ Len(chunk) = end - received
        /\ \A k \in 1 .. end - received : chunk[k] \in Byte
    BY <1>1, ChunkFacts
  <2> HIDE DEF chunk
  <2>3. \A k \in Indices : k - count \in 0 .. Len(chunk) - 1 => k - count + 1 \in 1 .. end - received
    BY <1>1, <2>2, ByteFacts
  <2>4. data' \in [Indices -> Byte]
    BY <1>1, <2>1, <2>2, <2>3 DEF chunk
  <2>5. recv_length' \in Nat /\ received' \in 0 .. Len(Stream)
    BY <1>1, <2>1, <2>2, LimitFacts DEF chunk
  <2> QED
    BY <1>1, <1>5, <2>4, <2>5 DEF Recv, StreamType, TypeOK
<1>6. CASE RecvQuit
  <2>1. received' \in 0 .. Len(Stream)
    <3>1. received + 1 \in ChunkEnds[received] /\ received' = received + 1
      BY <1>6 DEF RecvQuit
    <3> QED
      BY <1>1, <3>1, ChunkFacts
  <2> QED
    BY <1>1, <1>6, <2>1 DEF RecvQuit, StreamType, TypeOK
<1>7. CASE RecvClosed
  BY <1>1, <1>7 DEF RecvClosed, StreamType, TypeOK
<1>8. CASE HeadExact \/ BodyExact
  <2>1. jqueue' \in Seq(Seq(Byte))
    BY <1>2, <1>4, <1>8 DEF HeadExact, BodyExact
  <2> QED
    BY <1>1, <1>2, <1>3, <1>8, <2>1 DEF HeadExact, BodyExact, ClearAndReturn, StreamType, TypeOK
<1>9. CASE HeadStick
  <2>1. /\ bytes_remained' \in Nat /\ count' \in Nat
        /\ bytes_remained' + count' >= pro_length' + 5
    BY <1>1, <1>2, <1>9 DEF HeadStick
  <2> QED
    BY <1>1, <1>2, <1>9, <2>1 DEF HeadStick, StreamType, TypeOK
<1>10. CASE HeadDismantle
  <2>1. recv_length' \in Nat /\ bytes_remained' = 0 /\ count' = 0
    BY <1>1, <1>2, <1>10 DEF HeadDismantle
  <2>2. jqueue' \in Seq(Seq(Byte)) /\ data' \in [Indices -> Byte]
    BY <1>2, <1>3, <1>4, <1>10 DEF HeadDismantle
  <2> QED
    BY <1>1, <1>2, <1>10, <2>1, <2>2 DEF HeadDismantle, StreamType, TypeOK, AtHead
<1>11. CASE BodyStick
  <2>1. /\ bytes_remained' \in Nat /\ count' \in Nat
        /\ bytes_remained' + count' >= pro_length' + 5
    BY <1>1, <1>2, <1>11 DEF BodyStick, InBody
  <2> QED
    BY <1>1, <1>11, <2>1 DEF BodyStick, StreamType, TypeOK
<1>12. CASE BodyDismantle
  <2>1. recv_length' \in Nat /\ bytes_remained' = 0 /\ count' = 0
    BY <1>1, <1>2, <1>12 DEF BodyDismantle, InBody
  <2>2. jqueue' \in Seq(Seq(Byte)) /\ data' \in [Indices -> Byte]
    BY <1>2, <1>3, <1>4, <1>12 DEF BodyDismantle
  <2> QED
    BY <1>1, <1>12, <2>1, <2>2 DEF BodyDismantle, InBody, StreamType, TypeOK
<1>13. CASE BodyLoss
  BY <1>1, <1>3, <1>13 DEF BodyLoss, InBody, StreamType, TypeOK
<1>14. CASE ShortChunk
  BY <1>1, <1>14 DEF ShortChunk, Elsewhere, InBody, StreamType, TypeOK
<1>15. CASE ErrorClear
  <2>1. received' \in 0 .. Len(Stream)
    <3>1. PICK m \in received .. Len(Stream) : received' \in {received} \cup ChunkEnds[m]
      BY <1>15 DEF ErrorClear
    <3>2. m \in 0 .. Len(Stream)
      BY <1>1, LimitFacts
    <3> QED
      BY <1>1, <3>1, <3>2, ChunkFacts
  <2> QED
    BY <1>1, <1>2, <1>3, <1>15, <2>1 DEF ErrorClear, ClearAndReturn, StreamType, TypeOK
<1>16. CASE UNCHANGED vars
  BY <1>16 DEF vars, StreamType, TypeOK
<1>17. CASE HeadNegative
  BY <1>1, <1>17 DEF HeadNegative, StreamType, TypeOK
<1> QED
  BY <1>5, <1>6, <1>7, <1>8, <1>9, <1>10, <1>11, <1>12, <1>13, <1>14, <1>15, <1>16, <1>17
  DEF Next, Round

-----------------------------------------------------------------------------
\* Framing, of the intact part of a stream.

\* Whatever waits is of the next frame, and there is room for a chunk behind it.
LEMMA WaitingFacts ==
    ASSUME StreamType, BufferSuffices, NEW n \in 0 .. Len(Frames), Framing(n),
           received <= Intact
    PROVE  /\ count > 0 =>
                 /\ End(n) < Intact /\ bytes_remained > 0 /\ count < Size(n + 1)
           /\ count + MaxRecv <= BUFLENGTH
<1>1. /\ count \in Nat /\ bytes_remained \in Nat /\ recv_length \in Nat
      /\ received \in Nat /\ End(n) \in Nat
  BY EndFacts, LimitFacts DEF StreamType, TypeOK
<1>2. received = End(n) + Waiting /\ Waiting \in Nat /\ Waiting >= count
  BY <1>1 DEF Framing, Waiting
<1>3. CASE count = 0
  BY <1>3, LimitFacts DEF BufferSuffices
<1>4. CASE count > 0
  <2>1. bytes_remained > 0 /\ bytes_remained = Size(n + 1) - count
    BY <1>1, <1>4 DEF Framing
  <2>2. End(n) < Intact
    BY <1>1, <1>2, <1>4, LimitFacts
  <2>3. n + 1 \in 1 .. Len(Frames) /\ Frames[n + 1].last <= Intact
    BY <2>2, NextFrame
  <2>4. Size(n + 1) \in Nat /\ Size(n + 1) - 1 + MaxRecv <= BUFLENGTH
    BY <2>3, SizeFacts, FramesLen DEF BufferSuffices
  <2>5. count < Size(n + 1)
    BY <1>1, <2>1, <2>4
  <2> QED
    BY SMTT(30), <1>1, <2>1, <2>2, <2>4, <2>5, LimitFacts
<1> QED
  BY <1>1, <1>3, <1>4

\* In a round, the next frame begins the buffer, its header is whole, and if
\* it is new its length is read from there.
LEMMA RoundFacts ==
    ASSUME StreamType, BufferSuffices, NEW n \in 0 .. Len(Frames), Framing(n),
           received <= Intact, pc = "start"
    PROVE  /\ n + 1 \in 1 .. Len(Frames) /\ n < Len(Frames)
           /\ Frames[n + 1].first = End(n) + 1 /\ End(n + 1) = End(n) + Size(n + 1)
           /\ Frames[n + 1].last = End(n) + Size(n + 1)
           /\ Size(n + 1) \in Nat /\ Size(n + 1) >= 6 /\ End(n) \in Nat
           /\ Waiting = count + recv_length /\ Waiting >= 5 /\ Waiting <= BUFLENGTH
           /\ count < Size(n + 1) /\ count \in Nat /\ recv_length \in Nat /\ bytes_remained \in Nat
           /\ received = End(n) + count + recv_length
           /\ recv_length >= 1 /\ recv_length <= MaxRecv
           /\ \A k \in 0 .. Waiting - 1 :
                 k \in Indices /\ At(k) = Stream[End(n) + k + 1] /\ data[k] = At(k)
           /\ data[0] = PROTOCOL_HEAD
           /\ bytes_remained = 0 => count = 0 /\ ParsedLength = Size(n + 1) - HEAD_SIZE
<1>1. /\ count \in Nat /\ bytes_remained \in Nat /\ recv_length \in Nat
      /\ received \in Nat /\ End(n) \in Nat /\ TypeOK
  BY EndFacts, LimitFacts DEF StreamType, TypeOK
<1>2. /\ Waiting = count + recv_length /\ recv_length >= 1 /\ recv_length <= MaxRecv
      /\ received = End(n) + Waiting /\ NotCut(received) /\ Waiting \in Nat
  BY <1>1 DEF Framing, Waiting
<1>3. End(n) < Intact
  BY <1>1, <1>2, LimitFacts
<1>4. /\ n + 1 \in 1 .. Len(Frames) /\ n < Len(Frames)
      /\ Frames[n + 1].first = End(n) + 1 /\ End(n + 1) = End(n) + Size(n + 1)
      /\ Frames[n + 1].last <= Intact
  BY <1>3, NextFrame
<1>5. /\ Size(n + 1) \in Nat /\ Size(n + 1) >= 6
      /\ Frames[n + 1].last = End(n) + Size(n + 1)
  <2>1. /\ Size(n + 1) \in Nat /\ Size(n + 1) >= 6
        /\ Frames[n + 1].last = Frames[n + 1].first + Size(n + 1) - 1
    BY <1>4, SizeFacts
  <2> QED
    BY <1>1, <1>4, <2>1
<1>6. count < Size(n + 1) /\ count + MaxRecv <= BUFLENGTH
  BY <1>1, <1>5, WaitingFacts
<1>7. Waiting <= BUFLENGTH
  BY <1>1, <1>2, <1>6, LimitFacts
<1>8. Waiting >= 5
  <2>1. ~(Frames[n + 1].first <= received /\ received < Frames[n + 1].first + 4)
    BY <1>2, <1>4, FramesLen DEF NotCut, LENGTH_SIZE
  <2> QED
    BY <1>1, <1>2, <1>4, <2>1
<1>9. \A k \in 0 .. Waiting - 1 :
         k \in Indices /\ At(k) = Stream[End(n) + k + 1] /\ data[k] = At(k)
  <2> SUFFICES ASSUME NEW k \in 0 .. Waiting - 1
               PROVE  k \in Indices /\ At(k) = Stream[End(n) + k + 1] /\ data[k] = At(k)
    OBVIOUS
  <2>1. k \in Indices
    BY <1>2, <1>7, LimitFacts, ByteFacts
  <2>2. data[k] = Stream[End(n) + k + 1]
    BY DEF Framing
  <2> QED
    BY <2>1, <2>2 DEF At
<1>10. data[0] = PROTOCOL_HEAD
  <2>1. 0 \in 0 .. Waiting - 1 /\ End(n) + 0 + 1 = End(n) + 1
    BY <1>1, <1>2, <1>8
  <2>2. data[0] = Stream[End(n) + 1]
    BY <1>9, <2>1
  <2>3. Stream[Frames[n + 1].first] = PROTOCOL_HEAD
    BY <1>4, FrameFacts
  <2> QED
    BY <1>4, <2>2, <2>3
<1>11. ASSUME bytes_remained = 0
       PROVE  count = 0 /\ ParsedLength = Size(n + 1) - HEAD_SIZE
  <2> DEFINE v(k) == Stream[Frames[n + 1].first + k]
  <2>1. /\ \A k \in 1 .. LENGTH_SIZE : v(k) \in Digit
        /\ 1000 * (v(1) - 48) + 100 * (v(2) - 48) + 10 * (v(3) - 48) + (v(4) - 48)
              = Size(n + 1) - HEAD_SIZE
    BY <1>4, HeaderFacts
  <2>2. \A k \in 1 .. 4 : At(k) = v(k)
    <3> SUFFICES ASSUME NEW k \in 1 .. 4 PROVE At(k) = v(k)
      OBVIOUS
    <3>1. k \in 0 .. Waiting - 1 /\ End(n) + k + 1 = (End(n) + 1) + k
      BY <1>1, <1>2, <1>8
    <3>2. At(k) = Stream[End(n) + k + 1]
      BY <1>9, <3>1
    <3> QED
      BY <1>4, <3>1, <3>2
  <2> HIDE DEF v
  <2>3. At(1) = v(1) /\ At(2) = v(2) /\ At(3) = v(3) /\ At(4) = v(4)
    BY <2>2
  <2>4. \A k \in 1 .. LENGTH_SIZE : At(k) \in Digit
    BY <2>1, <2>2 DEF LENGTH_SIZE
  <2>5. ParsedLength = 1000 * (At(1) - 48) + 100 * (At(2) - 48) + 10 * (At(3) - 48) + (At(4) - 48)
    BY <1>1, <2>4, ParsedFacts
  <2>6. count = 0
    BY <1>11 DEF Framing
  <2> QED
    BY <2>1, <2>3, <2>5, <2>6
<1>12. received = End(n) + count + recv_length
  BY <1>1, <1>2
<1> QED
  BY <1>1, <1>2, <1>4, <1>5, <1>6, <1>7, <1>8, <1>9, <1>10, <1>11, <1>12

\* The next frame is queued once it is whole.
LEMMA QueueFrame ==
    ASSUME StreamType, BufferSuffices, NEW n \in 0 .. Len(Frames), Framing(n),
           received <= Intact, pc = "start", Waiting >= Size(n + 1),
           PushRecvBuffToQueue(Size(n + 1) - HEAD_SIZE)
    PROVE  jqueue' = Queued(n + 1)
<1> DEFINE l == Size(n + 1) - HEAD_SIZE
           p == [k \in 1 .. l |-> At(LENGTH_SIZE + k)]
<1>1. /\ n + 1 \in 1 .. Len(Frames) /\ n < Len(Frames)
      /\ Frames[n + 1].first = End(n) + 1
      /\ Size(n + 1) \in Nat /\ Size(n + 1) >= 6 /\ End(n) \in Nat
      /\ Waiting = count + recv_length /\ count \in Nat /\ recv_length \in Nat
      /\ \A k \in 0 .. Waiting - 1 : At(k) = Stream[End(n) + k + 1]
  BY RoundFacts
<1>2. l \in Nat /\ HEAD_SIZE = 5 /\ LENGTH_SIZE = 4 /\ l = Size(n + 1) - 5 /\ TypeOK
  BY SMTT(30), <1>1 DEF HEAD_SIZE, LENGTH_SIZE, StreamType
<1>3. /\ Payloads[n + 1] \in Seq(Byte) /\ Len(Payloads[n + 1]) = l
      /\ \A k \in 1 .. l : Payloads[n + 1][k] = Stream[Frames[n + 1].first + LENGTH_SIZE + k]
  BY <1>1, PayloadFacts
<1>4. jqueue = Queued(n)
  BY DEF Framing
<1>5. Queued(n + 1) = IF Len(Payloads[n + 1]) > MaxPacket THEN Queued(n)
                      ELSE Append(Queued(n), Payloads[n + 1])
  BY <1>1, QueuedNext
<1>6. PushRecvBuffToQueue(l)
  OBVIOUS
<1>7. \A k \in 1 .. l : At(LENGTH_SIZE + k) = Payloads[n + 1][k]
  <2> SUFFICES ASSUME NEW k \in 1 .. l PROVE At(LENGTH_SIZE + k) = Payloads[n + 1][k]
    OBVIOUS
  <2>1. /\ 4 + k \in 0 .. Waiting - 1
        /\ End(n) + (4 + k) + 1 = (End(n) + 1) + 4 + k
    <3>1. k \in Nat /\ k >= 1 /\ k <= Size(n + 1) - 5
      <4> HIDE DEF l
      <4> QED
        BY <1>2
    <3>2. /\ Waiting \in Nat /\ Size(n + 1) \in Nat /\ End(n) \in Nat
          /\ Waiting >= Size(n + 1)
      BY <1>1
    <3> QED
      BY <3>1, <3>2
  <2>2. At(4 + k) = Stream[End(n) + (4 + k) + 1]
    BY <1>1, <2>1
  <2> QED
    BY <1>1, <1>2, <1>3, <2>1, <2>2
<1>8. CASE l > MaxPacket
  <2> HIDE DEF l
  <2>1. jqueue' = jqueue
    BY <1>2, <1>6, <1>8, PushFacts
  <2> QED
    BY <1>3, <1>4, <1>5, <1>8, <2>1
<1>9. CASE ~(l > MaxPacket)
  <2>1. l <= MaxPacket
    BY <1>2, <1>9, LimitFacts
  <2> HIDE DEF l
  <2>2. p \in Seq(Byte) /\ Len(p) = l /\ jqueue' = Append(jqueue, p)
    BY <1>2, <1>6, <2>1, PushFacts
  <2>3. \A k \in 1 .. l : p[k] = Payloads[n + 1][k]
    BY <1>7
  <2> HIDE DEF p
  <2>4. p = Payloads[n + 1]
    BY <1>3, <2>2, <2>3, SeqEqual
  <2> QED
    BY <1>3, <1>4, <1>5, <1>9, <2>2, <2>4
<1> QED
  BY <1>8, <1>9

\* What is behind it is then moved to the front.
LEMMA DropFrame ==
    ASSUME StreamType, BufferSuffices, NEW n \in 0 .. Len(Frames), Framing(n),
           received <= Intact, pc = "start",
           NEW rest \in Nat, Waiting = Size(n + 1) + rest,
           data' = MoveToFront(Size(n + 1), rest)
    PROVE  \A k \in 0 .. rest - 1 : data'[k] = Stream[End(n + 1) + k + 1]
<1> SUFFICES ASSUME NEW k \in 0 .. rest - 1 PROVE data'[k] = Stream[End(n + 1) + k + 1]
  OBVIOUS
<1>1. /\ End(n + 1) = End(n) + Size(n + 1) /\ Size(n + 1) \in Nat /\ End(n) \in Nat
      /\ Waiting <= BUFLENGTH
      /\ \A j \in 0 .. Waiting - 1 : At(j) = Stream[End(n) + j + 1]
  BY RoundFacts
<1>2. k \in Indices /\ k < rest
  BY <1>1, LimitFacts, ByteFacts
<1>3. data'[k] = At(Size(n + 1) + k)
  BY <1>2 DEF MoveToFront
<1>4. /\ Size(n + 1) + k \in 0 .. Waiting - 1
      /\ End(n) + (Size(n + 1) + k) + 1 = End(n + 1) + k + 1
  BY <1>1
<1> QED
  BY <1>1, <1>3, <1>4

\* A frame is queued and the rest of the chunk is the beginning of the next.
LEMMA NextFraming ==
    ASSUME StreamType, BufferSuffices, NEW n \in 0 .. Len(Frames), Framing(n),
           received <= Intact, pc = "start", Waiting >= Size(n + 1),
           PushRecvBuffToQueue(Size(n + 1) - HEAD_SIZE),
           received' = received, count' = 0, bytes_remained' = 0,
           \/ pc' = "recv" /\ Waiting = Size(n + 1)
           \/ /\ pc' = "start" /\ Waiting > Size(n + 1)
              /\ recv_length' = Waiting - Size(n + 1)
              /\ data' = MoveToFront(Size(n + 1), Waiting - Size(n + 1))
    PROVE  n + 1 \in 0 .. Len(Frames) /\ Framing(n + 1)'
<1> DEFINE rest == Waiting - Size(n + 1)
<1>1. /\ n + 1 \in 1 .. Len(Frames) /\ n < Len(Frames)
      /\ End(n + 1) = End(n) + Size(n + 1)
      /\ Size(n + 1) \in Nat /\ End(n) \in Nat
      /\ Waiting = count + recv_length /\ count < Size(n + 1)
      /\ count \in Nat /\ recv_length \in Nat /\ recv_length <= MaxRecv
      /\ received = End(n) + count + recv_length
  BY RoundFacts
<1>2. jqueue' = Queued(n + 1)
  BY QueueFrame
<1>3. rest \in Nat /\ Waiting = Size(n + 1) + rest /\ rest <= MaxRecv
      /\ received' = End(n + 1) + rest
  <2>1. /\ Waiting = count + recv_length /\ MaxRecv \in Nat /\ recv_length <= MaxRecv
        /\ Size(n + 1) \in Nat /\ End(n) \in Nat /\ count < Size(n + 1)
        /\ count \in Nat /\ recv_length \in Nat
    BY <1>1, LimitFacts
  <2>2. /\ rest = Waiting - Size(n + 1) /\ received' = received /\ Waiting >= Size(n + 1)
        /\ received = End(n) + count + recv_length /\ End(n + 1) = End(n) + Size(n + 1)
    BY <1>1
  <2> HIDE DEF rest
  <2>3. rest \in Nat /\ Waiting = Size(n + 1) + rest /\ rest <= MaxRecv
    BY <2>1, <2>2
  <2> DEFINE s == Size(n + 1)
             e == End(n)
  <2>4. /\ s \in Nat /\ e \in Nat /\ rest \in Nat /\ count \in Nat /\ recv_length \in Nat
        /\ count + recv_length = s + rest
    BY <2>1, <2>3
  <2> HIDE DEF s, e
  <2>5. e + count + recv_length = (e + s) + rest
    BY <2>4
  <2>6. received' = (e + s) + rest
    BY <2>2, <2>5 DEF s, e
  <2> QED
    BY <2>2, <2>3, <2>6 DEF s, e
<1>4. NotCut(received)'
  BY DEF Framing, NotCut
<1>5. CASE pc' = "recv" /\ Waiting = Size(n + 1)
  <2>1. Waiting' = 0 /\ rest = 0
    BY <1>1, <1>5 DEF Waiting
  <2> QED
    BY <1>1, <1>2, <1>3, <1>4, <1>5, <2>1 DEF Framing
<1>6. CASE /\ pc' = "start" /\ Waiting > Size(n + 1) /\ recv_length' = rest
           /\ data' = MoveToFront(Size(n + 1), rest)
  <2>1. Waiting' = rest
    BY <1>3, <1>6 DEF Waiting
  <2>2. rest >= 1
    BY <1>1, <1>6
  <2> HIDE DEF rest
  <2>3. \A k \in 0 .. rest - 1 : data'[k] = Stream[End(n + 1) + k + 1]
    BY <1>3, <1>6, DropFrame
  <2> QED
    BY <1>1, <1>2, <1>3, <1>4, <1>6, <2>1, <2>2, <2>3, LimitFacts DEF Framing
<1> QED
  BY <1>1, <1>5, <1>6

\* The thread ends: what it has queued is a beginning of what has arrived.
LEMMA PrefixWhenEnded ==
    ASSUME StreamType, NEW n \in 0 .. Len(Frames), Framing(n),
           NEW m \in Nat, received <= m
    PROVE  IsPrefix(jqueue, Expected(m))
<1>1. End(n) <= m
  <2>1. /\ received = End(n) + Waiting /\ Waiting \in Nat /\ End(n) \in Nat /\ received \in Nat
    BY EndFacts, LimitFacts DEF StreamType, TypeOK, Framing, Waiting
  <2> QED
    BY <2>1
<1>2. Complete(m) \in 0 .. Len(Frames) /\ n <= Complete(m)
  BY <1>1, CompleteFacts
<1>3. n \in 0 .. Complete(m)
  BY <1>2, FramesLen
<1>4. IsPrefix(Queued(n), Queued(Complete(m)))
  BY <1>2, <1>3, QueuedGrows
<1> QED
  BY <1>4 DEF Framing, Expected

LEMMA StreamInit == Init => StreamInv
<1> SUFFICES ASSUME Init PROVE \E n \in 0 .. Len(Frames) : Framing(n)
  BY DEF Init, StreamInv
<1>1. 0 \in 0 .. Len(Frames)
  BY FramesLen
<1>2. Waiting = 0 /\ End(0) = 0
  BY DEF Init, Waiting, End
<1>3. Queued(0) = <<>>
  <2>1. /\ [j \in 1 .. 0 |-> Admitted(j)] \in Seq(Seq(Seq(Byte)))
        /\ Len([j \in 1 .. 0 |-> Admitted(j)]) = 0
        /\ Queued(0) = FlattenSeq([j \in 1 .. 0 |-> Admitted(j)])
    BY <1>1, AdmittedFacts
  <2>2. [j \in 1 .. 0 |-> Admitted(j)] = <<>>
    BY <2>1, EmptySeq
  <2> QED
    BY <2>1, <2>2, FlattenEmpty
<1>4. NotCut(0)
  <2> SUFFICES ASSUME NEW i \in DOMAIN Frames PROVE ~(Frames[i].first <= 0)
    BY DEF NotCut
  <2>1. Frames[i].first \in Nat /\ Frames[i].first >= 1
    BY FramesLen, SizeFacts
  <2> QED
    BY <2>1
<1> QED
  BY <1>1, <1>2, <1>3, <1>4 DEF Init, Framing

\* The program ends while the thread waits or is in a round.
Stops ==
    /\ pc' = "ended"
    /\ UNCHANGED <<received, data, count, bytes_remained, pro_length, recv_length, jqueue>>

LEMMA ReceivedGrows ==
    ASSUME StreamType, [Next]_vars \/ Stops
    PROVE  received' \in Nat /\ received <= received' /\ received \in Nat
<1>1. received \in 0 .. Len(Stream) /\ received \in Nat
  BY LimitFacts DEF StreamType, TypeOK
<1>2. CASE Recv \/ RecvQuit
  <2>1. received' \in ChunkEnds[received]
    BY <1>2 DEF Recv, RecvQuit
  <2>2. received' \in 0 .. Len(Stream) /\ received' > received
    BY <1>1, <2>1, ChunkFacts, Zenon
  <2> QED
    BY <1>1, <2>2, LimitFacts
<1>3. CASE ErrorClear
  <2>1. PICK m \in received .. Len(Stream) : received' \in {received} \cup ChunkEnds[m]
    BY <1>3 DEF ErrorClear
  <2>2. m \in 0 .. Len(Stream) /\ m \in Nat /\ received <= m
    BY <1>1, <2>1, LimitFacts
  <2>3. CASE received' \in ChunkEnds[m]
    <3>1. received' \in 0 .. Len(Stream) /\ received' > m
      BY <2>2, <2>3, ChunkFacts, Zenon
    <3> QED
      BY <1>1, <2>2, <3>1, LimitFacts
  <2> QED
    BY <1>1, <2>1, <2>3
<1>4. CASE received' = received
  BY <1>1, <1>4
<1> QED
  BY <1>2, <1>3, <1>4 DEF Next, Round, RecvClosed, HeadExact, HeadStick, HeadDismantle, BodyExact,
     BodyStick, BodyDismantle, BodyLoss, ShortChunk, HeadNegative, vars, Stops

\* recv puts its chunk behind what waits.
LEMMA RecvFraming ==
    ASSUME StreamType, HeadersWhole, BufferSuffices, NEW n \in 0 .. Len(Frames), Framing(n),
           Recv, received' <= Intact
    PROVE  Framing(n)'
<1>1. PICK end \in ChunkEnds[received] :
         LET chunk == SubSeq(Stream, received + 1, end)
         IN  /\ data' = [k \in Indices |-> IF k - count \in 0 .. Len(chunk) - 1
                                           THEN chunk[k - count + 1]
                                           ELSE data[k]]
             /\ recv_length' = Len(chunk)
             /\ received' = end
  BY DEF Recv
<1> DEFINE chunk == SubSeq(Stream, received + 1, end)
           len == end - received
<1>2. /\ received \in 0 .. Len(Stream) /\ received \in Nat /\ count \in Nat /\ end \in Nat
      /\ end > received /\ len \in Nat /\ len >= 1 /\ len <= MaxRecv
      /\ <<received, end>> \in Chunks
      /\ Len(chunk) = len
      /\ \A k \in 1 .. len : chunk[k] = Stream[received + k]
  <2>1. received \in 0 .. Len(Stream) /\ count \in Nat
    BY DEF StreamType, TypeOK
  <2>2. /\ end \in 0 .. Len(Stream) /\ end > received /\ end - received <= MaxRecv
        /\ <<received, end>> \in Chunks
        /\ Len(chunk) = end - received
        /\ \A k \in 1 .. end - received : chunk[k] = Stream[received + k]
    BY <2>1, ChunkFacts
  <2> HIDE DEF chunk
  <2>3. received \in Nat /\ end \in Nat /\ len \in Nat /\ len >= 1
    BY <2>1, <2>2, LimitFacts
  <2> QED
    BY <2>1, <2>2, <2>3
<1>3. pc = "recv" /\ pc' = "start" /\ UNCHANGED <<count, bytes_remained, pro_length, jqueue>>
  BY DEF Recv
<1>4. Waiting = count /\ Waiting' = count + len
  BY <1>1, <1>2, <1>3 DEF Waiting
<1>5. received = End(n) + count /\ End(n) \in Nat
  BY <1>4, EndFacts DEF Framing
<1>6. count + MaxRecv <= BUFLENGTH
  <2>1. received <= Intact
    BY <1>1, <1>2, LimitFacts
  <2> QED
    BY <2>1, WaitingFacts
<1>7. NotCut(end)
  BY <1>2 DEF HeadersWhole
<1>8. \A k \in 0 .. (count + len) - 1 : data'[k] = Stream[End(n) + k + 1]
  <2> SUFFICES ASSUME NEW k \in 0 .. (count + len) - 1
               PROVE  data'[k] = Stream[End(n) + k + 1]
    OBVIOUS
  <2>1. k \in Indices /\ k \in Nat /\ k < count + len
    <3>1. k \in 0 .. BUFLENGTH - 1
      BY <1>2, <1>6, LimitFacts
    <3> QED
      BY <1>2, <3>1, ByteFacts
  <2> HIDE DEF chunk, len
  <2>2. data'[k] = IF k - count \in 0 .. len - 1 THEN chunk[k - count + 1] ELSE data[k]
    BY <1>1, <1>2, <2>1 DEF chunk
  <2>3. CASE k < count
    <3>1. ~(k - count \in 0 .. len - 1) /\ k \in 0 .. Waiting - 1
      BY <1>2, <1>4, <2>1, <2>3
    <3>2. data[k] = Stream[End(n) + k + 1]
      BY <3>1 DEF Framing
    <3> QED
      BY <2>2, <3>1, <3>2
  <2>4. CASE k >= count
    <3>1. /\ k - count \in 0 .. len - 1 /\ k - count + 1 \in 1 .. len
          /\ received + (k - count + 1) = End(n) + k + 1
      BY <1>2, <1>5, <2>1, <2>4
    <3>2. chunk[k - count + 1] = Stream[received + (k - count + 1)]
      BY <1>2, <3>1
    <3> QED
      BY <2>2, <3>1, <3>2
  <2> QED
    BY <1>2, <2>1, <2>3, <2>4
<1>9. received' = End(n) + Waiting' /\ recv_length' \in 1 .. MaxRecv
  <2>1. recv_length' = len /\ received' = end /\ end = received + len
    BY <1>1, <1>2
  <2> HIDE DEF len
  <2> QED
    BY <1>2, <1>4, <1>5, <2>1, LimitFacts
<1> HIDE DEF len
<1> QED
  BY <1>1, <1>3, <1>4, <1>7, <1>8, <1>9 DEF Framing

\* The last byte of a frame of s bytes, p of them payload, of which all but b
\* had arrived in c bytes when r more did.
LEMMA LastByte ==
    ASSUME NEW s \in Nat, NEW p \in Nat, NEW c \in Nat, NEW r \in Nat, NEW b \in Nat,
           p = s - 5, b = s - c
    PROVE  /\ b < r => p + 4 \in 0 .. (c + r) - 1 /\ c + r > s /\ c + r >= s
           /\ b = r => c + r = s
           /\ c + r - p - 5 = (c + r) - s /\ p + 5 = s
OBVIOUS

\* A round with an intact frame.
LEMMA RoundFraming ==
    ASSUME StreamType, BufferSuffices, NEW n \in 0 .. Len(Frames), Framing(n),
           received <= Intact, Round, ~HeadNegative
    PROVE  \E m \in 0 .. Len(Frames) : Framing(m)'
<1>1. pc = "start"
  BY DEF Round, HeadExact, HeadStick, HeadDismantle, BodyExact, BodyStick, BodyDismantle, BodyLoss,
         ShortChunk, ErrorClear, AtHead, InBody, Elsewhere
<1>2. /\ n + 1 \in 1 .. Len(Frames) /\ n < Len(Frames) /\ n + 1 \in 0 .. Len(Frames)
      /\ Frames[n + 1].last = End(n) + Size(n + 1)
      /\ Size(n + 1) \in Nat /\ Size(n + 1) >= 6 /\ End(n) \in Nat
      /\ Waiting = count + recv_length /\ Waiting >= 5 /\ Waiting <= BUFLENGTH
      /\ count < Size(n + 1) /\ count \in Nat /\ recv_length \in Nat /\ bytes_remained \in Nat
      /\ received = End(n) + count + recv_length
      /\ recv_length >= 1 /\ recv_length <= MaxRecv
  BY <1>1, RoundFacts, FramesLen
<1>3. /\ \A k \in 0 .. Waiting - 1 : At(k) = Stream[End(n) + k + 1]
      /\ data[0] = PROTOCOL_HEAD
      /\ bytes_remained = 0 => count = 0 /\ ParsedLength = Size(n + 1) - HEAD_SIZE
  BY <1>1, RoundFacts
<1>4. HEAD_SIZE = 5 /\ LENGTH_SIZE = 4
  BY DEF HEAD_SIZE, LENGTH_SIZE
<1>5. bytes_remained > 0 =>
         /\ count >= 5 /\ pro_length = Size(n + 1) - 5
         /\ bytes_remained = Size(n + 1) - count
  BY <1>4 DEF Framing
<1>14. ASSUME pc' = "recv", UNCHANGED <<received, data, jqueue>>, count' = count + recv_length,
              count' >= 5, pro_length' = Size(n + 1) - 5,
              bytes_remained' = Size(n + 1) - count', bytes_remained' > 0
       PROVE  Framing(n)'
  <2>1. Waiting' = Waiting
    BY <1>2, <1>14 DEF Waiting
  <2>2. received' = End(n) + Waiting' /\ jqueue' = Queued(n)
    BY <1>14, <2>1 DEF Framing
  <2>3. \A k \in 0 .. Waiting' - 1 : data'[k] = Stream[End(n) + k + 1]
    BY <1>14, <2>1 DEF Framing
  <2>4. NotCut(received)'
    BY <1>14 DEF Framing, NotCut
  <2>5. bytes_remained' # 0
    BY <1>14
  <2>6. bytes_remained' > 0 =>
          /\ n < Len(Frames) /\ count' >= HEAD_SIZE /\ pro_length' = Size(n + 1) - HEAD_SIZE
          /\ bytes_remained' = Size(n + 1) - count'
    BY <1>2, <1>4, <1>14
  <2>7. pc' # "start"
    BY <1>14
  <2> HIDE DEF NotCut
  <2> QED
    BY <2>2, <2>3, <2>4, <2>5, <2>6, <2>7 DEF Framing, NotCut
<1>15. pro_length \in Nat
  BY ByteFacts DEF StreamType, TypeOK
<1>6. CASE HeadExact
  <2>1. /\ bytes_remained = 0 /\ ParsedLength = recv_length - 5 /\ PushRecvBuffToQueue(ParsedLength)
        /\ count' = 0 /\ bytes_remained' = 0 /\ pc' = "recv" /\ received' = received
    BY <1>4, <1>6 DEF HeadExact, AtHead, ClearAndReturn
  <2>2. Waiting = Size(n + 1) /\ PushRecvBuffToQueue(Size(n + 1) - HEAD_SIZE)
    BY SMTT(30), <1>2, <1>3, <1>4, <2>1
  <2>3. Waiting >= Size(n + 1)
    BY <1>2, <2>2
  <2>4. Framing(n + 1)'
    BY <1>1, <2>1, <2>2, <2>3, NextFraming
  <2> QED
    BY <1>2, <2>4
<1>7. CASE HeadStick
  <2>1. /\ bytes_remained = 0 /\ ParsedLength > recv_length - 5 /\ recv_length >= 5
        /\ pro_length' = ParsedLength
        /\ bytes_remained' = ParsedLength - (recv_length - 5)
        /\ count' = count + recv_length /\ pc' = "recv"
        /\ UNCHANGED <<received, data, jqueue>>
    BY <1>4, <1>7 DEF HeadStick, AtHead
  <2>2. count = 0 /\ ParsedLength = Size(n + 1) - 5
    BY <1>3, <1>4, <2>1
  <2> HIDE DEF ParsedLength
  <2>3. /\ count' = recv_length /\ pro_length' = Size(n + 1) - 5 /\ recv_length >= 5
        /\ recv_length \in Nat /\ Size(n + 1) \in Nat
        /\ bytes_remained' = (Size(n + 1) - 5) - (recv_length - 5)
        /\ Size(n + 1) - 5 > recv_length - 5
    BY <1>2, <2>1, <2>2
  <2>4. /\ count' >= 5 /\ pro_length' = Size(n + 1) - 5
        /\ bytes_remained' = Size(n + 1) - count' /\ bytes_remained' > 0
    BY <2>3
  <2>5. Framing(n)'
    BY <1>14, <2>1, <2>4
  <2> QED
    BY <2>5
<1>8. CASE HeadDismantle
  <2> DEFINE rest == recv_length - HEAD_SIZE - ParsedLength
  <2>1. /\ bytes_remained = 0 /\ rest > 0 /\ PushRecvBuffToQueue(ParsedLength)
        /\ data' = MoveToFront(ParsedLength + HEAD_SIZE, rest) /\ recv_length' = rest
        /\ bytes_remained' = 0 /\ count' = 0 /\ received' = received /\ pc' = "start"
    BY <1>1, <1>8 DEF HeadDismantle, AtHead
  <2>2. count = 0 /\ ParsedLength = Size(n + 1) - HEAD_SIZE
    BY <1>3, <2>1
  <2>3. rest = Waiting - Size(n + 1) /\ ParsedLength + HEAD_SIZE = Size(n + 1)
    BY SMTT(30), <1>2, <1>4, <2>2
  <2> HIDE DEF rest
  <2>4. Waiting > Size(n + 1) /\ Waiting >= Size(n + 1)
    BY SMTT(30), <1>2, <2>1, <2>3
  <2>5. /\ data' = MoveToFront(Size(n + 1), Waiting - Size(n + 1))
        /\ recv_length' = Waiting - Size(n + 1)
        /\ PushRecvBuffToQueue(Size(n + 1) - HEAD_SIZE)
    BY <2>1, <2>2, <2>3
  <2>6. Framing(n + 1)'
    BY <1>1, <2>1, <2>4, <2>5, NextFraming
  <2> QED
    BY <1>2, <2>6
<1>9. CASE BodyExact
  <2>1. /\ bytes_remained > 0 /\ bytes_remained = recv_length /\ PushRecvBuffToQueue(pro_length)
        /\ count' = 0 /\ bytes_remained' = 0 /\ pc' = "recv" /\ received' = received
    BY <1>9 DEF BodyExact, InBody, ClearAndReturn
  <2>2. Waiting = Size(n + 1) /\ PushRecvBuffToQueue(Size(n + 1) - HEAD_SIZE)
    <3>1. /\ pro_length = Size(n + 1) - 5 /\ bytes_remained = Size(n + 1) - count
      BY <1>5, <2>1
    <3>2. Waiting = Size(n + 1)
      BY SMTT(30), <1>2, <1>15, <2>1, <3>1, LastByte
    <3> QED
      BY <1>4, <2>1, <3>1, <3>2
  <2>3. Waiting >= Size(n + 1)
    BY <1>2, <2>2
  <2>4. Framing(n + 1)'
    BY <1>1, <2>1, <2>2, <2>3, NextFraming
  <2> QED
    BY <1>2, <2>4
<1>10. CASE BodyStick
  <2>1. /\ bytes_remained > 0 /\ bytes_remained > recv_length
        /\ bytes_remained' = bytes_remained - recv_length
        /\ count' = count + recv_length /\ pc' = "recv"
        /\ UNCHANGED <<received, data, pro_length, jqueue>>
    BY <1>10 DEF BodyStick, InBody
  <2>2. /\ count \in Nat /\ recv_length \in Nat /\ Size(n + 1) \in Nat /\ count >= 5
        /\ pro_length' = Size(n + 1) - 5 /\ bytes_remained = Size(n + 1) - count
        /\ bytes_remained' = bytes_remained - recv_length /\ bytes_remained > recv_length
        /\ count' = count + recv_length
    BY <1>2, <1>5, <2>1
  <2>3. /\ count' >= 5 /\ pro_length' = Size(n + 1) - 5
        /\ bytes_remained' = Size(n + 1) - count' /\ bytes_remained' > 0
    BY <2>2
  <2>4. Framing(n)'
    BY <1>14, <2>1, <2>3
  <2> QED
    BY <2>4
<1>11. CASE BodyDismantle
  <2> DEFINE rest == count + recv_length - pro_length - HEAD_SIZE
  <2>1. /\ bytes_remained > 0 /\ bytes_remained < recv_length /\ PushRecvBuffToQueue(pro_length)
        /\ data' = MoveToFront(pro_length + HEAD_SIZE, rest) /\ recv_length' = rest
        /\ bytes_remained' = 0 /\ count' = 0 /\ received' = received /\ pc' = "start"
    BY <1>1, <1>11 DEF BodyDismantle, InBody
  <2>2. /\ rest = Waiting - Size(n + 1) /\ pro_length + HEAD_SIZE = Size(n + 1)
        /\ pro_length = Size(n + 1) - HEAD_SIZE
    <3>1. /\ pro_length = Size(n + 1) - 5 /\ Waiting = count + recv_length
          /\ count \in Nat /\ recv_length \in Nat /\ Size(n + 1) \in Nat /\ pro_length \in Nat
      BY <1>2, <1>5, <1>15, <2>1
    <3>2. /\ count + recv_length - pro_length - 5 = (count + recv_length) - Size(n + 1)
          /\ pro_length + 5 = Size(n + 1)
      BY <3>1
    <3> QED
      BY <1>4, <3>1, <3>2
  <2> HIDE DEF rest
  <2>3. Waiting > Size(n + 1) /\ Waiting >= Size(n + 1)
    <3>1. /\ pro_length = Size(n + 1) - 5 /\ bytes_remained = Size(n + 1) - count
      BY <1>5, <2>1
    <3> QED
      BY <1>2, <1>15, <2>1, <3>1, LastByte
  <2>4. /\ data' = MoveToFront(Size(n + 1), Waiting - Size(n + 1))
        /\ recv_length' = Waiting - Size(n + 1)
        /\ PushRecvBuffToQueue(Size(n + 1) - HEAD_SIZE)
    BY <2>1, <2>2
  <2>5. Framing(n + 1)'
    BY <1>1, <2>1, <2>3, <2>4, NextFraming
  <2> QED
    BY <1>2, <2>5
<1>12. CASE BodyLoss
  <2>1. /\ bytes_remained > 0 /\ bytes_remained < recv_length
        /\ At(pro_length + LENGTH_SIZE) # CLOSE_BRACE
    BY <1>12 DEF BodyLoss, InBody
  <2>2. /\ pro_length + LENGTH_SIZE \in 0 .. Waiting - 1
        /\ End(n) + (pro_length + LENGTH_SIZE) + 1 = End(n) + Size(n + 1)
    <3>1. /\ pro_length = Size(n + 1) - 5 /\ Waiting = count + recv_length /\ End(n) \in Nat
          /\ count \in Nat /\ recv_length \in Nat /\ Size(n + 1) \in Nat /\ pro_length \in Nat
          /\ bytes_remained = Size(n + 1) - count /\ bytes_remained < recv_length
      BY <1>2, <1>5, <1>15, <2>1
    <3> DEFINE s == Size(n + 1)
               e == End(n)
    <3>7. s \in Nat /\ e \in Nat /\ pro_length = s - 5 /\ bytes_remained = s - count
          /\ bytes_remained \in Nat
      BY <1>2, <3>1
    <3> HIDE DEF s, e
    <3>2. pro_length + 4 \in 0 .. (count + recv_length) - 1
      BY <3>1, <3>7, LastByte, Zenon
    <3>8. e + (pro_length + 4) + 1 = e + s
      BY <3>7
    <3>6. End(n) + (pro_length + 4) + 1 = End(n) + Size(n + 1)
      BY <3>8 DEF s, e
    <3>3. LENGTH_SIZE = 4 /\ Waiting = count + recv_length
      BY <1>4, <3>1
    <3>4. pro_length + LENGTH_SIZE \in 0 .. Waiting - 1
      BY <3>2, <3>3, Zenon
    <3>5. End(n) + (pro_length + LENGTH_SIZE) + 1 = End(n) + Size(n + 1)
      BY <3>3, <3>6, Zenon
    <3> QED
      BY <3>4, <3>5
  <2>3. At(pro_length + LENGTH_SIZE) = Stream[Frames[n + 1].last]
    BY <1>2, <1>3, <2>2
  <2>4. Stream[Frames[n + 1].last] = CLOSE_BRACE
    BY <1>2, FrameFacts
  <2> QED
    BY <2>1, <2>3, <2>4
<1>13. CASE ShortChunk \/ ErrorClear
  <2>1. ~AtHead /\ ~InBody
    BY <1>13 DEF ShortChunk, ErrorClear, Elsewhere
  <2>2. bytes_remained = 0
    BY <1>1, <1>2, <2>1 DEF InBody
  <2>3. recv_length >= 5
    BY <1>2, <1>3, <2>2
  <2>4. AtHead
    BY <1>1, <1>3, <1>4, <2>2, <2>3 DEF AtHead
  <2> QED
    BY <2>1, <2>4
<1> QED
  BY <1>6, <1>7, <1>8, <1>9, <1>10, <1>11, <1>12, <1>13 DEF Round

LEMMA StreamStep ==
    ASSUME HeadersWhole, BufferSuffices, StreamType, StreamInv, [Next]_vars \/ Stops
    PROVE  StreamInv'
<1>1. received' \in Nat /\ received <= received' /\ received \in Nat
  BY ReceivedGrows
<1> SUFFICES ASSUME received' <= Intact
             PROVE  IF pc' = "ended" THEN IsPrefix(jqueue', Expected(received'))
                    ELSE \E n \in 0 .. Len(Frames) : Framing(n)'
  BY DEF StreamInv, Expected, Complete, Queued
<1>2. received <= Intact
  BY <1>1, LimitFacts
<1>3. CASE UNCHANGED vars
  BY <1>2, <1>3 DEF vars, StreamInv, Framing, Waiting
<1>4. CASE pc = "ended" /\ Stops
  BY <1>2, <1>4 DEF StreamInv, Stops
<1>5. CASE pc # "ended" /\ (Stops \/ RecvQuit \/ RecvClosed \/ HeadNegative)
  <2>1. PICK n \in 0 .. Len(Frames) : Framing(n)
    BY <1>2, <1>5 DEF StreamInv
  <2>2. pc' = "ended" /\ jqueue' = jqueue
    BY <1>5 DEF Stops, RecvQuit, RecvClosed, HeadNegative
  <2> QED
    BY <1>1, <2>1, <2>2, PrefixWhenEnded
<1>6. CASE Recv
  <2>1. PICK n \in 0 .. Len(Frames) : Framing(n)
    BY <1>2, <1>6 DEF StreamInv, Recv
  <2>2. Framing(n)' /\ pc' # "ended"
    BY <1>6, <2>1, RecvFraming DEF Recv
  <2> QED
    BY <2>2
<1>7. CASE Round /\ ~HeadNegative
  <2>1. pc = "start"
    BY <1>7 DEF Round, HeadExact, HeadStick, HeadDismantle, BodyExact, BodyStick, BodyDismantle,
                BodyLoss, ShortChunk, ErrorClear, AtHead, InBody, Elsewhere
  <2>2. PICK n \in 0 .. Len(Frames) : Framing(n)
    BY <1>2, <2>1 DEF StreamInv
  <2>3. \E m \in 0 .. Len(Frames) : Framing(m)'
    BY <1>2, <1>7, <2>2, RoundFraming
  <2>4. pc' # "ended"
    BY <1>7, <2>1 DEF Round, HeadExact, HeadStick, HeadDismantle, BodyExact, BodyStick,
                BodyDismantle, BodyLoss, ShortChunk, ErrorClear, ClearAndReturn
  <2> QED
    BY <2>3, <2>4
<1> QED
  BY <1>3, <1>4, <1>5, <1>6, <1>7 DEF Next, RecvQuit, RecvClosed, HeadNegative, SaysNegative, AtHead

LEMMA StreamImplies ==
    ASSUME BufferSuffices, StreamType, StreamInv
    PROVE  /\ NothingWithheld /\ InOrder
           /\ received <= Intact => BufferNotOverrun
<1>1. /\ received \in Nat /\ count \in Nat /\ recv_length \in Nat /\ bytes_remained \in Nat
      /\ pc \in {"recv", "start", "ended"}
  BY LimitFacts DEF StreamType, TypeOK
<1> SUFFICES ASSUME received <= Intact
             PROVE  /\ pc = "recv" => jqueue = Expected(received)
                    /\ IsPrefix(jqueue, Expected(received))
                    /\ pc = "start" => count + recv_length <= BUFLENGTH
  BY DEF NothingWithheld, InOrder, BufferNotOverrun
<1>2. CASE pc = "ended"
  BY <1>2 DEF StreamInv
<1>3. CASE pc # "ended"
  <2>1. PICK n \in 0 .. Len(Frames) : Framing(n)
    BY <1>3 DEF StreamInv
  <2>2. IsPrefix(jqueue, Expected(received))
    BY <1>1, <2>1, PrefixWhenEnded
  <2>3. pc = "start" => count + recv_length <= BUFLENGTH
    BY <2>1, RoundFacts
  <2>4. ASSUME pc = "recv" PROVE Complete(received) = n
    <3>1. Waiting = count /\ received = End(n) + count /\ End(n) \in Nat
      <4>1. Waiting = count
        BY <1>1, <2>4 DEF Waiting
      <4>2. received = End(n) + Waiting
        BY <2>1 DEF Framing
      <4> QED
        BY <4>1, <4>2, EndFacts
    <3>2. /\ Complete(received) \in 0 .. Len(Frames) /\ End(Complete(received)) <= received
          /\ End(n) <= received => n <= Complete(received)
      BY <1>1, CompleteFacts
    <3>3. n <= Complete(received)
      BY <1>1, <3>1, <3>2
    <3> SUFFICES ASSUME Complete(received) > n PROVE FALSE
      BY <3>2, <3>3, FramesLen
    <3>4. /\ n + 1 \in 0 .. Complete(received) /\ n + 1 \in 0 .. Len(Frames) /\ n + 1 \in 1 .. Len(Frames)
      BY <3>2, FramesLen
    <3>5. End(n + 1) <= End(Complete(received)) /\ End(n + 1) \in Nat
          /\ End(Complete(received)) \in Nat
      BY <3>2, <3>4, EndFacts
    <3>6. End(n + 1) <= received
      BY <1>1, <3>2, <3>5
    <3>7. End(n + 1) > End(n)
      <4>1. CASE n = 0
        BY <3>4, <4>1, SizeFacts DEF End
      <4>2. CASE n # 0
        <5>1. n \in 1 .. (n + 1) - 1 /\ n + 1 # 0 /\ n \in 1 .. Len(Frames)
          BY <3>4, <4>2, FramesLen
        <5>2. Frames[n].last < Frames[n + 1].first
          BY <3>4, <5>1, FrameFacts
        <5>3. /\ Frames[n + 1].last = Frames[n + 1].first + Size(n + 1) - 1
              /\ Size(n + 1) \in Nat /\ Size(n + 1) >= 6 /\ Frames[n + 1].first \in Nat
          BY <3>4, SizeFacts
        <5>4. Frames[n].last \in Nat
          BY <5>1, SizeFacts
        <5>5. End(n) = Frames[n].last /\ End(n + 1) = Frames[n + 1].last
          BY <5>1, <4>2 DEF End
        <5> QED
          BY <5>2, <5>3, <5>4, <5>5
      <4> QED
        BY <4>1, <4>2
    <3>8. count > 0
      BY <1>1, <3>1, <3>5, <3>6, <3>7
    <3>9. End(n) < Intact /\ bytes_remained > 0 /\ count < Size(n + 1)
      BY <2>1, <3>8, WaitingFacts
    <3>10. End(n + 1) = End(n) + Size(n + 1) /\ Size(n + 1) \in Nat
      BY <3>4, <3>9, NextFrame, SizeFacts
    <3> QED
      BY <1>1, <3>1, <3>6, <3>9, <3>10
  <2> QED
    BY <2>1, <2>2, <2>3, <2>4 DEF Framing, Expected
<1> QED
  BY <1>2, <1>3

-----------------------------------------------------------------------------
\* To StreamFraming, a step of the two threads is one of its own, or none, or
\* the end of the program.
LEMMA PathSteps == [PathNext]_pathVars => [Next]_vars \/ Stops
<1>1. CASE Receive
  BY <1>1 DEF Receive
<1>2. CASE Parse
  BY <1>2 DEF Parse
<1>3. CASE ParseNowhere
  <2>1. CASE crashed'
    BY <1>3, <2>1 DEF ParseNowhere, Stops
  <2>2. CASE ~crashed'
    BY <1>3, <2>2 DEF ParseNowhere, vars
  <2> QED
    BY <2>1, <2>2
<1>4. CASE UNCHANGED pathVars
  BY <1>4 DEF pathVars
<1> QED
  BY <1>1, <1>2, <1>3, <1>4 DEF PathNext

LEMMA StreamTypeKept == StreamType /\ [PathNext]_pathVars => StreamType'
<1> SUFFICES ASSUME StreamType, [Next]_vars \/ Stops PROVE StreamType'
  BY PathSteps
<1>1. CASE [Next]_vars
  BY <1>1, StreamTypeStep
<1>2. CASE Stops
  BY <1>2 DEF Stops, StreamType, TypeOK
<1> QED
  BY <1>1, <1>2

\* The bytes kept between two calls, their lengths and the queue have their
\* types, and as much of a frame is awaited as its header says, whatever the
\* peer sends.
THEOREM StreamTypeCorrect == PathSpec => []StreamType
<1>1. PathInit => StreamType
  BY StreamTypeInit DEF PathInit
<1> QED
  BY <1>1, StreamTypeKept, PTL DEF PathSpec

LEMMA StreamAlways ==
    ASSUME HeadersWhole, BufferSuffices
    PROVE  PathSpec => [](StreamType /\ StreamInv)
<1>1. PathInit => StreamType /\ StreamInv
  BY StreamTypeInit, StreamInit DEF PathInit
<1>2. StreamType /\ StreamInv /\ [PathNext]_pathVars => (StreamType /\ StreamInv)'
  <2> SUFFICES ASSUME StreamType, StreamInv, [PathNext]_pathVars
               PROVE  StreamType' /\ StreamInv'
    OBVIOUS
  <2>1. StreamType'
    BY StreamTypeKept
  <2>2. [Next]_vars \/ Stops
    BY PathSteps
  <2>3. StreamInv'
    BY <2>2, StreamStep
  <2> QED
    BY <2>1, <2>3
<1> QED
  BY <1>1, <1>2, PTL DEF PathSpec

\* StickDismantleProtocol withholds nothing: when the thread waits in recv,
\* the queue has been given the payloads of all frames that have arrived, in
\* order and once, as long as the header of none is cut in two.
THEOREM FramesNotWithheld ==
    ASSUME HeadersWhole, BufferSuffices
    PROVE  PathSpec => []NothingWithheld
<1>1. StreamType /\ StreamInv => NothingWithheld
  BY StreamImplies
<1> QED
  BY <1>1, StreamAlways, PTL

\* The same at any moment: never more than what has arrived, nor in another
\* order.
THEOREM FramesInOrder ==
    ASSUME HeadersWhole, BufferSuffices
    PROVE  PathSpec => []InOrder
<1>1. StreamType /\ StreamInv => InOrder
  BY StreamImplies
<1> QED
  BY <1>1, StreamAlways, PTL

\* temp_option.data has room for the bytes that wait and the chunk put behind
\* them, as long as the frames are intact.
THEOREM BufferHolds ==
    ASSUME HeadersWhole, BufferSuffices
    PROVE  PathSpec => [](received <= Intact => BufferNotOverrun)
<1>1. StreamType /\ StreamInv => (received <= Intact => BufferNotOverrun)
  BY StreamImplies
<1> QED
  BY <1>1, StreamAlways, PTL

-----------------------------------------------------------------------------
\* Damaged streams.

\* What some of the frames give.
LEMMA SelectedFacts ==
    ASSUME NEW m \in 0 .. Len(Frames), NEW some
    PROVE  /\ Selected(m, some) \in Seq(Seq(Byte))
           /\ m < Len(Frames) =>
                 /\ m + 1 \notin some => Selected(m + 1, some) = Selected(m, some)
                 /\ Selected(m + 1, some \cup {m + 1}) = Append(Selected(m, some), Payloads[m + 1])
<1> DEFINE C(j, t) == IF j \in t THEN <<Payloads[j]>> ELSE <<>>
           A(n, t) == [j \in 1 .. n |-> C(j, t)]
<1>1. m \in Nat /\ \A j \in 1 .. m : j \in 1 .. Len(Frames)
  BY FramesLen
<1>2. \A j \in 1 .. Len(Frames) : \A t : C(j, t) \in Seq(Seq(Byte))
  BY PayloadFacts, EmptySeq
<1>3. \A n, t : Selected(n, t) = FlattenSeq(A(n, t))
  BY DEF Selected
<1>4. ASSUME NEW n \in 0 .. Len(Frames), NEW t
      PROVE  A(n, t) \in Seq(Seq(Seq(Byte))) /\ Len(A(n, t)) = n
  <2>1. n \in Nat /\ \A j \in 1 .. n : j \in 1 .. Len(Frames)
    BY FramesLen
  <2>2. A(n, t) \in [1 .. n -> Seq(Seq(Byte))]
    BY <1>2, <2>1
  <2> HIDE DEF A
  <2> QED
    BY <2>1, <2>2, FunctionIsSeq
<1>5. Selected(m, some) \in Seq(Seq(Byte))
  BY <1>3, <1>4, FlattenType
<1>6. ASSUME m < Len(Frames), NEW t, \A j \in 1 .. m : j \in t <=> j \in some
      PROVE  Selected(m + 1, t) = Selected(m, some) \o C(m + 1, t)
  <2>1. m + 1 \in 0 .. Len(Frames) /\ m + 1 \in 1 .. Len(Frames)
    BY <1>1, <1>6, FramesLen
  <2> DEFINE a == A(m, some)
             b == A(m + 1, t)
             c == C(m + 1, t)
  <2>2. a \in Seq(Seq(Seq(Byte))) /\ Len(a) = m
    BY <1>4
  <2>3. b \in Seq(Seq(Seq(Byte))) /\ Len(b) = m + 1
    BY <1>4, <2>1
  <2>4. c \in Seq(Seq(Byte))
    BY <1>2, <2>1
  <2>5. \A j \in 1 .. m : b[j] = a[j]
    BY <1>1, <1>6
  <2>6. b[m + 1] = c
    BY <1>1
  <2> HIDE DEF a, b, c
  <2>7. b = Append(a, c)
    <3>1. /\ Append(a, c) \in Seq(Seq(Seq(Byte))) /\ Len(Append(a, c)) = m + 1
          /\ \A j \in 1 .. m : Append(a, c)[j] = a[j]
          /\ Append(a, c)[m + 1] = c
      BY <2>2, <2>4, AppendProperties
    <3>2. \A j \in 1 .. m + 1 : b[j] = Append(a, c)[j]
      BY <1>1, <2>5, <2>6, <3>1
    <3> DEFINE d == Append(a, c)
    <3> HIDE DEF d
    <3>3. b = d
      BY <2>3, <3>1, <3>2, SeqEqual DEF d
    <3> QED
      BY <3>3 DEF d
  <2>8. FlattenSeq(b) = FlattenSeq(a) \o c
    BY <2>2, <2>4, <2>7, FlattenAppend
  <2> QED
    BY <1>3, <2>8 DEF a, b, c
<1>7. ASSUME m < Len(Frames), m + 1 \notin some
      PROVE  Selected(m + 1, some) = Selected(m, some)
  <2>1. Selected(m + 1, some) = Selected(m, some) \o <<>>
    BY <1>6, <1>7
  <2> QED
    BY <1>5, <2>1, ConcatEmptySeq
<1>8. ASSUME m < Len(Frames)
      PROVE  Selected(m + 1, some \cup {m + 1}) = Append(Selected(m, some), Payloads[m + 1])
  <2>1. \A j \in 1 .. m : j \in some \cup {m + 1} <=> j \in some
    BY <1>1
  <2>2. Selected(m + 1, some \cup {m + 1}) = Selected(m, some) \o <<Payloads[m + 1]>>
    BY <1>6, <1>8, <2>1
  <2>3. Payloads[m + 1] \in Seq(Byte)
    BY <1>1, <1>8, FramesLen, PayloadFacts
  <2> QED
    BY <1>5, <2>2, <2>3, AppendIsConcat
<1> QED
  BY <1>5, <1>7, <1>8

LEMMA SelectionsFacts ==
    /\ \A m \in 0 .. Len(Frames) :
          Selections[m] = {Selected(m, some) : some \in SUBSET (1 .. m)}
    /\ <<>> \in Selections[0]
    /\ \A m \in 0 .. Len(Frames) : Selections[m] \subseteq Seq(Seq(Byte))
<1>1. \A m \in 0 .. Len(Frames) : Selections[m] = {Selected(m, some) : some \in SUBSET (1 .. m)}
  BY DEF Selections
<1>2. Selected(0, {}) = <<>>
  <2>1. [j \in 1 .. 0 |-> IF j \in {} THEN <<Payloads[j]>> ELSE <<>>] = <<>>
    OBVIOUS
  <2> QED
    BY <2>1, FlattenEmpty DEF Selected
<1>3. 0 \in 0 .. Len(Frames)
  BY FramesLen
<1>4. <<>> \in Selections[0]
  BY <1>1, <1>2, <1>3
<1>5. \A m \in 0 .. Len(Frames) : \A some : Selected(m, some) \in Seq(Seq(Byte))
  BY SelectedFacts
<1>6. ASSUME NEW m \in 0 .. Len(Frames), NEW q \in Selections[m] PROVE q \in Seq(Seq(Byte))
  <2>1. PICK some \in SUBSET (1 .. m) : q = Selected(m, some)
    BY <1>1
  <2> QED
    BY <1>5, <2>1
<1> QED
  BY <1>1, <1>4, <1>6

\* They are among what more frames give.
LEMMA SelectionsGrow ==
    ASSUME NEW n \in 0 .. Len(Frames), NEW m \in n .. Len(Frames), NEW q \in Selections[n]
    PROVE  q \in Selections[m]
<1>1. n \in Nat /\ m \in Nat /\ n <= m /\ m <= Len(Frames) /\ Len(Frames) \in Nat
  BY FramesLen
<1> DEFINE T == {k \in 0 .. m - n : q \in Selections[n + k]}
<1>2. 0 \in T
  BY <1>1
<1>3. ASSUME NEW k \in 0 .. (m - n) - 1, k \in T PROVE k + 1 \in T
  <2>1. /\ n + k \in 0 .. Len(Frames) /\ (n + k) + 1 \in 0 .. Len(Frames) /\ n + k < Len(Frames)
        /\ k + 1 \in 0 .. m - n /\ (n + k) + 1 = n + (k + 1) /\ n + k \in Nat
    BY <1>1
  <2>2. q \in Selections[n + k]
    BY <1>3
  <2>3. PICK some \in SUBSET (1 .. n + k) : q = Selected(n + k, some)
    BY <2>1, <2>2, SelectionsFacts
  <2>4. (n + k) + 1 \notin some /\ some \in SUBSET (1 .. (n + k) + 1)
    BY <2>1
  <2>5. q = Selected((n + k) + 1, some)
    BY <2>1, <2>3, <2>4, SelectedFacts
  <2>6. q \in Selections[(n + k) + 1]
    BY <2>1, <2>4, <2>5, SelectionsFacts
  <2> QED
    BY <2>1, <2>6
<1>4. m - n \in Nat /\ m - n \in 0 .. m - n /\ n + (m - n) = m
  BY <1>1
<1> HIDE DEF T
<1>5. m - n \in T
  BY <1>2, <1>3, <1>4, UpTo
<1> QED
  BY <1>4, <1>5 DEF T

LEMMA SelectionsNext ==
    ASSUME NEW i \in 1 .. Len(Frames), NEW q \in Selections[i - 1]
    PROVE  q \in Selections[i] /\ Append(q, Payloads[i]) \in Selections[i]
<1>1. /\ i - 1 \in 0 .. Len(Frames) /\ i - 1 < Len(Frames) /\ (i - 1) + 1 = i
      /\ i \in 0 .. Len(Frames) /\ i \in (i - 1) .. Len(Frames) /\ i \in Nat
  BY FramesLen
<1>2. PICK some \in SUBSET (1 .. i - 1) : q = Selected(i - 1, some)
  BY <1>1, SelectionsFacts
<1>3. some \cup {i} \in SUBSET (1 .. i)
  BY <1>1
<1>4. Selected(i, some \cup {i}) = Append(q, Payloads[i])
  BY <1>1, <1>2, SelectedFacts
<1>5. Append(q, Payloads[i]) \in Selections[i]
  BY <1>1, <1>3, <1>4, SelectionsFacts
<1>6. q \in Selections[i]
  BY <1>1, SelectionsGrow
<1> QED
  BY <1>5, <1>6

\* The number that the four bytes behind byte p say.
Said(p) ==
    1000 * (Stream[p + 1] - 48) + 100 * (Stream[p + 2] - 48) + 10 * (Stream[p + 3] - 48)
      + (Stream[p + 4] - 48)

LEMMA SaidFacts ==
    ASSUME NEW p \in 1 .. Len(Stream), p + LENGTH_SIZE <= Len(Stream),
           NEW n \in 0 .. MAX_LENGTH, SubSeq(Stream, p + 1, p + LENGTH_SIZE) = Digits(n)
    PROVE  (\A k \in 1 .. 4 : Stream[p + k] \in Digit) /\ Said(p) = n
<1>1. LENGTH_SIZE = 4 /\ n \in Nat /\ n <= 9999
  <2>1. MAX_LENGTH \in Nat /\ MAX_LENGTH <= 9999
    BY DEF MAX_LENGTH
  <2> HIDE DEF MAX_LENGTH
  <2> QED
    BY <2>1 DEF LENGTH_SIZE
<1> DEFINE m == p + 1
           o == p + 4
<1>2. m \in Int /\ o \in Int /\ o - m + 1 = 4 /\ m >= 1 /\ o <= Len(Stream)
      /\ \A k \in 1 .. 4 : m + k - 1 = p + k
  BY <1>1, LimitFacts
<1>3. SubSeq(Stream, m, o) = Digits(n)
  BY <1>1
<1> HIDE DEF m, o
<1>4. \A k \in m .. o : Stream[k] \in Byte
  BY <1>2, LimitFacts
<1>5. \A k \in 1 .. o - m + 1 : SubSeq(Stream, m, o)[k] = Stream[m + k - 1]
  BY <1>2, <1>4, SubSeqProperties
<1>6. \A k \in 1 .. 4 : Digits(n)[k] = Stream[p + k]
  BY <1>2, <1>3, <1>5
<1> DEFINE d == Digits(n)
<1>7. /\ \A k \in 1 .. 4 : d[k] \in Digit
      /\ 1000 * (d[1] - 48) + 100 * (d[2] - 48) + 10 * (d[3] - 48) + (d[4] - 48) = n
  BY <1>1, DigitsFacts
<1>8. \A k \in 1 .. 4 : d[k] = Stream[p + k]
  BY <1>6
<1> HIDE DEF d
<1>9. d[1] = Stream[p + 1] /\ d[2] = Stream[p + 2] /\ d[3] = Stream[p + 3] /\ d[4] = Stream[p + 4]
  BY <1>8
<1>10. Said(p) = 1000 * (d[1] - 48) + 100 * (d[2] - 48) + 10 * (d[3] - 48) + (d[4] - 48)
  BY <1>9 DEF Said
<1>11. \A k \in 1 .. 4 : Stream[p + k] \in Digit
  BY SMTT(30), <1>7, <1>8
<1> QED
  BY <1>7, <1>10, <1>11

\* A header is whole when any of it is there.
LEMMA HeaderWhole ==
    ASSUME LossesShow, NEW p \in 1 .. Len(Stream), Stream[p] = PROTOCOL_HEAD
    PROVE  p + 4 <= Len(Stream) /\ \A c \in Chunks : ~(p <= c[2] /\ c[2] < p + 4)
<1>1. LENGTH_SIZE = 4 /\ p \in Nat /\ Len(Stream) \in Nat
  BY LimitFacts DEF LENGTH_SIZE
<1>2. p \in DOMAIN Stream
  BY LimitFacts
<1>3. /\ p + LENGTH_SIZE <= Len(Stream)
      /\ \A c \in Chunks : c[2] \notin p .. p + LENGTH_SIZE - 1
  BY <1>2, Zenon DEF LossesShow
<1>4. \A c \in Chunks : ~(p <= c[2] /\ c[2] < p + 4)
  <2> SUFFICES ASSUME NEW c \in Chunks, p <= c[2], c[2] < p + 4 PROVE FALSE
    OBVIOUS
  <2>1. c \in (0 .. Len(Stream)) \X (0 .. Len(Stream))
    BY StreamAssumption
  <2>2. c[2] \in Nat
    BY <1>1, <2>1
  <2>3. c[2] \in p .. p + LENGTH_SIZE - 1
    BY <1>1, <2>2
  <2> QED
    BY <1>3, <2>3
<1> QED
  BY <1>1, <1>3, <1>4

\* Frame i begins at byte p, or the chunk c shows that the frame there is not whole.
BeginsFrame(i, p) == Frames[i].first = p /\ Size(i) = Said(p) + 5
Misses(c, p) ==
    c[1] < p + 4 + Said(p) /\ p + 4 + Said(p) <= c[2] =>
        p + 4 <= c[1] /\ p + 4 + Said(p) < c[2] /\ Stream[p + 4 + Said(p)] # CLOSE_BRACE

LEMMA HeadShows ==
    ASSUME LossesShow, NEW p \in 1 .. Len(Stream), Stream[p] = PROTOCOL_HEAD,
           ~ShowsNegative(p)
    PROVE  /\ p + 4 <= Len(Stream) /\ \A k \in 1 .. 4 : Stream[p + k] \in Digit
           /\ Said(p) \in 0 .. MAX_LENGTH /\ Said(p) \in Nat
           /\ \A c \in Chunks : ~(p <= c[2] /\ c[2] < p + 4)
           /\ (\E i \in 1 .. Len(Frames) : BeginsFrame(i, p)) \/ (\A c \in Chunks : Misses(c, p))
<1>1. LENGTH_SIZE = 4 /\ HEAD_SIZE = 5 /\ p \in Nat /\ Len(Stream) \in Nat
  BY LimitFacts DEF LENGTH_SIZE, HEAD_SIZE
<1>2. p \in DOMAIN Stream
  BY LimitFacts
<1>3. /\ p + LENGTH_SIZE <= Len(Stream)
      /\ (\E i \in DOMAIN Frames : Frames[i].first = p) \/ ShowsLoss(p)
  BY <1>2, Zenon DEF LossesShow
<1>4. \A c \in Chunks : ~(p <= c[2] /\ c[2] < p + 4)
  BY HeaderWhole
<1>5. CASE \E i \in DOMAIN Frames : Frames[i].first = p
  <2>1. PICK i \in 1 .. Len(Frames) : Frames[i].first = p
    BY <1>5, FramesLen
  <2>2. /\ \A k \in 1 .. LENGTH_SIZE : Stream[p + k] \in Digit
        /\ Said(p) = Size(i) - HEAD_SIZE
    <3> DEFINE v(k) == Stream[Frames[i].first + k]
    <3>1. /\ \A k \in 1 .. LENGTH_SIZE : v(k) \in Digit
          /\ 1000 * (v(1) - 48) + 100 * (v(2) - 48) + 10 * (v(3) - 48) + (v(4) - 48)
                = Size(i) - HEAD_SIZE
      BY HeaderFacts
    <3>2. Said(p) = 1000 * (v(1) - 48) + 100 * (v(2) - 48) + 10 * (v(3) - 48) + (v(4) - 48)
      BY <2>1 DEF Said
    <3> QED
      BY <2>1, <3>1, <3>2
  <2>3. Size(i) - HEAD_SIZE \in 1 .. MAX_LENGTH /\ Size(i) \in Nat
    BY FrameFacts
  <2>4. Said(p) \in 0 .. MAX_LENGTH /\ Said(p) \in Nat /\ Size(i) = Said(p) + 5
    BY SMTT(30), <1>1, <2>2, <2>3, ByteFacts
  <2>5. BeginsFrame(i, p)
    BY <2>1, <2>4 DEF BeginsFrame
  <2> QED
    BY <1>1, <1>3, <1>4, <2>2, <2>4, <2>5
<1>6. CASE ShowsLoss(p)
  <2>1. PICK n \in 0 .. MAX_LENGTH :
          LET missed == p + LENGTH_SIZE + n
          IN  /\ SubSeq(Stream, p + 1, p + LENGTH_SIZE) = Digits(n)
              /\ \A c \in Chunks :
                    c[1] < missed /\ missed <= c[2] =>
                        p + LENGTH_SIZE <= c[1] /\ missed < c[2] /\ Stream[missed] # CLOSE_BRACE
    BY <1>6, Zenon DEF ShowsLoss
  <2>2. (\A k \in 1 .. 4 : Stream[p + k] \in Digit) /\ Said(p) = n
    BY <1>3, <2>1, SaidFacts
  <2>3. \A c \in Chunks : Misses(c, p)
    BY <1>1, <2>1, <2>2, Zenon DEF Misses
  <2>4. n \in Nat
    BY ByteFacts
  <2> QED
    BY <1>1, <1>3, <1>4, <2>2, <2>3, <2>4
<1> QED
  BY <1>3, <1>5, <1>6

\* Where the thread is in the stream: what is in the buffer are the bytes
\* behind byte b, and if some are awaited, the beginning of a frame.  Or it has
\* lost its place, and knows no frame in the buffer.
InPlace(b) ==
    /\ received = b + Waiting
    /\ \A k \in 0 .. Waiting - 1 : data[k] = Stream[b + k + 1]
    /\ bytes_remained = 0 => count = 0
    /\ bytes_remained > 0 =>
          /\ Stream[b + 1] = PROTOCOL_HEAD /\ ~ShowsNegative(b + 1)
          /\ pro_length = Said(b + 1)
          /\ count >= 5 /\ bytes_remained = pro_length + 5 - count
    /\ pc = "start" =>
          /\ recv_length >= 1
          /\ \E c \in Chunks : /\ c[2] = received /\ c[1] <= received - recv_length
                               /\ bytes_remained > 0 => c[1] = received - recv_length
Astray == bytes_remained = 0 /\ count > 0 /\ data[0] # PROTOCOL_HEAD

\* What is queued are payloads of frames in the first b bytes.
QueuedBy(b) == \E n \in 0 .. Len(Frames) : End(n) <= b /\ jqueue \in Selections[n]

PlaceInv ==
    \E b \in 0 .. Len(Stream) :
        /\ b <= received
        /\ QueuedBy(b)
        /\ pc # "ended" => InPlace(b) \/ Astray

LEMMA QueuedByMore ==
    ASSUME NEW b \in Nat, NEW m \in Nat, b <= m, QueuedBy(b)
    PROVE  QueuedBy(m) /\ (jqueue' = jqueue => QueuedBy(m)')
<1>1. PICK n \in 0 .. Len(Frames) : End(n) <= b /\ jqueue \in Selections[n]
  BY DEF QueuedBy
<1>2. End(n) \in Nat
  BY EndFacts
<1>3. End(n) <= m
  BY <1>1, <1>2
<1> QED
  BY <1>1, <1>3 DEF QueuedBy

\* In a round, whatever waits begins the buffer, and a header there is whole.
LEMMA InPlaceFacts ==
    ASSUME LossesShow, StreamType, BufferNotOverrun, NEW b \in 0 .. Len(Stream), InPlace(b),
           pc = "start"
    PROVE  /\ b \in Nat /\ received \in 0 .. Len(Stream) /\ received \in Nat
           /\ count \in Nat /\ recv_length \in Nat /\ bytes_remained \in Nat /\ pro_length \in Nat
           /\ recv_length >= 1 /\ Waiting = count + recv_length /\ Waiting <= BUFLENGTH
           /\ received = b + count + recv_length /\ b + 1 \in 1 .. Len(Stream)
           /\ \A k \in 0 .. Waiting - 1 :
                 k \in Indices /\ At(k) = Stream[b + k + 1] /\ data[k] = At(k)
           /\ data[0] = Stream[b + 1]
           /\ bytes_remained = 0 => count = 0
           /\ bytes_remained = 0 /\ data[0] = PROTOCOL_HEAD =>
                 /\ recv_length >= 5
                 /\ IF ShowsNegative(b + 1) THEN ParsedLength < 0 ELSE ParsedLength = Said(b + 1)
<1>1. /\ b \in Nat /\ received \in 0 .. Len(Stream) /\ received \in Nat
      /\ count \in Nat /\ recv_length \in Nat /\ bytes_remained \in Nat /\ pro_length \in Nat
      /\ TypeOK
  BY LimitFacts, ByteFacts DEF StreamType, TypeOK
<1>2. /\ recv_length >= 1 /\ Waiting = count + recv_length /\ received = b + Waiting
      /\ bytes_remained = 0 => count = 0
  BY <1>1 DEF InPlace, Waiting
<1>3. Waiting <= BUFLENGTH
  BY <1>2 DEF BufferNotOverrun
<1>4. received = b + count + recv_length /\ b + 1 \in 1 .. Len(Stream) /\ Waiting \in Nat
  BY <1>1, <1>2, LimitFacts
<1>5. \A k \in 0 .. Waiting - 1 :
         k \in Indices /\ At(k) = Stream[b + k + 1] /\ data[k] = At(k)
  <2> SUFFICES ASSUME NEW k \in 0 .. Waiting - 1
               PROVE  k \in Indices /\ At(k) = Stream[b + k + 1] /\ data[k] = At(k)
    OBVIOUS
  <2>1. k \in Indices
    BY <1>3, <1>4, LimitFacts, ByteFacts
  <2>2. data[k] = Stream[b + k + 1]
    BY DEF InPlace
  <2> QED
    BY <2>1, <2>2 DEF At
<1>6. data[0] = Stream[b + 1]
  <2>1. 0 \in 0 .. Waiting - 1 /\ b + 0 + 1 = b + 1
    BY <1>1, <1>2, <1>4
  <2>2. data[0] = Stream[b + 0 + 1]
    BY <1>5, <2>1
  <2> QED
    BY <2>1, <2>2
<1>7. ASSUME bytes_remained = 0, data[0] = PROTOCOL_HEAD
      PROVE  /\ recv_length >= 5
             /\ IF ShowsNegative(b + 1) THEN ParsedLength < 0 ELSE ParsedLength = Said(b + 1)
  <2>1. \A c \in Chunks : ~(b + 1 <= c[2] /\ c[2] < (b + 1) + 4)
    BY <1>4, <1>6, <1>7, HeaderWhole
  <2>2. ~(b + 1 <= received /\ received < (b + 1) + 4)
    BY <2>1 DEF InPlace
  <2>3. count = 0 /\ recv_length >= 5
    BY <1>1, <1>2, <1>4, <1>7, <2>2
  <2>4. \A k \in 1 .. 4 : k \in 0 .. Waiting - 1 /\ b + k + 1 = (b + 1) + k
    BY <1>1, <1>2, <2>3
  <2>5. \A k \in 1 .. 4 : At(k) = Stream[(b + 1) + k]
    BY <1>5, <2>4
  <2>8. /\ At(1) = Stream[(b + 1) + 1] /\ At(2) = Stream[(b + 1) + 2]
        /\ At(3) = Stream[(b + 1) + 3] /\ At(4) = Stream[(b + 1) + 4]
    BY <2>5
  <2>9. CASE ShowsNegative(b + 1)
    <3>1. /\ Stream[(b + 1) + 1] = MINUS
          /\ \A k \in 2 .. LENGTH_SIZE : Stream[(b + 1) + k] \in Digit
          /\ \E k \in 2 .. LENGTH_SIZE : Stream[(b + 1) + k] # 48
      BY <2>9 DEF ShowsNegative, IsDigit
    <3>2. \A k \in 2 .. LENGTH_SIZE : k \in 1 .. 4
      BY DEF LENGTH_SIZE
    <3>5. At(1) = MINUS /\ \A k \in 2 .. LENGTH_SIZE : At(k) = Stream[(b + 1) + k]
      BY <2>5, <2>8, <3>1, <3>2
    <3>3. /\ At(1) = MINUS
          /\ \A k \in 2 .. LENGTH_SIZE : At(k) \in Digit
          /\ \E k \in 2 .. LENGTH_SIZE : At(k) # 48
      BY <3>1, <3>5, Zenon
    <3>4. ParsedLength < 0
      BY <1>1, <3>3, ParsedFacts
    <3> QED
      BY <2>3, <2>9, <3>4
  <2>10. CASE ~ShowsNegative(b + 1)
    <3>1. \A k \in 1 .. 4 : Stream[(b + 1) + k] \in Digit
      BY <1>4, <1>6, <1>7, <2>10, HeadShows
    <3>2. \A k \in 1 .. LENGTH_SIZE : At(k) \in Digit
      BY <2>5, <3>1 DEF LENGTH_SIZE
    <3>3. ParsedLength = 1000 * (At(1) - 48) + 100 * (At(2) - 48) + 10 * (At(3) - 48) + (At(4) - 48)
      BY <1>1, <3>2, ParsedFacts
    <3>4. ParsedLength = Said(b + 1)
      BY SMTT(30), <2>8, <3>3 DEF Said
    <3> QED
      BY <2>3, <2>10, <3>4
  <2> QED
    BY <2>9, <2>10
<1> QED
  BY <1>1, <1>2, <1>3, <1>4, <1>5, <1>6, <1>7

\* The frame that begins the buffer is queued: its last byte is byte m.
LEMMA QueueWhole ==
    ASSUME LossesShow, StreamType, BufferNotOverrun, NEW b \in 0 .. Len(Stream), InPlace(b),
           pc = "start", QueuedBy(b), NEW n \in Nat, n = Said(b + 1),
           NEW i \in 1 .. Len(Frames), BeginsFrame(i, b + 1), Waiting >= n + 5,
           PushRecvBuffToQueue(n)
    PROVE  QueuedBy(b + n + 5)' /\ b + n + 5 \in 0 .. Len(Stream) /\ b + n + 5 <= received
<1> DEFINE p == [k \in 1 .. n |-> At(LENGTH_SIZE + k)]
<1>1. /\ b \in Nat /\ Waiting \in Nat /\ received = b + Waiting /\ received <= Len(Stream)
      /\ \A k \in 0 .. Waiting - 1 : At(k) = Stream[b + k + 1]
      /\ TypeOK /\ LENGTH_SIZE = 4 /\ HEAD_SIZE = 5
  <2>1. /\ b \in Nat /\ received \in 0 .. Len(Stream)
        /\ count \in Nat /\ recv_length \in Nat /\ Waiting = count + recv_length
        /\ \A k \in 0 .. Waiting - 1 : At(k) = Stream[b + k + 1]
    BY InPlaceFacts
  <2> QED
    BY <2>1, LimitFacts DEF InPlace, StreamType, LENGTH_SIZE, HEAD_SIZE
<1>2. /\ Frames[i].first = b + 1 /\ Size(i) = n + 5 /\ Frames[i].last = b + n + 5
      /\ i - 1 \in 0 .. Len(Frames) /\ i \in 0 .. Len(Frames) /\ i \in Nat /\ i >= 1
  <2>1. Frames[i].first = b + 1 /\ Size(i) = n + 5
    BY DEF BeginsFrame
  <2>2. Frames[i].last = (b + 1) + (n + 5) - 1
    BY <2>1, SizeFacts
  <2>3. Frames[i].last = b + n + 5
    BY <1>1, <2>2
  <2> QED
    BY <2>1, <2>3, FramesLen
<1>3. End(i) = b + n + 5
  BY <1>2 DEF End
<1>4. jqueue \in Selections[i - 1]
  <2>1. PICK m \in 0 .. Len(Frames) : End(m) <= b /\ jqueue \in Selections[m]
    BY DEF QueuedBy
  <2>2. m <= i - 1
    <3> SUFFICES ASSUME i <= m PROVE FALSE
      BY <1>2, FramesLen
    <3>1. i \in 0 .. m
      BY <1>2
    <3>2. End(i) <= End(m) /\ End(m) \in Nat
      BY <3>1, EndFacts
    <3> QED
      BY SMTT(30), <1>1, <1>3, <2>1, <3>2
  <2>3. i - 1 \in m .. Len(Frames)
    BY <1>2, <2>2, FramesLen
  <2> QED
    BY <2>1, <2>3, SelectionsGrow
<1>5. jqueue' = jqueue \/ jqueue' = Append(jqueue, Payloads[i])
  <2>1. CASE n > MaxPacket
    BY <1>1, <2>1, PushFacts
  <2>2. CASE ~(n > MaxPacket)
    <3>1. n <= MaxPacket
      BY <2>2, LimitFacts
    <3>2. p \in Seq(Byte) /\ Len(p) = n /\ jqueue' = Append(jqueue, p)
      BY <1>1, <3>1, PushFacts
    <3>3. /\ Payloads[i] \in Seq(Byte) /\ Len(Payloads[i]) = n
          /\ \A k \in 1 .. n : Payloads[i][k] = Stream[(b + 1) + 4 + k]
      <4>1. /\ Payloads[i] \in Seq(Byte) /\ Len(Payloads[i]) = Size(i) - HEAD_SIZE
            /\ \A k \in 1 .. Size(i) - HEAD_SIZE :
                  Payloads[i][k] = Stream[Frames[i].first + LENGTH_SIZE + k]
        BY PayloadFacts
      <4>2. Size(i) - HEAD_SIZE = n
        BY <1>1, <1>2
      <4> QED
        BY <1>1, <1>2, <4>1, <4>2
    <3>4. \A k \in 1 .. n : p[k] = Payloads[i][k]
      <4> SUFFICES ASSUME NEW k \in 1 .. n PROVE p[k] = Payloads[i][k]
        OBVIOUS
      <4>1. 4 + k \in 0 .. Waiting - 1 /\ b + (4 + k) + 1 = (b + 1) + 4 + k
        BY <1>1
      <4>2. At(4 + k) = Stream[b + (4 + k) + 1]
        BY <1>1, <4>1
      <4> QED
        BY <1>1, <3>3, <4>1, <4>2
    <3> HIDE DEF p
    <3>5. p = Payloads[i]
      BY <3>2, <3>3, <3>4, SeqEqual
    <3> QED
      BY <3>2, <3>5
  <2> QED
    BY <2>1, <2>2
<1>6. jqueue' \in Selections[i]
  <2>1. \A q \in Selections[i - 1] : q \in Selections[i] /\ Append(q, Payloads[i]) \in Selections[i]
    BY SelectionsNext
  <2> QED
    BY <1>4, <1>5, <2>1, Zenon
<1>7. b + n + 5 \in 0 .. Len(Stream) /\ b + n + 5 <= received
  BY SMTT(30), <1>1, LimitFacts
<1>8. QueuedBy(b + n + 5)'
  <2>1. i \in 0 .. Len(Frames) /\ End(i) <= b + n + 5
    BY <1>1, <1>2, <1>3
  <2> QED
    BY <1>6, <2>1 DEF QueuedBy
<1> QED
  BY <1>7, <1>8

\* What is behind the first bytes is moved to the front.
LEMMA MovedPlace ==
    ASSUME LossesShow, StreamType, BufferNotOverrun, NEW b \in 0 .. Len(Stream), InPlace(b),
           pc = "start", NEW from \in Nat, NEW rest \in Nat,
           from + rest = Waiting, rest >= 1, rest <= recv_length,
           data' = MoveToFront(from, rest), recv_length' = rest,
           received' = received, count' = 0, bytes_remained' = 0, pc' = "start"
    PROVE  InPlace(b + from)'
<1>1. /\ b \in Nat /\ received \in Nat /\ Waiting <= BUFLENGTH /\ received = b + Waiting
      /\ recv_length \in Nat /\ Waiting \in Nat
      /\ \A k \in 0 .. Waiting - 1 : At(k) = Stream[b + k + 1]
  <2>1. /\ b \in Nat /\ received \in Nat /\ Waiting <= BUFLENGTH
        /\ count \in Nat /\ recv_length \in Nat /\ Waiting = count + recv_length
        /\ \A k \in 0 .. Waiting - 1 : At(k) = Stream[b + k + 1]
    BY InPlaceFacts
  <2>2. received = b + Waiting
    BY DEF InPlace
  <2> QED
    BY <2>1, <2>2
<1>2. Waiting' = rest
  BY DEF Waiting
<1>3. received' = (b + from) + Waiting'
  BY <1>1, <1>2
<1>4. ASSUME NEW k \in 0 .. Waiting' - 1 PROVE data'[k] = Stream[(b + from) + k + 1]
  <2>1. /\ k \in Nat /\ k < rest /\ k \in 0 .. BUFLENGTH - 1 /\ from + k \in 0 .. Waiting - 1
        /\ b + (from + k) + 1 = (b + from) + k + 1
    BY <1>1, <1>2, <1>4, LimitFacts
  <2>2. k \in Indices
    BY <2>1, ByteFacts
  <2>3. data'[k] = At(from + k)
    BY <2>1, <2>2 DEF MoveToFront
  <2> QED
    BY <1>1, <2>1, <2>3
<1>5. PICK c \in Chunks : c[2] = received /\ c[1] <= received - recv_length
  BY DEF InPlace
<1>6. c[1] <= received' - recv_length'
  <2>1. c[1] \in Nat
    <3>1. c \in (0 .. Len(Stream)) \X (0 .. Len(Stream))
      BY StreamAssumption
    <3> QED
      BY <3>1, LimitFacts
  <2> QED
    BY <1>1, <1>5, <2>1
<1>7. \E d \in Chunks : /\ d[2] = received' /\ d[1] <= received' - recv_length'
                        /\ bytes_remained' > 0 => d[1] = received' - recv_length'
  BY <1>5, <1>6
<1> QED
  BY <1>3, <1>4, <1>7 DEF InPlace

LEMMA PlaceRecv ==
    ASSUME StreamType, BufferNotOverrun', NEW b \in 0 .. Len(Stream), InPlace(b) \/ Astray, Recv
    PROVE  InPlace(b)' \/ Astray'
<1>1. PICK end \in ChunkEnds[received] :
         LET chunk == SubSeq(Stream, received + 1, end)
         IN  /\ data' = [k \in Indices |-> IF k - count \in 0 .. Len(chunk) - 1
                                           THEN chunk[k - count + 1]
                                           ELSE data[k]]
             /\ recv_length' = Len(chunk)
             /\ received' = end
  BY DEF Recv
<1> DEFINE chunk == SubSeq(Stream, received + 1, end)
           len == end - received
<1>2. /\ received \in Nat /\ count \in Nat /\ end \in Nat
      /\ end > received /\ len \in Nat /\ len >= 1 /\ end = received + len
      /\ <<received, end>> \in Chunks
      /\ Len(chunk) = len
      /\ \A k \in 1 .. len : chunk[k] = Stream[received + k]
  <2>1. received \in 0 .. Len(Stream) /\ count \in Nat
    BY DEF StreamType, TypeOK
  <2>2. /\ end \in 0 .. Len(Stream) /\ end > received
        /\ <<received, end>> \in Chunks
        /\ Len(chunk) = end - received
        /\ \A k \in 1 .. end - received : chunk[k] = Stream[received + k]
    BY <2>1, ChunkFacts
  <2> HIDE DEF chunk
  <2>3. received \in Nat /\ end \in Nat /\ len \in Nat /\ len >= 1 /\ end = received + len
    BY <2>1, <2>2, LimitFacts
  <2> QED
    BY <2>1, <2>2, <2>3
<1>3. pc = "recv" /\ pc' = "start" /\ UNCHANGED <<count, bytes_remained, pro_length, jqueue>>
  BY DEF Recv
<1>4. /\ recv_length' = len /\ received' = end
      /\ data' = [k \in Indices |-> IF k - count \in 0 .. len - 1 THEN chunk[k - count + 1]
                                    ELSE data[k]]
  BY <1>1, <1>2
<1> HIDE DEF chunk, len
<1>5. CASE Astray
  <2>1. 0 \in Indices /\ ~(0 - count \in 0 .. len - 1)
    BY <1>2, <1>5, ByteFacts DEF Astray
  <2>2. data'[0] = data[0]
    BY <1>4, <2>1
  <2> QED
    BY <1>3, <1>5, <2>2 DEF Astray
<1>6. CASE InPlace(b)
  <2>1. Waiting = count /\ Waiting' = count + len
    BY <1>2, <1>3, <1>4 DEF Waiting
  <2>2. received = b + count /\ b \in Nat
    BY <1>6, <2>1, LimitFacts DEF InPlace
  <2>3. count + len <= BUFLENGTH
    BY <1>3, <1>4 DEF BufferNotOverrun
  <2>4. ASSUME NEW k \in 0 .. Waiting' - 1 PROVE data'[k] = Stream[b + k + 1]
    <3>1. k \in Indices /\ k \in Nat /\ k < count + len
      <4>1. k \in 0 .. BUFLENGTH - 1
        BY <1>2, <2>1, <2>3, LimitFacts
      <4> QED
        BY <1>2, <2>1, <4>1, ByteFacts
    <3>2. data'[k] = IF k - count \in 0 .. len - 1 THEN chunk[k - count + 1] ELSE data[k]
      BY <1>4, <3>1
    <3>3. CASE k < count
      <4>1. ~(k - count \in 0 .. len - 1) /\ k \in 0 .. Waiting - 1
        BY <1>2, <2>1, <3>1, <3>3
      <4>2. data[k] = Stream[b + k + 1]
        BY <1>6, <4>1 DEF InPlace
      <4> QED
        BY <3>2, <4>1, <4>2
    <3>4. CASE k >= count
      <4>1. /\ k - count \in 0 .. len - 1 /\ k - count + 1 \in 1 .. len
            /\ received + (k - count + 1) = b + k + 1
        BY <1>2, <2>2, <3>1, <3>4
      <4>2. chunk[k - count + 1] = Stream[received + (k - count + 1)]
        BY <1>2, <4>1
      <4> QED
        BY <3>2, <4>1, <4>2
    <3> QED
      BY <1>2, <3>1, <3>3, <3>4
  <2>5. received' = b + Waiting' /\ recv_length' >= 1 /\ received' - recv_length' = received
    <3>1. /\ count \in Nat /\ len \in Nat /\ len >= 1 /\ end = received + len /\ received \in Nat
          /\ b \in Nat /\ received = b + count
      BY <1>2, <2>2
    <3>2. end = b + (count + len) /\ end - len = received
      BY <3>1
    <3> QED
      BY <1>4, <2>1, <3>1, <3>2
  <2>6. \E c \in Chunks : /\ c[2] = received' /\ c[1] <= received' - recv_length'
                          /\ bytes_remained' > 0 => c[1] = received' - recv_length'
    <3> DEFINE c == <<received, end>>
    <3>1. c \in Chunks /\ c[1] = received /\ c[2] = end
      BY <1>2
    <3>2. received <= received
      BY <1>2
    <3> HIDE DEF c
    <3>3. c[2] = received' /\ c[1] = received' - recv_length'
      BY <1>4, <2>5, <3>1
    <3> QED
      BY <2>5, <3>1, <3>2, <3>3
  <2>7. /\ bytes_remained' = 0 => count' = 0
        /\ bytes_remained' > 0 =>
              /\ Stream[b + 1] = PROTOCOL_HEAD /\ ~ShowsNegative(b + 1)
              /\ pro_length' = Said(b + 1) /\ count' >= 5 /\ bytes_remained' = pro_length' + 5 - count'
    BY <1>3, <1>6 DEF InPlace
  <2> QED
    BY <2>4, <2>5, <2>6, <2>7 DEF InPlace
<1> QED
  BY <1>5, <1>6

\* More of a frame is awaited.
LEMMA PlaceStick ==
    ASSUME LossesShow, StreamType, BufferNotOverrun, NEW b \in 0 .. Len(Stream), InPlace(b),
           pc = "start", pc' = "recv", UNCHANGED <<received, data>>, count' = count + recv_length,
           Stream[b + 1] = PROTOCOL_HEAD, ~ShowsNegative(b + 1),
           pro_length' = Said(b + 1), count' >= 5,
           bytes_remained' = pro_length' + 5 - count', bytes_remained' > 0
    PROVE  InPlace(b)'
<1>1. Waiting = count + recv_length /\ received = b + Waiting
  BY InPlaceFacts DEF InPlace
<1>2. Waiting' = Waiting
  BY <1>1 DEF Waiting
<1>3. \A k \in 0 .. Waiting' - 1 : data'[k] = Stream[b + k + 1]
  BY <1>2 DEF InPlace
<1>4. bytes_remained' # 0 /\ pc' # "start"
  OBVIOUS
<1> QED
  BY <1>1, <1>2, <1>3, <1>4 DEF InPlace

\* The buffer is empty.
LEMMA PlaceCleared ==
    ASSUME NEW b \in Nat, received' = b, count' = 0, bytes_remained' = 0, pc' = "recv"
    PROVE  InPlace(b)'
<1>1. Waiting' = 0
  BY DEF Waiting
<1> QED
  BY <1>1 DEF InPlace

\* The number in a header, and where the frame ends that it begins.
LEMMA FrameOrLoss ==
    ASSUME LossesShow, NEW b \in 0 .. Len(Stream), b + 1 \in 1 .. Len(Stream),
           Stream[b + 1] = PROTOCOL_HEAD, ~ShowsNegative(b + 1), NEW c \in Chunks,
           c[1] < b + 5 + Said(b + 1), b + 5 + Said(b + 1) <= c[2]
    PROVE  \/ \E i \in 1 .. Len(Frames) : BeginsFrame(i, b + 1)
           \/ /\ b + 5 <= c[1] /\ b + 5 + Said(b + 1) < c[2]
              /\ Stream[b + 5 + Said(b + 1)] # CLOSE_BRACE
<1>1. b \in Nat /\ Said(b + 1) \in Nat
  BY HeadShows, LimitFacts
<1> DEFINE n == Said(b + 1)
           p == b + 1
<1>2. \/ \E i \in 1 .. Len(Frames) : BeginsFrame(i, p)
      \/ Misses(c, p)
  BY HeadShows
<1> HIDE DEF n
<1>3. p + 4 + n = b + 5 + n /\ p + 4 = b + 5
  BY <1>1 DEF n
<1>4. Misses(c, p) => (c[1] < b + 5 + n /\ b + 5 + n <= c[2] =>
                          b + 5 <= c[1] /\ b + 5 + n < c[2] /\ Stream[b + 5 + n] # CLOSE_BRACE)
  BY <1>3 DEF Misses, n
<1> QED
  BY <1>2, <1>4 DEF n

Placed(b) == b <= received /\ QueuedBy(b) /\ (pc # "ended" => InPlace(b) \/ Astray)

\* A round whose chunk begins a frame.
LEMMA PlaceHead ==
    ASSUME LossesShow, StreamType, BufferNotOverrun, NEW b \in 0 .. Len(Stream), InPlace(b),
           QueuedBy(b), HeadExact \/ HeadStick \/ HeadDismantle
    PROVE  \E m \in 0 .. Len(Stream) : Placed(m)'
<1> DEFINE n == Said(b + 1)
<1>1. pc = "start" /\ data[0] = PROTOCOL_HEAD /\ bytes_remained = 0
  BY DEF HeadExact, HeadStick, HeadDismantle, AtHead
<1>2. /\ b \in Nat /\ b + 1 \in 1 .. Len(Stream) /\ received \in Nat
      /\ recv_length \in Nat /\ recv_length >= 5 /\ count = 0
      /\ Waiting = recv_length /\ received = b + recv_length
      /\ Stream[b + 1] = PROTOCOL_HEAD /\ ~ShowsNegative(b + 1) /\ ParsedLength = n
  <2>1. /\ b \in Nat /\ b + 1 \in 1 .. Len(Stream) /\ received \in Nat
        /\ recv_length \in Nat /\ recv_length >= 5 /\ count = 0
        /\ Waiting = count + recv_length /\ received = b + count + recv_length
        /\ Stream[b + 1] = PROTOCOL_HEAD
        /\ IF ShowsNegative(b + 1) THEN ParsedLength < 0 ELSE ParsedLength = n
    BY <1>1, InPlaceFacts
  <2>2. ParsedLength \in Nat
    BY HeadLength DEF StreamType
  <2>3. ~ShowsNegative(b + 1)
    BY <2>1, <2>2
  <2> HIDE DEF n
  <2> QED
    BY <2>1, <2>3
<1>3. n \in Nat
  BY <1>2, HeadShows
<1>4. HEAD_SIZE = 5
  BY DEF HEAD_SIZE
<1>5. PICK c \in Chunks : c[2] = received /\ c[1] <= received - recv_length
  BY <1>1 DEF InPlace
<1>6. c[1] \in Nat
  <2>1. c \in (0 .. Len(Stream)) \X (0 .. Len(Stream))
    BY StreamAssumption
  <2> QED
    BY <2>1, LimitFacts
<1>7. n + 5 <= recv_length => \E i \in 1 .. Len(Frames) : BeginsFrame(i, b + 1)
  <2> SUFFICES ASSUME n + 5 <= recv_length PROVE \E i \in 1 .. Len(Frames) : BeginsFrame(i, b + 1)
    OBVIOUS
  <2> HIDE DEF n
  <2>1. c[1] <= b /\ c[1] < b + 5 + n /\ b + 5 + n <= c[2] /\ ~(b + 5 <= c[1])
    BY <1>2, <1>3, <1>5, <1>6
  <2> QED
    BY <1>2, <2>1, FrameOrLoss DEF n
<1>8. ASSUME n + 5 <= recv_length, PushRecvBuffToQueue(n)
      PROVE  QueuedBy(b + n + 5)' /\ b + n + 5 \in 0 .. Len(Stream) /\ b + n + 5 <= received
  <2>1. PICK i \in 1 .. Len(Frames) : BeginsFrame(i, b + 1)
    BY <1>7, <1>8
  <2>2. Waiting >= n + 5
    <3> HIDE DEF n
    <3> QED
      BY <1>2, <1>3, <1>8
  <2>3. n = Said(b + 1)
    OBVIOUS
  <2> HIDE DEF n
  <2> QED
    BY <1>1, <1>3, <1>8, <2>1, <2>2, <2>3, QueueWhole
<1>9. CASE HeadExact
  <2>1. /\ n = recv_length - 5 /\ PushRecvBuffToQueue(n) /\ received' = received
        /\ count' = 0 /\ bytes_remained' = 0 /\ pc' = "recv"
    BY <1>2, <1>4, <1>9 DEF HeadExact, ClearAndReturn
  <2> HIDE DEF n
  <2>2. n + 5 <= recv_length /\ b + n + 5 = received
    BY <1>2, <2>1
  <2>3. QueuedBy(received)' /\ received \in 0 .. Len(Stream)
    <3>1. QueuedBy(b + n + 5)' /\ b + n + 5 \in 0 .. Len(Stream)
      BY <1>8, <2>1, <2>2
    <3> QED
      BY <2>1, <2>2, <3>1 DEF QueuedBy
  <2>4. \A m \in Nat : m = received' => InPlace(m)'
    BY <2>1, PlaceCleared
  <2>5. PICK m \in 0 .. Len(Stream) : m = received
    BY <2>3
  <2>6. m \in Nat /\ QueuedBy(m)' /\ InPlace(m)' /\ m <= received'
    BY <1>2, <2>1, <2>3, <2>4, <2>5 DEF QueuedBy
  <2> QED
    BY <2>6 DEF Placed
<1>10. CASE HeadStick
  <2>1. /\ n > recv_length - 5 /\ pro_length' = n /\ bytes_remained' = n - (recv_length - 5)
        /\ count' = count + recv_length /\ pc' = "recv" /\ UNCHANGED <<received, data, jqueue>>
    BY <1>2, <1>4, <1>10 DEF HeadStick
  <2>2. /\ count' >= 5 /\ bytes_remained' = pro_length' + 5 - count' /\ bytes_remained' > 0
    <3> HIDE DEF n
    <3> QED
      BY <1>2, <1>3, <2>1
  <2>3. InPlace(b)'
    BY <1>1, <1>2, <2>1, <2>2, PlaceStick
  <2>4. QueuedBy(b)' /\ b <= received'
    BY SMTT(30), <1>2, <2>1 DEF QueuedBy
  <2> QED
    BY <2>3, <2>4 DEF Placed
<1>11. CASE HeadDismantle
  <2> DEFINE rest == recv_length - 5 - n
  <2>1. /\ rest > 0 /\ PushRecvBuffToQueue(n) /\ data' = MoveToFront(n + 5, rest)
        /\ recv_length' = rest /\ bytes_remained' = 0 /\ count' = 0
        /\ received' = received /\ pc' = "start"
    BY <1>1, <1>2, <1>4, <1>11 DEF HeadDismantle
  <2>2. /\ n + 5 <= recv_length /\ n + 5 \in Nat /\ rest \in Nat /\ rest >= 1
        /\ rest <= recv_length /\ (n + 5) + rest = Waiting /\ b + (n + 5) = b + n + 5
    <3> HIDE DEF n
    <3> QED
      BY <1>2, <1>3, <2>1
  <2> HIDE DEF rest
  <2>3. QueuedBy(b + n + 5)' /\ b + n + 5 \in 0 .. Len(Stream) /\ b + n + 5 <= received
    BY <1>8, <2>1, <2>2
  <2> HIDE DEF n
  <2>4. InPlace(b + (n + 5))'
    BY <1>1, <2>1, <2>2, MovedPlace
  <2>5. InPlace(b + n + 5)'
    BY <2>2, <2>4
  <2> QED
    BY <2>1, <2>3, <2>5 DEF Placed
<1> QED
  BY <1>9, <1>10, <1>11

\* A round with bytes of a frame that is awaited.
LEMMA PlaceBody ==
    ASSUME LossesShow, StreamType, BufferNotOverrun, NEW b \in 0 .. Len(Stream), InPlace(b),
           QueuedBy(b), BodyExact \/ BodyStick \/ BodyDismantle \/ BodyLoss
    PROVE  \E m \in 0 .. Len(Stream) : Placed(m)'
<1> DEFINE n == Said(b + 1)
<1>1. pc = "start" /\ bytes_remained > 0
  BY DEF BodyExact, BodyStick, BodyDismantle, BodyLoss, InBody
<1>2. /\ b \in Nat /\ b + 1 \in 1 .. Len(Stream) /\ received \in Nat /\ received \in 0 .. Len(Stream)
      /\ recv_length \in Nat /\ recv_length >= 1 /\ count \in Nat /\ bytes_remained \in Nat
      /\ Waiting = count + recv_length /\ received = b + count + recv_length
      /\ \A k \in 0 .. Waiting - 1 : At(k) = Stream[b + k + 1]
  BY <1>1, InPlaceFacts
<1>3. /\ Stream[b + 1] = PROTOCOL_HEAD /\ ~ShowsNegative(b + 1) /\ pro_length = n
      /\ count >= 5 /\ bytes_remained = pro_length + 5 - count
  BY <1>1 DEF InPlace
<1>4. n \in Nat
  BY <1>2, <1>3, HeadShows
<1>5. HEAD_SIZE = 5 /\ LENGTH_SIZE = 4
  BY DEF HEAD_SIZE, LENGTH_SIZE
<1>6. PICK c \in Chunks : c[2] = received /\ c[1] = received - recv_length
  BY <1>1 DEF InPlace
<1>7. /\ c[1] = b + count /\ c[2] = b + count + recv_length
      /\ b + 5 + n = b + count + bytes_remained
  <2> HIDE DEF n
  <2> QED
    BY <1>2, <1>3, <1>4, <1>6
<1>8. bytes_remained <= recv_length =>
         \/ \E i \in 1 .. Len(Frames) : BeginsFrame(i, b + 1)
         \/ bytes_remained < recv_length /\ Stream[b + 5 + n] # CLOSE_BRACE
  <2> SUFFICES ASSUME bytes_remained <= recv_length
               PROVE  \/ \E i \in 1 .. Len(Frames) : BeginsFrame(i, b + 1)
                      \/ bytes_remained < recv_length /\ Stream[b + 5 + n] # CLOSE_BRACE
    OBVIOUS
  <2>1. c[1] < b + 5 + n /\ b + 5 + n <= c[2]
    <3> HIDE DEF n
    <3> QED
      BY <1>1, <1>2, <1>7
  <2>2. \/ \E i \in 1 .. Len(Frames) : BeginsFrame(i, b + 1)
        \/ b + 5 + n < c[2] /\ Stream[b + 5 + n] # CLOSE_BRACE
    BY <1>2, <1>3, <2>1, FrameOrLoss
  <2>3. b + 5 + n < c[2] => bytes_remained < recv_length
    <3> HIDE DEF n
    <3> QED
      BY <1>2, <1>7
  <2> QED
    BY <2>2, <2>3
<1>9. ASSUME bytes_remained <= recv_length, PushRecvBuffToQueue(pro_length),
             \E i \in 1 .. Len(Frames) : BeginsFrame(i, b + 1)
      PROVE  QueuedBy(b + n + 5)' /\ b + n + 5 \in 0 .. Len(Stream) /\ b + n + 5 <= received
  <2>1. PICK i \in 1 .. Len(Frames) : BeginsFrame(i, b + 1)
    BY <1>9
  <2>2. Waiting >= n + 5 /\ PushRecvBuffToQueue(n)
    <3> HIDE DEF n
    <3>1. Waiting >= n + 5
      BY <1>2, <1>3, <1>4, <1>9
    <3> QED
      BY <1>3, <1>9, <3>1
  <2>3. n = Said(b + 1)
    OBVIOUS
  <2> HIDE DEF n
  <2> QED
    BY <1>1, <1>4, <2>1, <2>2, <2>3, QueueWhole
<1> HIDE DEF n
<1>10. CASE BodyExact
  <2>1. /\ bytes_remained = recv_length /\ PushRecvBuffToQueue(pro_length) /\ received' = received
        /\ count' = 0 /\ bytes_remained' = 0 /\ pc' = "recv"
    BY <1>10 DEF BodyExact, ClearAndReturn
  <2>2. bytes_remained <= recv_length /\ ~(bytes_remained < recv_length) /\ b + n + 5 = received
    BY <1>2, <1>3, <1>4, <2>1
  <2>3. QueuedBy(b + n + 5)' /\ b + n + 5 \in 0 .. Len(Stream)
    BY <1>8, <1>9, <2>1, <2>2
  <2>4. b + n + 5 \in Nat /\ b + n + 5 = received' /\ b + n + 5 <= received'
    BY <1>2, <1>4, <2>1, <2>2
  <2>5. InPlace(b + n + 5)'
    BY <2>1, <2>4, PlaceCleared
  <2> QED
    BY <2>3, <2>4, <2>5 DEF Placed
<1>11. CASE BodyStick
  <2>1. /\ bytes_remained > recv_length /\ bytes_remained' = bytes_remained - recv_length
        /\ count' = count + recv_length /\ pc' = "recv"
        /\ UNCHANGED <<received, data, pro_length, jqueue>>
    BY <1>11 DEF BodyStick
  <2>2. count' >= 5 /\ bytes_remained' = pro_length' + 5 - count' /\ bytes_remained' > 0
    BY <1>2, <1>3, <1>4, <2>1
  <2>3. pro_length' = Said(b + 1)
    BY <1>3, <2>1 DEF n
  <2>4. InPlace(b)'
    BY <1>1, <1>3, <2>1, <2>2, <2>3, PlaceStick
  <2>5. QueuedBy(b)' /\ b <= received'
    BY <1>2, <2>1 DEF QueuedBy
  <2> QED
    BY <2>4, <2>5 DEF Placed
<1>12. CASE BodyDismantle
  <2> DEFINE rest == count + recv_length - pro_length - 5
  <2>1. /\ bytes_remained < recv_length /\ At(pro_length + 4) = CLOSE_BRACE
        /\ PushRecvBuffToQueue(pro_length) /\ data' = MoveToFront(pro_length + 5, rest)
        /\ recv_length' = rest /\ bytes_remained' = 0 /\ count' = 0
        /\ received' = received /\ pc' = "start"
    BY <1>1, <1>5, <1>12 DEF BodyDismantle
  <2>2. /\ bytes_remained <= recv_length /\ n + 5 \in Nat /\ rest \in Nat /\ rest >= 1
        /\ rest <= recv_length /\ (n + 5) + rest = Waiting /\ b + (n + 5) = b + n + 5
        /\ n + 4 \in 0 .. Waiting - 1 /\ b + (n + 4) + 1 = b + 5 + n
    <3>1. /\ n \in Nat /\ b \in Nat /\ count \in Nat /\ recv_length \in Nat /\ bytes_remained \in Nat
          /\ pro_length = n /\ bytes_remained = n + 5 - count /\ bytes_remained < recv_length
          /\ bytes_remained > 0 /\ Waiting = count + recv_length
          /\ rest = count + recv_length - n - 5
      BY <1>1, <1>2, <1>3, <1>4, <2>1
    <3> HIDE DEF rest
    <3> QED
      BY <3>1
  <2> HIDE DEF rest
  <2>3. Stream[b + 5 + n] = CLOSE_BRACE
    <3>1. At(n + 4) = Stream[b + (n + 4) + 1]
      BY <1>2, <2>2
    <3>2. At(n + 4) = CLOSE_BRACE
      BY <1>3, <2>1
    <3> QED
      BY <2>2, <3>1, <3>2
  <2>4. QueuedBy(b + n + 5)' /\ b + n + 5 \in 0 .. Len(Stream) /\ b + n + 5 <= received
    BY <1>8, <1>9, <2>1, <2>2, <2>3
  <2>5. data' = MoveToFront(n + 5, rest)
    BY <1>3, <2>1
  <2>6. InPlace(b + (n + 5))'
    BY <1>1, <2>1, <2>2, <2>5, MovedPlace
  <2>7. InPlace(b + n + 5)'
    BY <2>2, <2>6
  <2> QED
    BY <2>1, <2>4, <2>7 DEF Placed
<1>13. CASE BodyLoss
  <2>1. /\ data' = MoveToFront(count, recv_length) /\ bytes_remained' = 0 /\ count' = 0
        /\ UNCHANGED <<received, pro_length, recv_length, pc, jqueue>>
    BY <1>13 DEF BodyLoss
  <2>2. PICK waited \in Nat : waited = count
    BY <1>2
  <2>3. /\ recv_length <= recv_length /\ waited + recv_length = Waiting
        /\ b + waited \in 0 .. Len(Stream) /\ b + waited <= received
        /\ b + waited \in Nat /\ b <= b + waited
    BY <1>2, <2>2, LimitFacts
  <2>4. data' = MoveToFront(waited, recv_length)
    BY <2>1, <2>2
  <2>5. InPlace(b + waited)'
    BY <1>1, <1>2, <2>1, <2>3, <2>4, MovedPlace
  <2>6. QueuedBy(b + waited)'
    BY <1>2, <2>1, <2>3, QueuedByMore
  <2> QED
    BY <2>1, <2>3, <2>5, <2>6 DEF Placed
<1> QED
  BY <1>10, <1>11, <1>12, <1>13

LEMMA PlaceRound ==
    ASSUME LossesShow, StreamType, BufferNotOverrun, NEW b \in 0 .. Len(Stream), Placed(b), Round,
           ~HeadNegative
    PROVE  \E m \in 0 .. Len(Stream) : Placed(m)'
<1>1. pc = "start" /\ (InPlace(b) \/ Astray) /\ QueuedBy(b) /\ b <= received
  BY DEF Placed, Round, HeadExact, HeadStick, HeadDismantle, BodyExact, BodyStick, BodyDismantle,
         BodyLoss, ShortChunk, ErrorClear, AtHead, InBody, Elsewhere
<1>2. /\ b \in Nat /\ received \in 0 .. Len(Stream) /\ received \in Nat /\ count \in Nat
      /\ recv_length \in Nat /\ bytes_remained \in Nat
  BY LimitFacts DEF StreamType, TypeOK
<1>3. CASE HeadExact \/ HeadStick \/ HeadDismantle
  <2>1. data[0] = PROTOCOL_HEAD
    BY <1>3 DEF HeadExact, HeadStick, HeadDismantle, AtHead
  <2>2. InPlace(b)
    BY <1>1, <2>1 DEF Astray
  <2> QED
    BY <1>1, <1>3, <2>2, PlaceHead
<1>4. CASE BodyExact \/ BodyStick \/ BodyDismantle \/ BodyLoss
  <2>1. bytes_remained > 0
    BY <1>4 DEF BodyExact, BodyStick, BodyDismantle, BodyLoss, InBody
  <2>2. InPlace(b)
    BY <1>1, <1>2, <2>1 DEF Astray
  <2> QED
    BY <1>1, <1>4, <2>2, PlaceBody
<1>5. CASE ShortChunk
  <2>1. /\ ~AtHead /\ ~InBody /\ recv_length < 5 /\ count' = count + recv_length
        /\ UNCHANGED <<received, data, bytes_remained, jqueue>> /\ pc' = "recv"
    BY <1>5 DEF ShortChunk, Elsewhere, HEAD_SIZE
  <2>2. bytes_remained = 0
    BY <1>1, <1>2, <2>1 DEF InBody
  <2>3. data[0] # PROTOCOL_HEAD /\ count' > 0
    <3>1. CASE Astray
      BY <1>2, <2>1, <3>1 DEF Astray
    <3>2. CASE InPlace(b)
      <4>1. recv_length >= 1 /\ (data[0] = PROTOCOL_HEAD => recv_length >= 5)
        BY <1>1, <2>2, <3>2, InPlaceFacts
      <4> QED
        BY <1>2, <2>1, <4>1
    <3> QED
      BY <1>1, <3>1, <3>2
  <2>4. Astray'
    BY <2>1, <2>2, <2>3 DEF Astray
  <2>5. QueuedBy(b)' /\ b <= received'
    BY <1>1, <2>1 DEF QueuedBy
  <2> QED
    BY <2>4, <2>5 DEF Placed
<1>6. CASE ErrorClear
  <2>1. received <= received' /\ received' \in Nat /\ received' \in 0 .. Len(Stream)
    <3>1. Next
      BY <1>6 DEF Next, Round
    <3>2. StreamType'
      BY <3>1, StreamTypeStep
    <3> QED
      BY <3>1, <3>2, ReceivedGrows DEF StreamType, TypeOK
  <2>2. PICK m \in 0 .. Len(Stream) : m = received'
    BY <2>1
  <2>3. jqueue' = jqueue /\ count' = 0 /\ bytes_remained' = 0 /\ pc' = "recv"
    BY <1>6 DEF ErrorClear, ClearAndReturn
  <2>4. m \in Nat /\ b <= m /\ m <= received'
    BY <1>1, <1>2, <2>1, <2>2
  <2>5. InPlace(m)'
    BY <2>2, <2>3, <2>4, PlaceCleared
  <2>6. QueuedBy(m)'
    BY <1>1, <1>2, <2>3, <2>4, QueuedByMore
  <2> QED
    BY <2>4, <2>5, <2>6 DEF Placed
<1> QED
  BY <1>3, <1>4, <1>5, <1>6 DEF Round

LEMMA PlaceStep ==
    ASSUME LossesShow, StreamType, BufferNotOverrun, BufferNotOverrun', PlaceInv,
           [Next]_vars \/ Stops
    PROVE  PlaceInv'
<1>1. PICK b \in 0 .. Len(Stream) : Placed(b)
  BY DEF PlaceInv, Placed
<1>2. received <= received' /\ received \in Nat /\ received' \in Nat /\ b \in Nat /\ b <= received
  BY <1>1, ReceivedGrows, LimitFacts DEF Placed
<1> SUFFICES \E m \in 0 .. Len(Stream) : Placed(m)'
  BY DEF PlaceInv, Placed
<1>3. CASE UNCHANGED vars
  <2>1. Placed(b)'
    BY <1>1, <1>3 DEF vars, Placed, InPlace, Astray, QueuedBy, Waiting
  <2> QED
    BY <2>1
<1>4. CASE Stops \/ RecvQuit \/ RecvClosed \/ HeadNegative
  <2>1. pc' = "ended" /\ jqueue' = jqueue
    BY <1>4 DEF Stops, RecvQuit, RecvClosed, HeadNegative
  <2>2. QueuedBy(b)' /\ b <= received'
    BY <1>1, <1>2, <2>1 DEF QueuedBy, Placed
  <2> QED
    BY <2>1, <2>2 DEF Placed
<1>5. CASE Recv
  <2>1. InPlace(b) \/ Astray
    BY <1>1, <1>5 DEF Placed, Recv
  <2>2. InPlace(b)' \/ Astray'
    BY <1>5, <2>1, PlaceRecv
  <2>3. QueuedBy(b)' /\ b <= received'
    BY <1>1, <1>2, <1>5 DEF Recv, QueuedBy, Placed
  <2> QED
    BY <2>2, <2>3 DEF Placed
<1>6. CASE Round /\ ~HeadNegative
  BY <1>1, <1>6, PlaceRound
<1> QED
  BY <1>3, <1>4, <1>5, <1>6 DEF Next

LEMMA PlaceInit == Init => PlaceInv
<1> SUFFICES ASSUME Init PROVE PlaceInv
  OBVIOUS
<1>1. 0 \in 0 .. Len(Stream) /\ 0 \in Nat /\ 0 <= received
  BY LimitFacts DEF Init
<1>2. QueuedBy(0)
  <2>1. 0 \in 0 .. Len(Frames) /\ End(0) <= 0
    BY FramesLen DEF End
  <2> QED
    BY <2>1, SelectionsFacts DEF Init, QueuedBy
<1>3. InPlace(0)
  <2>1. Waiting = 0
    BY DEF Init, Waiting
  <2> QED
    BY <2>1 DEF Init, InPlace
<1> QED
  BY <1>1, <1>2, <1>3 DEF PlaceInv

LEMMA PlaceImplies == StreamType /\ PlaceInv => OnlyWholeFrames
<1> SUFFICES ASSUME StreamType, PlaceInv PROVE OnlyWholeFrames
  OBVIOUS
<1>1. received \in Nat
  BY LimitFacts DEF StreamType, TypeOK
<1>2. PICK b \in 0 .. Len(Stream) : b <= received /\ QueuedBy(b)
  BY DEF PlaceInv
<1>3. PICK n \in 0 .. Len(Frames) : End(n) <= b /\ jqueue \in Selections[n]
  BY <1>2 DEF QueuedBy
<1>4. End(n) <= received
  <2>1. End(n) \in Nat /\ b \in Nat
    BY EndFacts, LimitFacts
  <2> QED
    BY <1>1, <1>2, <1>3, <2>1
<1>5. Complete(received) \in n .. Len(Frames)
  <2>1. Complete(received) \in 0 .. Len(Frames) /\ n <= Complete(received)
    BY <1>1, <1>4, CompleteFacts
  <2> QED
    BY <2>1, FramesLen
<1>6. \A m \in n .. Len(Frames), q \in Selections[n] : q \in Selections[m]
  BY SelectionsGrow
<1> QED
  BY <1>3, <1>5, <1>6 DEF OnlyWholeFrames

\* A damaged stream: StickDismantleProtocol gets through to the queue only
\* payloads of frames that have arrived whole, in order and none twice, if every
\* loss shows, and as long as temp_option.data is not overrun.
THEOREM WholeFramesOnly ==
    ASSUME LossesShow
    PROVE  PathSpec /\ []BufferNotOverrun => []OnlyWholeFrames
<1> DEFINE Inv == StreamType /\ PlaceInv
<1>1. PathInit => Inv
  BY StreamTypeInit, PlaceInit DEF PathInit
<1>2. Inv /\ BufferNotOverrun /\ BufferNotOverrun' /\ [PathNext]_pathVars => Inv'
  <2> SUFFICES ASSUME StreamType, PlaceInv, BufferNotOverrun, BufferNotOverrun',
                      [PathNext]_pathVars
               PROVE  StreamType' /\ PlaceInv'
    OBVIOUS
  <2>1. StreamType'
    BY StreamTypeKept
  <2>2. PlaceInv'
    BY PathSteps, PlaceStep
  <2> QED
    BY <2>1, <2>2
<1>3. Inv => OnlyWholeFrames
  BY PlaceImplies
<1> QED
  BY <1>1, <1>2, <1>3, PTL DEF PathSpec

-----------------------------------------------------------------------------
\* Any stream, cut anywhere.

\* s is made of bytes of the stream behind byte a and up to byte b, each taken
\* once and in their order, maybe with some left out.
Within(s, a, b) ==
    \E at \in [1 .. Len(s) -> a + 1 .. b] :
        /\ \A k \in 1 .. Len(s) : s[k] = Stream[at[k]]
        /\ \A j, k \in 1 .. Len(s) : j < k => at[j] < at[k]

LEMMA WithinNothing ==
    ASSUME NEW a \in Nat, NEW b \in Nat
    PROVE  Within(<<>>, a, b)
<1>1. [k \in 1 .. 0 |-> 0] \in [1 .. 0 -> a + 1 .. b] /\ Len(<<>>) = 0
  OBVIOUS
<1>2. \A k \in 1 .. 0 : FALSE
  OBVIOUS
<1> QED
  BY <1>1, <1>2 DEF Within

LEMMA WithinMore ==
    ASSUME NEW s \in Seq(Byte), NEW a \in Nat, NEW b \in Nat, NEW c \in Nat,
           Within(s, a, b), b <= c
    PROVE  Within(s, a, c)
<1>1. PICK at \in [1 .. Len(s) -> a + 1 .. b] :
        /\ \A k \in 1 .. Len(s) : s[k] = Stream[at[k]]
        /\ \A j, k \in 1 .. Len(s) : j < k => at[j] < at[k]
  BY DEF Within
<1>2. at \in [1 .. Len(s) -> a + 1 .. c]
  OBVIOUS
<1> QED
  BY <1>1, <1>2 DEF Within

\* One behind another.
LEMMA WithinJoin ==
    ASSUME NEW s \in Seq(Byte), NEW t \in Seq(Byte),
           NEW a \in Nat, NEW b \in Nat, NEW c \in Nat, a <= b, b <= c,
           Within(s, a, b), Within(t, b, c)
    PROVE  Within(s \o t, a, c)
<1>1. PICK f \in [1 .. Len(s) -> a + 1 .. b] :
        /\ \A k \in 1 .. Len(s) : s[k] = Stream[f[k]]
        /\ \A j, k \in 1 .. Len(s) : j < k => f[j] < f[k]
  BY DEF Within
<1>2. PICK g \in [1 .. Len(t) -> b + 1 .. c] :
        /\ \A k \in 1 .. Len(t) : t[k] = Stream[g[k]]
        /\ \A j, k \in 1 .. Len(t) : j < k => g[j] < g[k]
  BY DEF Within
<1> DEFINE u == s \o t
           h == [k \in 1 .. Len(u) |-> IF k <= Len(s) THEN f[k] ELSE g[k - Len(s)]]
<1>3. /\ Len(s) \in Nat /\ Len(t) \in Nat /\ Len(u) = Len(s) + Len(t)
      /\ \A k \in 1 .. Len(u) : u[k] = IF k <= Len(s) THEN s[k] ELSE t[k - Len(s)]
  BY LenProperties, ConcatProperties
<1> HIDE DEF u
<1>4. ASSUME NEW k \in 1 .. Len(u)
      PROVE  /\ k <= Len(s) => h[k] = f[k] /\ f[k] \in a + 1 .. b /\ k \in 1 .. Len(s)
             /\ k > Len(s) => /\ h[k] = g[k - Len(s)] /\ g[k - Len(s)] \in b + 1 .. c
                              /\ k - Len(s) \in 1 .. Len(t)
             /\ h[k] \in a + 1 .. c /\ u[k] = Stream[h[k]]
  <2>1. CASE k <= Len(s)
    <3>1. k \in 1 .. Len(s)
      BY <1>3, <2>1
    <3>2. h[k] = f[k] /\ f[k] \in a + 1 .. b
      BY <2>1, <3>1
    <3> QED
      BY <1>1, <1>3, <2>1, <3>1, <3>2
  <2>2. CASE k > Len(s)
    <3>1. k - Len(s) \in 1 .. Len(t) /\ ~(k <= Len(s))
      BY <1>3, <2>2
    <3>2. h[k] = g[k - Len(s)] /\ g[k - Len(s)] \in b + 1 .. c
      BY <3>1
    <3> QED
      BY SMTT(30), <1>2, <1>3, <2>2, <3>1, <3>2
  <2> QED
    BY <1>3, <2>1, <2>2
<1>5. h \in [1 .. Len(u) -> a + 1 .. c]
  BY <1>4
<1>6. ASSUME NEW j \in 1 .. Len(u), NEW k \in 1 .. Len(u), j < k PROVE h[j] < h[k]
  <2> HIDE DEF h
  <2>1. CASE k <= Len(s)
    <3>1. j <= Len(s)
      BY <1>3, <1>6, <2>1
    <3> QED
      BY <1>1, <1>4, <1>6, <2>1, <3>1
  <2>2. CASE j > Len(s)
    <3>1. k > Len(s) /\ j - Len(s) < k - Len(s)
      BY <1>3, <1>6, <2>2
    <3> QED
      BY <1>2, <1>4, <2>2, <3>1
  <2>3. CASE j <= Len(s) /\ k > Len(s)
    <3>1. h[j] \in a + 1 .. b /\ h[k] \in b + 1 .. c
      BY <1>4, <2>3
    <3> QED
      BY <3>1
  <2> QED
    BY <1>3, <2>1, <2>2, <2>3
<1> HIDE DEF h
<1>7. /\ \A k \in 1 .. Len(u) : u[k] = Stream[h[k]]
      /\ \A j, k \in 1 .. Len(u) : j < k => h[j] < h[k]
  BY <1>4, <1>6
<1>8. Within(u, a, c)
  BY <1>5, <1>7 DEF Within
<1> QED
  BY <1>8 DEF u

\* Some of the first m bytes of s, and n bytes behind them.
LEMMA WithinPick ==
    ASSUME NEW s \in Seq(Byte), NEW a \in Nat, NEW b \in Nat, a <= b, Within(s, a, b),
           NEW m \in 0 .. Len(s),
           NEW t \in Seq(Byte), NEW g \in [1 .. Len(t) -> 1 .. m],
           \A k \in 1 .. Len(t) : t[k] = s[g[k]],
           \A j, k \in 1 .. Len(t) : j < k => g[j] < g[k],
           NEW u \in Seq(Byte), m + Len(u) <= Len(s),
           \A k \in 1 .. Len(u) : u[k] = s[m + k]
    PROVE  \E c \in a .. b : Within(t, a, c) /\ Within(u, c, b)
<1>0. PICK n \in Nat : n = Len(u)
  BY LenProperties
<1>1. PICK at \in [1 .. Len(s) -> a + 1 .. b] :
        /\ \A k \in 1 .. Len(s) : s[k] = Stream[at[k]]
        /\ \A j, k \in 1 .. Len(s) : j < k => at[j] < at[k]
  BY DEF Within
<1>2. Len(s) \in Nat /\ Len(t) \in Nat /\ m \in Nat /\ m + n <= Len(s)
  BY <1>0, LenProperties
<1> DEFINE c == IF m = 0 THEN a ELSE at[m]
<1>3. c \in a .. b /\ c \in Nat /\ \A k \in 1 .. m : at[k] <= c /\ at[k] \in a + 1 .. b
  <2>1. CASE m = 0
    BY <2>1
  <2>2. CASE m # 0
    <3>1. m \in 1 .. Len(s)
      BY <1>2, <2>2
    <3>2. at[m] \in a + 1 .. b /\ c = at[m]
      BY <2>2, <3>1
    <3>3. ASSUME NEW k \in 1 .. m PROVE at[k] <= at[m] /\ at[k] \in a + 1 .. b
      <4>1. k \in 1 .. Len(s) /\ (k < m \/ k = m)
        BY <1>2
      <4>2. at[k] \in a + 1 .. b
        BY <4>1
      <4> QED
        BY <1>1, <3>1, <3>2, <4>1, <4>2
    <3> HIDE DEF c
    <3> QED
      BY <3>2, <3>3
  <2> QED
    BY <2>1, <2>2
<1>4. \A k \in 1 .. n : m + k \in 1 .. Len(s) /\ at[m + k] > c /\ at[m + k] \in a + 1 .. b
  <2> SUFFICES ASSUME NEW k \in 1 .. n
               PROVE  m + k \in 1 .. Len(s) /\ at[m + k] > c /\ at[m + k] \in a + 1 .. b
    OBVIOUS
  <2>1. m + k \in 1 .. Len(s)
    BY <1>2
  <2>2. at[m + k] \in a + 1 .. b
    BY <2>1
  <2>3. CASE m = 0
    BY <2>1, <2>2, <2>3
  <2>4. CASE m # 0
    <3>1. m \in 1 .. Len(s) /\ m < m + k
      BY <1>2, <2>4
    <3> QED
      BY <1>1, <2>1, <2>2, <2>4, <3>1
  <2> QED
    BY <2>3, <2>4
<1> HIDE DEF c
<1>5. Within(t, a, c)
  <2> DEFINE f == [k \in 1 .. Len(t) |-> at[g[k]]]
  <2>1. \A k \in 1 .. Len(t) : g[k] \in 1 .. m /\ g[k] \in 1 .. Len(s)
    <3>1. 1 .. m \subseteq 1 .. Len(s)
      BY <1>2
    <3>2. \A k \in 1 .. Len(t) : g[k] \in 1 .. m
      BY Zenon
    <3> QED
      BY <3>1, <3>2, Zenon
  <2>2. \A k \in 1 .. Len(t) : f[k] \in a + 1 .. c
    BY <1>2, <1>3, <2>1
  <2>3. f \in [1 .. Len(t) -> a + 1 .. c]
    BY <2>2
  <2>4. \A k \in 1 .. Len(t) : t[k] = Stream[f[k]]
    BY <1>1, <2>1
  <2>5. \A j, k \in 1 .. Len(t) : j < k => f[j] < f[k]
    <3> SUFFICES ASSUME NEW j \in 1 .. Len(t), NEW k \in 1 .. Len(t), j < k
                 PROVE  at[g[j]] < at[g[k]]
      OBVIOUS
    <3>1. g[j] \in 1 .. Len(s) /\ g[k] \in 1 .. Len(s) /\ g[j] < g[k]
      BY <2>1
    <3> QED
      BY <1>1, <3>1
  <2> HIDE DEF f
  <2> QED
    BY <2>3, <2>4, <2>5 DEF Within
<1>6. Within(u, c, b)
  <2> DEFINE f == [k \in 1 .. Len(u) |-> at[m + k]]
  <2>0. \A k \in 1 .. Len(u) : k \in 1 .. n
    BY <1>0, Zenon
  <2>1. ASSUME NEW k \in 1 .. Len(u) PROVE f[k] \in c + 1 .. b
    <3>1. at[m + k] > c /\ at[m + k] \in a + 1 .. b
      BY <1>4, <2>0
    <3> QED
      BY <1>3, <3>1
  <2>2. f \in [1 .. Len(u) -> c + 1 .. b]
    BY <2>1
  <2>3. \A k \in 1 .. Len(u) : u[k] = Stream[f[k]]
    BY <1>1, <1>4, <2>0
  <2>4. \A j, k \in 1 .. Len(u) : j < k => f[j] < f[k]
    <3> SUFFICES ASSUME NEW j \in 1 .. Len(u), NEW k \in 1 .. Len(u), j < k
                 PROVE  at[m + j] < at[m + k]
      OBVIOUS
    <3>1. m + j < m + k /\ m + j \in 1 .. Len(s) /\ m + k \in 1 .. Len(s)
      BY <1>2, <1>4, <2>0
    <3> QED
      BY <1>1, <3>1
  <2> HIDE DEF f
  <2> QED
    BY <2>2, <2>3, <2>4, Zenon DEF Within
<1> QED
  BY <1>3, <1>5, <1>6

\* The payloads q, each with a PROTOCOL_HEAD before it.
Framed(q) == FlattenSeq([k \in 1 .. Len(q) |-> <<PROTOCOL_HEAD>> \o q[k]])

LEMMA FramedFacts ==
    /\ Framed(<<>>) = <<>>
    /\ \A q \in Seq(Seq(Byte)) :
          /\ Framed(q) \in Seq(Byte)
          /\ \A p \in Seq(Byte) : Framed(Append(q, p)) = Framed(q) \o (<<PROTOCOL_HEAD>> \o p)
<1> DEFINE H(p) == <<PROTOCOL_HEAD>> \o p
           W(q) == [k \in 1 .. Len(q) |-> H(q[k])]
<1>1. \A p \in Seq(Byte) : H(p) \in Seq(Byte)
  <2>1. <<PROTOCOL_HEAD>> \in Seq(Byte)
    BY DEF PROTOCOL_HEAD, Byte
  <2> QED
    BY <2>1, ConcatProperties
<1>2. \A q : Framed(q) = FlattenSeq(W(q))
  BY DEF Framed
<1> HIDE DEF H
<1>3. \A q \in Seq(Seq(Byte)) : W(q) \in Seq(Seq(Byte)) /\ Len(W(q)) = Len(q)
  <2> SUFFICES ASSUME NEW q \in Seq(Seq(Byte))
               PROVE  W(q) \in Seq(Seq(Byte)) /\ Len(W(q)) = Len(q)
    OBVIOUS
  <2>1. Len(q) \in Nat /\ \A k \in 1 .. Len(q) : q[k] \in Seq(Byte)
    BY LenProperties, ElementOfSeq
  <2>2. W(q) \in [1 .. Len(q) -> Seq(Byte)]
    BY <1>1, <2>1
  <2> HIDE DEF W
  <2> QED
    BY <2>1, <2>2, FunctionIsSeq
<1>4. Framed(<<>>) = <<>>
  <2>1. W(<<>>) = <<>>
    OBVIOUS
  <2> QED
    BY <1>2, <2>1, FlattenEmpty
<1>5. ASSUME NEW q \in Seq(Seq(Byte)), NEW p \in Seq(Byte)
      PROVE  Framed(Append(q, p)) = Framed(q) \o H(p)
  <2> DEFINE r == Append(q, p)
  <2>1. /\ r \in Seq(Seq(Byte)) /\ Len(r) = Len(q) + 1 /\ Len(q) \in Nat
        /\ \A k \in 1 .. Len(q) : r[k] = q[k]
        /\ r[Len(q) + 1] = p
    BY LenProperties, AppendProperties
  <2> HIDE DEF r
  <2>2. W(q) \in Seq(Seq(Byte)) /\ Len(W(q)) = Len(q) /\ H(p) \in Seq(Byte)
    BY <1>1, <1>3
  <2>3. \A k \in 1 .. Len(r) : W(r)[k] = IF k <= Len(q) THEN W(q)[k] ELSE H(p)
    BY <2>1
  <2>4. W(q) \o <<H(p)>> = Append(W(q), H(p))
    BY <2>2, AppendIsConcat
  <2>5. W(r) = W(q) \o <<H(p)>>
    <3> HIDE DEF W
    <3>1. <<H(p)>> \in Seq(Seq(Byte)) /\ Len(<<H(p)>>) = 1 /\ <<H(p)>>[1] = H(p)
      BY <2>2
    <3>2. W(r) \in Seq(Seq(Byte)) /\ Len(W(r)) = Len(W(q)) + Len(<<H(p)>>)
      BY <1>3, <2>1, <2>2, <3>1
    <3>3. /\ \A k \in 1 .. Len(W(q)) : W(r)[k] = W(q)[k]
          /\ \A k \in 1 .. Len(<<H(p)>>) : W(r)[Len(W(q)) + k] = <<H(p)>>[k]
      BY SMTT(30), <2>1, <2>2, <2>3, <3>1
    <3> QED
      BY <2>2, <3>1, <3>2, <3>3, ConcatByElements
  <2>6. W(r) = Append(W(q), H(p))
    BY <2>4, <2>5
  <2> HIDE DEF W
  <2>7. FlattenSeq(Append(W(q), H(p))) = FlattenSeq(W(q)) \o H(p)
    BY <2>2, FlattenAppend
  <2> QED
    BY <1>2, <2>6, <2>7, Zenon DEF r
<1>6. \A q \in Seq(Seq(Byte)) : Framed(q) \in Seq(Byte)
  <2> HIDE DEF W
  <2> QED
    BY <1>2, <1>3, FlattenType
<1> QED
  BY <1>4, <1>5, <1>6 DEF H

\* The first n bytes of a buffer d.
Held(d, n) == [k \in 1 .. n |-> IF k - 1 \in Indices THEN d[k - 1] ELSE 0]

LEMMA HeldFacts ==
    ASSUME NEW d \in [Indices -> Byte], NEW n \in Nat
    PROVE  /\ Held(d, n) \in Seq(Byte) /\ Len(Held(d, n)) = n
           /\ n <= BUFLENGTH => \A k \in 1 .. n : Held(d, n)[k] = d[k - 1] /\ k - 1 \in Indices
<1>1. Held(d, n) \in [1 .. n -> Byte]
  BY ByteFacts DEF Held
<1>2. Held(d, n) \in Seq(Byte) /\ Len(Held(d, n)) = n
  BY <1>1, FunctionIsSeq
<1>3. ASSUME n <= BUFLENGTH, NEW k \in 1 .. n PROVE k - 1 \in Indices
  BY <1>3, ByteFacts, LimitFacts
<1> QED
  BY <1>2, <1>3 DEF Held

\* What is left of it when its first bytes are gone.
LEMMA HeldMoved ==
    ASSUME TypeOK, NEW n \in Nat, n <= BUFLENGTH, NEW from \in Nat, NEW rest \in Nat,
           from + rest <= n, data' = MoveToFront(from, rest)
    PROVE  /\ Held(data', rest) \in Seq(Byte) /\ Len(Held(data', rest)) = rest
           /\ \A k \in 1 .. rest : Held(data', rest)[k] = Held(data, n)[from + k]
<1>1. data \in [Indices -> Byte] /\ data' \in [Indices -> Byte]
  BY AtType DEF TypeOK
<1>2. rest <= BUFLENGTH
  BY LimitFacts
<1>3. \A d \in [Indices -> Byte] : /\ Held(d, rest) \in Seq(Byte) /\ Len(Held(d, rest)) = rest
                                   /\ \A k \in 1 .. rest : Held(d, rest)[k] = d[k - 1] /\ k - 1 \in Indices
  BY <1>2, HeldFacts
<1>4. ASSUME NEW k \in 1 .. rest PROVE Held(data', rest)[k] = Held(data, n)[from + k]
  <2>1. Held(data', rest)[k] = data'[k - 1] /\ k - 1 \in Indices
    BY <1>1, <1>3
  <2>2. from + k \in 1 .. n /\ k - 1 < rest /\ from + (k - 1) = from + k - 1
    OBVIOUS
  <2>3. data'[k - 1] = At(from + (k - 1))
    BY <2>1, <2>2 DEF MoveToFront
  <2>4. Held(data, n)[from + k] = data[from + k - 1] /\ from + k - 1 \in Indices
    <3>1. \A j \in 1 .. n : Held(data, n)[j] = data[j - 1] /\ j - 1 \in Indices
      BY <1>1, HeldFacts
    <3> QED
      BY <2>2, <3>1
  <2> QED
    BY <2>1, <2>2, <2>3, <2>4 DEF At
<1> QED
  BY <1>1, <1>3, <1>4

\* A payload of m bytes behind a PROTOCOL_HEAD is queued, and u is what follows.
LEMMA PayloadTaken ==
    ASSUME TypeOK, NEW n \in Nat, n <= BUFLENGTH, NEW m \in Nat, m + 5 <= n,
           data[0] = PROTOCOL_HEAD, PushRecvBuffToQueue(m),
           NEW u \in Seq(Byte), m + 5 + Len(u) <= n,
           \A k \in 1 .. Len(u) : u[k] = Held(data, n)[m + 5 + k],
           NEW used \in Nat, used <= received, received \in Nat,
           Within(Framed(jqueue), 0, used), Within(Held(data, n), used, received)
    PROVE  \E c \in used .. received : Within(Framed(jqueue'), 0, c) /\ Within(u, c, received)
<1> DEFINE h == Held(data, n)
           p == [k \in 1 .. m |-> At(LENGTH_SIZE + k)]
           t == <<PROTOCOL_HEAD>> \o p
           g == [k \in 1 .. m + 1 |-> IF k = 1 THEN 1 ELSE k + 4]
<1>1. data \in [Indices -> Byte] /\ jqueue \in Seq(Seq(Byte))
  BY DEF TypeOK
<1>2. /\ h \in Seq(Byte) /\ Len(h) = n
      /\ \A k \in 1 .. n : h[k] = data[k - 1] /\ h[k] = At(k - 1)
  <2>1. /\ h \in Seq(Byte) /\ Len(h) = n
        /\ \A k \in 1 .. n : h[k] = data[k - 1] /\ k - 1 \in Indices
    BY <1>1, HeldFacts
  <2> QED
    BY <2>1, Zenon DEF At
<1>3. p \in Seq(Byte) /\ Len(p) = m /\ \A k \in 1 .. m : p[k] = At(4 + k)
  <2>1. p \in [1 .. m -> Byte]
    BY AtType
  <2>2. \A k \in 1 .. m : p[k] = At(4 + k)
    BY DEF LENGTH_SIZE
  <2> HIDE DEF p
  <2> QED
    BY <2>1, <2>2, FunctionIsSeq
<1>4. /\ t \in Seq(Byte) /\ Len(t) = m + 1 /\ t[1] = PROTOCOL_HEAD
      /\ \A k \in 1 .. m : t[k + 1] = p[k]
  <2> HIDE DEF p
  <2>1. <<PROTOCOL_HEAD>> \in Seq(Byte) /\ Len(<<PROTOCOL_HEAD>>) = 1
    BY DEF PROTOCOL_HEAD, Byte
  <2>2. /\ t \in Seq(Byte) /\ Len(t) = 1 + m
        /\ \A k \in 1 .. 1 + m : t[k] = IF k <= 1 THEN <<PROTOCOL_HEAD>>[k] ELSE p[k - 1]
    BY <1>3, <2>1, ConcatProperties
  <2> HIDE DEF t
  <2> QED
    BY <2>2
<1> HIDE DEF h, p, t
<1>5. \A k \in 1 .. Len(t) : t[k] = h[g[k]]
  <2> SUFFICES ASSUME NEW k \in 1 .. m + 1 PROVE t[k] = h[g[k]]
    BY <1>4
  <2>1. CASE k = 1
    <3>1. g[k] = 1 /\ h[1] = data[0]
      BY <1>2, <2>1
    <3> QED
      BY <1>4, <2>1, <3>1
  <2>2. CASE k # 1
    <3>1. k - 1 \in 1 .. m /\ (k - 1) + 1 = k /\ k + 4 \in 1 .. n /\ 4 + (k - 1) = (k + 4) - 1
      BY <2>2
    <3>2. t[k] = At(4 + (k - 1))
      BY <1>3, <1>4, <3>1
    <3>3. g[k] = k + 4 /\ h[k + 4] = At((k + 4) - 1)
      BY <1>2, <2>2, <3>1
    <3> QED
      BY <3>1, <3>2, <3>3
  <2> QED
    BY <2>1, <2>2
<1>6. g \in [1 .. Len(t) -> 1 .. m + 5] /\ \A j, k \in 1 .. Len(t) : j < k => g[j] < g[k]
  BY <1>4
<1>7. m + 5 \in 0 .. Len(h) /\ Len(u) \in Nat /\ m + 5 + Len(u) <= Len(h)
  BY <1>2, LenProperties
<1>8. Within(h, used, received) /\ \A k \in 1 .. Len(u) : u[k] = h[m + 5 + k]
  BY DEF h
<1>9. \E c \in used .. received : Within(t, used, c) /\ Within(u, c, received)
  <2> HIDE DEF g
  <2>1. \A b \in Nat : used <= b /\ Within(h, used, b) =>
            \E c \in used .. b : Within(t, used, c) /\ Within(u, c, b)
    BY <1>2, <1>4, <1>5, <1>6, <1>7, <1>8, WithinPick
  <2> QED
    BY <1>8, <2>1
<1>10. PICK c \in used .. received : Within(t, used, c) /\ Within(u, c, received)
  BY <1>9
<1>11. c \in Nat /\ used <= c /\ c <= received
  OBVIOUS
<1>12. Framed(jqueue) \in Seq(Byte) /\ Framed(Append(jqueue, p)) = Framed(jqueue) \o t
  BY <1>1, <1>3, FramedFacts DEF t
<1>13. Within(Framed(jqueue), 0, c) /\ Within(Framed(jqueue) \o t, 0, c)
  <2>1. Within(Framed(jqueue), 0, c)
    BY <1>11, <1>12, WithinMore
  <2>2. Within(Framed(jqueue) \o t, 0, c)
    BY <1>4, <1>10, <1>11, <1>12, WithinJoin
  <2> QED
    BY <2>1, <2>2
<1>14. jqueue' = jqueue \/ jqueue' = Append(jqueue, p)
  BY DEF PushRecvBuffToQueue, p
<1>15. Within(Framed(jqueue'), 0, c)
  BY <1>12, <1>13, <1>14
<1>16. Within(Framed(jqueue'), 0, c) /\ Within(u, c, received)
  BY <1>10, <1>15
<1> QED
  BY <1>16

\* The first bytes are dropped and nothing is queued.
LEMMA Dropped ==
    ASSUME TypeOK, NEW n \in Nat, n <= BUFLENGTH, NEW m \in Nat,
           NEW u \in Seq(Byte), m + Len(u) <= n,
           \A k \in 1 .. Len(u) : u[k] = Held(data, n)[m + k],
           NEW used \in Nat, used <= received, received \in Nat,
           Within(Framed(jqueue), 0, used), Within(Held(data, n), used, received)
    PROVE  \E c \in used .. received : Within(Framed(jqueue), 0, c) /\ Within(u, c, received)
<1> DEFINE h == Held(data, n)
           g == [k \in 1 .. 0 |-> 0]
<1>1. data \in [Indices -> Byte] /\ jqueue \in Seq(Seq(Byte))
  BY DEF TypeOK
<1>2. h \in Seq(Byte) /\ Len(h) = n
  BY <1>1, HeldFacts
<1>3. Within(h, used, received) /\ \A k \in 1 .. Len(u) : u[k] = h[m + k]
  BY DEF h
<1> HIDE DEF h
<1>4. PICK c \in used .. received : Within(u, c, received)
  <2> DEFINE t == <<>>
  <2>1. m \in 0 .. Len(h) /\ m + Len(u) <= Len(h)
    BY <1>2, LenProperties
  <2>3. t \in Seq(Byte) /\ Len(t) = 0 /\ \A k \in 1 .. 0 : FALSE
    BY EmptySeq
  <2>4. /\ g \in [1 .. Len(t) -> 1 .. m]
        /\ \A k \in 1 .. Len(t) : t[k] = h[g[k]]
        /\ \A j, k \in 1 .. Len(t) : j < k => g[j] < g[k]
    BY <2>3
  <2> HIDE DEF g, t
  <2>5. \A b \in Nat : used <= b /\ Within(h, used, b) =>
              \E d \in used .. b : Within(t, used, d) /\ Within(u, d, b)
    BY <1>2, <1>3, <2>1, <2>3, <2>4, WithinPick
  <2>6. \E d \in used .. received : Within(t, used, d) /\ Within(u, d, received)
    BY <1>3, <2>5
  <2> QED
    BY <2>6
<1>5. Framed(jqueue) \in Seq(Byte) /\ c \in Nat /\ used <= c
  BY <1>1, FramedFacts
<1>6. Within(Framed(jqueue), 0, c)
  BY <1>5, WithinMore
<1> QED
  BY <1>4, <1>6

\* How far the stream is used up: what is queued is of the first bytes of it, what
\* waits in the buffer of those behind them.
Used(m) ==
    /\ m <= received
    /\ Within(Framed(jqueue), 0, m)
    /\ pc # "ended" => Within(Held(data, Waiting), m, received)

\* The buffer begins with a PROTOCOL_HEAD while a frame is awaited.
HeadKept == pc # "ended" /\ bytes_remained > 0 => data[0] = PROTOCOL_HEAD /\ count > 0

ScrapsInv == HeadKept /\ \E m \in 0 .. Len(Stream) : Used(m)

\* Whatever the peer sends and however it is cut, what is queued is payloads that
\* have a PROTOCOL_HEAD of their own before them, of bytes that have arrived, in
\* their order, none of them doubled and none invented.
NothingInvented == Within(Framed(jqueue), 0, received)

LEMMA ScrapsInit == Init => ScrapsInv
<1> SUFFICES ASSUME Init PROVE ScrapsInv
  OBVIOUS
<1>1. 0 \in 0 .. Len(Stream) /\ 0 \in Nat /\ received = 0 /\ bytes_remained = 0 /\ jqueue = <<>>
  BY LimitFacts DEF Init
<1>2. Waiting = 0
  BY DEF Init, Waiting
<1>3. Held(data, 0) = <<>>
  BY DEF Held
<1>4. Within(<<>>, 0, 0)
  BY WithinNothing
<1>5. Framed(jqueue) = <<>>
  BY <1>1, FramedFacts
<1>6. Used(0)
  BY <1>1, <1>2, <1>3, <1>4, <1>5 DEF Used
<1>7. HeadKept
  BY <1>1 DEF HeadKept
<1> QED
  BY <1>1, <1>6, <1>7 DEF ScrapsInv

\* What is so in every round.
LEMMA ScrapsFacts ==
    ASSUME StreamType, BufferNotOverrun, NEW m \in 0 .. Len(Stream), Used(m), Round
    PROVE  /\ TypeOK /\ m \in Nat /\ m <= received /\ received \in 0 .. Len(Stream)
           /\ received \in Nat /\ count \in Nat /\ recv_length \in Nat /\ bytes_remained \in Nat
           /\ pro_length \in Nat /\ (HeadExact \/ HeadDismantle => ParsedLength \in Nat)
           /\ pc = "start" /\ Waiting = count + recv_length
           /\ Waiting \in Nat /\ Waiting <= BUFLENGTH
           /\ bytes_remained > 0 => bytes_remained + count >= pro_length + 5
           /\ Within(Framed(jqueue), 0, m) /\ Within(Held(data, Waiting), m, received)
<1>1. pc = "start"
  BY DEF Round, HeadExact, HeadStick, HeadDismantle, BodyExact, BodyStick, BodyDismantle,
         BodyLoss, ShortChunk, ErrorClear, HeadNegative, SaysNegative, AtHead, InBody, Elsewhere
<1>2. /\ TypeOK /\ received \in 0 .. Len(Stream) /\ received \in Nat /\ count \in Nat
      /\ recv_length \in Nat /\ bytes_remained \in Nat /\ pro_length \in 0 .. MAX_LENGTH
      /\ bytes_remained > 0 => bytes_remained + count >= pro_length + 5
      /\ m \in Nat
  BY LimitFacts DEF StreamType, TypeOK, HEAD_SIZE
<1>3. pro_length \in Nat /\ (HeadExact \/ HeadDismantle => ParsedLength \in Nat)
  BY <1>2, HeadLength, ByteFacts
<1>4. Waiting = count + recv_length
  BY <1>1 DEF Waiting
<1>5. Waiting \in Nat /\ Waiting <= BUFLENGTH
  BY <1>1, <1>2, <1>4 DEF BufferNotOverrun
<1> QED
  BY <1>1, <1>2, <1>3, <1>4, <1>5 DEF Used

\* Nothing waits, and nothing is queued.
LEMMA ScrapsCleared ==
    ASSUME NEW m \in 0 .. Len(Stream), received \in Nat, received' \in Nat,
           m <= received, received <= received',
           Within(Framed(jqueue), 0, m), jqueue' = jqueue, count' = 0, pc' = "recv"
    PROVE  Used(m)'
<1>1. Waiting' = 0
  BY DEF Waiting
<1>2. Held(data', 0) = <<>>
  BY DEF Held
<1>3. m \in Nat
  BY LimitFacts
<1>4. Within(<<>>, m, received')
  BY <1>3, WithinNothing
<1>5. m <= received'
  BY <1>3
<1> QED
  BY <1>1, <1>2, <1>4, <1>5 DEF Used

\* What waits is the same as before.
LEMMA ScrapsStick ==
    ASSUME NEW m \in 0 .. Len(Stream), Used(m), pc = "start", pc' = "recv",
           count' = count + recv_length, UNCHANGED <<received, data, jqueue>>
    PROVE  Used(m)'
<1>1. Waiting' = Waiting
  BY DEF Waiting
<1> QED
  BY <1>1 DEF Used

\* A frame is queued, and what is behind it begins the buffer.
LEMMA ScrapsQueued ==
    ASSUME StreamType, BufferNotOverrun, NEW m \in 0 .. Len(Stream), Used(m), Round,
           data[0] = PROTOCOL_HEAD, NEW n \in Nat, PushRecvBuffToQueue(n),
           NEW rest \in Nat, n + 5 + rest <= Waiting, received' = received,
           \/ data' = MoveToFront(n + 5, rest) /\ Waiting' = rest
           \/ rest = 0 /\ Waiting' = 0
    PROVE  \E c \in 0 .. Len(Stream) : Used(c)'
<1>1. /\ TypeOK /\ m \in Nat /\ m <= received /\ received \in 0 .. Len(Stream)
      /\ received \in Nat /\ Waiting \in Nat /\ Waiting <= BUFLENGTH
      /\ Within(Framed(jqueue), 0, m) /\ Within(Held(data, Waiting), m, received)
  BY ScrapsFacts
<1> DEFINE u == Held(data', rest)
           w == Waiting
<1>2. /\ u \in Seq(Byte) /\ Len(u) = rest /\ Waiting' = rest
      /\ \A k \in 1 .. Len(u) : u[k] = Held(data, w)[n + 5 + k]
  <2>1. CASE data' = MoveToFront(n + 5, rest) /\ Waiting' = rest
    <3>1. n + 5 \in Nat /\ (n + 5) + rest <= Waiting
      OBVIOUS
    <3>2. /\ Held(data', rest) \in Seq(Byte) /\ Len(Held(data', rest)) = rest
          /\ \A k \in 1 .. rest : Held(data', rest)[k] = Held(data, Waiting)[(n + 5) + k]
      BY <1>1, <2>1, <3>1, HeldMoved
    <3> QED
      BY <2>1, <3>2
  <2>2. CASE rest = 0 /\ Waiting' = 0
    <3>1. u = <<>>
      BY <2>2 DEF Held
    <3>2. u \in Seq(Byte) /\ Len(u) = 0
      BY <3>1, EmptySeq
    <3> HIDE DEF u
    <3> QED
      BY <2>2, <3>2
  <2> QED
    BY <2>1, <2>2
<1> HIDE DEF u, w
<1>3. /\ w \in Nat /\ w <= BUFLENGTH /\ n + 5 <= w /\ n + 5 + Len(u) <= w
      /\ Within(Held(data, w), m, received)
  BY <1>1, <1>2 DEF w
<1>4. PICK c \in m .. received : Within(Framed(jqueue'), 0, c) /\ Within(u, c, received)
  BY <1>1, <1>2, <1>3, PayloadTaken
<1>5. c \in 0 .. Len(Stream) /\ c <= received'
  BY <1>1, LimitFacts
<1>6. Within(Held(data', Waiting'), c, received')
  BY <1>2, <1>4 DEF u
<1>7. Used(c)'
  BY <1>4, <1>5, <1>6 DEF Used
<1> QED
  BY <1>5, <1>7

\* The bytes of a frame that lost some are dropped.
LEMMA ScrapsDropped ==
    ASSUME StreamType, BufferNotOverrun, NEW m \in 0 .. Len(Stream), Used(m), Round,
           NEW from \in Nat, NEW rest \in Nat, from + rest <= Waiting, UNCHANGED <<received, jqueue>>,
           data' = MoveToFront(from, rest), Waiting' = rest
    PROVE  \E c \in 0 .. Len(Stream) : Used(c)'
<1>1. /\ TypeOK /\ m \in Nat /\ m <= received /\ received \in 0 .. Len(Stream)
      /\ received \in Nat /\ Waiting \in Nat /\ Waiting <= BUFLENGTH
      /\ Within(Framed(jqueue), 0, m) /\ Within(Held(data, Waiting), m, received)
  BY ScrapsFacts
<1> DEFINE u == Held(data', rest)
           w == Waiting
<1>2. /\ u \in Seq(Byte) /\ Len(u) = rest
      /\ \A k \in 1 .. Len(u) : u[k] = Held(data, w)[from + k]
  BY <1>1, HeldMoved
<1> HIDE DEF u, w
<1>3. /\ w \in Nat /\ w <= BUFLENGTH /\ from + Len(u) <= w
      /\ Within(Held(data, w), m, received)
  BY <1>1, <1>2 DEF w
<1>4. PICK c \in m .. received : Within(Framed(jqueue), 0, c) /\ Within(u, c, received)
  BY <1>1, <1>2, <1>3, Dropped
<1>5. c \in 0 .. Len(Stream) /\ c <= received'
  BY <1>1, LimitFacts
<1>6. Within(Held(data', Waiting'), c, received')
  BY <1>4 DEF u
<1>7. Used(c)'
  BY <1>4, <1>5, <1>6 DEF Used
<1> QED
  BY <1>5, <1>7

LEMMA ScrapsRound ==
    ASSUME StreamType, BufferNotOverrun, NEW m \in 0 .. Len(Stream), Used(m), HeadKept, Round,
           ~HeadNegative
    PROVE  HeadKept' /\ \E c \in 0 .. Len(Stream) : Used(c)'
<1>1. /\ TypeOK /\ m \in Nat /\ m <= received /\ received \in 0 .. Len(Stream)
      /\ received \in Nat /\ count \in Nat /\ recv_length \in Nat /\ bytes_remained \in Nat
      /\ pro_length \in Nat /\ (HeadExact \/ HeadDismantle => ParsedLength \in Nat)
      /\ pc = "start" /\ Waiting = count + recv_length
      /\ bytes_remained > 0 => bytes_remained + count >= pro_length + 5
      /\ Within(Framed(jqueue), 0, m)
  BY ScrapsFacts
<1>2. CASE HeadExact
  <2>1. /\ data[0] = PROTOCOL_HEAD /\ ParsedLength = recv_length - 5
        /\ PushRecvBuffToQueue(ParsedLength) /\ received' = received
        /\ count' = 0 /\ bytes_remained' = 0 /\ pc' = "recv"
    BY <1>2 DEF HeadExact, AtHead, ClearAndReturn, HEAD_SIZE
  <2>6. ParsedLength \in Nat
    BY <1>1, <1>2
  <2>2. ParsedLength + 5 + 0 <= Waiting /\ 0 \in Nat
    BY <1>1, <2>1, <2>6
  <2>3. Waiting' = 0
    BY <2>1 DEF Waiting
  <2>4. HeadKept'
    BY <2>1 DEF HeadKept
  <2>5. \E c \in 0 .. Len(Stream) : Used(c)'
    BY <1>1, <2>1, <2>2, <2>3, <2>6, ScrapsQueued
  <2> QED
    BY <2>4, <2>5
<1>3. CASE HeadStick
  <2>1. /\ data[0] = PROTOCOL_HEAD /\ recv_length >= 5 /\ count' = count + recv_length
        /\ pc' = "recv" /\ UNCHANGED <<received, data, jqueue>>
    BY <1>3 DEF HeadStick, AtHead, HEAD_SIZE
  <2>2. HeadKept'
    BY <1>1, <2>1 DEF HeadKept
  <2> QED
    BY <1>1, <2>1, <2>2, ScrapsStick
<1>4. CASE HeadDismantle
  <2> DEFINE rest == recv_length - HEAD_SIZE - ParsedLength
  <2>1. /\ data[0] = PROTOCOL_HEAD /\ rest > 0 /\ PushRecvBuffToQueue(ParsedLength)
        /\ data' = MoveToFront(ParsedLength + HEAD_SIZE, rest) /\ recv_length' = rest
        /\ received' = received /\ count' = 0 /\ bytes_remained' = 0 /\ pc' = pc
    BY <1>4 DEF HeadDismantle, AtHead
  <2>6. ParsedLength \in Nat
    BY <1>1, <1>4
  <2>2. rest \in Nat /\ ParsedLength + 5 + rest <= Waiting /\ HEAD_SIZE = 5
    BY <1>1, <2>1, <2>6 DEF HEAD_SIZE
  <2> HIDE DEF rest
  <2>3. Waiting' = rest
    BY <1>1, <2>1, <2>2 DEF Waiting
  <2>4. HeadKept'
    BY <2>1 DEF HeadKept
  <2>5. \E c \in 0 .. Len(Stream) : Used(c)'
    BY <1>1, <2>1, <2>2, <2>3, <2>6, ScrapsQueued
  <2> QED
    BY <2>4, <2>5
<1>5. CASE BodyExact
  <2>1. /\ bytes_remained > 0 /\ bytes_remained = recv_length
        /\ PushRecvBuffToQueue(pro_length) /\ received' = received
        /\ count' = 0 /\ bytes_remained' = 0 /\ pc' = "recv"
    BY <1>5 DEF BodyExact, InBody, ClearAndReturn
  <2>2. pro_length + 5 + 0 <= Waiting /\ 0 \in Nat
    BY <1>1, <2>1
  <2>3. data[0] = PROTOCOL_HEAD
    BY <1>1, <2>1 DEF HeadKept
  <2>4. Waiting' = 0
    BY <2>1 DEF Waiting
  <2>5. HeadKept'
    BY <2>1 DEF HeadKept
  <2>6. \E c \in 0 .. Len(Stream) : Used(c)'
    BY <1>1, <2>1, <2>2, <2>3, <2>4, ScrapsQueued
  <2> QED
    BY <2>5, <2>6
<1>6. CASE BodyStick
  <2>1. /\ bytes_remained > 0 /\ count' = count + recv_length
        /\ pc' = "recv" /\ UNCHANGED <<received, data, jqueue>>
    BY <1>6 DEF BodyStick, InBody
  <2>2. HeadKept'
    BY <1>1, <2>1 DEF HeadKept
  <2> QED
    BY <1>1, <2>1, <2>2, ScrapsStick
<1>7. CASE BodyDismantle
  <2> DEFINE rest == count + recv_length - pro_length - HEAD_SIZE
  <2>1. /\ bytes_remained > 0 /\ bytes_remained < recv_length
        /\ PushRecvBuffToQueue(pro_length)
        /\ data' = MoveToFront(pro_length + HEAD_SIZE, rest) /\ recv_length' = rest
        /\ received' = received /\ count' = 0 /\ bytes_remained' = 0 /\ pc' = pc
    BY <1>7 DEF BodyDismantle, InBody
  <2>2. rest \in Nat /\ pro_length + 5 + rest <= Waiting /\ HEAD_SIZE = 5
    BY <1>1, <2>1 DEF HEAD_SIZE
  <2>3. data[0] = PROTOCOL_HEAD
    BY <1>1, <2>1 DEF HeadKept
  <2> HIDE DEF rest
  <2>4. Waiting' = rest
    BY <1>1, <2>1, <2>2 DEF Waiting
  <2>5. HeadKept'
    BY <2>1 DEF HeadKept
  <2>6. \E c \in 0 .. Len(Stream) : Used(c)'
    BY <1>1, <2>1, <2>2, <2>3, <2>4, ScrapsQueued
  <2> QED
    BY <2>5, <2>6
<1>8. CASE BodyLoss
  <2>1. /\ data' = MoveToFront(count, recv_length) /\ recv_length' = recv_length
        /\ UNCHANGED <<received, jqueue>> /\ count' = 0 /\ bytes_remained' = 0 /\ pc' = pc
    BY <1>8 DEF BodyLoss
  <2>2. Waiting' = recv_length /\ count + recv_length <= Waiting
    BY <1>1, <2>1 DEF Waiting
  <2>3. HeadKept'
    BY <2>1 DEF HeadKept
  <2>4. \E c \in 0 .. Len(Stream) : Used(c)'
    BY <1>1, <2>1, <2>2, ScrapsDropped
  <2> QED
    BY <2>3, <2>4
<1>9. CASE ShortChunk
  <2>1. /\ ~InBody /\ count' = count + recv_length /\ bytes_remained' = bytes_remained
        /\ pc' = "recv" /\ UNCHANGED <<received, data, jqueue>>
    BY <1>9 DEF ShortChunk, Elsewhere
  <2>2. ~(bytes_remained > 0)
    BY <1>1, <2>1 DEF InBody
  <2>3. HeadKept'
    BY <2>1, <2>2 DEF HeadKept
  <2> QED
    BY <1>1, <2>1, <2>3, ScrapsStick
<1>10. CASE ErrorClear
  <2>1. received <= received' /\ received' \in Nat
    <3>1. Next
      BY <1>10 DEF Next, Round
    <3> QED
      BY <3>1, ReceivedGrows
  <2>2. jqueue' = jqueue /\ count' = 0 /\ bytes_remained' = 0 /\ pc' = "recv"
    BY <1>10 DEF ErrorClear, ClearAndReturn
  <2>3. HeadKept'
    BY <2>2 DEF HeadKept
  <2> QED
    BY <1>1, <2>1, <2>2, <2>3, ScrapsCleared
<1> QED
  BY <1>2, <1>3, <1>4, <1>5, <1>6, <1>7, <1>8, <1>9, <1>10 DEF Round

\* A chunk is behind what waited.
LEMMA ScrapsRecv ==
    ASSUME StreamType, BufferNotOverrun', StreamType', NEW m \in 0 .. Len(Stream), Used(m), Recv
    PROVE  Used(m)'
<1>1. PICK end \in ChunkEnds[received] :
         LET chunk == SubSeq(Stream, received + 1, end)
         IN  /\ data' = [k \in Indices |-> IF k - count \in 0 .. Len(chunk) - 1
                                           THEN chunk[k - count + 1]
                                           ELSE data[k]]
             /\ recv_length' = Len(chunk)
             /\ received' = end
  BY DEF Recv
<1> DEFINE chunk == SubSeq(Stream, received + 1, end)
           len == end - received
           at == [k \in 1 .. len |-> received + k]
<1>2. /\ received \in Nat /\ count \in Nat /\ m \in Nat /\ end \in Nat /\ m <= received
      /\ len \in Nat /\ len >= 1 /\ end = received + len
      /\ Len(chunk) = len
      /\ \A k \in 1 .. len : chunk[k] = Stream[received + k] /\ chunk[k] \in Byte
  <2>1. received \in 0 .. Len(Stream) /\ count \in Nat
    BY DEF StreamType, TypeOK
  <2>2. /\ end \in 0 .. Len(Stream) /\ end > received
        /\ Len(chunk) = end - received
        /\ \A k \in 1 .. end - received : chunk[k] = Stream[received + k] /\ chunk[k] \in Byte
    BY <2>1, ChunkFacts
  <2> HIDE DEF chunk
  <2>3. received \in Nat /\ end \in Nat /\ len \in Nat /\ len >= 1 /\ end = received + len
    BY <2>1, <2>2, LimitFacts
  <2> QED
    BY <2>1, <2>2, <2>3, LimitFacts DEF Used
<1>3. chunk \in Seq(Byte)
  <2>1. \A k \in received + 1 .. end : Stream[k] \in Byte
    <3>1. end <= Len(Stream)
      BY DEF ChunkEnds, StreamType, TypeOK
    <3> QED
      BY <1>2, <3>1, LimitFacts
  <2> QED
    BY <1>2, <2>1, SubSeqProperties
<1>4. pc = "recv" /\ pc' = "start" /\ count' = count /\ jqueue' = jqueue
  BY DEF Recv
<1>5. /\ recv_length' = len /\ received' = end
      /\ data' = [k \in Indices |-> IF k - count \in 0 .. len - 1 THEN chunk[k - count + 1]
                                    ELSE data[k]]
  BY <1>1, <1>2
<1> HIDE DEF chunk, len
<1>6. Waiting = count /\ Waiting' = count + len /\ count + len <= BUFLENGTH /\ count + len \in Nat
  <2>1. Waiting = count /\ Waiting' = count + len
    BY <1>2, <1>4, <1>5 DEF Waiting
  <2>2. count + len <= BUFLENGTH
    BY <1>4, <1>5 DEF BufferNotOverrun
  <2> QED
    BY <1>2, <2>1, <2>2
<1>7. /\ data \in [Indices -> Byte] /\ data' \in [Indices -> Byte] /\ jqueue \in Seq(Seq(Byte))
  BY DEF StreamType, TypeOK
<1> DEFINE old == Held(data, count)
           new == Held(data', count + len)
<1>8. /\ old \in Seq(Byte) /\ Len(old) = count
      /\ \A k \in 1 .. count : old[k] = data[k - 1]
      /\ new \in Seq(Byte) /\ Len(new) = count + len
      /\ \A k \in 1 .. count + len : new[k] = data'[k - 1] /\ k - 1 \in Indices
  <2>1. \A d \in [Indices -> Byte] : \A n \in Nat :
           /\ Held(d, n) \in Seq(Byte) /\ Len(Held(d, n)) = n
           /\ n <= BUFLENGTH => \A k \in 1 .. n : Held(d, n)[k] = d[k - 1] /\ k - 1 \in Indices
    BY HeldFacts
  <2>2. count <= BUFLENGTH
    BY <1>2, <1>6, LimitFacts
  <2> QED
    BY <1>2, <1>6, <1>7, <2>1, <2>2
<1> HIDE DEF old, new, at
<1>9. new = old \o chunk
  <2>1. ASSUME NEW k \in 1 .. count PROVE new[k] = old[k]
    <3>1. k \in 1 .. count + len /\ ~((k - 1) - count \in 0 .. len - 1)
      BY <1>2
    <3>2. new[k] = data'[k - 1] /\ k - 1 \in Indices /\ old[k] = data[k - 1]
      BY <1>8, <3>1
    <3> QED
      BY <1>5, <3>1, <3>2
  <2>2. ASSUME NEW k \in 1 .. len PROVE new[count + k] = chunk[k]
    <3>1. /\ count + k \in 1 .. count + len /\ ((count + k) - 1) - count \in 0 .. len - 1
          /\ ((count + k) - 1) - count + 1 = k
      BY <1>2
    <3>2. new[count + k] = data'[(count + k) - 1] /\ (count + k) - 1 \in Indices
      BY <1>8, <3>1
    <3> QED
      BY <1>5, <3>1, <3>2
  <2>3. /\ Len(new) = Len(old) + Len(chunk)
        /\ \A k \in 1 .. Len(old) : new[k] = old[k]
        /\ \A k \in 1 .. Len(chunk) : new[Len(old) + k] = chunk[k]
    BY <1>2, <1>8, <2>1, <2>2
  <2> QED
    BY <1>3, <1>8, <2>3, ConcatByElements
<1>10. Within(chunk, received, end)
  <2>1. /\ at \in [1 .. Len(chunk) -> received + 1 .. end]
        /\ \A k \in 1 .. Len(chunk) : at[k] = received + k
    BY <1>2 DEF at
  <2>2. \A k \in 1 .. Len(chunk) : chunk[k] = Stream[at[k]]
    BY <1>2, <2>1
  <2>3. \A j, k \in 1 .. Len(chunk) : j < k => at[j] < at[k]
    BY <1>2, <2>1
  <2> QED
    BY <2>1, <2>2, <2>3 DEF Within
<1>11. Within(old, m, received)
  BY <1>4, <1>6 DEF Used, old
<1>12. Within(new, m, end)
  <2>1. received <= end
    BY <1>2
  <2>2. Within(old \o chunk, m, end)
    BY <1>2, <1>3, <1>8, <1>10, <1>11, <2>1, WithinJoin
  <2> QED
    BY <1>9, <2>2
<1>13. Within(Framed(jqueue), 0, m) /\ m <= end
  BY <1>2 DEF Used
<1> QED
  BY <1>4, <1>5, <1>6, <1>12, <1>13 DEF Used, new

LEMMA ScrapsStep ==
    ASSUME StreamType, StreamType', BufferNotOverrun, BufferNotOverrun', ScrapsInv,
           [Next]_vars \/ Stops
    PROVE  ScrapsInv'
<1>1. PICK m \in 0 .. Len(Stream) : Used(m)
  BY DEF ScrapsInv
<1>2. HeadKept
  BY DEF ScrapsInv
<1>3. CASE UNCHANGED vars
  <2>1. HeadKept'
    BY <1>2, <1>3 DEF vars, HeadKept
  <2>2. Used(m)'
    BY <1>1, <1>3 DEF vars, Used, Waiting
  <2> QED
    BY <2>1, <2>2 DEF ScrapsInv
<1>4. CASE Stops \/ RecvQuit \/ RecvClosed \/ HeadNegative
  <2>1. pc' = "ended" /\ jqueue' = jqueue
    BY <1>4 DEF Stops, RecvQuit, RecvClosed, HeadNegative
  <2>2. m <= received'
    <3>1. received <= received' /\ received \in Nat /\ received' \in Nat /\ m \in Nat /\ m <= received
      BY <1>1, ReceivedGrows, LimitFacts DEF Used
    <3> QED
      BY <3>1
  <2>3. Used(m)'
    BY <1>1, <2>1, <2>2 DEF Used
  <2>4. HeadKept'
    BY <2>1 DEF HeadKept
  <2> QED
    BY <2>3, <2>4 DEF ScrapsInv
<1>5. CASE Recv
  <2>1. Used(m)'
    BY <1>1, <1>5, ScrapsRecv
  <2>2. pc = "recv" /\ count' = count /\ bytes_remained' = bytes_remained /\ count \in Nat
    BY <1>5 DEF Recv, StreamType, TypeOK
  <2>3. ASSUME bytes_remained > 0 PROVE data'[0] = PROTOCOL_HEAD /\ count' > 0
    <3>1. count > 0 /\ data[0] = PROTOCOL_HEAD
      BY <1>2, <2>2, <2>3 DEF HeadKept
    <3>2. PICK len \in Int : \E chunk :
             data' = [k \in Indices |-> IF k - count \in 0 .. len - 1 THEN chunk[k - count + 1]
                                        ELSE data[k]]
      <4>1. PICK end \in ChunkEnds[received] :
               data' = [k \in Indices |->
                           IF k - count \in 0 .. Len(SubSeq(Stream, received + 1, end)) - 1
                           THEN SubSeq(Stream, received + 1, end)[k - count + 1]
                           ELSE data[k]]
        BY <1>5 DEF Recv
      <4>2. Len(SubSeq(Stream, received + 1, end)) \in Int
        <5>1. received \in 0 .. Len(Stream)
          BY DEF StreamType, TypeOK
        <5>2. Len(SubSeq(Stream, received + 1, end)) = end - received /\ end \in 0 .. Len(Stream)
          BY <5>1, ChunkFacts
        <5> QED
          BY <5>1, <5>2, LimitFacts
      <4> QED
        BY <4>1, <4>2
    <3>3. 0 \in Indices /\ ~(0 - count \in 0 .. len - 1)
      BY <2>2, <3>1, ByteFacts
    <3> QED
      BY <2>2, <3>1, <3>2, <3>3
  <2>4. HeadKept'
    BY <2>2, <2>3 DEF HeadKept
  <2> QED
    BY <2>1, <2>4 DEF ScrapsInv
<1>6. CASE Round /\ ~HeadNegative
  BY <1>1, <1>2, <1>6, ScrapsRound DEF ScrapsInv
<1> QED
  BY <1>3, <1>4, <1>5, <1>6 DEF Next

LEMMA ScrapsImply == StreamType /\ ScrapsInv => NothingInvented
<1> SUFFICES ASSUME StreamType, ScrapsInv PROVE NothingInvented
  OBVIOUS
<1>1. PICK m \in 0 .. Len(Stream) : m <= received /\ Within(Framed(jqueue), 0, m)
  BY DEF ScrapsInv, Used
<1>2. m \in Nat /\ received \in Nat /\ jqueue \in Seq(Seq(Byte))
  BY LimitFacts DEF StreamType, TypeOK
<1>3. Framed(jqueue) \in Seq(Byte)
  BY <1>2, FramedFacts
<1> QED
  BY <1>1, <1>2, <1>3, WithinMore DEF NothingInvented

\* Any stream, damaged in any way and cut anywhere: what StickDismantleProtocol
\* gets through to the queue is payloads of bytes the peer sent, each behind a
\* PROTOCOL_HEAD of its own, in their order, and no byte of them twice, as long as
\* temp_option.data is not overrun.
THEOREM NothingIsInvented ==
    PathSpec /\ []BufferNotOverrun => []NothingInvented
<1> DEFINE Inv == StreamType /\ ScrapsInv
<1>1. PathInit => Inv
  BY StreamTypeInit, ScrapsInit DEF PathInit
<1>2. Inv /\ BufferNotOverrun /\ BufferNotOverrun' /\ [PathNext]_pathVars => Inv'
  <2> SUFFICES ASSUME StreamType, ScrapsInv, BufferNotOverrun, BufferNotOverrun',
                      [PathNext]_pathVars
               PROVE  StreamType' /\ ScrapsInv'
    OBVIOUS
  <2>1. StreamType'
    BY StreamTypeKept
  <2>2. ScrapsInv'
    BY <2>1, PathSteps, ScrapsStep
  <2> QED
    BY <2>1, <2>2
<1>3. Inv => NothingInvented
  BY ScrapsImply
<1> QED
  BY <1>1, <1>2, <1>3, PTL DEF PathSpec

-----------------------------------------------------------------------------
\* Slots.
LEMMA Multiples ==
    ASSUME NEW w \in Nat, NEW a \in Nat, NEW b \in Nat, a < b
    PROVE  a * w \in Nat /\ b * w \in Nat /\ a * w + w <= b * w
<1>1. PICK c \in Nat : b = a + 1 + c
  <2>1. b - a - 1 \in Nat /\ b = a + 1 + (b - a - 1)
    OBVIOUS
  <2> QED
    BY <2>1
<1>2. a * w \in Nat /\ c * w \in Nat
  OBVIOUS
<1>3. b * w = a * w + w + c * w
  BY <1>1
<1> QED
  BY <1>2, <1>3

LEMMA SlotLimits ==
    /\ FdSize \in Nat /\ SlotSize \in Nat /\ FdSize < SlotSize /\ FdSize >= 1
    /\ Room \in Nat /\ Room = SlotSize - FdSize /\ Room >= 1
    /\ MaxPacket <= 2 * SlotSize - FdSize
    /\ Ring \in Nat /\ Ring >= 2 /\ Ring <= CLOSE_BRACE
    /\ Descriptor \in Seq(Digit) /\ Len(Descriptor) \in Nat
    /\ 1 <= Len(Descriptor) /\ Len(Descriptor) <= FdSize
    /\ Nowhere \in Nat
<1>1. /\ FdSize \in Nat /\ SlotSize \in Nat /\ FdSize < SlotSize
      /\ MaxPacket <= 2 * SlotSize - FdSize
      /\ Ring \in Nat /\ Ring >= 2 /\ Ring <= CLOSE_BRACE
      /\ Descriptor \in Seq(Digit) /\ Len(Descriptor) \in 1 .. FdSize
  BY SlotAssumption
<1>2. Room \in Nat /\ Room = SlotSize - FdSize /\ Room >= 1
  BY <1>1 DEF Room
<1>3. Nowhere \in Nat
  BY <1>1, Multiples DEF Nowhere
<1> QED
  BY <1>1, <1>2, <1>3

LEMMA SlotFacts ==
    ASSUME NEW s \in 0 .. Ring - 1
    PROVE  /\ s * SlotSize \in Nat
           /\ s * SlotSize + SlotSize <= Nowhere
           /\ \A k \in 0 .. SlotSize - 1 : s * SlotSize + k \in Cells
           /\ s * SlotSize # Nowhere
           /\ s * SlotSize \in {slot * SlotSize : slot \in 0 .. Ring}
<1>1. s \in Nat /\ s < Ring /\ SlotSize \in Nat /\ SlotSize >= 1 /\ Ring \in Nat
  BY SlotLimits
<1>2. s * SlotSize \in Nat /\ Ring * SlotSize \in Nat /\ s * SlotSize + SlotSize <= Ring * SlotSize
  BY <1>1, Multiples
<1> DEFINE a == s * SlotSize
           b == Ring * SlotSize
<1>3. a \in Nat /\ b \in Nat /\ a + SlotSize <= b
  BY <1>2
<1>4. s \in 0 .. Ring
  BY <1>1
<1>5. a \in {slot * SlotSize : slot \in 0 .. Ring}
  BY <1>4
<1> HIDE DEF a, b
<1>6. /\ a \in Nat /\ a + SlotSize <= b /\ a # b
      /\ \A k \in 0 .. SlotSize - 1 : a + k \in 0 .. b - 1
  BY <1>1, <1>3
<1> QED
  BY <1>5, <1>6 DEF a, b, Nowhere, Cells

LEMMA SlotsApart ==
    ASSUME NEW s \in Nat, NEW t \in Nat, s # t
    PROVE  \/ s * SlotSize + SlotSize <= t * SlotSize
           \/ t * SlotSize + SlotSize <= s * SlotSize
<1>1. CASE s < t
  BY <1>1, Multiples, SlotLimits
<1>2. CASE t < s
  BY <1>2, Multiples, SlotLimits
<1> QED
  BY <1>1, <1>2

\* The counter after a packet is a slot, or none; it is changed by a packet
\* that goes over the end of the ring, and to none by one that ends in a brace.
LEMMA CounterFacts ==
    ASSUME NEW packet \in Seq(Byte), fifo_counter \in 0 .. Ring - 1
    PROVE  /\ CounterAfter(packet) \in 0 .. Ring
           /\ fifo_counter * SlotSize + Len(packet) <= Nowhere => CounterAfter(packet) = fifo_counter
           /\ /\ fifo_counter * SlotSize + Len(packet) > Nowhere
              /\ packet[Len(packet)] = CLOSE_BRACE
              => CounterAfter(packet) = Ring
<1> DEFINE start == fifo_counter * SlotSize
           inside == Nowhere - start
           size == Len(packet)
           over == SubSeq(packet, inside + 1, size)
<1>1. /\ Ring \in Nat /\ Ring >= 2 /\ Ring <= CLOSE_BRACE /\ SlotSize \in Nat /\ SlotSize >= 1
      /\ fifo_counter \in Nat /\ fifo_counter < Ring /\ size \in Nat
  BY SlotLimits, LenProperties
<1>2. start \in Nat /\ start + SlotSize <= Nowhere /\ Nowhere \in Nat
  BY SlotFacts, SlotLimits
<1>3. CounterAfter(packet) = IF size <= inside THEN fifo_counter
                             ELSE IF over[1] < Ring /\ \A k \in 2 .. Len(over) : over[k] = 0
                             THEN over[1] ELSE Ring
  BY DEF CounterAfter
<1> HIDE DEF start
<1>4. inside \in Nat /\ (start + size <= Nowhere <=> size <= inside)
  BY <1>1, <1>2
<1> DEFINE from == inside + 1
           left == size - inside
<1>5. ASSUME ~(size <= inside)
      PROVE  /\ left \in Nat /\ left >= 1 /\ Len(over) = left
             /\ \A k \in 1 .. left : over[k] = packet[from + k - 1] /\ over[k] \in Byte
             /\ over[left] = packet[size]
  <2>1. /\ from \in Nat /\ from >= 1 /\ from <= size /\ size - from + 1 = left
        /\ left \in Nat /\ left >= 1 /\ from + left - 1 = size /\ left \in 1 .. left
        /\ \A k \in from .. size : k \in 1 .. size
        /\ \A k \in 1 .. left : from + k - 1 \in from .. size
    <3> HIDE DEF size, inside
    <3>1. size \in Nat /\ inside \in Nat /\ inside < size
      BY <1>1, <1>4, <1>5
    <3> QED
      BY <3>1
  <2>2. \A k \in 1 .. size : packet[k] \in Byte
    BY LenProperties
  <2>3. \A k \in from .. size : packet[k] \in Byte
    BY <2>1, <2>2
  <2> HIDE DEF from, left, size
  <2>4. /\ Len(SubSeq(packet, from, size)) = IF from <= size THEN size - from + 1 ELSE 0
        /\ \A k \in 1 .. size - from + 1 : SubSeq(packet, from, size)[k] = packet[from + k - 1]
    BY <2>1, <2>3, SubSeqProperties
  <2>5. over = SubSeq(packet, from, size)
    BY DEF from, size
  <2> HIDE DEF over
  <2>6. Len(over) = left /\ \A k \in 1 .. left : over[k] = packet[from + k - 1]
    BY <2>1, <2>4, <2>5
  <2>7. \A k \in 1 .. left : over[k] \in Byte
    BY <2>1, <2>3, <2>6
  <2>8. over[left] = packet[size]
    BY <2>1, <2>6
  <2> QED
    BY <2>1, <2>6, <2>7, <2>8
<1> HIDE DEF from, left, over, inside, size
<1>6. CounterAfter(packet) \in 0 .. Ring
  <2>1. CASE size <= inside
    BY <1>1, <1>3, <2>1
  <2>2. CASE ~(size <= inside)
    <3>1. 1 \in 1 .. left
      BY <1>5, <2>2
    <3>2. over[1] \in Nat
      BY <1>5, <2>2, <3>1, ByteFacts
    <3> QED
      BY <1>1, <1>3, <2>2, <3>2
  <2> QED
    BY <2>1, <2>2
<1>7. ASSUME ~(size <= inside), packet[size] = CLOSE_BRACE
      PROVE  CounterAfter(packet) = Ring
  <2>1. over[left] = CLOSE_BRACE /\ left \in Nat /\ left >= 1 /\ Len(over) = left
    BY <1>5, <1>7
  <2>2. CLOSE_BRACE # 0 /\ CLOSE_BRACE \in Nat
    BY DEF CLOSE_BRACE
  <2>3. left = 1 \/ left \in 2 .. Len(over)
    BY <2>1
  <2>4. ~(over[1] < Ring /\ \A k \in 2 .. Len(over) : over[k] = 0)
    BY <1>1, <2>1, <2>2, <2>3
  <2> QED
    BY <1>3, <1>7, <2>4
<1>8. /\ start + size <= Nowhere => CounterAfter(packet) = fifo_counter
      /\ start + size > Nowhere /\ packet[size] = CLOSE_BRACE => CounterAfter(packet) = Ring
  <2>1. start + size > Nowhere => ~(start + size <= Nowhere)
    BY <1>1, <1>2
  <2> QED
    BY <1>3, <1>4, <1>7, <2>1
<1> QED
  BY <1>6, <1>8 DEF start, size

\* Packets.
LEMMA PacketFacts ==
    ASSUME NEW p \in Seq(Byte)
    PROVE  /\ Packet(p) \in Seq(Byte) /\ Len(p) \in Nat /\ Len(Packet(p)) = FdSize + Len(p)
           /\ \A k \in 1 .. Len(Descriptor) : Packet(p)[k] = Descriptor[k]
           /\ \A k \in Len(Descriptor) + 1 .. FdSize : Packet(p)[k] = 0
           /\ \A k \in 1 .. Len(p) : Packet(p)[FdSize + k] = p[k]
<1> DEFINE n == FdSize - Len(Descriptor)
           z == [k \in 1 .. n |-> 0]
           d == Len(Descriptor)
<1>1. /\ d \in Nat /\ n \in Nat /\ FdSize = d + n /\ Len(p) \in Nat /\ FdSize \in Nat
  BY SlotLimits, LenProperties
<1>2. Descriptor \in Seq(Byte)
  <2>1. Digit \subseteq Byte
    BY DEF Digit, Byte
  <2> QED
    BY <2>1, SlotLimits, SeqMonotonic
<1>3. z \in Seq(Byte) /\ Len(z) = n /\ \A k \in 1 .. n : z[k] = 0
  <2>1. z \in [1 .. n -> Byte]
    BY ByteFacts
  <2> HIDE DEF n
  <2>2. \A k \in 1 .. n : z[k] = 0
    OBVIOUS
  <2> HIDE DEF z
  <2> QED
    BY <1>1, <2>1, <2>2, FunctionIsSeq
<1> HIDE DEF z
<1>4. /\ Descriptor \o z \in Seq(Byte) /\ Len(Descriptor \o z) = d + Len(z)
      /\ \A i \in 1 .. d + Len(z) : (Descriptor \o z)[i] = IF i <= d THEN Descriptor[i] ELSE z[i - d]
  BY <1>2, <1>3, ConcatProperties
<1> DEFINE h == Descriptor \o z
<1>5. h \in Seq(Byte) /\ Len(h) = FdSize
  BY <1>1, <1>3, <1>4
<1>6. /\ \A k \in 1 .. d : h[k] = Descriptor[k]
      /\ \A k \in d + 1 .. FdSize : h[k] = 0
  <2> HIDE DEF d, n
  <2>1. \A k \in 1 .. d : k \in 1 .. d + Len(z) /\ k <= d
    BY <1>1, <1>3
  <2>2. \A k \in d + 1 .. FdSize : k \in 1 .. d + Len(z) /\ ~(k <= d) /\ k - d \in 1 .. n
    BY <1>1, <1>3
  <2> QED
    BY <1>3, <1>4, <2>1, <2>2
<1>7. Packet(p) = h \o p
  BY DEF Packet, z
<1> HIDE DEF h
<1>8. /\ h \o p \in Seq(Byte) /\ Len(h \o p) = Len(h) + Len(p)
      /\ \A i \in 1 .. Len(h) + Len(p) : (h \o p)[i] = IF i <= Len(h) THEN h[i] ELSE p[i - Len(h)]
  BY <1>5, ConcatProperties
<1> HIDE DEF d
<1>9. /\ \A k \in 1 .. d : k \in 1 .. Len(h) + Len(p) /\ k <= Len(h)
      /\ \A k \in d + 1 .. FdSize : k \in 1 .. Len(h) + Len(p) /\ k <= Len(h)
      /\ \A k \in 1 .. Len(p) : /\ FdSize + k \in 1 .. Len(h) + Len(p) /\ ~(FdSize + k <= Len(h))
                                /\ (FdSize + k) - Len(h) = k
  BY <1>1, <1>5
<1>10. /\ \A k \in 1 .. d : Packet(p)[k] = Descriptor[k]
       /\ \A k \in d + 1 .. FdSize : Packet(p)[k] = 0
       /\ \A k \in 1 .. Len(p) : Packet(p)[FdSize + k] = p[k]
  BY <1>6, <1>7, <1>8, <1>9
<1> QED
  BY <1>1, <1>5, <1>7, <1>8, <1>10 DEF d

\* Reading.
LEMMA ReadDescriptorFacts ==
    ASSUME NEW bytes \in Seq(Byte)
    PROVE  /\ ReadDescriptor(bytes) \in Seq(Digit)
           /\ \A n \in 0 .. Len(bytes) :
                (\A k \in 1 .. n : bytes[k] \in Digit) /\ n < Len(bytes) /\ bytes[n + 1] \notin Digit
                   => ReadDescriptor(bytes) = SubSeq(bytes, 1, n)
           /\ (\A k \in 1 .. Len(bytes) : bytes[k] \in Digit) => ReadDescriptor(bytes) = SubSeq(bytes, 1, Len(bytes))
<1> DEFINE Good(n) == /\ \A k \in 1 .. n : IsDigit(bytes[k])
                      /\ n = Len(bytes) \/ ~IsDigit(bytes[n + 1])
           d == CHOOSE n \in 0 .. Len(bytes) : Good(n)
           T == {k \in 1 .. Len(bytes) : bytes[k] \in Digit}
<1>1. Len(bytes) \in Nat
  BY LenProperties
<1>2. \E n \in 0 .. Len(bytes) : Good(n)
  <2>1. PICK n \in 0 .. Len(bytes) : (\A k \in 1 .. n : k \in T) /\ (n = Len(bytes) \/ n + 1 \notin T)
    <3> HIDE DEF T
    <3> QED
      BY <1>1, Leading
  <2>2. n # Len(bytes) => n + 1 \in 1 .. Len(bytes)
    BY <1>1
  <2>3. Good(n)
    BY <2>1, <2>2 DEF IsDigit
  <2> QED
    BY <2>3
<1>3. d \in 0 .. Len(bytes) /\ Good(d)
  <2> HIDE DEF Good
  <2> QED
    BY <1>2
<1>4. ReadDescriptor(bytes) = SubSeq(bytes, 1, d)
  BY DEF ReadDescriptor
<1> HIDE DEF d
<1>5. \A k \in 1 .. d : bytes[k] \in Digit
  BY <1>3 DEF IsDigit
<1>6. d \in Int
  BY <1>1, <1>3
<1>7. SubSeq(bytes, 1, d) \in Seq(Digit)
  BY <1>5, <1>6, SubSeqProperties
<1>8. ASSUME NEW n \in 0 .. Len(bytes), \A k \in 1 .. n : bytes[k] \in Digit,
             n = Len(bytes) \/ bytes[n + 1] \notin Digit
      PROVE  d = n
  <2>1. d \in Nat /\ n \in Nat /\ d <= Len(bytes) /\ n <= Len(bytes)
    BY <1>1, <1>3
  <2>2. CASE d < n
    <3>1. d + 1 \in 1 .. n /\ d # Len(bytes)
      BY <1>1, <2>1, <2>2
    <3> QED
      BY <1>3, <1>8, <3>1 DEF IsDigit
  <2>3. CASE n < d
    <3>1. n + 1 \in 1 .. d /\ n # Len(bytes)
      BY <1>1, <2>1, <2>3
    <3> QED
      BY <1>5, <1>8, <3>1
  <2> QED
    BY <2>1, <2>2, <2>3
<1>9. Len(bytes) \in 0 .. Len(bytes)
  BY <1>1
<1> QED
  BY <1>4, <1>7, <1>8, <1>9

\* The descriptor is read as it was written, from the bytes of its own.
LEMMA DescriptorRead ==
    ASSUME NEW bytes \in Seq(Byte), Len(bytes) = FdSize,
           \A k \in 1 .. Len(Descriptor) : bytes[k] = Descriptor[k],
           \A k \in Len(Descriptor) + 1 .. FdSize : bytes[k] = 0
    PROVE  ReadDescriptor(bytes) = Descriptor
<1> DEFINE d == Len(Descriptor)
<1>1. d \in Nat /\ d <= FdSize /\ FdSize \in Nat /\ Descriptor \in Seq(Digit) /\ d \in 0 .. FdSize
  BY SlotLimits
<1>2. \A k \in 1 .. d : Descriptor[k] \in Digit
  BY <1>1, LenProperties
<1>3. \A k \in 1 .. d : bytes[k] \in Digit
  BY <1>2
<1>4. 0 \notin Digit
  BY DEF Digit
<1>5. ReadDescriptor(bytes) = SubSeq(bytes, 1, d)
  <2> HIDE DEF d
  <2>1. CASE d < FdSize
    <3>1. d + 1 \in d + 1 .. FdSize
      BY <1>1, <2>1
    <3>2. bytes[d + 1] = 0
      BY <3>1 DEF d
    <3> QED
      BY <1>1, <1>3, <1>4, <2>1, <3>2, ReadDescriptorFacts
  <2>2. CASE d = FdSize
    BY <1>3, <2>2, ReadDescriptorFacts
  <2> QED
    BY <1>1, <2>1, <2>2
<1>6. /\ SubSeq(bytes, 1, d) \in Seq(Digit) /\ Len(SubSeq(bytes, 1, d)) = d
      /\ \A k \in 1 .. d : SubSeq(bytes, 1, d)[k] = bytes[k]
  <2> HIDE DEF d
  <2>1. 1 \in Int /\ d \in Int /\ \A k \in 1 .. d : bytes[k] \in Digit
    BY <1>1, <1>3
  <2>2. /\ SubSeq(bytes, 1, d) \in Seq(Digit)
        /\ Len(SubSeq(bytes, 1, d)) = IF 1 <= d THEN d - 1 + 1 ELSE 0
        /\ \A k \in 1 .. d - 1 + 1 : SubSeq(bytes, 1, d)[k] = bytes[1 + k - 1]
    BY <2>1, SubSeqProperties
  <2>3. d - 1 + 1 = d /\ (IF 1 <= d THEN d - 1 + 1 ELSE 0) = d /\ \A k \in 1 .. d : 1 + k - 1 = k
    BY <1>1
  <2> QED
    BY <2>2, <2>3
<1>7. SubSeq(bytes, 1, d) = Descriptor
  <2>1. \A k \in 1 .. d : SubSeq(bytes, 1, d)[k] = Descriptor[k]
    BY <1>6
  <2> DEFINE s == SubSeq(bytes, 1, d)
  <2>2. s \in Seq(Digit) /\ Len(s) = Len(Descriptor) /\ \A k \in 1 .. Len(s) : s[k] = Descriptor[k]
    BY <1>6, <2>1
  <2> HIDE DEF s
  <2>3. s = Descriptor
    BY <1>1, <2>2, SeqEqual
  <2> QED
    BY <2>3 DEF s
<1> QED
  BY <1>5, <1>7

LEMMA ObjectFacts ==
    /\ \A o \in Objects : o \in Seq(Byte) /\ Len(o) \in Nat /\ Len(o) >= 1
    /\ \A o \in Objects : o[Len(o)] = CLOSE_BRACE
    /\ \A o1, o2 \in Objects : IsPrefix(o1, o2) => o1 = o2
<1>1. Byte \ {0} \subseteq Byte
  OBVIOUS
<1>2. /\ \A o \in Objects : o \in Seq(Byte \ {0}) /\ o # <<>>
      /\ \A o \in Objects : o[Len(o)] = CLOSE_BRACE
      /\ \A o1, o2 \in Objects : IsPrefix(o1, o2) => o1 = o2
  BY ObjectsAssumption DEF Last
<1>3. ASSUME NEW o \in Objects PROVE o \in Seq(Byte) /\ Len(o) \in Nat /\ Len(o) >= 1
  <2>1. o \in Seq(Byte)
    BY <1>1, <1>2, SeqMonotonic
  <2>2. Len(o) \in Nat \ {0}
    BY <1>2, <2>1, EmptySeq
  <2> QED
    BY <2>1, <2>2
<1> QED
  BY <1>2, <1>3

\* The reader finds the object the text begins with, and none in a text that
\* is the beginning of an object.
LEMMA ObjectRead ==
    ASSUME NEW text \in Seq(Byte), NEW object \in Objects,
           \A k \in 1 .. Len(text) : k <= Len(object) => text[k] = object[k]
    PROVE  ReadObject(text) = IF Len(object) <= Len(text) THEN {object} ELSE {}
<1>1. Len(text) \in Nat /\ Len(object) \in Nat /\ object \in Seq(Byte)
  BY LenProperties, ObjectFacts
<1>2. Len(object) <= Len(text) => IsPrefix(object, text)
  <2> SUFFICES ASSUME Len(object) <= Len(text) PROVE IsPrefix(object, text)
    OBVIOUS
  <2>1. \A k \in 1 .. Len(object) : k \in 1 .. Len(text) /\ k <= Len(object)
    BY <1>1
  <2> QED
    BY <1>1, <2>1, PrefixByElements
<1>3. ASSUME NEW o \in Objects, IsPrefix(o, text)
      PROVE  o = object /\ Len(object) <= Len(text)
  <2>1. o \in Seq(Byte) /\ Len(o) \in Nat
    BY ObjectFacts
  <2>2. Len(o) <= Len(text) /\ \A k \in 1 .. Len(o) : o[k] = text[k]
    BY <1>3, <2>1, PrefixByElements
  <2>3. CASE Len(o) <= Len(object)
    <3>1. \A k \in 1 .. Len(o) : k \in 1 .. Len(text) /\ k <= Len(object)
      BY <1>1, <2>1, <2>2, <2>3
    <3>2. \A k \in 1 .. Len(o) : o[k] = object[k]
      BY <2>2, <3>1
    <3>3. IsPrefix(o, object)
      BY <1>1, <2>1, <2>3, <3>2, PrefixByElements
    <3> QED
      BY <2>2, <3>3, ObjectFacts
  <2>4. CASE Len(object) <= Len(o)
    <3>1. \A k \in 1 .. Len(object) : k \in 1 .. Len(text) /\ k <= Len(object) /\ k \in 1 .. Len(o)
      BY <1>1, <2>1, <2>2, <2>4
    <3>2. \A k \in 1 .. Len(object) : object[k] = o[k]
      BY <2>2, <3>1
    <3>3. IsPrefix(object, o)
      BY <1>1, <2>1, <2>4, <3>2, PrefixByElements
    <3> QED
      BY <1>1, <2>1, <2>2, <3>3, ObjectFacts
  <2> QED
    BY <1>1, <2>1, <2>3, <2>4
<1> QED
  BY <1>2, <1>3 DEF ReadObject

\* The bytes of a slot from some place on.
LEMMA BytesFacts ==
    ASSUME fifobuff \in [Cells -> Byte], NEW s \in 0 .. Ring - 1,
           NEW from \in Nat, NEW n \in Nat, from + n <= SlotSize
    PROVE  LET bytes == BytesAt(s * SlotSize + from, n)
           IN  /\ bytes \in Seq(Byte) /\ Len(bytes) = n
               /\ \A k \in 1 .. n : bytes[k] = fifobuff[s * SlotSize + (from + k - 1)]
<1> DEFINE a == s * SlotSize
           bytes == BytesAt(a + from, n)
<1>1. a \in Nat /\ \A k \in 0 .. SlotSize - 1 : a + k \in Cells
  BY SlotFacts
<1>2. bytes = [k \in 1 .. n |-> fifobuff[a + from + k - 1]]
  BY DEF BytesAt
<1> HIDE DEF a
<1>3. \A k \in 1 .. n : /\ from + k - 1 \in 0 .. SlotSize - 1
                        /\ a + from + k - 1 = a + (from + k - 1)
  BY <1>1, SlotLimits
<1>4. \A k \in 1 .. n : a + from + k - 1 \in Cells
  BY <1>1, <1>3
<1>5. bytes \in [1 .. n -> Byte]
  BY <1>2, <1>4
<1>6. \A k \in 1 .. n : bytes[k] = fifobuff[a + (from + k - 1)]
  BY <1>2, <1>3
<1> HIDE DEF bytes
<1>7. bytes \in Seq(Byte) /\ Len(bytes) = n
  BY <1>5, FunctionIsSeq
<1> QED
  BY <1>6, <1>7 DEF bytes, a

\* The receive thread hands over nothing, or a payload that may be queued.
LEMMA HandedOver ==
    ASSUME TypeOK, Next
    PROVE  \/ jqueue' = jqueue
           \/ \E p \in Seq(Byte) : Len(p) <= MaxPacket /\ jqueue' = Append(jqueue, p)
<1>1. ASSUME NEW n \in Nat, PushRecvBuffToQueue(n)
      PROVE  \/ jqueue' = jqueue
             \/ \E p \in Seq(Byte) : Len(p) <= MaxPacket /\ jqueue' = Append(jqueue, p)
  <2>1. CASE n > MaxPacket
    BY <1>1, <2>1, PushFacts
  <2>2. CASE ~(n > MaxPacket)
    <3>1. n <= MaxPacket
      BY <2>2, LimitFacts
    <3> DEFINE p == [k \in 1 .. n |-> At(LENGTH_SIZE + k)]
    <3>2. p \in Seq(Byte) /\ Len(p) = n /\ jqueue' = Append(jqueue, p)
      BY <1>1, <3>1, PushFacts
    <3> HIDE DEF p
    <3> QED
      BY <3>1, <3>2
  <2> QED
    BY <2>1, <2>2
<1>2. CASE jqueue' = jqueue
  BY <1>2
<1>3. (HeadExact \/ HeadDismantle => ParsedLength \in Nat) /\ pro_length \in Nat
  BY HeadLength, ByteFacts DEF TypeOK
<1>4. CASE HeadExact \/ HeadDismantle
  BY <1>1, <1>3, <1>4 DEF HeadExact, HeadDismantle
<1>5. CASE BodyExact \/ BodyDismantle
  BY <1>1, <1>3, <1>5 DEF BodyExact, BodyDismantle
<1> QED
  BY <1>2, <1>4, <1>5 DEF Next, Round, Recv, RecvQuit, RecvClosed, HeadStick, BodyStick, BodyLoss,
     ShortChunk, ErrorClear, HeadNegative

\* What a push changes.
LEMMA ReceiveFacts ==
    ASSUME PathTypeOK, Receive, jqueue' # jqueue
    PROVE  \E p \in Seq(Byte) :
             /\ Len(p) <= MaxPacket /\ jqueue' = Append(jqueue, p)
             /\ PushToQueue(Packet(p)) /\ requests' = requests
<1>1. Next /\ TypeOK /\ jqueue \in Seq(Seq(Byte))
  BY DEF Receive, PathTypeOK, TypeOK
<1>2. PICK p \in Seq(Byte) : Len(p) <= MaxPacket /\ jqueue' = Append(jqueue, p)
  BY <1>1, HandedOver
<1>3. /\ Len(jqueue') = Len(jqueue) + 1 /\ jqueue'[Len(jqueue) + 1] = p
  BY <1>1, <1>2, AppendProperties
<1>4. Last(jqueue') = p
  BY <1>3 DEF Last
<1> QED
  BY <1>2, <1>4 DEF Receive

\* The packet that is read is in a slot, or nowhere.
LEMMA HeadFacts ==
    ASSUME PathTypeOK, m_list # <<>>
    PROVE  /\ Tail(m_list) \in Seq({slot * SlotSize : slot \in 0 .. Ring})
           /\ Len(m_list) \in Nat /\ Len(m_list) >= 1 /\ Len(Tail(m_list)) = Len(m_list) - 1
           /\ \A i \in 1 .. Len(Tail(m_list)) : Tail(m_list)[i] = m_list[i + 1]
           /\ Head(m_list) = m_list[1]
           /\ Head(m_list) # Nowhere => \E s \in 0 .. Ring - 1 : Head(m_list) = s * SlotSize
<1>1. m_list \in Seq({slot * SlotSize : slot \in 0 .. Ring})
  BY DEF PathTypeOK
<1>2. /\ Head(m_list) \in {slot * SlotSize : slot \in 0 .. Ring}
      /\ Tail(m_list) \in Seq({slot * SlotSize : slot \in 0 .. Ring})
      /\ Len(Tail(m_list)) = Len(m_list) - 1
      /\ \A i \in 1 .. Len(Tail(m_list)) : Tail(m_list)[i] = m_list[i + 1]
  BY <1>1, HeadTailProperties
<1>3. Len(m_list) \in Nat \ {0}
  BY <1>1, EmptySeq
<1>4. ASSUME Head(m_list) # Nowhere PROVE \E s \in 0 .. Ring - 1 : Head(m_list) = s * SlotSize
  <2>1. PICK s \in 0 .. Ring : Head(m_list) = s * SlotSize
    BY <1>2
  <2>2. s # Ring
    BY <1>4, <2>1 DEF Nowhere
  <2>3. s \in 0 .. Ring - 1
    BY <2>2, SlotLimits
  <2> QED
    BY <2>1, <2>3
<1>5. Head(m_list) = m_list[1]
  OBVIOUS
<1> QED
  BY <1>2, <1>3, <1>4, <1>5

LEMMA PathTypeInit == PathInit => PathTypeOK
<1> SUFFICES ASSUME PathInit PROVE PathTypeOK
  OBVIOUS
<1>1. TypeOK
  BY StreamTypeInit DEF PathInit, StreamType
<1>2. fifobuff \in [Cells -> Byte]
  BY ByteFacts DEF PathInit
<1>3. 0 \in 0 .. Ring - 1
  BY SlotLimits
<1> QED
  BY <1>1, <1>2, <1>3, EmptySeq DEF PathInit, PathTypeOK

LEMMA PathTypeKept ==
    ASSUME StreamType, PathTypeOK, [PathNext]_pathVars
    PROVE  PathTypeOK'
<1> DEFINE Places == {slot * SlotSize : slot \in 0 .. Ring}
<1>1. TypeOK'
  BY StreamTypeKept DEF StreamType
<1>2. CASE UNCHANGED slotVars
  BY <1>1, <1>2 DEF slotVars, PathTypeOK
<1>6. Receive => crashed' \in BOOLEAN
  BY DEF Receive, SaysNegative
<1>7. CASE Receive /\ jqueue' = jqueue
  <2>1. UNCHANGED <<fifobuff, m_list, fifo_counter, requests, crowded>>
    BY <1>7 DEF Receive
  <2> QED
    BY <1>1, <1>6, <1>7, <2>1 DEF PathTypeOK
<1>3. CASE Receive /\ jqueue' # jqueue
  <2>1. PICK p \in Seq(Byte) : /\ Len(p) <= MaxPacket /\ jqueue' = Append(jqueue, p)
                               /\ PushToQueue(Packet(p)) /\ requests' = requests
    BY <1>3, ReceiveFacts
  <2> DEFINE packet == Packet(p)
             start == fifo_counter * SlotSize
             after == CounterAfter(packet)
  <2>2. packet \in Seq(Byte) /\ \A k \in 1 .. Len(packet) : packet[k] \in Byte
    <3>1. packet \in Seq(Byte)
      BY PacketFacts
    <3> HIDE DEF packet
    <3> QED
      BY <3>1, LenProperties
  <2>3. start \in Nat /\ after \in 0 .. Ring /\ after * SlotSize \in Places
    <3>1. fifo_counter \in 0 .. Ring - 1
      BY DEF PathTypeOK
    <3> HIDE DEF packet
    <3>2. after \in 0 .. Ring
      BY <2>2, <3>1, CounterFacts
    <3> HIDE DEF after
    <3> QED
      BY <3>1, <3>2, SlotFacts
  <2>4. fifobuff' \in [Cells -> Byte]
    <3>1. fifobuff' = [k \in Cells |-> IF k - start \in 0 .. Len(packet) - 1
                                       THEN packet[k - start + 1] ELSE fifobuff[k]]
      BY <2>1 DEF PushToQueue, Copy
    <3> HIDE DEF packet, start
    <3>2. \A k \in Cells : k \in Int
      BY SlotLimits DEF Cells, Nowhere
    <3>3. \A k \in Cells : k - start \in 0 .. Len(packet) - 1 => k - start + 1 \in 1 .. Len(packet)
      BY <2>2, <2>3, <3>2, LenProperties
    <3>4. \A k \in Cells : fifobuff[k] \in Byte
      BY DEF PathTypeOK
    <3> QED
      BY <2>2, <3>1, <3>3, <3>4
  <2>5. m_list' \in Seq(Places)
    <3>1. m_list' = Append(m_list, after * SlotSize)
      BY <2>1 DEF PushToQueue
    <3>2. m_list \in Seq(Places)
      BY DEF PathTypeOK
    <3> HIDE DEF packet, after, Places
    <3> QED
      BY <2>3, <3>1, <3>2, AppendProperties
  <2>6. fifo_counter' \in 0 .. Ring - 1
    <3>1. fifo_counter' = IF after + 1 >= Ring THEN 0 ELSE after + 1
      BY <2>1 DEF PushToQueue
    <3> HIDE DEF packet, after
    <3> QED
      BY <2>3, <3>1, SlotLimits
  <2>7. crowded' \in BOOLEAN
    BY <2>1 DEF PushToQueue
  <2> QED
    BY <1>1, <1>3, <1>6, <2>1, <2>4, <2>5, <2>6, <2>7 DEF PathTypeOK
<1>4. CASE Parse
  <2>1. PICK s \in 0 .. Ring - 1 : Head(m_list) = s * SlotSize
    BY <1>4, HeadFacts DEF Parse
  <2> DEFINE start == Head(m_list)
             read == ReadObject(BytesAt(start + FdSize, Room))
             fd == ReadDescriptor(BytesAt(start, FdSize))
             request == [fd |-> fd, payload |-> CHOOSE object \in read : TRUE]
  <2>2. requests' = IF read = {} THEN requests ELSE Append(requests, request)
    BY <1>4 DEF Parse
  <2>3. fd \in Seq(Digit)
    <3>1. fifobuff \in [Cells -> Byte] /\ FdSize \in Nat /\ 0 \in Nat /\ 0 + FdSize <= SlotSize
      BY SlotLimits DEF PathTypeOK
    <3>2. BytesAt(s * SlotSize + 0, FdSize) \in Seq(Byte)
      BY <3>1, BytesFacts
    <3>3. s * SlotSize + 0 = s * SlotSize
      BY SlotFacts
    <3> QED
      BY <2>1, <3>2, <3>3, ReadDescriptorFacts
  <2>4. read # {} => (CHOOSE object \in read : TRUE) \in Objects
    BY DEF ReadObject
  <2>5. read # {} => request \in [fd : Seq(Digit), payload : Objects]
    <3> HIDE DEF read, fd
    <3> QED
      BY <2>3, <2>4
  <2>6. requests' \in Seq([fd : Seq(Digit), payload : Objects])
    <3>1. requests \in Seq([fd : Seq(Digit), payload : Objects])
      BY DEF PathTypeOK
    <3> HIDE DEF request, read
    <3> QED
      BY <2>2, <2>5, <3>1, AppendProperties
  <2>7. m_list' \in Seq(Places)
    BY <1>4, HeadFacts DEF Parse
  <2>8. UNCHANGED <<fifobuff, fifo_counter, crashed, crowded>>
    BY <1>4 DEF Parse
  <2> QED
    BY <1>1, <2>6, <2>7, <2>8 DEF PathTypeOK
<1>5. CASE ParseNowhere
  <2>1. m_list' \in Seq(Places)
    BY <1>5, HeadFacts DEF ParseNowhere
  <2>2. UNCHANGED <<fifobuff, fifo_counter, requests, crowded>> /\ crashed' \in BOOLEAN
    BY <1>5 DEF ParseNowhere
  <2> QED
    BY <1>1, <2>1, <2>2 DEF PathTypeOK
<1> QED
  BY <1>2, <1>3, <1>4, <1>5, <1>7 DEF PathNext, pathVars

\* The ring, the list of packets that wait in it and the requests found have
\* their types, whatever the peer sends: no packet is taken from the middle of
\* a slot, and the counter stays in the ring.
THEOREM PathTypeCorrect == PathSpec => []PathTypeOK
<1>1. PathInit => StreamType /\ PathTypeOK
  BY StreamTypeInit, PathTypeInit DEF PathInit
<1>2. StreamType /\ PathTypeOK /\ [PathNext]_pathVars => (StreamType /\ PathTypeOK)'
  BY StreamTypeKept, PathTypeKept
<1> QED
  BY <1>1, <1>2, PTL DEF PathSpec

\* What should be found in one packet more.
FoundOne(p) == IF Len(p) <= Room THEN <<[fd |-> Descriptor, payload |-> p]>> ELSE <<>>
Request == [fd : Seq(Digit), payload : Seq(Byte)]

LEMMA FoundFacts ==
    ASSUME NEW q \in Seq(Seq(Byte))
    PROVE  LET found == [i \in DOMAIN q |-> FoundOne(q[i])]
           IN  /\ found \in Seq(Seq(Request)) /\ Len(found) = Len(q)
               /\ \A i \in 1 .. Len(q) : found[i] = FoundOne(q[i])
               /\ Found(q) = FlattenSeq(found)
               /\ Found(q) \in Seq(Request)
<1> DEFINE found == [i \in DOMAIN q |-> FoundOne(q[i])]
<1>1. Len(q) \in Nat /\ DOMAIN q = 1 .. Len(q) /\ \A i \in 1 .. Len(q) : q[i] \in Seq(Byte)
  BY LenProperties
<1>2. \A p \in Seq(Byte) : FoundOne(p) \in Seq(Request)
  <2> SUFFICES ASSUME NEW p \in Seq(Byte) PROVE FoundOne(p) \in Seq(Request)
    OBVIOUS
  <2>1. [fd |-> Descriptor, payload |-> p] \in Request
    BY SlotLimits DEF Request
  <2>2. <<[fd |-> Descriptor, payload |-> p]>> \in Seq(Request) /\ <<>> \in Seq(Request)
    BY <2>1
  <2> QED
    BY <2>2 DEF FoundOne
<1>3. found \in [1 .. Len(q) -> Seq(Request)]
  BY <1>1, <1>2
<1>4. \A i \in 1 .. Len(q) : found[i] = FoundOne(q[i])
  BY <1>1
<1>5. Found(q) = FlattenSeq(found)
  BY DEF Found, FoundOne
<1> HIDE DEF found
<1>6. found \in Seq(Seq(Request)) /\ Len(found) = Len(q)
  BY <1>1, <1>3, FunctionIsSeq
<1>7. Found(q) \in Seq(Request)
  BY <1>5, <1>6, FlattenType
<1> QED
  BY <1>4, <1>5, <1>6, <1>7 DEF found

LEMMA FoundAppend ==
    ASSUME NEW q \in Seq(Seq(Byte)), NEW p \in Seq(Byte)
    PROVE  Found(Append(q, p)) =
             IF Len(p) <= Room THEN Append(Found(q), [fd |-> Descriptor, payload |-> p])
             ELSE Found(q)
<1> DEFINE r == Append(q, p)
           a == [i \in DOMAIN q |-> FoundOne(q[i])]
           b == [i \in DOMAIN r |-> FoundOne(r[i])]
           request == [fd |-> Descriptor, payload |-> p]
<1>1. /\ r \in Seq(Seq(Byte)) /\ Len(r) = Len(q) + 1 /\ Len(q) \in Nat
      /\ \A i \in 1 .. Len(q) : r[i] = q[i]
      /\ r[Len(q) + 1] = p
  BY AppendProperties, LenProperties
<1>2. /\ a \in Seq(Seq(Request)) /\ Len(a) = Len(q) /\ Found(q) = FlattenSeq(a)
      /\ \A i \in 1 .. Len(q) : a[i] = FoundOne(q[i])
      /\ Found(q) \in Seq(Request)
  BY FoundFacts
<1> HIDE DEF r
<1>3. /\ b \in Seq(Seq(Request)) /\ Len(b) = Len(r) /\ Found(r) = FlattenSeq(b)
      /\ \A i \in 1 .. Len(r) : b[i] = FoundOne(r[i])
  BY <1>1, FoundFacts
<1> HIDE DEF a, b
<1>4. FoundOne(p) \in Seq(Request)
  <2>1. Len(q) + 1 \in 1 .. Len(r)
    BY <1>1
  <2>2. b[Len(q) + 1] = FoundOne(p)
    BY <1>1, <1>3, <2>1
  <2>3. Len(q) + 1 \in 1 .. Len(b)
    BY <1>3, <2>1
  <2> QED
    BY <1>3, <2>2, <2>3, ElementOfSeq
<1>5. b = Append(a, FoundOne(p))
  <2> DEFINE c == Append(a, FoundOne(p))
  <2>1. /\ c \in Seq(Seq(Request)) /\ Len(c) = Len(a) + 1
        /\ \A i \in 1 .. Len(a) : c[i] = a[i]
        /\ c[Len(a) + 1] = FoundOne(p)
    BY <1>2, <1>4, AppendProperties
  <2> HIDE DEF c
  <2>2. ASSUME NEW i \in 1 .. Len(b) PROVE b[i] = c[i]
    <3>1. i \in 1 .. Len(r) /\ (i \in 1 .. Len(q) \/ i = Len(q) + 1)
      BY <1>1, <1>3
    <3>2. CASE i \in 1 .. Len(q)
      BY <1>1, <1>2, <1>3, <2>1, <3>1, <3>2
    <3>3. CASE i = Len(q) + 1
      BY <1>1, <1>2, <1>3, <2>1, <3>1, <3>3
    <3> QED
      BY <3>1, <3>2, <3>3
  <2>3. Len(b) = Len(c)
    BY <1>1, <1>2, <1>3, <2>1
  <2>4. b = c
    BY <1>3, <2>1, <2>2, <2>3, SeqEqual
  <2> QED
    BY <2>4 DEF c
<1>6. Found(r) = Found(q) \o FoundOne(p)
  BY <1>2, <1>3, <1>4, <1>5, FlattenAppend
<1>7. CASE Len(p) <= Room
  <2>1. FoundOne(p) = <<request>>
    BY <1>7 DEF FoundOne
  <2>2. request \in Request
    BY SlotLimits DEF Request
  <2> HIDE DEF request
  <2>3. Append(Found(q), request) = Found(q) \o <<request>>
    BY <1>2, <2>2, AppendIsConcat
  <2> QED
    BY <1>6, <1>7, <2>1, <2>3 DEF r, request
<1>8. CASE ~(Len(p) <= Room)
  <2>1. FoundOne(p) = <<>>
    BY <1>8 DEF FoundOne
  <2>2. Found(q) \o <<>> = Found(q)
    BY <1>2, ConcatEmptySeq
  <2> QED
    BY <1>6, <1>8, <2>1, <2>2 DEF r
<1> QED
  BY <1>7, <1>8

LEMMA FirstOnes ==
    ASSUME NEW S, NEW q \in Seq(S), NEW n \in Nat, n < Len(q)
    PROVE  /\ q[n + 1] \in S /\ SubSeq(q, 1, n) \in Seq(S)
           /\ SubSeq(q, 1, n + 1) = Append(SubSeq(q, 1, n), q[n + 1])
<1>1. Len(q) \in Nat /\ \A i \in 1 .. Len(q) : q[i] \in S
  BY LenProperties
<1>2. n + 1 \in 1 .. Len(q) /\ \A i \in 1 .. n + 1 : i \in 1 .. Len(q)
  BY <1>1
<1> DEFINE m == n + 1
           a == SubSeq(q, 1, n)
           b == SubSeq(q, 1, m)
<1>3. 1 \in Int /\ n \in Int /\ m \in Int /\ (\A i \in 1 .. n : q[i] \in S) /\ \A i \in 1 .. m : q[i] \in S
  BY <1>1, <1>2
<1> HIDE DEF m
<1>4. /\ a \in Seq(S) /\ Len(a) = (IF 1 <= n THEN n - 1 + 1 ELSE 0)
      /\ \A i \in 1 .. n - 1 + 1 : a[i] = q[1 + i - 1]
  BY <1>3, SubSeqProperties
<1>5. /\ b \in Seq(S) /\ Len(b) = (IF 1 <= m THEN m - 1 + 1 ELSE 0)
      /\ \A i \in 1 .. m - 1 + 1 : b[i] = q[1 + i - 1]
  BY <1>3, SubSeqProperties
<1>6. /\ Len(a) = n /\ Len(b) = m
      /\ \A i \in 1 .. n : a[i] = q[i]
      /\ \A i \in 1 .. m : b[i] = q[i]
  <2>1. /\ n - 1 + 1 = n /\ m - 1 + 1 = m /\ \A i \in Int : 1 + i - 1 = i
        /\ (IF 1 <= n THEN n - 1 + 1 ELSE 0) = n /\ (IF 1 <= m THEN m - 1 + 1 ELSE 0) = m
    BY <1>3 DEF m
  <2> QED
    BY <1>4, <1>5, <2>1
<1> DEFINE c == Append(a, q[m])
<1>7. q[m] \in S
  BY <1>1, <1>2 DEF m
<1> HIDE DEF a, b
<1>8. /\ c \in Seq(S) /\ Len(c) = Len(a) + 1
      /\ \A i \in 1 .. Len(a) : c[i] = a[i]
      /\ c[Len(a) + 1] = q[m]
  BY <1>4, <1>7, AppendProperties
<1> HIDE DEF c
<1>9. Len(c) = Len(b) /\ \A i \in 1 .. Len(b) : b[i] = c[i]
  <2>1. m = n + 1
    BY DEF m
  <2>2. \A i \in 1 .. m : i \in 1 .. n \/ i = m
    BY <2>1
  <2> QED
    BY <1>6, <1>8, <2>1, <2>2
<1>10. b = c
  BY <1>5, <1>8, <1>9, SeqEqual
<1> QED
  BY <1>4, <1>7, <1>10 DEF a, b, c, m

LEMMA FirstOfAppend ==
    ASSUME NEW S, NEW q \in Seq(S), NEW e \in S, NEW n \in 0 .. Len(q)
    PROVE  SubSeq(Append(q, e), 1, n) = SubSeq(q, 1, n)
<1>1. Len(q) \in Nat
  BY LenProperties
<1>2. CASE n = 0
  BY <1>2, SubSeqEmpty
<1>3. CASE n # 0
  <2>1. 1 \in 1 .. Len(q) /\ n \in 1 .. Len(q) /\ <<e>> \in Seq(S)
    BY <1>1, <1>3
  <2>2. Append(q, e) = q \o <<e>>
    BY AppendIsConcat
  <2>3. SubSeq(q \o <<e>>, 1, n) = SubSeq(q, 1, n)
    BY <2>1, SubSeqOfConcat1
  <2> QED
    BY <2>2, <2>3
<1> QED
  BY <1>2, <1>3

\* The slot of the packet pushed as the d-th last, and that it is still there
\* as it was pushed, as far as the slot goes.
SlotOf(d) == IF d <= fifo_counter THEN fifo_counter - d ELSE fifo_counter - d + Ring
Kept(d) ==
    LET packet == Packet(jqueue[Len(jqueue) - d + 1])
        place == m_list[Len(m_list) - d + 1]
        start == SlotOf(d) * SlotSize
    IN  IF start + Len(packet) > Nowhere THEN place = Nowhere
        ELSE /\ place = start
             /\ \A k \in 1 .. SlotSize :
                   k <= Len(packet) => fifobuff[start + (k - 1)] = packet[k]

\* Whole objects have been queued: this is what NothingWithheld and
\* OnlyWholeFrames say, where the frames hold objects.
ObjectsQueued == \A i \in 1 .. Len(jqueue) : jqueue[i] \in Objects

\* How many packets have been taken.
Taken == Len(jqueue) - Len(m_list)

KeptInv ==
    /\ Len(m_list) <= Len(jqueue)
    /\ ObjectsQueued /\ ~crowded =>
         /\ Len(m_list) < Ring
         /\ \A d \in 1 .. Len(m_list) : Kept(d)
         /\ requests = Found(SubSeq(jqueue, 1, Taken))

LEMMA CountFacts ==
    ASSUME PathTypeOK
    PROVE  /\ jqueue \in Seq(Seq(Byte)) /\ Len(jqueue) \in Nat
           /\ m_list \in Seq({slot * SlotSize : slot \in 0 .. Ring}) /\ Len(m_list) \in Nat
           /\ fifo_counter \in 0 .. Ring - 1 /\ fifo_counter \in Nat /\ fifo_counter < Ring
<1>1. jqueue \in Seq(Seq(Byte)) /\ m_list \in Seq({slot * SlotSize : slot \in 0 .. Ring})
  BY DEF PathTypeOK, TypeOK
<1>2. Len(jqueue) \in Nat /\ Len(m_list) \in Nat
  BY <1>1, LenProperties
<1>3. fifo_counter \in 0 .. Ring - 1
  BY DEF PathTypeOK
<1> QED
  BY <1>1, <1>2, <1>3, SlotLimits

LEMMA SlotOfFacts ==
    ASSUME PathTypeOK, NEW d \in Nat, d >= 1, d < Ring
    PROVE  /\ SlotOf(d) \in 0 .. Ring - 1
           /\ SlotOf(d) # fifo_counter
           /\ d < Ring - 1 => SlotOf(d) # fifo_counter + 1
BY CountFacts, SlotLimits, SMTT(30) DEF SlotOf

\* A step that leaves queue and slots alone.
LEMMA KeptFrame ==
    ASSUME KeptInv, UNCHANGED <<jqueue, fifobuff, m_list, fifo_counter, requests, crowded>>
    PROVE  KeptInv'
BY DEF KeptInv, Kept, SlotOf, ObjectsQueued, Taken

\* The bytes that push writes, and where.
LEMMA WrittenFacts ==
    ASSUME PathTypeOK, NEW p \in Seq(Byte), Len(p) <= MaxPacket, PushToQueue(Packet(p))
    PROVE  LET start == fifo_counter * SlotSize
           IN  /\ \A k \in 1 .. SlotSize :
                     k <= Len(Packet(p)) => fifobuff'[start + (k - 1)] = Packet(p)[k]
               /\ \A s \in 0 .. Ring - 1 : s # fifo_counter /\ s # fifo_counter + 1 =>
                     \A k \in 1 .. SlotSize :
                        fifobuff'[s * SlotSize + (k - 1)] = fifobuff[s * SlotSize + (k - 1)]
<1> DEFINE start == fifo_counter * SlotSize
           packet == Packet(p)
           size == Len(packet)
<1>1. /\ packet \in Seq(Byte) /\ size \in Nat /\ size <= 2 * SlotSize
  <2>1. Len(packet) = FdSize + Len(p) /\ Len(p) \in Nat /\ packet \in Seq(Byte)
    BY PacketFacts
  <2> HIDE DEF packet
  <2> QED
    BY <2>1, SlotLimits, LimitFacts
<1>2. /\ start \in Nat /\ fifo_counter \in Nat /\ fifo_counter \in 0 .. Ring - 1
      /\ \A k \in 0 .. SlotSize - 1 : start + k \in Cells
  BY CountFacts, SlotFacts
<1>3. fifobuff' = [k \in Cells |-> IF k - start \in 0 .. size - 1
                                   THEN packet[k - start + 1] ELSE fifobuff[k]]
  BY DEF PushToQueue, Copy
<1> HIDE DEF packet, size
<1>4. ASSUME NEW k \in 1 .. SlotSize, k <= size
      PROVE  fifobuff'[start + (k - 1)] = packet[k]
  <2>1. k - 1 \in 0 .. SlotSize - 1 /\ k - 1 \in 0 .. size - 1
    BY <1>1, <1>4, SlotLimits
  <2>2. start + (k - 1) \in Cells
    BY <1>2, <2>1
  <2> HIDE DEF start
  <2>3. (start + (k - 1)) - start = k - 1 /\ (start + (k - 1)) - start + 1 = k
    BY <1>2, <2>1
  <2> QED
    BY <1>3, <2>1, <2>2, <2>3
<1>5. ASSUME NEW s \in 0 .. Ring - 1, s # fifo_counter, s # fifo_counter + 1, NEW k \in 1 .. SlotSize
      PROVE  fifobuff'[s * SlotSize + (k - 1)] = fifobuff[s * SlotSize + (k - 1)]
  <2> DEFINE a == s * SlotSize
             next == (fifo_counter + 1) * SlotSize
             x == a + (k - 1)
  <2>1. s \in Nat /\ k - 1 \in 0 .. SlotSize - 1 /\ SlotSize \in Nat /\ k \in Nat
        /\ k >= 1 /\ k <= SlotSize /\ fifo_counter + 1 \in Nat
    BY <1>2, SlotLimits
  <2>2. a \in Nat /\ a + (k - 1) \in Cells
    BY <2>1, SlotFacts
  <2>3. a + SlotSize <= start \/ a >= start + 2 * SlotSize
    <3>1. CASE s < fifo_counter
      BY <1>2, <2>1, <3>1, Multiples
    <3>2. CASE fifo_counter + 1 < s
      <4>1. next + SlotSize <= a /\ next \in Nat
        BY <2>1, <3>2, Multiples
      <4>2. start + SlotSize <= next
        <5>1. fifo_counter < fifo_counter + 1
          BY <1>2
        <5> QED
          BY <1>2, <2>1, <5>1, Multiples
      <4> HIDE DEF a, next, start
      <4> QED
        BY <1>2, <2>1, <2>2, <4>1, <4>2
    <3> QED
      BY <1>2, <1>5, <2>1, <3>1, <3>2
  <2> HIDE DEF a, start
  <2>4. ~(x - start \in 0 .. size - 1)
    BY <1>1, <1>2, <2>1, <2>2, <2>3
  <2>5. fifobuff'[x] = fifobuff[x]
    <3> HIDE DEF x
    <3>1. x \in Cells
      BY <2>2 DEF x
    <3> QED
      BY <1>3, <2>4, <3>1
  <2> QED
    BY <2>5 DEF x, a
<1> QED
  BY <1>4, <1>5 DEF packet, size

\* What waited before a push is one place further from the last packet.
LEMMA ShiftFacts ==
    ASSUME PathTypeOK,
           fifo_counter' = IF fifo_counter + 1 = Ring THEN 0 ELSE fifo_counter + 1
    PROVE  /\ SlotOf(1)' = fifo_counter
           /\ \A d \in 1 .. Ring - 2 : SlotOf(d + 1)' = SlotOf(d)
<1>1. fifo_counter \in 0 .. Ring - 1 /\ Ring \in Nat /\ Ring >= 2
  BY CountFacts, SlotLimits
<1>2. fifo_counter' = IF fifo_counter + 1 = Ring THEN 0 ELSE fifo_counter + 1
  OBVIOUS
<1>3. SlotOf(1)' = fifo_counter
  BY <1>1, <1>2 DEF SlotOf
<1>4. ASSUME NEW d \in 1 .. Ring - 2 PROVE SlotOf(d + 1)' = SlotOf(d)
  BY <1>1, <1>2 DEF SlotOf
<1> QED
  BY <1>3, <1>4

\* Where the packet of an object is linked, and the slot that is next.
LEMMA PushedAt ==
    ASSUME PathTypeOK, NEW p \in Seq(Byte), Len(p) <= MaxPacket, p \in Objects
    PROVE  LET after == CounterAfter(Packet(p))
               start == fifo_counter * SlotSize
           IN  /\ after * SlotSize = IF start + Len(Packet(p)) > Nowhere THEN Nowhere ELSE start
               /\ (IF after + 1 >= Ring THEN 0 ELSE after + 1)
                     = IF fifo_counter + 1 = Ring THEN 0 ELSE fifo_counter + 1
<1> DEFINE packet == Packet(p)
           after == CounterAfter(packet)
           start == fifo_counter * SlotSize
           size == Len(packet)
<1>1. /\ packet \in Seq(Byte) /\ size \in Nat /\ size <= 2 * SlotSize
      /\ packet[size] = CLOSE_BRACE
  <2>1. /\ Len(packet) = FdSize + Len(p) /\ Len(p) \in Nat /\ packet \in Seq(Byte)
        /\ \A k \in 1 .. Len(p) : packet[FdSize + k] = p[k]
    BY PacketFacts
  <2>2. Len(p) >= 1 /\ p[Len(p)] = CLOSE_BRACE
    BY ObjectFacts
  <2>3. Len(p) \in 1 .. Len(p)
    BY <2>1, <2>2
  <2> HIDE DEF packet
  <2>4. size \in Nat /\ size <= 2 * SlotSize
    BY <2>1, SlotLimits, LimitFacts
  <2>5. packet[size] = CLOSE_BRACE
    BY <2>1, <2>2, <2>3
  <2> QED
    BY <2>1, <2>4, <2>5
<1>2. /\ fifo_counter \in 0 .. Ring - 1 /\ fifo_counter \in Nat /\ fifo_counter < Ring
      /\ Ring \in Nat /\ SlotSize \in Nat /\ Nowhere \in Nat /\ start \in Nat
  BY CountFacts, SlotLimits, SlotFacts
<1> HIDE DEF packet
<1>3. /\ start + size <= Nowhere => after = fifo_counter
      /\ start + size > Nowhere => after = Ring
  BY <1>1, <1>2, CounterFacts
<1>4. start + size > Nowhere => fifo_counter + 1 = Ring
  <2> SUFFICES ASSUME fifo_counter + 1 # Ring PROVE start + size <= Nowhere
    BY <1>1, <1>2
  <2> DEFINE next == (fifo_counter + 1) * SlotSize
  <2>1. /\ fifo_counter + 1 \in Nat /\ fifo_counter + 1 < Ring /\ fifo_counter < fifo_counter + 1
    BY <1>2
  <2>2. next \in Nat /\ next + SlotSize <= Nowhere
    BY <1>2, <2>1, Multiples DEF Nowhere
  <2>3. start + SlotSize <= next
    BY <1>2, <2>1, Multiples
  <2> HIDE DEF next, start, size
  <2> QED
    BY <1>1, <1>2, <2>2, <2>3
<1>5. CASE start + size > Nowhere
  <2>1. after = Ring /\ fifo_counter + 1 = Ring /\ after * SlotSize = Nowhere
    BY <1>3, <1>4, <1>5 DEF Nowhere
  <2> HIDE DEF after, start, size
  <2>2. after + 1 >= Ring
    BY <1>2, <2>1
  <2> QED
    BY <1>5, <2>1, <2>2 DEF after, start, size, packet
<1>6. CASE start + size <= Nowhere
  <2>1. after = fifo_counter /\ ~(start + size > Nowhere)
    BY <1>1, <1>2, <1>3, <1>6
  <2>2. after * SlotSize = start
    BY <2>1
  <2> HIDE DEF after, start, size
  <2>3. after + 1 >= Ring <=> fifo_counter + 1 = Ring
    BY <1>2, <2>1
  <2> QED
    BY <2>1, <2>2, <2>3 DEF after, start, size, packet
<1>7. start + size > Nowhere \/ start + size <= Nowhere
  BY <1>1, <1>2
<1> QED
  BY <1>5, <1>6, <1>7

LEMMA PushKept ==
    ASSUME PathTypeOK, PathTypeOK', KeptInv, Receive, jqueue' # jqueue
    PROVE  KeptInv'
<1>1. PICK p \in Seq(Byte) : /\ Len(p) <= MaxPacket /\ jqueue' = Append(jqueue, p)
                             /\ PushToQueue(Packet(p)) /\ requests' = requests
  BY ReceiveFacts
<1> DEFINE start == fifo_counter * SlotSize
           packet == Packet(p)
           after == CounterAfter(packet)
           place == after * SlotSize
           n == Len(jqueue)
           m == Len(m_list)
<1>2. /\ n \in Nat /\ m \in Nat /\ Len(jqueue') = n + 1 /\ jqueue'[n + 1] = p
      /\ \A i \in 1 .. n : jqueue'[i] = jqueue[i]
  BY <1>1, CountFacts, AppendProperties
<1>3. /\ fifo_counter' = IF after + 1 >= Ring THEN 0 ELSE after + 1
      /\ m_list' = Append(m_list, place)
      /\ crowded' = (crowded \/ Len(m_list') >= Ring)
  BY <1>1 DEF PushToQueue
<1>4. /\ Len(m_list') = m + 1 /\ m_list'[m + 1] = place
      /\ \A i \in 1 .. m : m_list'[i] = m_list[i]
  <2>1. place \in {slot * SlotSize : slot \in 0 .. Ring}
    <3>1. packet \in Seq(Byte) /\ fifo_counter \in 0 .. Ring - 1
      BY PacketFacts, CountFacts
    <3> HIDE DEF packet
    <3>2. after \in 0 .. Ring
      BY <3>1, CounterFacts
    <3> HIDE DEF after
    <3> QED
      BY <3>2
  <2> HIDE DEF place
  <2> QED
    BY <1>3, <2>1, CountFacts, AppendProperties
<1> HIDE DEF place, after
<1>5. m <= n
  BY DEF KeptInv
<1>6. Len(m_list') <= Len(jqueue')
  BY <1>2, <1>4, <1>5
<1>7. ASSUME ObjectsQueued', ~crowded'
      PROVE  /\ Len(m_list') < Ring
             /\ \A d \in 1 .. Len(m_list') : Kept(d)'
             /\ requests' = Found(SubSeq(jqueue', 1, Taken'))
  <2>1. Len(m_list') < Ring /\ ~crowded
    <3>1. ~crowded /\ ~(Len(m_list') >= Ring)
      BY <1>3, <1>7, Zenon
    <3> QED
      BY <1>2, <1>4, <3>1, SlotLimits
  <2>2. ObjectsQueued
    <3>1. \A i \in 1 .. n : i \in 1 .. Len(jqueue')
      BY <1>2
    <3> QED
      BY <1>2, <1>7, <3>1 DEF ObjectsQueued
  <2>3. /\ m < Ring /\ (\A d \in 1 .. m : Kept(d))
        /\ requests = Found(SubSeq(jqueue, 1, Taken))
    BY <2>1, <2>2 DEF KeptInv
  <2>4. requests' = Found(SubSeq(jqueue', 1, Taken'))
    <3>1. Taken' = Taken /\ Taken \in 0 .. n
      BY <1>2, <1>4, <1>5 DEF Taken
    <3>2. SubSeq(jqueue', 1, Taken) = SubSeq(jqueue, 1, Taken)
      BY <1>1, <3>1, CountFacts, FirstOfAppend
    <3> QED
      BY <1>1, <2>3, <3>1, <3>2
  <2>5. /\ \A k \in 1 .. SlotSize :
              k <= Len(packet) => fifobuff'[start + (k - 1)] = packet[k]
        /\ \A s \in 0 .. Ring - 1 : s # fifo_counter /\ s # fifo_counter + 1 =>
              \A k \in 1 .. SlotSize :
                 fifobuff'[s * SlotSize + (k - 1)] = fifobuff[s * SlotSize + (k - 1)]
    BY <1>1, WrittenFacts
  <2>9. /\ place = IF start + Len(packet) > Nowhere THEN Nowhere ELSE start
        /\ fifo_counter' = IF fifo_counter + 1 = Ring THEN 0 ELSE fifo_counter + 1
    <3>1. p \in Objects
      <4>1. n + 1 \in 1 .. Len(jqueue')
        BY <1>2
      <4> QED
        BY <1>2, <1>7, <4>1 DEF ObjectsQueued
    <3> QED
      BY <1>1, <1>3, <3>1, PushedAt DEF place, after
  <2>6. Kept(1)'
    <3>1. SlotOf(1)' = fifo_counter
      BY <2>9, ShiftFacts
    <3>2. /\ Len(jqueue') - 1 + 1 = n + 1 /\ Len(m_list') - 1 + 1 = m + 1
      BY <1>2, <1>4
    <3>3. jqueue'[Len(jqueue') - 1 + 1] = p /\ m_list'[Len(m_list') - 1 + 1] = place
      BY <1>2, <1>4, <3>2
    <3> HIDE DEF packet
    <3>4. IF start + Len(packet) > Nowhere THEN place = Nowhere
          ELSE /\ place = start
               /\ \A k \in 1 .. SlotSize :
                     k <= Len(packet) => fifobuff'[start + (k - 1)] = packet[k]
      BY <2>5, <2>9
    <3> QED
      BY <3>1, <3>3, <3>4 DEF Kept, packet
  <2>7. ASSUME NEW d \in 1 .. m PROVE Kept(d + 1)'
    <3>1. d \in Nat /\ d >= 1 /\ d < Ring - 1 /\ d < Ring
      BY <1>2, <1>4, <2>1, SlotLimits
    <3>2. SlotOf(d + 1)' = SlotOf(d)
      <4>1. d \in 1 .. Ring - 2
        BY <3>1, SlotLimits
      <4> QED
        BY <2>9, <4>1, ShiftFacts
    <3>3. /\ SlotOf(d) \in 0 .. Ring - 1 /\ SlotOf(d) # fifo_counter
          /\ SlotOf(d) # fifo_counter + 1
      BY <3>1, SlotOfFacts
    <3>4. /\ Len(jqueue') - (d + 1) + 1 = n - d + 1 /\ n - d + 1 \in 1 .. n
          /\ Len(m_list') - (d + 1) + 1 = m - d + 1 /\ m - d + 1 \in 1 .. m
      BY <1>2, <1>4, <1>5, <3>1
    <3>5. /\ jqueue'[Len(jqueue') - (d + 1) + 1] = jqueue[n - d + 1]
          /\ m_list'[Len(m_list') - (d + 1) + 1] = m_list[m - d + 1]
      BY <1>2, <1>4, <3>4
    <3>6. \A k \in 1 .. SlotSize :
             fifobuff'[SlotOf(d) * SlotSize + (k - 1)] = fifobuff[SlotOf(d) * SlotSize + (k - 1)]
      BY <2>5, <3>3
    <3>7. Kept(d)
      BY <2>3
    <3> QED
      BY <3>2, <3>5, <3>6, <3>7 DEF Kept
  <2>8. ASSUME NEW d \in 1 .. Len(m_list') PROVE Kept(d)'
    <3>1. CASE d = 1
      BY <2>6, <3>1
    <3>2. CASE d # 1
      <4> DEFINE e == d - 1
      <4>1. e \in 1 .. m /\ d = e + 1
        BY <1>2, <1>4, <3>2
      <4> HIDE DEF e
      <4> QED
        BY <2>7, <4>1
    <3> QED
      BY <3>1, <3>2
  <2> QED
    BY <2>1, <2>4, <2>8
<1> QED
  BY <1>6, <1>7 DEF KeptInv

\* The packets that wait behind the one taken.
LEMMA TakeKept ==
    ASSUME PathTypeOK, KeptInv, m_list # <<>>, m_list' = Tail(m_list),
           UNCHANGED <<jqueue, fifobuff, fifo_counter, crowded>>,
           ObjectsQueued /\ ~crowded =>
              LET p == jqueue[Taken + 1]
              IN  requests' = IF Len(p) <= Room
                              THEN Append(requests, [fd |-> Descriptor, payload |-> p])
                              ELSE requests
    PROVE  KeptInv'
<1> DEFINE n == Len(jqueue)
           m == Len(m_list)
<1>1. /\ n \in Nat /\ m \in Nat /\ m >= 1 /\ m <= n /\ Len(m_list') = m - 1
      /\ \A i \in 1 .. m - 1 : m_list'[i] = m_list[i + 1]
  BY CountFacts, HeadFacts DEF KeptInv
<1>2. /\ Taken' = Taken + 1 /\ Taken \in Nat /\ Taken < n
  BY <1>1 DEF Taken
<1>3. ASSUME ObjectsQueued, ~crowded
      PROVE  /\ m - 1 < Ring
             /\ \A d \in 1 .. m - 1 : Kept(d)'
             /\ requests' = Found(SubSeq(jqueue, 1, Taken + 1))
  <2>1. /\ m < Ring /\ (\A d \in 1 .. m : Kept(d))
        /\ requests = Found(SubSeq(jqueue, 1, Taken))
    BY <1>3 DEF KeptInv
  <2>2. m - 1 < Ring
    BY <1>1, <2>1, SlotLimits
  <2>3. ASSUME NEW d \in 1 .. m - 1 PROVE Kept(d)'
    <3>1. /\ d \in 1 .. m /\ Len(m_list') - d + 1 = m - d /\ m - d \in 1 .. m - 1
          /\ (m - d) + 1 = m - d + 1
      BY <1>1
    <3>2. m_list'[Len(m_list') - d + 1] = m_list[m - d + 1]
      BY <1>1, <3>1
    <3>3. Kept(d) /\ SlotOf(d)' = SlotOf(d)
      BY <2>1, <3>1 DEF SlotOf
    <3> QED
      BY <3>2, <3>3 DEF Kept
  <2>4. requests' = Found(SubSeq(jqueue, 1, Taken + 1))
    <3>1. /\ jqueue[Taken + 1] \in Seq(Byte) /\ SubSeq(jqueue, 1, Taken) \in Seq(Seq(Byte))
          /\ SubSeq(jqueue, 1, Taken + 1) = Append(SubSeq(jqueue, 1, Taken), jqueue[Taken + 1])
      BY <1>2, CountFacts, FirstOnes
    <3>2. Found(Append(SubSeq(jqueue, 1, Taken), jqueue[Taken + 1])) =
            IF Len(jqueue[Taken + 1]) <= Room
            THEN Append(Found(SubSeq(jqueue, 1, Taken)),
                        [fd |-> Descriptor, payload |-> jqueue[Taken + 1]])
            ELSE Found(SubSeq(jqueue, 1, Taken))
      BY <3>1, FoundAppend
    <3> QED
      BY <1>3, <2>1, <3>1, <3>2
  <2> QED
    BY <2>2, <2>3, <2>4
<1>4. Len(m_list') <= Len(jqueue')
  BY <1>1
<1>5. ObjectsQueued' <=> ObjectsQueued
  BY DEF ObjectsQueued
<1> QED
  BY <1>1, <1>2, <1>3, <1>4, <1>5 DEF KeptInv

\* What is read from the first packet that waits.
LEMMA FirstKept ==
    ASSUME PathTypeOK, KeptInv, m_list # <<>>, ObjectsQueued, ~crowded
    PROVE  LET p == jqueue[Taken + 1]
           IN  /\ p \in Objects /\ p \in Seq(Byte) /\ Len(p) \in Nat
               /\ Head(m_list) = Nowhere => Len(p) > Room
               /\ Head(m_list) # Nowhere =>
                    \E s \in 0 .. Ring - 1 :
                       /\ Head(m_list) = s * SlotSize
                       /\ \A k \in 1 .. SlotSize :
                             k <= Len(Packet(p)) => fifobuff[s * SlotSize + (k - 1)] = Packet(p)[k]
<1> DEFINE n == Len(jqueue)
           m == Len(m_list)
           p == jqueue[Taken + 1]
           packet == Packet(p)
           s == SlotOf(m)
           start == s * SlotSize
<1>1. n \in Nat /\ m \in Nat /\ m >= 1 /\ m <= n /\ Head(m_list) = m_list[1]
  BY CountFacts, HeadFacts DEF KeptInv
<1>2. /\ n - m + 1 = Taken + 1 /\ Taken + 1 \in 1 .. n /\ m - m + 1 = 1 /\ m \in 1 .. m
  BY <1>1 DEF Taken
<1>3. p \in Objects /\ p \in Seq(Byte) /\ Len(p) \in Nat
  BY <1>2, ObjectFacts DEF ObjectsQueued
<1>4. m < Ring /\ Kept(m)
  BY <1>2 DEF KeptInv
<1>5. s \in 0 .. Ring - 1
  BY <1>1, <1>4, SlotOfFacts
<1>6. IF start + Len(packet) > Nowhere THEN Head(m_list) = Nowhere
      ELSE /\ Head(m_list) = start
           /\ \A k \in 1 .. SlotSize : k <= Len(packet) => fifobuff[start + (k - 1)] = packet[k]
  BY <1>1, <1>2, <1>4 DEF Kept
<1>7. Len(packet) = FdSize + Len(p)
  BY <1>3, PacketFacts
<1>8. start \in Nat /\ start + SlotSize <= Nowhere /\ start # Nowhere
  BY <1>5, SlotFacts
<1>9. ASSUME Head(m_list) = Nowhere PROVE Len(p) > Room
  <2>1. start + Len(packet) > Nowhere
    BY <1>6, <1>8, <1>9
  <2> HIDE DEF start, packet, p
  <2> QED
    BY <1>3, <1>7, <1>8, <2>1, SlotLimits
<1> HIDE DEF s, p, packet
<1>10. ASSUME Head(m_list) # Nowhere
       PROVE  /\ Head(m_list) = s * SlotSize
              /\ \A k \in 1 .. SlotSize : k <= Len(packet) => fifobuff[s * SlotSize + (k - 1)] = packet[k]
  BY <1>6, <1>10
<1> QED
  BY <1>3, <1>5, <1>9, <1>10 DEF p, packet

LEMMA ParseKept ==
    ASSUME PathTypeOK, KeptInv, Parse
    PROVE  KeptInv'
<1> DEFINE p == jqueue[Taken + 1]
<1>1. /\ m_list # <<>> /\ Head(m_list) # Nowhere /\ m_list' = Tail(m_list)
      /\ UNCHANGED <<jqueue, fifobuff, fifo_counter, crowded>>
  BY DEF Parse, vars
<1>2. ASSUME ObjectsQueued, ~crowded
      PROVE  requests' = IF Len(p) <= Room
                         THEN Append(requests, [fd |-> Descriptor, payload |-> p])
                         ELSE requests
  <2>1. p \in Objects /\ p \in Seq(Byte) /\ Len(p) \in Nat
    BY <1>1, <1>2, FirstKept
  <2>2. PICK s \in 0 .. Ring - 1 :
           /\ Head(m_list) = s * SlotSize
           /\ \A k \in 1 .. SlotSize :
                 k <= Len(Packet(p)) => fifobuff[s * SlotSize + (k - 1)] = Packet(p)[k]
    BY <1>1, <1>2, FirstKept
  <2> DEFINE text == BytesAt(s * SlotSize + FdSize, Room)
             bytes == BytesAt(s * SlotSize + 0, FdSize)
             packet == Packet(p)
             read == ReadObject(text)
  <2> HIDE DEF p
  <2>3. /\ Len(packet) = FdSize + Len(p)
        /\ \A k \in 1 .. Len(Descriptor) : packet[k] = Descriptor[k]
        /\ \A k \in Len(Descriptor) + 1 .. FdSize : packet[k] = 0
        /\ \A k \in 1 .. Len(p) : packet[FdSize + k] = p[k]
    BY <2>1, PacketFacts
  <2>4. fifobuff \in [Cells -> Byte]
    BY DEF PathTypeOK
  <2>5. /\ text \in Seq(Byte) /\ Len(text) = Room
        /\ \A k \in 1 .. Room : text[k] = fifobuff[s * SlotSize + (FdSize + k - 1)]
    <3>1. FdSize \in Nat /\ Room \in Nat /\ FdSize + Room <= SlotSize
      BY SlotLimits
    <3> QED
      BY <2>4, <3>1, BytesFacts
  <2>6. /\ bytes \in Seq(Byte) /\ Len(bytes) = FdSize
        /\ \A k \in 1 .. FdSize : bytes[k] = fifobuff[s * SlotSize + (0 + k - 1)]
    <3>1. FdSize \in Nat /\ 0 \in Nat /\ 0 + FdSize <= SlotSize
      BY SlotLimits
    <3> QED
      BY <2>4, <3>1, BytesFacts
  <2> HIDE DEF text, bytes, packet
  <2>7. \A k \in 1 .. Room : k <= Len(p) => text[k] = p[k]
    <3> SUFFICES ASSUME NEW k \in 1 .. Room, k <= Len(p) PROVE text[k] = p[k]
      OBVIOUS
    <3>1. /\ FdSize + k \in 1 .. SlotSize /\ FdSize + k <= Len(packet) /\ k \in 1 .. Len(p)
          /\ (FdSize + k) - 1 = FdSize + k - 1
      BY <2>1, <2>3, SlotLimits
    <3>2. fifobuff[s * SlotSize + ((FdSize + k) - 1)] = packet[FdSize + k]
      BY <2>2, <3>1 DEF packet
    <3> QED
      BY <2>3, <2>5, <3>1, <3>2
  <2>8. \A k \in 1 .. FdSize : bytes[k] = packet[k]
    <3> SUFFICES ASSUME NEW k \in 1 .. FdSize PROVE bytes[k] = packet[k]
      OBVIOUS
    <3>1. k \in 1 .. SlotSize /\ k <= Len(packet) /\ k - 1 = 0 + k - 1
      BY <2>1, <2>3, SlotLimits
    <3>2. fifobuff[s * SlotSize + (k - 1)] = packet[k]
      BY <2>2, <3>1 DEF packet
    <3> QED
      BY <2>6, <3>1, <3>2
  <2>9. read = IF Len(p) <= Room THEN {p} ELSE {}
    BY <2>1, <2>5, <2>7, ObjectRead
  <2>10. ReadDescriptor(bytes) = Descriptor
    <3>1. /\ \A k \in 1 .. Len(Descriptor) : k \in 1 .. FdSize
          /\ \A k \in Len(Descriptor) + 1 .. FdSize : k \in 1 .. FdSize
      BY SlotLimits
    <3>2. /\ \A k \in 1 .. Len(Descriptor) : bytes[k] = Descriptor[k]
          /\ \A k \in Len(Descriptor) + 1 .. FdSize : bytes[k] = 0
      BY <2>3, <2>8, <3>1
    <3> QED
      BY <2>6, <3>2, DescriptorRead
  <2>11. s * SlotSize + 0 = s * SlotSize
    BY SlotFacts
  <2>12. requests' = IF read = {} THEN requests
                     ELSE Append(requests, [fd |-> ReadDescriptor(bytes),
                                            payload |-> CHOOSE object \in read : TRUE])
    <3> DEFINE head == Head(m_list)
               Result(found, fd) == IF found = {} THEN requests
                                    ELSE Append(requests, [fd |-> fd,
                                                           payload |-> CHOOSE object \in found : TRUE])
    <3>1. requests' = Result(ReadObject(BytesAt(head + FdSize, Room)),
                             ReadDescriptor(BytesAt(head, FdSize)))
      BY DEF Parse
    <3>2. BytesAt(head + FdSize, Room) = text /\ BytesAt(head, FdSize) = bytes
      BY <2>2, <2>11 DEF text, bytes
    <3> HIDE DEF head, Result
    <3>3. requests' = Result(read, ReadDescriptor(bytes))
      BY <3>1, <3>2
    <3> QED
      BY <3>3 DEF Result
  <2> HIDE DEF read
  <2> QED
    BY <2>9, <2>10, <2>12
<1> QED
  BY <1>1, <1>2, TakeKept

LEMMA ParseNowhereKept ==
    ASSUME PathTypeOK, KeptInv, ParseNowhere
    PROVE  KeptInv'
<1>1. /\ m_list # <<>> /\ Head(m_list) = Nowhere /\ m_list' = Tail(m_list)
      /\ UNCHANGED <<jqueue, fifobuff, fifo_counter, crowded, requests>>
  BY DEF ParseNowhere
<1>2. ASSUME ObjectsQueued, ~crowded PROVE ~(Len(jqueue[Taken + 1]) <= Room)
  <2>1. Len(jqueue[Taken + 1]) > Room /\ Len(jqueue[Taken + 1]) \in Nat
    BY <1>1, <1>2, FirstKept
  <2> QED
    BY <2>1, SlotLimits
<1> QED
  BY <1>1, <1>2, TakeKept

LEMMA KeptInit == PathInit => KeptInv
<1> SUFFICES ASSUME PathInit PROVE KeptInv
  OBVIOUS
<1>1. /\ jqueue = <<>> /\ m_list = <<>> /\ requests = <<>> /\ Len(<<>>) = 0
  BY EmptySeq DEF PathInit, Init
<1>2. Ring \in Nat /\ 0 < Ring
  BY SlotLimits
<1>3. Found(SubSeq(jqueue, 1, Taken)) = <<>>
  <2>1. Taken = 0
    BY <1>1 DEF Taken
  <2>2. SubSeq(jqueue, 1, Taken) = <<>>
    BY <2>1, SubSeqEmpty
  <2>3. <<>> \in Seq(Seq(Byte))
    BY EmptySeq
  <2> DEFINE found == [i \in DOMAIN <<>> |-> FoundOne(<<>>[i])]
  <2>4. found \in Seq(Seq(Request)) /\ Len(found) = 0 /\ Found(<<>>) = FlattenSeq(found)
    BY <1>1, <2>3, FoundFacts
  <2> HIDE DEF found
  <2>5. found = <<>>
    BY <2>4, EmptySeq
  <2> QED
    BY <2>2, <2>4, <2>5, FlattenEmpty
<1> QED
  BY <1>1, <1>2, <1>3 DEF KeptInv

LEMMA KeptStep ==
    ASSUME StreamType, PathTypeOK, KeptInv, [PathNext]_pathVars
    PROVE  KeptInv'
<1>1. PathTypeOK'
  BY PathTypeKept
<1>2. CASE UNCHANGED slotVars /\ jqueue' = jqueue
  BY <1>2, KeptFrame DEF slotVars
<1>3. CASE Receive /\ jqueue' # jqueue
  BY <1>1, <1>3, PushKept
<1>4. CASE Receive /\ jqueue' = jqueue
  BY <1>4, KeptFrame DEF Receive
<1> QED
  BY <1>2, <1>3, <1>4, ParseKept, ParseNowhereKept DEF PathNext, pathVars, vars

\* From receiver to parser: of whole objects, the parse thread finds exactly
\* those that leave room for the descriptor, each as it was sent, for any sizes
\* of ring, slot and packet and whatever happens otherwise, as long as a slot
\* has been free at each push.
THEOREM ParsedWhatWasQueued == PathSpec => [](ObjectsQueued => ParsedAsSent)
<1>1. PathInit => StreamType /\ PathTypeOK /\ KeptInv
  BY StreamTypeInit, PathTypeInit, KeptInit DEF PathInit
<1>2. StreamType /\ PathTypeOK /\ KeptInv /\ [PathNext]_pathVars
         => (StreamType /\ PathTypeOK /\ KeptInv)'
  BY StreamTypeKept, PathTypeKept, KeptStep
<1>3. KeptInv => (ObjectsQueued => ParsedAsSent)
  BY DEF KeptInv, ParsedAsSent, Taken
<1> QED
  BY <1>1, <1>2, <1>3, PTL DEF PathSpec

-----------------------------------------------------------------------------
LEMMA QueuedObjects ==
    ASSUME \A i \in DOMAIN Frames : Payloads[i] \in Objects, NEW n \in 0 .. Len(Frames)
    PROVE  Queued(n) \in Seq(Objects)
<1>1. n \in Nat /\ DOMAIN Frames = 1 .. Len(Frames) /\ \A j \in 1 .. n : j \in 1 .. Len(Frames)
  BY FramesLen
<1>2. \A j \in 1 .. n : Admitted(j) \in Seq(Objects)
  <2> SUFFICES ASSUME NEW j \in 1 .. n PROVE Admitted(j) \in Seq(Objects)
    OBVIOUS
  <2>1. Payloads[j] \in Objects
    BY <1>1
  <2>2. <<Payloads[j]>> \in Seq(Objects) /\ <<>> \in Seq(Objects)
    BY <2>1
  <2> QED
    BY <2>2 DEF Admitted
<1>3. [j \in 1 .. n |-> Admitted(j)] \in [1 .. n -> Seq(Objects)]
  BY <1>2
<1>4. [j \in 1 .. n |-> Admitted(j)] \in Seq(Seq(Objects))
  BY <1>1, <1>3, FunctionIsSeq
<1> QED
  BY <1>4, AdmittedFacts, FlattenType

\* The whole way, where nothing is damaged and the payloads are objects: what
\* the parse thread finds is what the peer sent.
THEOREM FramesParsedAsSent ==
    ASSUME HeadersWhole, BufferSuffices, Intact = Len(Stream),
           \A i \in DOMAIN Frames : Payloads[i] \in Objects
    PROVE  PathSpec => []ParsedAsSent
<1>1. TypeOK /\ InOrder => ObjectsQueued
  <2> SUFFICES ASSUME TypeOK, InOrder PROVE ObjectsQueued
    OBVIOUS
  <2>1. received \in Nat /\ received <= Intact /\ jqueue \in Seq(Seq(Byte))
    BY LimitFacts DEF TypeOK
  <2> DEFINE q == Expected(received)
  <2>2. Complete(received) \in 0 .. Len(Frames)
    BY <2>1, CompleteFacts
  <2>3. q \in Seq(Objects) /\ q \in Seq(Seq(Byte))
    BY <2>2, QueuedObjects, AdmittedFacts DEF Expected
  <2>4. IsPrefix(jqueue, q)
    BY <2>1 DEF InOrder
  <2> HIDE DEF q
  <2>5. Len(jqueue) <= Len(q) /\ \A i \in 1 .. Len(jqueue) : jqueue[i] = q[i]
    BY <2>1, <2>3, <2>4, PrefixByElements
  <2>6. \A i \in 1 .. Len(jqueue) : i \in 1 .. Len(q)
    BY <2>1, <2>3, <2>5, LenProperties
  <2>7. \A i \in 1 .. Len(q) : q[i] \in Objects
    BY <2>3, LenProperties
  <2> QED
    BY <2>5, <2>6, <2>7 DEF ObjectsQueued
<1>2. PathTypeOK => TypeOK
  BY DEF PathTypeOK
<1> QED
  BY <1>1, <1>2, PathTypeCorrect, FramesInOrder, ParsedWhatWasQueued, PTL
=============================================================================
