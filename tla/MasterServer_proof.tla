------------------------- MODULE MasterServer_proof -------------------------
(***************************************************************************)
(* Theorems about MasterServer, for any clients and requests, whatever     *)
(* send takes at a time and whenever a peer leaves.                        *)
(*                                                                         *)
(* The answers to a peer are at any time the messages that have been       *)
(* dealt with and those of the sends still to do; what it has been sent is *)
(* the frames of the former and the part of the frame in work.  A session  *)
(* that a reply confirms exists, or a step before that reply creates it.   *)
(***************************************************************************)
EXTENDS MasterServer, SequenceFacts

GroupPairs == Groups \X Groups \cup {NoGroups}

AnyMessage ==
    {ConnectReply} \cup {ConfigReply(g) : g \in GroupPairs}
    \cup {QueryReply(g) : g \in GroupPairs}
    \cup {CallReply(name) : name \in {"CallRequest", "CallRelease"}}
    \cup {CallNotify(name, ch) : name \in {"CallStart", "CallEnd"}, ch \in CallChannels}

AnyStep ==
    {Send(m) : m \in AnyMessage} \cup {Check(k) : k \in Channels}
    \cup {Create(k) : k \in Channels} \cup {Bind(k) : k \in Channels}
    \cup {Voice(k) : k \in Channels}

AnyByte == AnyMessage \X (1 .. FrameLen)

\* The part of the frame in work that has been sent.
Part(c) == IF count[c] = 0 THEN <<>> ELSE Bytes(Head(todo[c]).message, 1, count[c])

\* The messages done have been dealt with, the pending ones have not.
Handled(c, done) ==
    /\ Answers(asked[c]) = done \o Pending(todo[c])
    /\ connected[c] => stream[c] = Framed(done) \o Part(c)

PeerInv(c) ==
    /\ groups[c] = LastGroups(asked[c], Len(asked[c]))
    /\ count[c] # 0 => todo[c] # <<>> /\ Head(todo[c]).op = "send"
    /\ IsPrefix(stream[c], AnswerBytes(c))
    /\ \E done \in Seq(AnyMessage) : Handled(c, done)

\* Step i of q comes after one that creates the session of channel k or finds
\* it there.
Prepared(q, i, k) == \E j \in 1 .. i - 1 : q[j].op \in {"check", "create"} /\ q[j].channel = k

StreamConfirmed(c) ==
    \A i \in 1 .. Len(stream[c]) : \A k \in Confirms(stream[c][i][1]) : rtp[k] # 0
Covered(q, sessions) ==
    \A i \in 1 .. Len(q) : q[i].op = "send" =>
        \A k \in Confirms(q[i].message) : sessions[k] # 0 \/ Prepared(q, i, k)
ChannelInv == \A c \in Clients : StreamConfirmed(c) /\ Covered(todo[c], rtp)

TypeInv ==
    /\ connected \in [Clients -> BOOLEAN]
    /\ asked \in [Clients -> Seq(AnyRequest)]
    /\ groups \in [Clients -> GroupPairs]
    /\ channel \in [Clients -> CallChannels]
    /\ todo \in [Clients -> Seq(AnyStep)]
    /\ count \in [Clients -> 0 .. FrameLen - 1]
    /\ stream \in [Clients -> Seq(AnyByte)]
    /\ rtp \in [Channels -> Nat]
    /\ bound \in [Channels -> Nat]
    /\ \A k \in Channels : bound[k] <= rtp[k]

-----------------------------------------------------------------------------
\* The steps and what they are of.
LEMMA StepFields ==
    /\ \A m : Send(m).op = "send" /\ Send(m).message = m
    /\ \A k : /\ Check(k).op = "check" /\ Check(k).channel = k
              /\ Create(k).op = "create" /\ Create(k).channel = k
              /\ Bind(k).op = "bind" /\ Bind(k).channel = k
              /\ Voice(k).op = "voice" /\ Voice(k).channel = k
BY DEF Send, Check, Create, Bind, Voice, Step

LEMMA StepFacts ==
    ASSUME NEW s \in AnyStep
    PROVE  /\ s.op \in {"check", "create", "bind", "send", "voice"}
           /\ s.op # "send" => s.channel \in Channels
           /\ s.op = "send" => s.message \in AnyMessage
           /\ MessagesOf(s) \in Seq(AnyMessage)
<1>1. CASE \E m \in AnyMessage : s = Send(m)
  <2>1. PICK m \in AnyMessage : s = Send(m)
    BY <1>1
  <2>2. s.op = "send" /\ s.message = m
    BY <2>1, StepFields
  <2> QED
    BY <2>2 DEF MessagesOf, When
<1>2. CASE \E k \in Channels : s \in {Check(k), Create(k), Bind(k), Voice(k)}
  <2>1. PICK k \in Channels : s \in {Check(k), Create(k), Bind(k), Voice(k)}
    BY <1>2
  <2>2. s.op \in {"check", "create", "bind", "voice"} /\ s.channel = k
    BY <2>1, StepFields
  <2> QED
    BY <2>2 DEF MessagesOf, When
<1> QED
  BY <1>1, <1>2 DEF AnyStep

LEMMA PendingSeq ==
    ASSUME NEW q \in Seq(AnyStep)
    PROVE  /\ [i \in 1 .. Len(q) |-> MessagesOf(q[i])] \in Seq(Seq(AnyMessage))
           /\ Len([i \in 1 .. Len(q) |-> MessagesOf(q[i])]) = Len(q)
           /\ Pending(q) \in Seq(AnyMessage)
<1>1. Len(q) \in Nat /\ \A i \in 1 .. Len(q) : q[i] \in AnyStep
  BY LenProperties
<1>2. \A i \in 1 .. Len(q) : MessagesOf(q[i]) \in Seq(AnyMessage)
  BY <1>1, StepFacts
<1>3. [i \in 1 .. Len(q) |-> MessagesOf(q[i])] \in [1 .. Len(q) -> Seq(AnyMessage)]
  BY <1>2
<1>4. /\ [i \in 1 .. Len(q) |-> MessagesOf(q[i])] \in Seq(Seq(AnyMessage))
      /\ Len([i \in 1 .. Len(q) |-> MessagesOf(q[i])]) = Len(q)
  BY <1>1, <1>3, FunctionIsSeq
<1> QED
  BY <1>4, FlattenType DEF Pending

LEMMA PendingConcat ==
    ASSUME NEW p \in Seq(AnyStep), NEW q \in Seq(AnyStep)
    PROVE  Pending(p \o q) = Pending(p) \o Pending(q)
<1> DEFINE M(r) == [i \in 1 .. Len(r) |-> MessagesOf(r[i])]
<1>1. /\ Len(p) \in Nat /\ Len(q) \in Nat
      /\ p \o q \in Seq(AnyStep) /\ Len(p \o q) = Len(p) + Len(q)
      /\ \A i \in 1 .. Len(p) : (p \o q)[i] = p[i]
      /\ \A i \in 1 .. Len(q) : (p \o q)[Len(p) + i] = q[i]
  BY LenProperties, ConcatProperties
<1>2. /\ M(p) \in Seq(Seq(AnyMessage)) /\ Len(M(p)) = Len(p)
      /\ M(q) \in Seq(Seq(AnyMessage)) /\ Len(M(q)) = Len(q)
      /\ M(p \o q) \in Seq(Seq(AnyMessage)) /\ Len(M(p \o q)) = Len(p \o q)
  BY <1>1, PendingSeq
<1>3. /\ \A i \in 1 .. Len(p) : M(p \o q)[i] = M(p)[i]
      /\ \A i \in 1 .. Len(q) : M(p \o q)[Len(p) + i] = M(q)[i]
  <2> DEFINE r == p \o q
  <2> HIDE DEF r
  <2>1. \A i \in 1 .. Len(p) : r[i] = p[i] /\ i \in 1 .. Len(r)
    BY <1>1 DEF r
  <2>2. \A i \in 1 .. Len(q) : r[Len(p) + i] = q[i] /\ Len(p) + i \in 1 .. Len(r)
    BY <1>1 DEF r
  <2>3. \A i \in 1 .. Len(p) : M(r)[i] = M(p)[i]
    BY <2>1
  <2>4. \A i \in 1 .. Len(q) : M(r)[Len(p) + i] = M(q)[i]
    BY <2>2
  <2> QED
    BY <2>3, <2>4 DEF r
<1>4. M(p \o q) = M(p) \o M(q)
  <2> HIDE DEF M
  <2>1. /\ Len(M(p \o q)) = Len(M(p)) + Len(M(q))
        /\ \A i \in 1 .. Len(M(p)) : M(p \o q)[i] = M(p)[i]
        /\ \A i \in 1 .. Len(M(q)) : M(p \o q)[Len(M(p)) + i] = M(q)[i]
    BY <1>1, <1>2, <1>3
  <2> QED
    BY <1>2, <2>1, ConcatByElements
<1> QED
  BY <1>2, <1>4, FlattenConcat, Zenon DEF Pending

LEMMA PendingEmpty == Pending(<<>>) = <<>>
<1>1. <<>> \in Seq(AnyStep) /\ Len(<<>>) = 0
  BY EmptySeq
<1>2. [i \in 1 .. Len(<<>>) |-> MessagesOf(<<>>[i])] = <<>>
  BY <1>1, PendingSeq, EmptySeq
<1> QED
  BY <1>2, FlattenEmpty DEF Pending

LEMMA PendingOne ==
    ASSUME NEW s \in AnyStep
    PROVE  Pending(<<s>>) = MessagesOf(s)
<1> DEFINE q == <<s>>
<1>1. q \in Seq(AnyStep) /\ Len(q) = 1 /\ q[1] = s
  OBVIOUS
<1> HIDE DEF q
<1>2. /\ [i \in 1 .. Len(q) |-> MessagesOf(q[i])] \in Seq(Seq(AnyMessage))
      /\ Len([i \in 1 .. Len(q) |-> MessagesOf(q[i])]) = 1
      /\ [i \in 1 .. Len(q) |-> MessagesOf(q[i])][1] = MessagesOf(s)
  BY <1>1, PendingSeq
<1>3. [i \in 1 .. Len(q) |-> MessagesOf(q[i])] = <<MessagesOf(s)>>
  BY <1>2
<1>4. MessagesOf(s) \in Seq(AnyMessage)
  BY StepFacts
<1> QED
  BY <1>3, <1>4, FlattenOne DEF Pending, q

-----------------------------------------------------------------------------
LEMMA FrameLenPositive == FrameLen \in Nat /\ FrameLen >= 1
<1>1. FrameLen \in Nat \ {0}
  BY ServerAssumption, SMT
<1> QED
  BY <1>1

\* The bytes of a frame, and of a part of it followed by the next.
LEMMA BytesFacts ==
    ASSUME NEW m \in AnyMessage, NEW from \in Nat \ {0}, NEW to \in 0 .. FrameLen, from <= to + 1
    PROVE  /\ Bytes(m, from, to) \in Seq(AnyByte)
           /\ Len(Bytes(m, from, to)) = to - from + 1
           /\ \A i \in 1 .. to - from + 1 : Bytes(m, from, to)[i] = <<m, from + i - 1>>
<1>1. to - from + 1 \in Nat /\ FrameLen \in Nat
  BY FrameLenPositive
<1>2. \A i \in 1 .. to - from + 1 : <<m, from + i - 1>> \in AnyByte
  <2> SUFFICES ASSUME NEW i \in 1 .. to - from + 1 PROVE <<m, from + i - 1>> \in AnyByte
    OBVIOUS
  <2>1. from + i - 1 \in 1 .. FrameLen
    BY <1>1
  <2> QED
    BY <2>1 DEF AnyByte
<1>3. Bytes(m, from, to) \in [1 .. to - from + 1 -> AnyByte]
  BY <1>2 DEF Bytes
<1> QED
  BY <1>1, <1>3, FunctionIsSeq DEF Bytes

LEMMA BeginningFacts ==
    ASSUME NEW m \in AnyMessage, NEW n \in 0 .. FrameLen
    PROVE  /\ Bytes(m, 1, n) \in Seq(AnyByte) /\ Len(Bytes(m, 1, n)) = n
           /\ \A i \in 1 .. n : Bytes(m, 1, n)[i] = <<m, i>>
<1>1. /\ Bytes(m, 1, n) \in Seq(AnyByte) /\ Len(Bytes(m, 1, n)) = n - 1 + 1
      /\ \A i \in 1 .. n - 1 + 1 : Bytes(m, 1, n)[i] = <<m, 1 + i - 1>>
  <2>1. 1 \in Nat \ {0} /\ 1 <= n + 1
    BY FrameLenPositive
  <2> QED
    BY <2>1, BytesFacts
<1>2. n - 1 + 1 = n /\ \A i \in 1 .. n : 1 + i - 1 = i
  BY FrameLenPositive
<1> QED
  BY <1>1, <1>2

LEMMA BytesSplit ==
    ASSUME NEW m \in AnyMessage, NEW n \in 0 .. FrameLen, NEW k \in n .. FrameLen
    PROVE  Bytes(m, 1, k) = Bytes(m, 1, n) \o Bytes(m, n + 1, k)
<1>1. n \in Nat /\ k \in Nat /\ FrameLen \in Nat
  BY FrameLenPositive
<1>2. /\ Bytes(m, 1, n) \in Seq(AnyByte) /\ Len(Bytes(m, 1, n)) = n
      /\ \A i \in 1 .. n : Bytes(m, 1, n)[i] = <<m, i>>
  BY BeginningFacts
<1>3. /\ Bytes(m, n + 1, k) \in Seq(AnyByte) /\ Len(Bytes(m, n + 1, k)) = k - n
      /\ \A i \in 1 .. k - n : Bytes(m, n + 1, k)[i] = <<m, n + i>>
  <2>1. n + 1 \in Nat \ {0} /\ k \in 0 .. FrameLen /\ n + 1 <= k + 1
    BY <1>1
  <2>2. /\ Bytes(m, n + 1, k) \in Seq(AnyByte) /\ Len(Bytes(m, n + 1, k)) = k - (n + 1) + 1
        /\ \A i \in 1 .. k - (n + 1) + 1 : Bytes(m, n + 1, k)[i] = <<m, (n + 1) + i - 1>>
    BY <2>1, BytesFacts
  <2>3. k - (n + 1) + 1 = k - n /\ \A i \in 1 .. k - n : (n + 1) + i - 1 = n + i
    BY <1>1
  <2> QED
    BY <2>2, <2>3
<1>4. /\ Bytes(m, 1, k) \in Seq(AnyByte) /\ Len(Bytes(m, 1, k)) = k
      /\ \A i \in 1 .. k : Bytes(m, 1, k)[i] = <<m, i>>
  <2>1. k \in 0 .. FrameLen
    BY <1>1
  <2> QED
    BY <2>1, BeginningFacts
<1> DEFINE a == Bytes(m, 1, n)
           b == Bytes(m, n + 1, k)
           w == Bytes(m, 1, k)
<1> HIDE DEF a, b, w
<1>5. /\ Len(Bytes(m, 1, k)) = Len(Bytes(m, 1, n)) + Len(Bytes(m, n + 1, k))
      /\ \A i \in 1 .. Len(Bytes(m, 1, n)) : Bytes(m, 1, k)[i] = Bytes(m, 1, n)[i]
      /\ \A i \in 1 .. Len(Bytes(m, n + 1, k)) :
            Bytes(m, 1, k)[Len(Bytes(m, 1, n)) + i] = Bytes(m, n + 1, k)[i]
  <2>1. Len(w) = Len(a) + Len(b)
    BY <1>1, <1>2, <1>3, <1>4, SMTT(30) DEF a, b, w
  <2>2. \A i \in 1 .. Len(a) : w[i] = a[i]
    BY <1>1, <1>2, <1>4 DEF a, w
  <2>3. ASSUME NEW i \in 1 .. Len(b) PROVE w[Len(a) + i] = b[i]
    <3>1. i \in 1 .. k - n /\ n + i \in 1 .. k /\ Len(a) = n
      BY <1>1, <1>2, <1>3 DEF a, b
    <3> QED
      BY <1>3, <1>4, <3>1 DEF b, w
  <2> QED
    BY <2>1, <2>2, <2>3 DEF a, b, w
<1> QED
  BY <1>2, <1>3, <1>4, <1>5, ConcatByElements

LEMMA FramedSeq ==
    ASSUME NEW ms \in Seq(AnyMessage)
    PROVE  /\ [i \in DOMAIN ms |-> Bytes(ms[i], 1, FrameLen)] \in Seq(Seq(AnyByte))
           /\ Len([i \in DOMAIN ms |-> Bytes(ms[i], 1, FrameLen)]) = Len(ms)
           /\ Framed(ms) \in Seq(AnyByte)
<1>1. Len(ms) \in Nat /\ DOMAIN ms = 1 .. Len(ms) /\ \A i \in 1 .. Len(ms) : ms[i] \in AnyMessage
  BY LenProperties
<1>2. \A i \in 1 .. Len(ms) : Bytes(ms[i], 1, FrameLen) \in Seq(AnyByte)
  BY <1>1, FrameLenPositive, BeginningFacts
<1>3. [i \in DOMAIN ms |-> Bytes(ms[i], 1, FrameLen)] \in [1 .. Len(ms) -> Seq(AnyByte)]
  BY <1>1, <1>2
<1>4. /\ [i \in DOMAIN ms |-> Bytes(ms[i], 1, FrameLen)] \in Seq(Seq(AnyByte))
      /\ Len([i \in DOMAIN ms |-> Bytes(ms[i], 1, FrameLen)]) = Len(ms)
  BY <1>1, <1>3, FunctionIsSeq
<1> QED
  BY <1>4, FlattenType DEF Framed

LEMMA FramedConcat ==
    ASSUME NEW p \in Seq(AnyMessage), NEW q \in Seq(AnyMessage)
    PROVE  Framed(p \o q) = Framed(p) \o Framed(q)
<1> DEFINE F(ms) == [i \in DOMAIN ms |-> Bytes(ms[i], 1, FrameLen)]
<1>1. /\ Len(p) \in Nat /\ Len(q) \in Nat
      /\ DOMAIN p = 1 .. Len(p) /\ DOMAIN q = 1 .. Len(q)
      /\ p \o q \in Seq(AnyMessage) /\ Len(p \o q) = Len(p) + Len(q)
      /\ DOMAIN (p \o q) = 1 .. Len(p) + Len(q)
      /\ \A i \in 1 .. Len(p) : (p \o q)[i] = p[i]
      /\ \A i \in 1 .. Len(q) : (p \o q)[Len(p) + i] = q[i]
  BY LenProperties, ConcatProperties
<1>2. /\ F(p) \in Seq(Seq(AnyByte)) /\ Len(F(p)) = Len(p)
      /\ F(q) \in Seq(Seq(AnyByte)) /\ Len(F(q)) = Len(q)
      /\ F(p \o q) \in Seq(Seq(AnyByte)) /\ Len(F(p \o q)) = Len(p) + Len(q)
  BY <1>1, FramedSeq
<1>3. /\ \A i \in 1 .. Len(p) : F(p \o q)[i] = F(p)[i]
      /\ \A i \in 1 .. Len(q) : F(p \o q)[Len(p) + i] = F(q)[i]
  <2> DEFINE r == p \o q
  <2> HIDE DEF r
  <2>1. \A i \in 1 .. Len(p) : r[i] = p[i] /\ i \in DOMAIN r
    BY <1>1 DEF r
  <2>2. \A i \in 1 .. Len(q) : r[Len(p) + i] = q[i] /\ Len(p) + i \in DOMAIN r
    BY <1>1 DEF r
  <2>3. \A i \in 1 .. Len(p) : F(r)[i] = F(p)[i]
    BY <1>1, <2>1
  <2>4. \A i \in 1 .. Len(q) : F(r)[Len(p) + i] = F(q)[i]
    BY <1>1, <2>2
  <2> QED
    BY <2>3, <2>4 DEF r
<1>4. F(p \o q) = F(p) \o F(q)
  <2> HIDE DEF F
  <2>1. /\ Len(F(p \o q)) = Len(F(p)) + Len(F(q))
        /\ \A i \in 1 .. Len(F(p)) : F(p \o q)[i] = F(p)[i]
        /\ \A i \in 1 .. Len(F(q)) : F(p \o q)[Len(F(p)) + i] = F(q)[i]
    BY <1>1, <1>2, <1>3
  <2> QED
    BY <1>2, <2>1, ConcatByElements
<1> QED
  BY <1>2, <1>4, FlattenConcat, Zenon DEF Framed

LEMMA FramedOne ==
    ASSUME NEW m \in AnyMessage
    PROVE  Framed(<<m>>) = Bytes(m, 1, FrameLen)
<1> DEFINE q == <<m>>
<1>1. q \in Seq(AnyMessage) /\ Len(q) = 1 /\ q[1] = m
  OBVIOUS
<1> HIDE DEF q
<1>2. /\ [i \in DOMAIN q |-> Bytes(q[i], 1, FrameLen)] \in Seq(Seq(AnyByte))
      /\ Len([i \in DOMAIN q |-> Bytes(q[i], 1, FrameLen)]) = 1
      /\ [i \in DOMAIN q |-> Bytes(q[i], 1, FrameLen)][1] = Bytes(m, 1, FrameLen)
  <2>1. 1 \in DOMAIN q
    BY <1>1 
  <2>2. [i \in DOMAIN q |-> Bytes(q[i], 1, FrameLen)][1] = Bytes(m, 1, FrameLen)
    BY <1>1, <2>1
  <2> QED
    BY <1>1, <2>2, FramedSeq
<1>3. [i \in DOMAIN q |-> Bytes(q[i], 1, FrameLen)] = <<Bytes(m, 1, FrameLen)>>
  BY <1>2
<1>4. Bytes(m, 1, FrameLen) \in Seq(AnyByte)
  BY FrameLenPositive, BeginningFacts
<1> QED
  BY <1>3, <1>4, FlattenOne DEF Framed, q

LEMMA FramedEmpty == Framed(<<>>) = <<>>
<1>1. <<>> \in Seq(AnyMessage) /\ Len(<<>>) = 0
  BY EmptySeq
<1>2. [i \in DOMAIN <<>> |-> Bytes(<<>>[i], 1, FrameLen)] = <<>>
  BY <1>1, FramedSeq, EmptySeq
<1> QED
  BY <1>2, FlattenEmpty DEF Framed

-----------------------------------------------------------------------------
LEMMA RequestFacts ==
    ASSUME NEW r \in AnyRequest
    PROVE  /\ r.name \in Names /\ r.groups \in Groups \X Groups
           /\ r.channel \in CallChannels /\ r.groups \in GroupPairs
BY DEF AnyRequest, GroupPairs

\* Group ids are below 2^15, so that they come out of int16_t as they are.
LEMMA IdsKept ==
    ASSUME NEW g \in GroupPairs
    PROVE  Int16s(g) = g
<1>1. \A n \in Nat : n < 32768 => Int16(n) = n
  BY SMT DEF Int16
<1>2. ASSUME NEW n \in Groups \cup {0} PROVE Int16(n) = n
  <2>1. n \in Nat /\ n < 32768
    BY GroupsAssumption, SMT
  <2> QED
    BY <1>1, <2>1, SMT
<1>3. g = <<g[1], g[2]>> /\ g[1] \in Groups \cup {0} /\ g[2] \in Groups \cup {0}
  BY DEF GroupPairs, NoGroups
<1> QED
  BY <1>2, <1>3 DEF Int16s

LEMMA LastGroupsType ==
    ASSUME NEW q \in Seq(AnyRequest), NEW n \in 0 .. Len(q)
    PROVE  LastGroups(q, n) \in GroupPairs
<1> DEFINE L == {i \in 1 .. n : q[i].name = "Listening"}
<1>1. CASE L = {}
  BY <1>1 DEF LastGroups, GroupPairs
<1>2. CASE L # {}
  <2>1. Len(q) \in Nat /\ \A i \in 1 .. Len(q) : q[i] \in AnyRequest
    BY LenProperties
  <2>2. L \in SUBSET (0 .. n) /\ n \in Nat
    BY <2>1
  <2>3. Max(L) \in L
    <3> HIDE DEF L
    <3> QED
      BY <1>2, <2>2, LargestNumber
  <2>4. Max(L) \in 1 .. Len(q)
    BY <2>1, <2>3
  <2>5. q[Max(L)].groups \in GroupPairs
    BY <2>1, <2>4, RequestFacts
  <2> QED
    BY <1>2, <2>5 DEF LastGroups
<1> QED
  BY <1>1, <1>2

\* A further request leaves what the first n have asked for as it is.
LEMMA LastGroupsKept ==
    ASSUME NEW q \in Seq(AnyRequest), NEW r \in AnyRequest, NEW n \in 0 .. Len(q)
    PROVE  LastGroups(Append(q, r), n) = LastGroups(q, n)
<1> DEFINE L == {i \in 1 .. n : q[i].name = "Listening"}
           t == Append(q, r)
           K == {i \in 1 .. n : t[i].name = "Listening"}
<1>1. Len(q) \in Nat /\ \A i \in 1 .. Len(q) : t[i] = q[i]
  BY LenProperties, AppendProperties
<1> HIDE DEF t
<1>2. \A i \in 1 .. n : t[i] = q[i]
  BY <1>1
<1>3. K = L
  BY <1>2
<1>4. L # {} => t[Max(L)] = q[Max(L)]
  <2> SUFFICES ASSUME L # {} PROVE t[Max(L)] = q[Max(L)]
    OBVIOUS
  <2>1. L \in SUBSET (0 .. n) /\ n \in Nat
    BY <1>1
  <2>2. Max(L) \in L
    <3> HIDE DEF L
    <3> QED
      BY <2>1, LargestNumber
  <2> QED
    BY <1>2, <2>2
<1>5. /\ LastGroups(t, n) = IF K = {} THEN NoGroups ELSE t[Max(K)].groups
      /\ LastGroups(q, n) = IF L = {} THEN NoGroups ELSE q[Max(L)].groups
  BY DEF LastGroups
<1> HIDE DEF K, L
<1>6. CASE L = {}
  BY <1>3, <1>5, <1>6, Zenon DEF t
<1>7. CASE L # {}
  <2>1. t[Max(L)].groups = q[Max(L)].groups
    BY <1>4, <1>7
  <2> QED
    BY <1>3, <1>5, <1>7, <2>1, Zenon DEF t
<1> QED
  BY <1>6, <1>7

LEMMA LastGroupsNext ==
    ASSUME NEW q \in Seq(AnyRequest), NEW r \in AnyRequest
    PROVE  LastGroups(Append(q, r), Len(q) + 1)
              = IF r.name = "Listening" THEN r.groups ELSE LastGroups(q, Len(q))
<1> DEFINE t == Append(q, r)
           L == {i \in 1 .. Len(q) : t[i].name = "Listening"}
           K == {i \in 1 .. Len(q) + 1 : t[i].name = "Listening"}
<1>1. Len(q) \in Nat /\ t[Len(q) + 1] = r
  BY LenProperties, AppendProperties
<1>2. /\ LastGroups(t, Len(q) + 1) = IF K = {} THEN NoGroups ELSE t[Max(K)].groups
      /\ LastGroups(t, Len(q)) = IF L = {} THEN NoGroups ELSE t[Max(L)].groups
  BY DEF LastGroups
<1> HIDE DEF t
<1>3. CASE r.name = "Listening"
  <2>1. Len(q) + 1 \in K /\ K \in SUBSET (0 .. Len(q) + 1) /\ Len(q) + 1 \in Nat
    BY <1>1, <1>3
  <2>2. Max(K) \in K /\ Max(K) >= Len(q) + 1
    <3> HIDE DEF K
    <3> QED
      BY <2>1, LargestNumber
  <2>3. Max(K) = Len(q) + 1
    BY <1>1, <2>2
  <2>4. K # {}
    BY <2>1
  <2> HIDE DEF K, L
  <2> QED
    BY <1>1, <1>2, <1>3, <2>3, <2>4, Zenon DEF t
<1>4. CASE r.name # "Listening"
  <2>1. K = L
    BY <1>1, <1>4
  <2>2. LastGroups(t, Len(q)) = LastGroups(q, Len(q))
    <3>1. Len(q) \in 0 .. Len(q)
      BY <1>1
    <3> QED
      BY <3>1, LastGroupsKept DEF t
  <2> HIDE DEF K, L
  <2> QED
    BY <1>2, <1>4, <2>1, <2>2, Zenon DEF t
<1> QED
  BY <1>3, <1>4

LEMMA AnswerToType ==
    ASSUME NEW q \in Seq(AnyRequest), NEW i \in 1 .. Len(q)
    PROVE  AnswerTo(q, i) \in Seq(AnyMessage)
<1>1. q[i] \in AnyRequest /\ i \in 0 .. Len(q)
  BY LenProperties
<1>2. LastGroups(q, i) \in GroupPairs
  BY <1>1, LastGroupsType
<1>3. q[i].groups \in GroupPairs /\ q[i].channel \in CallChannels
  BY <1>1, RequestFacts
<1>4. /\ ConnectReply \in AnyMessage
      /\ ConfigReply(q[i].groups) \in AnyMessage
      /\ QueryReply(LastGroups(q, i)) \in AnyMessage
      /\ CallReply("CallRequest") \in AnyMessage /\ CallReply("CallRelease") \in AnyMessage
      /\ CallNotify("CallStart", q[i].channel) \in AnyMessage
      /\ CallNotify("CallEnd", q[i].channel) \in AnyMessage
  BY <1>2, <1>3 DEF AnyMessage
<1>5. AnswerTo(q, i) \in {<<>>, <<ConnectReply>>, <<ConfigReply(q[i].groups)>>,
          <<QueryReply(LastGroups(q, i))>>,
          <<CallReply("CallRequest"), CallNotify("CallStart", q[i].channel)>>,
          <<CallReply("CallRelease"), CallNotify("CallEnd", q[i].channel)>>}
  BY DEF AnswerTo, Answer
<1>6. \A a, b \in AnyMessage :
         /\ <<>> \in Seq(AnyMessage) /\ <<a>> \in Seq(AnyMessage)
         /\ <<a, b>> \in Seq(AnyMessage)
  OBVIOUS
<1> QED
  BY <1>4, <1>5, <1>6, Zenon

LEMMA AnswersType ==
    ASSUME NEW q \in Seq(AnyRequest)
    PROVE  /\ [i \in DOMAIN q |-> AnswerTo(q, i)] \in Seq(Seq(AnyMessage))
           /\ Len([i \in DOMAIN q |-> AnswerTo(q, i)]) = Len(q)
           /\ Answers(q) \in Seq(AnyMessage)
<1>1. Len(q) \in Nat /\ DOMAIN q = 1 .. Len(q)
  BY LenProperties
<1>2. \A i \in 1 .. Len(q) : AnswerTo(q, i) \in Seq(AnyMessage)
  BY AnswerToType
<1>3. [i \in DOMAIN q |-> AnswerTo(q, i)] \in [1 .. Len(q) -> Seq(AnyMessage)]
  BY <1>1, <1>2
<1>4. /\ [i \in DOMAIN q |-> AnswerTo(q, i)] \in Seq(Seq(AnyMessage))
      /\ Len([i \in DOMAIN q |-> AnswerTo(q, i)]) = Len(q)
  BY <1>1, <1>3, FunctionIsSeq
<1> QED
  BY <1>4, FlattenType DEF Answers

\* What a request is answered with does not depend on later ones.
LEMMA AnswerToKept ==
    ASSUME NEW q \in Seq(AnyRequest), NEW r \in AnyRequest, NEW i \in 1 .. Len(q)
    PROVE  AnswerTo(Append(q, r), i) = AnswerTo(q, i)
<1> DEFINE t == Append(q, r)
<1>1. t[i] = q[i] /\ i \in 0 .. Len(q)
  BY LenProperties, AppendProperties
<1>2. LastGroups(t, i) = LastGroups(q, i)
  BY <1>1, LastGroupsKept
<1> HIDE DEF t
<1>3. AnswerTo(t, i) = AnswerTo(q, i)
  BY <1>1, <1>2 DEF AnswerTo, Answer
<1> QED
  BY <1>3 DEF t

LEMMA AnswersNext ==
    ASSUME NEW q \in Seq(AnyRequest), NEW r \in AnyRequest
    PROVE  Answers(Append(q, r)) = Answers(q) \o AnswerTo(Append(q, r), Len(q) + 1)
<1> DEFINE t == Append(q, r)
           P(s) == [i \in DOMAIN s |-> AnswerTo(s, i)]
           new == AnswerTo(t, Len(q) + 1)
<1>1. /\ Len(q) \in Nat /\ DOMAIN q = 1 .. Len(q)
      /\ t \in Seq(AnyRequest) /\ Len(t) = Len(q) + 1
  BY LenProperties, AppendProperties
<1>2. DOMAIN t = 1 .. Len(q) + 1
  BY <1>1, LenProperties
<1>3. \A i \in 1 .. Len(q) : AnswerTo(t, i) = AnswerTo(q, i)
  BY AnswerToKept
<1> HIDE DEF t
<1>4. new \in Seq(AnyMessage)
  <2>1. Len(q) + 1 \in 1 .. Len(t)
    BY <1>1
  <2> QED
    BY <1>1, <2>1, AnswerToType
<1>5. /\ P(q) \in Seq(Seq(AnyMessage)) /\ Len(P(q)) = Len(q)
      /\ P(t) \in Seq(Seq(AnyMessage)) /\ Len(P(t)) = Len(q) + 1
  BY <1>1, AnswersType
<1>6. /\ \A i \in 1 .. Len(q) : P(t)[i] = P(q)[i]
      /\ P(t)[Len(q) + 1] = new
  BY <1>1, <1>2, <1>3
<1> HIDE DEF P, new
<1>7. P(t) = Append(P(q), new)
  <2>1. /\ Append(P(q), new) \in Seq(Seq(AnyMessage))
        /\ Len(Append(P(q), new)) = Len(q) + 1
        /\ \A i \in 1 .. Len(q) : Append(P(q), new)[i] = P(q)[i]
        /\ Append(P(q), new)[Len(q) + 1] = new
    BY <1>4, <1>5, AppendProperties
  <2>2. \A i \in 1 .. Len(q) + 1 : P(t)[i] = Append(P(q), new)[i]
    BY <1>1, <1>6, <2>1
  <2> QED
    BY <1>5, <2>1, <2>2, SeqEqual
<1>8. FlattenSeq(P(t)) = FlattenSeq(P(q)) \o new
  BY <1>4, <1>5, <1>7, FlattenAppend
<1> QED
  BY <1>8 DEF Answers, P, new, t

-----------------------------------------------------------------------------
\* Short sequences of steps, and what is to be sent in them.
LEMMA JoinSteps ==
    ASSUME NEW a \in AnyStep, NEW b \in AnyStep, NEW c \in AnyStep
    PROVE  /\ <<a>> \o <<b>> = <<a, b>> /\ <<a, b>> \o <<c>> = <<a, b, c>>
           /\ <<>> \o <<a>> = <<a>> /\ <<a>> \o <<>> = <<a>> /\ <<>> \o <<>> = <<>>
           /\ <<a, b>> \o <<>> = <<a, b>> /\ <<>> \o <<a, b>> = <<a, b>>
           /\ <<a>> \in Seq(AnyStep) /\ <<a, b>> \in Seq(AnyStep) /\ <<a, b, c>> \in Seq(AnyStep)
           /\ <<>> \in Seq(AnyStep)
BY JoinTuples

LEMMA PendingTwo ==
    ASSUME NEW a \in AnyStep, NEW b \in AnyStep
    PROVE  Pending(<<a, b>>) = MessagesOf(a) \o MessagesOf(b)
<1>1. <<a>> \in Seq(AnyStep) /\ <<b>> \in Seq(AnyStep) /\ <<a, b>> = <<a>> \o <<b>>
  BY JoinSteps
<1>2. Pending(<<a>> \o <<b>>) = Pending(<<a>>) \o Pending(<<b>>)
  BY <1>1, PendingConcat
<1> QED
  BY <1>1, <1>2, PendingOne

LEMMA PendingThree ==
    ASSUME NEW a \in AnyStep, NEW b \in AnyStep, NEW c \in AnyStep
    PROVE  Pending(<<a, b, c>>) = (MessagesOf(a) \o MessagesOf(b)) \o MessagesOf(c)
<1>1. <<a, b>> \in Seq(AnyStep) /\ <<c>> \in Seq(AnyStep) /\ <<a, b, c>> = <<a, b>> \o <<c>>
  BY JoinSteps
<1>2. Pending(<<a, b>> \o <<c>>) = Pending(<<a, b>>) \o Pending(<<c>>)
  BY <1>1, PendingConcat
<1> QED
  BY <1>1, <1>2, PendingOne, PendingTwo

\* What is sent in a step that sends m, and in any other.
LEMMA MessagesOfSteps ==
    /\ \A m : MessagesOf(Send(m)) = <<m>>
    /\ \A k : /\ MessagesOf(Check(k)) = <<>> /\ MessagesOf(Create(k)) = <<>>
              /\ MessagesOf(Bind(k)) = <<>> /\ MessagesOf(Voice(k)) = <<>>
BY StepFields DEF MessagesOf, When

LEMMA StepsTyped ==
    /\ \A m \in AnyMessage : Send(m) \in AnyStep
    /\ \A k \in Channels : /\ Check(k) \in AnyStep /\ Create(k) \in AnyStep
                           /\ Bind(k) \in AnyStep /\ Voice(k) \in AnyStep
BY DEF AnyStep

LEMMA MessagesTyped ==
    /\ ConnectReply \in AnyMessage
    /\ \A g \in GroupPairs : ConfigReply(g) \in AnyMessage /\ QueryReply(g) \in AnyMessage
    /\ CallReply("CallRequest") \in AnyMessage /\ CallReply("CallRelease") \in AnyMessage
    /\ \A ch \in CallChannels : /\ CallNotify("CallStart", ch) \in AnyMessage
                                /\ CallNotify("CallEnd", ch) \in AnyMessage
BY DEF AnyMessage

\* The session of each channel that is set is looked for before the reply.
LEMMA ListeningSteps ==
    ASSUME NEW g \in GroupPairs, NEW ch
    PROVE  LET s == Send(ConfigReply(g))
               q == MasterOnDataFunc("Listening", g, ch)
           IN  \/ g[1] = 0 /\ g[2] = 0 /\ q = <<s>>
               \/ g[1] # 0 /\ g[2] = 0 /\ q = <<Check(1), s>>
               \/ g[1] = 0 /\ g[2] # 0 /\ q = <<Check(2), s>>
               \/ g[1] # 0 /\ g[2] # 0 /\ q = <<Check(1), Check(2), s>>
<1> DEFINE s == Send(ConfigReply(g))
<1>1. /\ s \in AnyStep /\ Check(1) \in AnyStep /\ Check(2) \in AnyStep
  BY MessagesTyped, StepsTyped DEF Channels
<1>2. MasterOnDataFunc("Listening", g, ch)
         = When(g[1] # 0, Check(1)) \o When(g[2] # 0, Check(2)) \o <<s>>
  BY DEF MasterOnDataFunc
<1>3. /\ When(g[1] # 0, Check(1)) = IF g[1] # 0 THEN <<Check(1)>> ELSE <<>>
      /\ When(g[2] # 0, Check(2)) = IF g[2] # 0 THEN <<Check(2)>> ELSE <<>>
  BY DEF When
<1> HIDE DEF s
<1>4. /\ (<<>> \o <<>>) \o <<s>> = <<s>>
      /\ (<<Check(1)>> \o <<>>) \o <<s>> = <<Check(1), s>>
      /\ (<<>> \o <<Check(2)>>) \o <<s>> = <<Check(2), s>>
      /\ (<<Check(1)>> \o <<Check(2)>>) \o <<s>> = <<Check(1), Check(2), s>>
  BY <1>1, JoinSteps
<1> QED
  BY <1>2, <1>3, <1>4, ZenonT(60) DEF s

LEMMA CallSteps ==
    ASSUME NEW g, NEW ch \in CallChannels
    PROVE  LET a == Send(CallReply("CallRequest"))
               b == Send(CallNotify("CallStart", ch))
               q == MasterOnDataFunc("CallRequest", g, ch)
           IN  \/ q = <<a, b>>
               \/ ch \in Channels /\ q = <<a, b, Voice(ch)>>
<1> DEFINE a == Send(CallReply("CallRequest"))
           b == Send(CallNotify("CallStart", ch))
<1>1. a \in AnyStep /\ b \in AnyStep /\ (ch \in Channels => Voice(ch) \in AnyStep)
  BY MessagesTyped, StepsTyped
<1>2. MasterOnDataFunc("CallRequest", g, ch) = <<a, b>> \o When(ch \in Channels, Voice(ch))
  BY DEF MasterOnDataFunc
<1>3. When(ch \in Channels, Voice(ch)) = IF ch \in Channels THEN <<Voice(ch)>> ELSE <<>>
  BY DEF When
<1> HIDE DEF a, b
<1>4. <<a, b>> \o <<>> = <<a, b>>
  BY <1>1, JoinSteps
<1>5. ch \in Channels => <<a, b>> \o <<Voice(ch)>> = <<a, b, Voice(ch)>>
  BY <1>1, JoinSteps
<1> QED
  BY <1>2, <1>3, <1>4, <1>5, Zenon DEF a, b

\* The steps of a request send its answer.
LEMMA HandlerSends ==
    ASSUME NEW r \in AnyRequest, NEW g \in GroupPairs, NEW ch \in CallChannels,
           r.type = "Request", r.name = "Listening" => g = r.groups,
           r.name \in {"CallRequest", "CallRelease"} => ch = r.channel
    PROVE  LET steps == MasterOnDataFunc(r.name, g, ch)
           IN  steps \in Seq(AnyStep) /\ Pending(steps) = Answer(r, g)
<1> DEFINE steps == MasterOnDataFunc(r.name, g, ch)
<1>1. r.name \in Names
  BY RequestFacts
<1>2. /\ r.name = "Connect" => Answer(r, g) = <<ConnectReply>>
      /\ r.name = "Listening" => Answer(r, g) = <<ConfigReply(g)>>
      /\ r.name = "Query" => Answer(r, g) = <<QueryReply(g)>>
      /\ r.name = "CallRequest" =>
            Answer(r, g) = <<CallReply("CallRequest"), CallNotify("CallStart", ch)>>
      /\ r.name = "CallRelease" =>
            Answer(r, g) = <<CallReply("CallRelease"), CallNotify("CallEnd", ch)>>
      /\ r.name = "CallStart" => Answer(r, g) = <<>>
  BY DEF Answer
<1>3. \A m \in AnyMessage : Send(m) \in AnyStep /\ MessagesOf(Send(m)) = <<m>>
  BY StepsTyped, MessagesOfSteps
<1>4. CASE r.name \in {"Connect", "Query"}
  <2>1. PICK m \in {ConnectReply, QueryReply(g)} : steps = <<Send(m)>> /\ Answer(r, g) = <<m>>
    BY <1>2, <1>4 DEF MasterOnDataFunc
  <2>2. m \in AnyMessage
    BY <2>1, MessagesTyped
  <2>3. Pending(<<Send(m)>>) = <<m>>
    BY <1>3, <2>2, PendingOne
  <2>4. <<Send(m)>> \in Seq(AnyStep)
    BY <1>3, <2>2
  <2> QED
    BY <2>1, <2>3, <2>4
<1>5. CASE r.name = "Listening"
  <2> DEFINE m == ConfigReply(g)
  <2>1. Answer(r, g) = <<m>>
    BY <1>2, <1>5
  <2>2. m \in AnyMessage
    BY MessagesTyped
  <2>3. /\ Send(m) \in AnyStep /\ Check(1) \in AnyStep /\ Check(2) \in AnyStep
    BY <2>2, StepsTyped DEF Channels
  <2>4. steps \in {<<Send(m)>>, <<Check(1), Send(m)>>, <<Check(2), Send(m)>>,
                   <<Check(1), Check(2), Send(m)>>}
    BY <1>5, ListeningSteps
  <2> HIDE DEF m
  <2>5. <<>> \o <<m>> = <<m>> /\ <<>> \o <<>> = <<>>
    BY <2>2, JoinTuples
  <2>6. /\ Pending(<<Send(m)>>) = <<m>>
        /\ Pending(<<Check(1), Send(m)>>) = <<m>>
        /\ Pending(<<Check(2), Send(m)>>) = <<m>>
        /\ Pending(<<Check(1), Check(2), Send(m)>>) = <<m>>
    <3>1. MessagesOf(Send(m)) = <<m>> /\ MessagesOf(Check(1)) = <<>> /\ MessagesOf(Check(2)) = <<>>
      BY MessagesOfSteps
    <3> DEFINE z == Send(m)
               x == Check(1)
               y == Check(2)
    <3> HIDE DEF x, y, z
    <3>2. z \in AnyStep /\ x \in AnyStep /\ y \in AnyStep
      BY <2>3 DEF x, y, z
    <3>3. /\ Pending(<<z>>) = MessagesOf(z)
          /\ Pending(<<x, z>>) = MessagesOf(x) \o MessagesOf(z)
          /\ Pending(<<y, z>>) = MessagesOf(y) \o MessagesOf(z)
          /\ Pending(<<x, y, z>>) = (MessagesOf(x) \o MessagesOf(y)) \o MessagesOf(z)
      BY <3>2, PendingOne, PendingTwo, PendingThree
    <3>4. MessagesOf(z) = <<m>> /\ MessagesOf(x) = <<>> /\ MessagesOf(y) = <<>>
      BY <3>1 DEF x, y, z
    <3>5. /\ Pending(<<z>>) = <<m>> /\ Pending(<<x, z>>) = <<m>>
          /\ Pending(<<y, z>>) = <<m>> /\ Pending(<<x, y, z>>) = <<m>>
      BY <2>5, <3>3, <3>4, Zenon
    <3> QED
      BY <3>5 DEF x, y, z
  <2> HIDE DEF steps
  <2>7. steps \in Seq(AnyStep)
    <3>1. /\ <<Send(m)>> \in Seq(AnyStep) /\ <<Check(1), Send(m)>> \in Seq(AnyStep)
          /\ <<Check(2), Send(m)>> \in Seq(AnyStep)
          /\ <<Check(1), Check(2), Send(m)>> \in Seq(AnyStep)
      BY <2>3, JoinSteps, Zenon
    <3> QED
      BY <2>4, <3>1, Zenon
  <2> QED
    BY <2>1, <2>4, <2>6, <2>7 DEF steps
<1>6. CASE r.name \in {"CallRequest", "CallRelease"}
  <2>1. PICK x \in {"CallStart", "CallEnd"} :
           Answer(r, g) = <<CallReply(r.name), CallNotify(x, r.channel)>>
             /\ steps \in {<<Send(CallReply(r.name)), Send(CallNotify(x, ch))>>}
                   \cup {<<Send(CallReply(r.name)), Send(CallNotify(x, ch)), Voice(k)>> :
                            k \in {ch} \cap Channels}
    <3>1. CASE r.name = "CallRequest"
      <4>1. \/ steps = <<Send(CallReply("CallRequest")), Send(CallNotify("CallStart", ch))>>
            \/ /\ ch \in Channels
               /\ steps = <<Send(CallReply("CallRequest")), Send(CallNotify("CallStart", ch)), Voice(ch)>>
        BY <3>1, CallSteps
      <4> QED
        BY <1>2, <3>1, <4>1
    <3>2. CASE r.name = "CallRelease"
      <4>1. steps = <<Send(CallReply("CallRelease")), Send(CallNotify("CallEnd", ch))>>
        BY <3>2 DEF MasterOnDataFunc
      <4> QED
        BY <1>2, <3>2, <4>1
    <3> QED
      BY <1>6, <3>1, <3>2
  <2> DEFINE a == CallReply(r.name)
             b == CallNotify(x, ch)
  <2>2. a \in AnyMessage /\ b \in AnyMessage
    BY <1>6, <2>1, MessagesTyped
  <2>3. Answer(r, g) = <<a, b>>
    BY <1>6, <2>1
  <2>4. \/ steps = <<Send(a), Send(b)>>
        \/ ch \in Channels /\ steps = <<Send(a), Send(b), Voice(ch)>>
    BY <2>1
  <2> HIDE DEF a, b, steps
  <2>5. /\ Send(a) \in AnyStep /\ MessagesOf(Send(a)) = <<a>>
        /\ Send(b) \in AnyStep /\ MessagesOf(Send(b)) = <<b>>
    BY <1>3, <2>2
  <2>6. ch \in Channels => Voice(ch) \in AnyStep /\ MessagesOf(Voice(ch)) = <<>>
    BY StepsTyped, MessagesOfSteps
  <2>7. <<a>> \o <<b>> = <<a, b>> /\ <<a, b>> \o <<>> = <<a, b>>
    BY <2>2, JoinPair
  <2>8. /\ Pending(<<Send(a), Send(b)>>) = <<a, b>>
        /\ ch \in Channels => Pending(<<Send(a), Send(b), Voice(ch)>>) = <<a, b>>
    <3> DEFINE x1 == Send(a)
               x2 == Send(b)
               x3 == Voice(ch)
    <3> HIDE DEF x1, x2, x3
    <3>1. /\ x1 \in AnyStep /\ x2 \in AnyStep /\ (ch \in Channels => x3 \in AnyStep)
          /\ MessagesOf(x1) = <<a>> /\ MessagesOf(x2) = <<b>>
          /\ ch \in Channels => MessagesOf(x3) = <<>>
      BY <2>5, <2>6 DEF x1, x2, x3
    <3>2. Pending(<<x1, x2>>) = MessagesOf(x1) \o MessagesOf(x2)
      BY <3>1, PendingTwo
    <3>3. ch \in Channels =>
             Pending(<<x1, x2, x3>>) = (MessagesOf(x1) \o MessagesOf(x2)) \o MessagesOf(x3)
      BY <3>1, PendingThree
    <3>4. /\ Pending(<<x1, x2>>) = <<a, b>>
          /\ ch \in Channels => Pending(<<x1, x2, x3>>) = <<a, b>>
      BY <2>7, <3>1, <3>2, <3>3, Zenon
    <3> QED
      BY <3>4 DEF x1, x2, x3
  <2>9. steps \in Seq(AnyStep)
    BY <2>4, <2>5, <2>6, JoinSteps
  <2> QED
    BY <2>3, <2>4, <2>8, <2>9 DEF steps
<1>7. CASE r.name = "CallStart"
  <2>1. steps = <<>>
    BY <1>7 DEF MasterOnDataFunc
  <2> QED
    BY <1>2, <1>7, <2>1, PendingEmpty, EmptySeq
<1> QED
  BY <1>1, <1>4, <1>5, <1>6, <1>7 DEF Names

-----------------------------------------------------------------------------
\* Int16s changes nothing, so that a request is handled with the groups noted.
LEMMA TakenSteps ==
    ASSUME TypeInv, NEW c \in Clients, NEW r \in Sends[c],
           groups' = [groups EXCEPT ![c] = NotedGroups(c, r)],
           channel' = [channel EXCEPT ![c] = NotedChannel(c, r)]
    PROVE  /\ r \in AnyRequest
           /\ groups'[c] = (IF r.name = "Listening" THEN r.groups ELSE groups[c])
           /\ groups'[c] \in GroupPairs /\ groups' \in [Clients -> GroupPairs]
           /\ Int16s(groups'[c]) = groups'[c]
           /\ r.name \in {"CallRequest", "CallRelease"} => channel'[c] = r.channel
           /\ channel'[c] \in CallChannels /\ channel' \in [Clients -> CallChannels]
<1>1. r \in AnyRequest
  BY ServerAssumption
<1>2. r.groups \in GroupPairs /\ r.channel \in CallChannels
  BY <1>1, RequestFacts
<1>3. NotedGroups(c, r) \in GroupPairs /\ NotedChannel(c, r) \in CallChannels
  BY <1>2 DEF NotedGroups, NotedChannel, TypeInv
<1>4. groups'[c] = NotedGroups(c, r) /\ channel'[c] = NotedChannel(c, r)
  BY DEF TypeInv
<1>5. groups' \in [Clients -> GroupPairs] /\ channel' \in [Clients -> CallChannels]
  BY <1>3 DEF TypeInv
<1>6. Int16s(groups'[c]) = groups'[c]
  BY <1>3, <1>4, IdsKept
<1> QED
  BY <1>1, <1>3, <1>4, <1>5, <1>6 DEF NotedGroups, NotedChannel

\* What any request leads to is a sequence of steps.
LEMMA HandlerType ==
    ASSUME NEW name \in Names, NEW g \in GroupPairs, NEW ch \in CallChannels
    PROVE  MasterOnDataFunc(name, g, ch) \in Seq(AnyStep)
<1>1. CASE name = "Listening"
  <2> DEFINE s == Send(ConfigReply(g))
  <2>1. s \in AnyStep /\ Check(1) \in AnyStep /\ Check(2) \in AnyStep
    BY MessagesTyped, StepsTyped DEF Channels
  <2>2. MasterOnDataFunc(name, g, ch) \in
           {<<s>>, <<Check(1), s>>, <<Check(2), s>>, <<Check(1), Check(2), s>>}
    BY <1>1, ListeningSteps
  <2> HIDE DEF s
  <2> QED
    BY <2>1, <2>2, JoinSteps, ZenonT(60)
<1>2. CASE name = "CallRequest"
  <2> DEFINE a == Send(CallReply("CallRequest"))
             b == Send(CallNotify("CallStart", ch))
  <2>1. a \in AnyStep /\ b \in AnyStep /\ (ch \in Channels => Voice(ch) \in AnyStep)
    BY MessagesTyped, StepsTyped
  <2>2. \/ MasterOnDataFunc(name, g, ch) = <<a, b>>
        \/ ch \in Channels /\ MasterOnDataFunc(name, g, ch) = <<a, b, Voice(ch)>>
    BY <1>2, CallSteps
  <2> HIDE DEF a, b
  <2> QED
    BY <2>1, <2>2, JoinSteps
<1>3. CASE name = "CallRelease"
  <2> DEFINE a == Send(CallReply("CallRelease"))
             b == Send(CallNotify("CallEnd", ch))
  <2>1. a \in AnyStep /\ b \in AnyStep
    BY MessagesTyped, StepsTyped
  <2>2. MasterOnDataFunc(name, g, ch) = <<a, b>>
    BY <1>3 DEF MasterOnDataFunc
  <2> HIDE DEF a, b
  <2> QED
    BY <2>1, <2>2, JoinSteps
<1>4. CASE name \in {"Connect", "Query"}
  <2>1. PICK m \in {ConnectReply, QueryReply(g)} : MasterOnDataFunc(name, g, ch) = <<Send(m)>>
    BY <1>4 DEF MasterOnDataFunc
  <2>2. m \in AnyMessage
    BY <2>1, MessagesTyped
  <2>3. Send(m) \in AnyStep
    BY <2>2, StepsTyped
  <2> QED
    BY <2>1, <2>3, JoinSteps
<1>5. CASE name = "CallStart"
  <2>1. MasterOnDataFunc(name, g, ch) = <<>>
    BY <1>5 DEF MasterOnDataFunc
  <2> QED
    BY <2>1, EmptySeq
<1> QED
  BY <1>1, <1>2, <1>3, <1>4, <1>5 DEF Names

\* The first step is taken and others may be put in its place.
LEMMA PerformFacts ==
    ASSUME TypeInv, NEW c \in Clients, NEW op, NEW steps \in Seq(AnyStep), Perform(c, op, steps)
    PROVE  /\ todo[c] # <<>> /\ Head(todo[c]) \in AnyStep /\ Tail(todo[c]) \in Seq(AnyStep)
           /\ Head(todo[c]).op = op
           /\ todo'[c] = steps \o Tail(todo[c])
           /\ \A d \in Clients : d # c => todo'[d] = todo[d]
           /\ todo' \in [Clients -> Seq(AnyStep)]
<1>1. todo \in [Clients -> Seq(AnyStep)] /\ todo[c] \in Seq(AnyStep) /\ todo[c] # <<>>
  BY DEF TypeInv, Perform
<1>2. Head(todo[c]) \in AnyStep /\ Tail(todo[c]) \in Seq(AnyStep)
  BY <1>1, HeadTailProperties
<1>3. steps \o Tail(todo[c]) \in Seq(AnyStep)
  BY <1>2, ConcatProperties
<1>4. todo' = [todo EXCEPT ![c] = steps \o Tail(todo[c])] /\ Head(todo[c]).op = op
  BY DEF Perform
<1> QED
  BY <1>1, <1>2, <1>3, <1>4

LEMMA SubjectFacts ==
    ASSUME TypeInv, NEW c \in Clients, todo[c] # <<>>, Head(todo[c]).op # "send"
    PROVE  Subject(c) \in Channels
<1>1. Head(todo[c]) \in AnyStep
  BY HeadTailProperties DEF TypeInv
<1> QED
  BY <1>1, StepFacts DEF Subject

\* Some bytes of the first frame are sent.
LEMMA SendFacts ==
    ASSUME TypeInv, NEW c \in Clients, SendSome(c)
    PROVE  LET m == Head(todo[c]).message
           IN  \E n \in 1 .. FrameLen - count[c] :
                  /\ todo[c] # <<>> /\ Head(todo[c]).op = "send" /\ connected[c]
                  /\ m \in AnyMessage /\ Tail(todo[c]) \in Seq(AnyStep)
                  /\ Bytes(m, count[c] + 1, count[c] + n) \in Seq(AnyByte)
                  /\ stream' = [stream EXCEPT ![c] =
                                   stream[c] \o Bytes(m, count[c] + 1, count[c] + n)]
                  /\ stream' \in [Clients -> Seq(AnyByte)]
                  /\ count' = [count EXCEPT ![c] =
                                  IF count[c] + n = FrameLen THEN 0 ELSE count[c] + n]
                  /\ count' \in [Clients -> 0 .. FrameLen - 1]
                  /\ todo' = [todo EXCEPT ![c] =
                                 IF count[c] + n = FrameLen THEN Tail(todo[c]) ELSE todo[c]]
                  /\ todo' \in [Clients -> Seq(AnyStep)]
<1> DEFINE m == Head(todo[c]).message
<1>1. PICK n \in 1 .. FrameLen - count[c] :
         /\ stream' = [stream EXCEPT ![c] =
                          stream[c] \o Bytes(m, count[c] + 1, count[c] + n)]
         /\ count' = [count EXCEPT ![c] =
                         IF count[c] + n = FrameLen THEN 0 ELSE count[c] + n]
         /\ todo' = [todo EXCEPT ![c] =
                        IF count[c] + n = FrameLen THEN Tail(todo[c]) ELSE todo[c]]
  BY DEF SendSome
<1>2. todo[c] # <<>> /\ Head(todo[c]).op = "send" /\ connected[c]
  BY DEF SendSome
<1>3. todo[c] \in Seq(AnyStep) /\ count[c] \in 0 .. FrameLen - 1 /\ stream[c] \in Seq(AnyByte)
  BY DEF TypeInv
<1>4. Head(todo[c]) \in AnyStep /\ Tail(todo[c]) \in Seq(AnyStep)
  BY <1>2, <1>3, HeadTailProperties
<1>5. m \in AnyMessage
  BY <1>2, <1>4, StepFacts
<1>6. Bytes(m, count[c] + 1, count[c] + n) \in Seq(AnyByte)
  <2>1. /\ count[c] + 1 \in Nat \ {0} /\ count[c] + n \in 0 .. FrameLen
        /\ count[c] + 1 <= (count[c] + n) + 1
    BY <1>3, FrameLenPositive
  <2> QED
    BY <1>5, <2>1, BytesFacts
<1> HIDE DEF m
<1>7. stream[c] \o Bytes(m, count[c] + 1, count[c] + n) \in Seq(AnyByte)
  BY <1>3, <1>6, ConcatProperties
<1>8. stream' \in [Clients -> Seq(AnyByte)]
  BY <1>1, <1>7 DEF TypeInv
<1>9. (IF count[c] + n = FrameLen THEN 0 ELSE count[c] + n) \in 0 .. FrameLen - 1
  BY <1>3, FrameLenPositive
<1>10. count' \in [Clients -> 0 .. FrameLen - 1]
  BY <1>1, <1>9 DEF TypeInv
<1>11. todo' \in [Clients -> Seq(AnyStep)]
  BY <1>1, <1>3, <1>4 DEF TypeInv
<1> QED
  BY <1>1, <1>2, <1>4, <1>5, <1>6, <1>8, <1>10, <1>11 DEF m

LEMMA TypeInit == Init => TypeInv
<1>1. <<>> \in Seq(AnyRequest) /\ <<>> \in Seq(AnyStep) /\ <<>> \in Seq(AnyByte)
  BY EmptySeq
<1>2. NoGroups \in GroupPairs /\ 0 \in CallChannels /\ 0 \in 0 .. FrameLen - 1
  BY FrameLenPositive DEF GroupPairs, CallChannels
<1> QED
  BY <1>1, <1>2 DEF Init, TypeInv

LEMMA TypeStep == TypeInv /\ [Next]_vars => TypeInv'
<1> SUFFICES ASSUME TypeInv, [Next]_vars PROVE TypeInv'
  OBVIOUS
<1>1. ASSUME NEW c \in Clients, Take(c) PROVE TypeInv'
  <2>1. PICK r \in Sends[c] :
           /\ asked' = [asked EXCEPT ![c] = Append(asked[c], r)]
           /\ groups' = [groups EXCEPT ![c] = NotedGroups(c, r)]
           /\ channel' = [channel EXCEPT ![c] = NotedChannel(c, r)]
           /\ todo' = [todo EXCEPT ![c] =
                 IF r.type = "Request"
                 THEN MasterOnDataFunc(r.name, Int16s(groups'[c]), channel'[c])
                 ELSE <<>>]
    BY <1>1 DEF Take
  <2>2. /\ r \in AnyRequest /\ groups' \in [Clients -> GroupPairs]
        /\ channel' \in [Clients -> CallChannels]
        /\ Int16s(groups'[c]) = groups'[c] /\ groups'[c] \in GroupPairs
        /\ channel'[c] \in CallChannels
    BY <2>1, TakenSteps
  <2>3. r.name \in Names
    BY <2>2, RequestFacts
  <2>4. MasterOnDataFunc(r.name, Int16s(groups'[c]), channel'[c]) \in Seq(AnyStep)
    BY <2>2, <2>3, HandlerType
  <2>5. todo' \in [Clients -> Seq(AnyStep)]
    BY <2>1, <2>4, EmptySeq DEF TypeInv
  <2>6. asked' \in [Clients -> Seq(AnyRequest)]
    <3>1. Append(asked[c], r) \in Seq(AnyRequest)
      BY <2>2, AppendProperties DEF TypeInv
    <3> QED
      BY <2>1, <3>1 DEF TypeInv
  <2> QED
    BY <1>1, <2>2, <2>5, <2>6 DEF Take, TypeInv
<1>2. ASSUME NEW c \in Clients, CheckChannel(c) PROVE TypeInv'
  <2> DEFINE steps == IF rtp[Subject(c)] = 0 THEN <<Create(Subject(c)), Bind(Subject(c))>> ELSE <<>>
  <2>1. Subject(c) \in Channels
    BY <1>2, SubjectFacts DEF CheckChannel, Perform
  <2>2. steps \in Seq(AnyStep)
    BY <2>1, StepsTyped, JoinSteps
  <2>3. todo' \in [Clients -> Seq(AnyStep)]
    BY <1>2, <2>2, PerformFacts DEF CheckChannel
  <2> QED
    BY <1>2, <2>3 DEF CheckChannel, TypeInv
<1>3. ASSUME NEW c \in Clients, CreateChannel(c) PROVE TypeInv'
  <2>1. todo' \in [Clients -> Seq(AnyStep)]
    BY <1>3, EmptySeq, PerformFacts DEF CreateChannel
  <2>2. Subject(c) \in Channels
    BY <1>3, SubjectFacts DEF CreateChannel, Perform
  <2>3. rtp' \in [Channels -> Nat] /\ \A k \in Channels : rtp[k] <= rtp'[k]
    BY <1>3, <2>2 DEF CreateChannel, TypeInv
  <2>4. \A k \in Channels : bound'[k] <= rtp'[k]
    BY <1>3, <2>3 DEF CreateChannel, TypeInv
  <2> QED
    BY <1>3, <2>1, <2>3, <2>4 DEF CreateChannel, TypeInv
<1>4. ASSUME NEW c \in Clients, BindChannel(c) PROVE TypeInv'
  <2>1. todo' \in [Clients -> Seq(AnyStep)]
    BY <1>4, EmptySeq, PerformFacts DEF BindChannel
  <2>2. Subject(c) \in Channels
    BY <1>4, SubjectFacts DEF BindChannel, Perform
  <2>3. bound' \in [Channels -> Nat] /\ \A k \in Channels : bound'[k] <= rtp[k]
    BY <1>4, <2>2 DEF BindChannel, TypeInv
  <2> QED
    BY <1>4, <2>1, <2>3 DEF BindChannel, TypeInv
<1>5. ASSUME NEW c \in Clients, SendVoice(c) PROVE TypeInv'
  <2>1. todo' \in [Clients -> Seq(AnyStep)]
    BY <1>5, EmptySeq, PerformFacts DEF SendVoice
  <2> QED
    BY <1>5, <2>1 DEF SendVoice, TypeInv
<1>6. ASSUME NEW c \in Clients, SendSome(c) PROVE TypeInv'
  <2>1. /\ stream' \in [Clients -> Seq(AnyByte)]
        /\ count' \in [Clients -> 0 .. FrameLen - 1]
        /\ todo' \in [Clients -> Seq(AnyStep)]
    BY <1>6, SendFacts
  <2> QED
    BY <1>6, <2>1 DEF SendSome, TypeInv
<1>7. ASSUME NEW c \in Clients, SendFails(c) PROVE TypeInv'
  <2>1. todo' \in [Clients -> Seq(AnyStep)]
    BY <1>7, EmptySeq, PerformFacts DEF SendFails
  <2>2. count' \in [Clients -> 0 .. FrameLen - 1]
    BY <1>7, FrameLenPositive DEF SendFails, TypeInv
  <2> QED
    BY <1>7, <2>1, <2>2 DEF SendFails, TypeInv
<1>8. ASSUME NEW c \in Clients, PeerGone(c) PROVE TypeInv'
  BY <1>8 DEF PeerGone, TypeInv
<1>9. CASE UNCHANGED vars
  BY <1>9 DEF vars, TypeInv
<1> QED
  BY <1>1, <1>2, <1>3, <1>4, <1>5, <1>6, <1>7, <1>8, <1>9 DEF Next, Handle

LEMMA TypeInvImpliesTypeOK == TypeInv => TypeOK
<1> SUFFICES ASSUME TypeInv PROVE TypeOK
  OBVIOUS
<1>1. ASSUME NEW c \in Clients, NEW i \in DOMAIN todo[c]
      PROVE  /\ todo[c][i].op \in {"check", "create", "bind", "send", "voice"}
             /\ todo[c][i].op # "send" => todo[c][i].channel \in Channels
  <2>1. todo[c] \in Seq(AnyStep)
    BY DEF TypeInv
  <2>2. todo[c][i] \in AnyStep
    BY <2>1
  <2> QED
    BY <2>2, StepFacts
<1>2. \A k \in Channels : bound[k] \in 0 .. rtp[k]
  BY DEF TypeInv
<1>3. /\ DOMAIN stream = Clients
      /\ groups \in [Clients -> Groups \X Groups \cup {NoGroups}]
  BY DEF TypeInv, GroupPairs
<1> QED
  BY <1>1, <1>2, <1>3 DEF TypeInv, TypeOK

\* TypeOK holds: the reports of a client are of its own requests and frames,
\* and a port is never bound to a session that does not exist yet.
THEOREM TypeCorrect == Spec => []TypeOK
<1>1. Spec => []TypeInv
  BY TypeInit, TypeStep, PTL DEF Spec
<1> QED
  BY <1>1, TypeInvImpliesTypeOK, PTL

-----------------------------------------------------------------------------
\* Only the reply to a Listening confirms channels, those whose group it has.
LEMMA ConfirmsFacts ==
    /\ \A g : Confirms(ConfigReply(g)) = {k \in Channels : g[k] # 0}
    /\ Confirms(ConnectReply) = {}
    /\ \A g : Confirms(QueryReply(g)) = {}
    /\ \A name \in {"CallRequest", "CallRelease"} : Confirms(CallReply(name)) = {}
    /\ \A name \in {"CallStart", "CallEnd"} : \A ch : Confirms(CallNotify(name, ch)) = {}
<1>1. \A g : ConfigReply(g).name = "Listening" /\ ConfigReply(g).ok = {k \in Channels : g[k] # 0}
  BY DEF ConfigReply, Message
<1>2. ConnectReply.name = "Connect"
  BY DEF ConnectReply, Message
<1>3. \A g : QueryReply(g).name = "Query"
  BY DEF QueryReply, Message
<1>4. \A name : CallReply(name).name = name
  BY DEF CallReply, Message
<1>5. \A name, ch : CallNotify(name, ch).name = name
  BY DEF CallNotify, Message
<1> QED
  BY <1>1, <1>2, <1>3, <1>4, <1>5 DEF Confirms

\* Sessions once created stay.
LEMMA CoveredGrows ==
    ASSUME NEW q, NEW old, NEW new, \A k : k \in Channels /\ old[k] # 0 => new[k] # 0,
           \A i \in 1 .. Len(q) : q[i].op = "send" => Confirms(q[i].message) \subseteq Channels,
           Covered(q, old)
    PROVE  Covered(q, new)
BY DEF Covered

LEMMA ConfirmsChannels ==
    ASSUME NEW m \in AnyMessage
    PROVE  Confirms(m) \subseteq Channels
BY ConfirmsFacts DEF AnyMessage

LEMMA CoveredTail ==
    ASSUME NEW q \in Seq(AnyStep), q # <<>>, NEW sessions, Covered(q, sessions),
           Head(q).op \in {"check", "create"} => sessions[Head(q).channel] # 0
    PROVE  Covered(Tail(q), sessions)
<1> DEFINE t == Tail(q)
<1>1. /\ Len(q) \in Nat \ {0} /\ Len(t) = Len(q) - 1 /\ Head(q) = q[1]
      /\ \A i \in 1 .. Len(t) : t[i] = q[i + 1]
  BY EmptySeq, HeadTailProperties
<1> HIDE DEF t
<1> SUFFICES ASSUME NEW i \in 1 .. Len(t), t[i].op = "send",
                    NEW k \in Confirms(t[i].message), sessions[k] = 0
             PROVE  Prepared(t, i, k)
  BY DEF Covered, t
<1>2. t[i] = q[i + 1] /\ i + 1 \in 1 .. Len(q)
  BY <1>1
<1>3. Prepared(q, i + 1, k)
  BY <1>2 DEF Covered
<1>4. PICK j \in 1 .. (i + 1) - 1 : q[j].op \in {"check", "create"} /\ q[j].channel = k
  BY <1>3 DEF Prepared
<1>5. j # 1
  BY <1>1, <1>4
<1>6. j - 1 \in 1 .. i - 1 /\ (j - 1) + 1 = j /\ j - 1 \in 1 .. Len(t)
  BY <1>1, <1>5
<1>7. t[j - 1] = q[j]
  <2>1. t[j - 1] = q[(j - 1) + 1]
    BY <1>1, <1>6
  <2> QED
    BY <1>6, <2>1
<1> QED
  BY <1>4, <1>6, <1>7 DEF Prepared

LEMMA CoveredCreate ==
    ASSUME NEW q \in Seq(AnyStep), q # <<>>, NEW sessions, Covered(q, sessions),
           NEW k0 \in Channels, Head(q).op = "check", Head(q).channel = k0
    PROVE  Covered(<<Create(k0), Bind(k0)>> \o Tail(q), sessions)
<1> DEFINE p == <<Create(k0), Bind(k0)>>
           t == p \o Tail(q)
<1>1. /\ p \in Seq(AnyStep) /\ Len(p) = 2 /\ p[1] = Create(k0) /\ p[2] = Bind(k0)
  BY StepsTyped, JoinSteps
<1>2. /\ Len(q) \in Nat \ {0} /\ Tail(q) \in Seq(AnyStep) /\ Len(Tail(q)) = Len(q) - 1
      /\ Head(q) = q[1]
      /\ \A i \in 1 .. Len(Tail(q)) : Tail(q)[i] = q[i + 1]
  BY EmptySeq, HeadTailProperties
<1> HIDE DEF p
<1>3. /\ Len(t) = Len(q) + 1
      /\ \A i \in 1 .. Len(q) + 1 : t[i] = IF i <= 2 THEN p[i] ELSE Tail(q)[i - 2]
  <2>1. /\ Len(t) = Len(p) + Len(Tail(q))
        /\ \A i \in 1 .. Len(p) + Len(Tail(q)) :
              t[i] = IF i <= Len(p) THEN p[i] ELSE Tail(q)[i - Len(p)]
    <3> DEFINE v == Tail(q)
    <3>1. v \in Seq(AnyStep)
      BY <1>2
    <3> HIDE DEF v
    <3>2. /\ Len(p \o v) = Len(p) + Len(v)
          /\ \A i \in 1 .. Len(p) + Len(v) :
                (p \o v)[i] = IF i <= Len(p) THEN p[i] ELSE v[i - Len(p)]
      BY <1>1, <3>1, ConcatProperties
    <3> QED
      BY <3>2 DEF v
  <2>2. Len(p) + Len(Tail(q)) = Len(q) + 1
    BY <1>1, <1>2
  <2> HIDE DEF t
  <2> QED
    BY <1>1, <2>1, <2>2
<1> HIDE DEF t
<1>4. t[1] = Create(k0) /\ t[2] = Bind(k0)
  BY <1>1, <1>2, <1>3
<1>5. \A i \in 2 .. Len(q) : t[i + 1] = q[i]
  <2> SUFFICES ASSUME NEW i \in 2 .. Len(q) PROVE t[i + 1] = q[i]
    OBVIOUS
  <2>1. t[i + 1] = Tail(q)[i - 1]
    <3>1. t[i + 1] = Tail(q)[(i + 1) - 2] /\ (i + 1) - 2 = i - 1
      BY <1>2, <1>3
    <3> QED
      BY <3>1
  <2>2. Tail(q)[i - 1] = q[i]
    <3>1. i - 1 \in 1 .. Len(Tail(q)) /\ (i - 1) + 1 = i
      BY <1>2
    <3>2. Tail(q)[i - 1] = q[(i - 1) + 1]
      BY <1>2, <3>1
    <3> QED
      BY <3>1, <3>2
  <2> QED
    BY <2>1, <2>2
<1> SUFFICES ASSUME NEW i \in 1 .. Len(t), t[i].op = "send",
                    NEW k \in Confirms(t[i].message), sessions[k] = 0
             PROVE  Prepared(t, i, k)
  BY DEF Covered, t, p
<1>6. i >= 3
  BY <1>2, <1>3, <1>4, StepFields
<1>7. i - 1 \in 2 .. Len(q) /\ (i - 1) + 1 = i
  BY <1>2, <1>3, <1>6
<1>8. t[i] = q[i - 1]
  <2>1. t[(i - 1) + 1] = q[i - 1]
    BY <1>5, <1>7
  <2> QED
    BY <1>7, <2>1
<1>9. Prepared(q, i - 1, k)
  BY <1>7, <1>8 DEF Covered
<1>10. PICK j \in 1 .. (i - 1) - 1 : q[j].op \in {"check", "create"} /\ q[j].channel = k
  BY <1>9 DEF Prepared
<1>11. CASE j = 1
  <2>1. t[1].op = "create" /\ t[1].channel = k
    BY <1>2, <1>4, <1>10, <1>11, StepFields
  <2>2. 1 \in 1 .. i - 1
    BY <1>6
  <2> QED
    BY <2>1, <2>2 DEF Prepared
<1>12. CASE j # 1
  <2>1. j \in 2 .. Len(q) /\ j + 1 \in 1 .. i - 1
    BY <1>2, <1>7, <1>10, <1>12
  <2>2. t[j + 1] = q[j]
    BY <1>5, <2>1
  <2> QED
    BY <1>10, <2>1, <2>2 DEF Prepared
<1> QED
  BY <1>11, <1>12

\* No request leads to a reply that confirms a channel before the step that
\* looks for its session.
LEMMA HandlerCovered ==
    ASSUME NEW name \in Names, NEW g \in GroupPairs, NEW ch \in CallChannels, NEW sessions
    PROVE  Covered(MasterOnDataFunc(name, g, ch), sessions)
<1> DEFINE q == MasterOnDataFunc(name, g, ch)
<1>1. CASE name = "Listening"
  <2> DEFINE s == Send(ConfigReply(g))
  <2>1. /\ s.op = "send" /\ Confirms(s.message) = {k \in Channels : g[k] # 0}
        /\ Check(1).op = "check" /\ Check(1).channel = 1
        /\ Check(2).op = "check" /\ Check(2).channel = 2
        /\ Channels = {1, 2}
    BY StepFields, ConfirmsFacts DEF Channels
  <2>2. \/ g[1] = 0 /\ g[2] = 0 /\ q = <<s>>
        \/ g[1] # 0 /\ g[2] = 0 /\ q = <<Check(1), s>>
        \/ g[1] = 0 /\ g[2] # 0 /\ q = <<Check(2), s>>
        \/ g[1] # 0 /\ g[2] # 0 /\ q = <<Check(1), Check(2), s>>
    BY <1>1, ListeningSteps
  <2> HIDE DEF q, s
  <2>3. CASE g[1] = 0 /\ g[2] = 0 /\ q = <<s>>
    BY <2>1, <2>3 DEF Covered, q
  <2>4. CASE g[1] # 0 /\ g[2] = 0 /\ q = <<Check(1), s>>
    <3>1. Len(q) = 2 /\ q[1] = Check(1) /\ q[2] = s
      BY <2>4
    <3>2. Prepared(q, 2, 1)
      BY <2>1, <3>1 DEF Prepared
    <3> QED
      BY <2>1, <2>4, <3>1, <3>2 DEF Covered, q
  <2>5. CASE g[1] = 0 /\ g[2] # 0 /\ q = <<Check(2), s>>
    <3>1. Len(q) = 2 /\ q[1] = Check(2) /\ q[2] = s
      BY <2>5
    <3>2. Prepared(q, 2, 2)
      BY <2>1, <3>1 DEF Prepared
    <3> QED
      BY <2>1, <2>5, <3>1, <3>2 DEF Covered, q
  <2>6. CASE g[1] # 0 /\ g[2] # 0 /\ q = <<Check(1), Check(2), s>>
    <3>1. Len(q) = 3 /\ q[1] = Check(1) /\ q[2] = Check(2) /\ q[3] = s
      BY <2>6
    <3>2. Prepared(q, 3, 1) /\ Prepared(q, 3, 2)
      BY <2>1, <3>1 DEF Prepared
    <3> QED
      BY <2>1, <2>6, <3>1, <3>2 DEF Covered, q
  <2> QED
    BY <2>2, <2>3, <2>4, <2>5, <2>6
<1>2. CASE name # "Listening"
  <2>1. ASSUME NEW i \in 1 .. Len(q), q[i].op = "send" PROVE Confirms(q[i].message) = {}
    <3> DEFINE Silent == {ConnectReply, QueryReply(g), CallReply("CallRequest"), CallReply("CallRelease"),
                          CallNotify("CallStart", ch), CallNotify("CallEnd", ch)}
    <3>1. \A m \in Silent : Confirms(m) = {}
      BY ConfirmsFacts
    <3>2. q[i] \in {Send(m) : m \in Silent} \cup {Voice(ch)}
      <4>1. CASE name = "CallRequest"
        <5>1. \/ q = <<Send(CallReply("CallRequest")), Send(CallNotify("CallStart", ch))>>
              \/ q = <<Send(CallReply("CallRequest")), Send(CallNotify("CallStart", ch)), Voice(ch)>>
          BY <4>1, CallSteps
        <5> HIDE DEF q
        <5> QED
          BY <5>1
      <4>2. CASE name # "CallRequest"
        <5>1. q \in {<<Send(ConnectReply)>>, <<Send(QueryReply(g))>>,
                     <<Send(CallReply("CallRelease")), Send(CallNotify("CallEnd", ch))>>, <<>>}
          BY <1>2, <4>2 DEF MasterOnDataFunc, Names
        <5> HIDE DEF q
        <5> QED
          BY <5>1
      <4> QED
        BY <4>1, <4>2
    <3>3. Voice(ch).op # "send" /\ \A m : Send(m).message = m
      BY StepFields
    <3> HIDE DEF q, Silent
    <3> QED
      BY <2>1, <3>1, <3>2, <3>3
  <2> QED
    BY <2>1 DEF Covered
<1> QED
  BY <1>1, <1>2

LEMMA ChannelInit == Init => ChannelInv
BY EmptySeq DEF Init, ChannelInv, StreamConfirmed, Covered

\* What is sent, and what is still to do, stays covered when sessions are added.
LEMMA ChannelKept ==
    ASSUME TypeInv, ChannelInv, \A k \in Channels : rtp[k] # 0 => rtp'[k] # 0
    PROVE  \A c \in Clients :
              /\ Covered(todo[c], rtp')
              /\ \A i \in 1 .. Len(stream[c]) : \A k \in Confirms(stream[c][i][1]) : rtp'[k] # 0
<1> SUFFICES ASSUME NEW c \in Clients
             PROVE  /\ Covered(todo[c], rtp')
                    /\ \A i \in 1 .. Len(stream[c]) :
                          \A k \in Confirms(stream[c][i][1]) : rtp'[k] # 0
  OBVIOUS
<1>1. todo[c] \in Seq(AnyStep) /\ stream[c] \in Seq(AnyByte)
  BY DEF TypeInv
<1>2. \A i \in 1 .. Len(todo[c]) :
         todo[c][i].op = "send" => Confirms(todo[c][i].message) \subseteq Channels
  <2> SUFFICES ASSUME NEW i \in 1 .. Len(todo[c]), todo[c][i].op = "send"
               PROVE  Confirms(todo[c][i].message) \subseteq Channels
    OBVIOUS
  <2>1. todo[c][i] \in AnyStep
    BY <1>1
  <2>2. todo[c][i].message \in AnyMessage
    BY <2>1, StepFacts
  <2> QED
    BY <2>2, ConfirmsChannels
<1>3. Covered(todo[c], rtp')
  BY <1>2, CoveredGrows DEF ChannelInv
<1>4. ASSUME NEW i \in 1 .. Len(stream[c]), NEW k \in Confirms(stream[c][i][1])
      PROVE  rtp'[k] # 0
  <2>1. stream[c][i] \in AnyByte
    BY <1>1
  <2>2. stream[c][i][1] \in AnyMessage
    BY <2>1 DEF AnyByte
  <2>3. k \in Channels
    BY <2>2, ConfirmsChannels
  <2> QED
    BY <2>3 DEF ChannelInv, StreamConfirmed
<1> QED
  BY <1>3, <1>4

\* A step after which the client's next is any and its stream the same.
LEMMA ChannelTodoStep ==
    ASSUME TypeInv, ChannelInv, \A k \in Channels : rtp[k] # 0 => rtp'[k] # 0,
           NEW c \in Clients, Covered(todo'[c], rtp'),
           \A d \in Clients : d # c => todo'[d] = todo[d], stream' = stream
    PROVE  ChannelInv'
BY ChannelKept DEF ChannelInv, StreamConfirmed

LEMMA ChannelStep == TypeInv /\ ChannelInv /\ [Next]_vars => ChannelInv'
<1> SUFFICES ASSUME TypeInv, ChannelInv, [Next]_vars PROVE ChannelInv'
  OBVIOUS
<1>1. ASSUME NEW c \in Clients, Take(c) PROVE ChannelInv'
  <2>1. PICK r \in Sends[c] :
           /\ asked' = [asked EXCEPT ![c] = Append(asked[c], r)]
           /\ groups' = [groups EXCEPT ![c] = NotedGroups(c, r)]
           /\ channel' = [channel EXCEPT ![c] = NotedChannel(c, r)]
           /\ todo' = [todo EXCEPT ![c] =
                 IF r.type = "Request"
                 THEN MasterOnDataFunc(r.name, Int16s(groups'[c]), channel'[c])
                 ELSE <<>>]
    BY <1>1 DEF Take
  <2>2. /\ r \in AnyRequest
        /\ Int16s(groups'[c]) = groups'[c] /\ groups'[c] \in GroupPairs
        /\ channel'[c] \in CallChannels
    BY <2>1, TakenSteps
  <2>3. r.name \in Names
    BY <2>2, RequestFacts
  <2>4. Covered(MasterOnDataFunc(r.name, Int16s(groups'[c]), channel'[c]), rtp')
    BY <2>2, <2>3, HandlerCovered
  <2>5. Covered(<<>>, rtp')
    BY EmptySeq DEF Covered
  <2>6. Covered(todo'[c], rtp') /\ \A d \in Clients : d # c => todo'[d] = todo[d]
    BY <2>1, <2>4, <2>5 DEF TypeInv
  <2> QED
    BY <1>1, <2>6, ChannelTodoStep DEF Take
<1>2. ASSUME NEW c \in Clients, CheckChannel(c) PROVE ChannelInv'
  <2> DEFINE k == Subject(c)
             steps == IF rtp[k] = 0 THEN <<Create(k), Bind(k)>> ELSE <<>>
  <2>1. k \in Channels /\ k = Head(todo[c]).channel
    BY <1>2, SubjectFacts DEF CheckChannel, Perform, Subject
  <2>2. steps \in Seq(AnyStep)
    BY <2>1, StepsTyped, JoinSteps
  <2>3. /\ todo[c] # <<>> /\ Tail(todo[c]) \in Seq(AnyStep) /\ Head(todo[c]).op = "check"
        /\ todo'[c] = steps \o Tail(todo[c])
        /\ \A d \in Clients : d # c => todo'[d] = todo[d]
    BY <1>2, <2>2, PerformFacts DEF CheckChannel
  <2>4. todo[c] \in Seq(AnyStep) /\ Covered(todo[c], rtp)
    BY DEF TypeInv, ChannelInv
  <2>5. Covered(todo'[c], rtp)
    <3>1. CASE rtp[k] = 0
      BY <2>1, <2>3, <2>4, <3>1, CoveredCreate
    <3>2. CASE rtp[k] # 0
      <4>1. todo'[c] = Tail(todo[c])
        BY <2>3, <3>2, ConcatEmptySeq
      <4>2. Covered(Tail(todo[c]), rtp)
        BY <2>1, <2>3, <2>4, <3>2, CoveredTail
      <4> QED
        BY <4>1, <4>2
    <3> QED
      BY <3>1, <3>2
  <2> QED
    BY <1>2, <2>3, <2>5, ChannelTodoStep DEF CheckChannel
<1>3. ASSUME NEW c \in Clients, CreateChannel(c) PROVE ChannelInv'
  <2>1. /\ todo[c] # <<>> /\ Head(todo[c]).op = "create" /\ Tail(todo[c]) \in Seq(AnyStep)
        /\ todo'[c] = <<>> \o Tail(todo[c])
        /\ \A d \in Clients : d # c => todo'[d] = todo[d]
    BY <1>3, EmptySeq, PerformFacts DEF CreateChannel
  <2>2. Subject(c) \in Channels /\ Subject(c) = Head(todo[c]).channel
    BY <2>1, SubjectFacts DEF Subject
  <2>3. /\ rtp'[Subject(c)] # 0
        /\ \A k \in Channels : rtp[k] # 0 => rtp'[k] # 0
    BY <1>3, <2>2 DEF CreateChannel, TypeInv
  <2>4. todo[c] \in Seq(AnyStep) /\ Covered(todo[c], rtp')
    BY <2>3, ChannelKept DEF TypeInv
  <2>5. Covered(Tail(todo[c]), rtp')
    BY <2>1, <2>2, <2>3, <2>4, CoveredTail
  <2>6. Covered(todo'[c], rtp')
    BY <2>1, <2>5, ConcatEmptySeq
  <2> QED
    BY <1>3, <2>1, <2>3, <2>6, ChannelTodoStep DEF CreateChannel
<1>4. ASSUME NEW c \in Clients, NEW op \in {"bind", "voice", "send"}, Perform(c, op, <<>>),
             stream' = stream, rtp' = rtp
      PROVE  ChannelInv'
  <2>1. /\ todo[c] # <<>> /\ Head(todo[c]).op = op /\ Tail(todo[c]) \in Seq(AnyStep)
        /\ todo'[c] = <<>> \o Tail(todo[c])
        /\ \A d \in Clients : d # c => todo'[d] = todo[d]
    BY <1>4, EmptySeq, PerformFacts
  <2>2. todo[c] \in Seq(AnyStep) /\ Covered(todo[c], rtp)
    BY DEF TypeInv, ChannelInv
  <2>3. Covered(Tail(todo[c]), rtp)
    BY <2>1, <2>2, CoveredTail
  <2>4. Covered(todo'[c], rtp')
    BY <1>4, <2>1, <2>3, ConcatEmptySeq
  <2> QED
    BY <1>4, <2>1, <2>4, ChannelTodoStep
<1>5. ASSUME NEW c \in Clients, SendSome(c) PROVE ChannelInv'
  <2> DEFINE m == Head(todo[c]).message
  <2>1. PICK n \in 1 .. FrameLen - count[c] :
           /\ todo[c] # <<>> /\ Head(todo[c]).op = "send" /\ m \in AnyMessage
           /\ Bytes(m, count[c] + 1, count[c] + n) \in Seq(AnyByte)
           /\ stream' = [stream EXCEPT ![c] =
                            stream[c] \o Bytes(m, count[c] + 1, count[c] + n)]
           /\ todo' = [todo EXCEPT ![c] =
                          IF count[c] + n = FrameLen THEN Tail(todo[c]) ELSE todo[c]]
    BY <1>5, SendFacts
  <2>2. /\ todo[c] \in Seq(AnyStep) /\ stream[c] \in Seq(AnyByte)
        /\ count[c] \in 0 .. FrameLen - 1
        /\ Covered(todo[c], rtp) /\ StreamConfirmed(c)
    BY DEF TypeInv, ChannelInv
  <2>3. rtp' = rtp
    BY <1>5 DEF SendSome
  <2>4. \A k \in Confirms(m) : rtp[k] # 0
    <3>1. 1 \in 1 .. Len(todo[c]) /\ todo[c][1] = Head(todo[c])
      BY <2>1, <2>2, EmptySeq, HeadTailProperties
    <3>2. \A k : ~ Prepared(todo[c], 1, k)
      BY DEF Prepared
    <3> QED
      BY <2>1, <2>2, <3>1, <3>2 DEF Covered
  <2>5. Covered(Tail(todo[c]), rtp)
    BY <2>1, <2>2, CoveredTail
  <2>6. Covered(todo'[c], rtp)
    BY <2>1, <2>2, <2>5 DEF TypeInv
  <2>7. StreamConfirmed(c)'
    <3> DEFINE new == Bytes(m, count[c] + 1, count[c] + n)
    <3>1. \A i \in 1 .. Len(new) : new[i][1] = m
      <4>1. /\ count[c] + 1 \in Nat \ {0} /\ count[c] + n \in 0 .. FrameLen
            /\ count[c] + 1 <= (count[c] + n) + 1
        BY <2>2, FrameLenPositive
      <4>2. /\ Len(new) = (count[c] + n) - (count[c] + 1) + 1
            /\ \A i \in 1 .. (count[c] + n) - (count[c] + 1) + 1 :
                  new[i] = <<m, (count[c] + 1) + i - 1>>
        <5> HIDE DEF m
        <5> QED
          BY <2>1, <4>1, BytesFacts
      <4> HIDE DEF new, m
      <4> QED
        BY <4>2
    <3>2. new \in Seq(AnyByte) /\ stream'[c] = stream[c] \o new
      BY <2>1 DEF TypeInv
    <3> HIDE DEF new, m
    <3>3. \A i \in 1 .. Len(stream'[c]) : 
             \/ i \in 1 .. Len(stream[c]) /\ stream'[c][i] = stream[c][i]
             \/ i - Len(stream[c]) \in 1 .. Len(new)
                 /\ stream'[c][i] = new[i - Len(stream[c])]
      BY <2>2, <3>2, LenProperties, ConcatProperties
    <3> QED
      BY <2>2, <2>3, <2>4, <3>1, <3>3 DEF StreamConfirmed
  <2>8. \A d \in Clients : d # c => todo'[d] = todo[d] /\ stream'[d] = stream[d]
    BY <2>1 DEF TypeInv
  <2> QED
    BY <2>3, <2>6, <2>7, <2>8 DEF ChannelInv, StreamConfirmed
<1>6. CASE UNCHANGED vars
  BY <1>6 DEF vars, ChannelInv, StreamConfirmed
<1>7. ASSUME NEW c \in Clients, BindChannel(c) \/ SendVoice(c) \/ SendFails(c) PROVE ChannelInv'
  BY <1>4, <1>7 DEF BindChannel, SendVoice, SendFails
<1>8. ASSUME NEW c \in Clients, PeerGone(c) PROVE ChannelInv'
  BY <1>8 DEF PeerGone, ChannelInv, StreamConfirmed
<1> QED
  BY <1>1, <1>2, <1>3, <1>5, <1>6, <1>7, <1>8 DEF Next, Handle

\* ConfirmedChannelExists holds: whichever thread created the session, it
\* was there before the last byte of a reply that confirms its channel.
THEOREM ConfirmedChannelAlwaysExists == Spec => []ConfirmedChannelExists
<1>1. Init => TypeInv /\ ChannelInv
  BY TypeInit, ChannelInit
<1>2. TypeInv /\ ChannelInv /\ [Next]_vars => (TypeInv /\ ChannelInv)'
  BY TypeStep, ChannelStep
<1>3. TypeInv /\ ChannelInv => ConfirmedChannelExists
  <2> SUFFICES ASSUME TypeInv, ChannelInv, NEW c \in Clients, NEW i \in DOMAIN stream[c],
                      stream[c][i][1].name = "Listening", NEW k \in stream[c][i][1].ok
               PROVE  rtp[k] # 0
    BY DEF ConfirmedChannelExists
  <2>1. stream[c] \in Seq(AnyByte) /\ StreamConfirmed(c)
    BY DEF TypeInv, ChannelInv
  <2>2. i \in 1 .. Len(stream[c]) /\ k \in Confirms(stream[c][i][1])
    BY <2>1 DEF Confirms
  <2> QED
    BY <2>1, <2>2 DEF StreamConfirmed
<1> QED
  BY <1>1, <1>2, <1>3, PTL DEF Spec

-----------------------------------------------------------------------------
\* The first of the steps to do, and those behind it.
LEMMA PendingFirst ==
    ASSUME NEW q \in Seq(AnyStep), q # <<>>
    PROVE  Pending(q) = MessagesOf(Head(q)) \o Pending(Tail(q))
<1>1. /\ Head(q) \in AnyStep /\ Tail(q) \in Seq(AnyStep)
      /\ Len(q) \in Nat \ {0} /\ Len(Tail(q)) = Len(q) - 1 /\ Head(q) = q[1]
      /\ \A i \in 1 .. Len(Tail(q)) : Tail(q)[i] = q[i + 1]
  BY EmptySeq, HeadTailProperties
<1> DEFINE h == <<Head(q)>>
           t == Tail(q)
<1>2. h \in Seq(AnyStep) /\ Len(h) = 1 /\ h[1] = Head(q)
  BY <1>1
<1>3. t \in Seq(AnyStep) /\ Len(q) = Len(h) + Len(t)
  BY <1>1, <1>2
<1>4. \A i \in 1 .. Len(h) : q[i] = h[i]
  BY <1>1, <1>2
<1>5. \A i \in 1 .. Len(t) : q[Len(h) + i] = t[i]
  <2> SUFFICES ASSUME NEW i \in 1 .. Len(t) PROVE q[Len(h) + i] = t[i]
    OBVIOUS
  <2>1. Len(h) + i = i + 1
    BY <1>2
  <2> QED
    BY <1>1, <2>1, Zenon
<1> HIDE DEF h, t
<1>6. q = h \o t
  BY <1>2, <1>3, <1>4, <1>5, ConcatByElements
<1>7. Pending(q) = Pending(h) \o Pending(t)
  BY <1>2, <1>3, <1>6, PendingConcat
<1> QED
  BY <1>1, <1>7, PendingOne DEF h, t

LEMMA MessageOfSend ==
    ASSUME NEW q \in Seq(AnyStep), q # <<>>
    PROVE  /\ Head(q).op = "send" => Pending(q) = <<Head(q).message>> \o Pending(Tail(q))
           /\ Head(q).op # "send" => Pending(q) = Pending(Tail(q))
<1>1. Tail(q) \in Seq(AnyStep)
  BY HeadTailProperties
<1>2. Pending(Tail(q)) \in Seq(AnyMessage)
  BY <1>1, PendingSeq
<1>3. Pending(q) = MessagesOf(Head(q)) \o Pending(Tail(q))
  BY PendingFirst
<1>4. <<>> \o Pending(Tail(q)) = Pending(Tail(q))
  BY <1>2, ConcatEmptySeq
<1> QED
  BY <1>3, <1>4, Zenon DEF MessagesOf, When

\* The frames of what is done and a part of the next are a beginning of all.
LEMMA SentPrefix ==
    ASSUME NEW done \in Seq(AnyMessage), NEW m \in AnyMessage, NEW rest \in Seq(AnyMessage),
           NEW n \in 0 .. FrameLen
    PROVE  IsPrefix(Framed(done) \o Bytes(m, 1, n), Framed(done \o (<<m>> \o rest)))
<1> DEFINE a == Framed(done)
           b == Bytes(m, 1, n)
           d == Bytes(m, n + 1, FrameLen)
           e == Framed(rest)
<1>1. a \in Seq(AnyByte) /\ e \in Seq(AnyByte)
  BY FramedSeq
<1>2. b \in Seq(AnyByte)
  BY BeginningFacts
<1>3. d \in Seq(AnyByte)
  <2>1. n + 1 \in Nat \ {0} /\ FrameLen \in 0 .. FrameLen /\ n + 1 <= FrameLen + 1
    BY FrameLenPositive
  <2> QED
    BY <2>1, BytesFacts
<1>4. Bytes(m, 1, FrameLen) = b \o d
  <2>1. FrameLen \in n .. FrameLen
    BY FrameLenPositive
  <2> QED
    BY <2>1, BytesSplit
<1>5. <<m>> \in Seq(AnyMessage)
  OBVIOUS
<1>6. <<m>> \o rest \in Seq(AnyMessage)
  BY <1>5, ConcatProperties
<1>7. Framed(done \o (<<m>> \o rest)) = a \o ((b \o d) \o e)
  <2>1. Framed(done \o (<<m>> \o rest)) = Framed(done) \o Framed(<<m>> \o rest)
    BY <1>6, FramedConcat
  <2>2. Framed(<<m>> \o rest) = Framed(<<m>>) \o Framed(rest)
    BY <1>5, FramedConcat
  <2>3. Framed(<<m>>) = Bytes(m, 1, FrameLen)
    BY FramedOne
  <2> QED
    BY <1>4, <2>1, <2>2, <2>3
<1> HIDE DEF a, b, d, e
<1>8. a \o ((b \o d) \o e) = (a \o b) \o (d \o e)
  <2>1. Cat(a, Cat(Cat(b, d), e)) = Cat(Cat(a, b), Cat(d, e))
    BY <1>1, <1>2, <1>3, CatFour
  <2> QED
    BY <2>1 DEF Cat
<1>9. a \o b \in Seq(AnyByte) /\ d \o e \in Seq(AnyByte)
  BY <1>1, <1>2, <1>3, ConcatProperties
<1>10. IsPrefix(a \o b, (a \o b) \o (d \o e))
  BY <1>9, PrefixOfConcat
<1> QED
  BY <1>7, <1>8, <1>10 DEF a, b

LEMMA PeerInit == Init => \A c \in Clients : PeerInv(c)
<1> SUFFICES ASSUME Init, NEW c \in Clients PROVE PeerInv(c)
  OBVIOUS
<1>1. /\ asked[c] = <<>> /\ groups[c] = NoGroups /\ todo[c] = <<>> /\ count[c] = 0
      /\ stream[c] = <<>>
  BY DEF Init
<1>2. <<>> \in Seq(AnyRequest) /\ <<>> \in Seq(AnyMessage) /\ <<>> \in Seq(AnyByte) /\ Len(<<>>) = 0
  BY EmptySeq
<1>3. LastGroups(<<>>, Len(<<>>)) = NoGroups
  <2>1. {i \in 1 .. Len(<<>>) : <<>>[i].name = "Listening"} = {}
    BY <1>2
  <2> QED
    BY <2>1 DEF LastGroups
<1>4. Answers(<<>>) = <<>>
  <2>1. [i \in DOMAIN <<>> |-> AnswerTo(<<>>, i)] = <<>>
    BY <1>2, AnswersType, EmptySeq
  <2> QED
    BY <2>1, FlattenEmpty DEF Answers
<1>5. Part(c) = <<>>
  BY <1>1 DEF Part
<1>6. <<>> \o Pending(<<>>) = <<>> /\ Framed(<<>>) \o <<>> = <<>>
  BY <1>2, PendingEmpty, FramedEmpty, ConcatEmptySeq
<1>7. Handled(c, <<>>)
  BY <1>1, <1>4, <1>5, <1>6 DEF Handled
<1>8. IsPrefix(stream[c], AnswerBytes(c))
  <2>1. AnswerBytes(c) = <<>>
    BY <1>1, <1>4, FramedEmpty DEF AnswerBytes
  <2>2. IsPrefix(<<>>, <<>> \o <<>>)
    BY <1>2, PrefixOfConcat
  <2>3. <<>> \o <<>> = <<>>
    BY <1>2, ConcatEmptySeq
  <2> QED
    BY <1>1, <2>1, <2>2, <2>3
<1> QED
  BY <1>1, <1>2, <1>3, <1>7, <1>8 DEF PeerInv

\* What other threads do is nothing to a client's stream.
LEMMA PeerKept ==
    ASSUME NEW c \in Clients, PeerInv(c), asked'[c] = asked[c], groups'[c] = groups[c],
           todo'[c] = todo[c], count'[c] = count[c], stream'[c] = stream[c],
           connected'[c] => connected[c]
    PROVE  PeerInv(c)'
BY DEF PeerInv, Handled, Part, AnswerBytes

\* A step that sends nothing leaves what is pending.
LEMMA PeerTodoStep ==
    ASSUME TypeInv, NEW c \in Clients, PeerInv(c), todo[c] # <<>>, Head(todo[c]).op # "send",
           Pending(todo'[c]) = Pending(todo[c]),
           UNCHANGED <<connected, asked, groups, count, stream>>
    PROVE  PeerInv(c)'
<1>1. count[c] = 0
  BY DEF PeerInv
<1>2. Part(c) = <<>> /\ Part(c)' = <<>>
  BY <1>1 DEF Part
<1> QED
  BY <1>1, <1>2 DEF PeerInv, Handled, AnswerBytes

\* A request is taken: its answer is what its steps will send.
LEMMA PeerTake ==
    ASSUME TypeInv, NEW c \in Clients, PeerInv(c), Take(c)
    PROVE  PeerInv(c)'
<1> DEFINE q == asked[c]
<1>1. PICK r \in Sends[c] :
         /\ asked' = [asked EXCEPT ![c] = Append(asked[c], r)]
         /\ groups' = [groups EXCEPT ![c] = NotedGroups(c, r)]
         /\ channel' = [channel EXCEPT ![c] = NotedChannel(c, r)]
         /\ todo' = [todo EXCEPT ![c] =
               IF r.type = "Request"
               THEN MasterOnDataFunc(r.name, Int16s(groups'[c]), channel'[c])
               ELSE <<>>]
  BY DEF Take
<1>2. todo[c] = <<>> /\ UNCHANGED <<connected, count, stream>>
  BY DEF Take
<1>3. /\ r \in AnyRequest
      /\ groups'[c] = (IF r.name = "Listening" THEN r.groups ELSE groups[c])
      /\ Int16s(groups'[c]) = groups'[c]
      /\ groups'[c] \in GroupPairs
      /\ r.name \in {"CallRequest", "CallRelease"} => channel'[c] = r.channel
      /\ channel'[c] \in CallChannels
  BY <1>1, TakenSteps
<1>4. q \in Seq(AnyRequest) /\ stream[c] \in Seq(AnyByte)
  BY DEF TypeInv
<1> DEFINE t == Append(q, r)
           n == Len(q) + 1
           P == AnswerTo(t, n)
<1>5. asked'[c] = t
  BY <1>1 DEF TypeInv
<1>6. t \in Seq(AnyRequest) /\ Len(t) = n /\ t[n] = r /\ n \in 1 .. Len(t)
  <2>1. Len(q) \in Nat
    BY <1>4, LenProperties
  <2>2. t \in Seq(AnyRequest) /\ Len(t) = Len(q) + 1 /\ t[Len(q) + 1] = r
    BY <1>3, <1>4, AppendProperties
  <2> QED
    BY <2>1, <2>2
<1>7. groups'[c] = LastGroups(t, n)
  <2>1. LastGroups(t, n) = IF r.name = "Listening" THEN r.groups ELSE LastGroups(q, Len(q))
    BY <1>3, <1>4, LastGroupsNext
  <2> QED
    BY <1>3, <2>1 DEF PeerInv
<1>8. Answers(t) = Answers(q) \o P
  BY <1>3, <1>4, AnswersNext
<1> HIDE DEF q, t, n
<1>9. Pending(todo'[c]) = P /\ P \in Seq(AnyMessage)
  <2>1. CASE r.type = "Request"
    <3>1. todo'[c] = MasterOnDataFunc(r.name, LastGroups(t, n), channel'[c])
      BY <1>1, <1>3, <1>7, <2>1 DEF TypeInv
    <3>2. P = Answer(r, LastGroups(t, n))
      BY <1>6 DEF AnswerTo
    <3>3. LastGroups(t, n) \in GroupPairs /\ (r.name = "Listening" => LastGroups(t, n) = r.groups)
      BY <1>3, <1>7
    <3>4. /\ MasterOnDataFunc(r.name, LastGroups(t, n), channel'[c]) \in Seq(AnyStep)
          /\ Pending(MasterOnDataFunc(r.name, LastGroups(t, n), channel'[c])) = P
      BY <1>3, <2>1, <3>2, <3>3, HandlerSends
    <3> QED
      BY <3>1, <3>4, PendingSeq
  <2>2. CASE r.type # "Request"
    <3>1. todo'[c] = <<>>
      BY <1>1, <2>2 DEF TypeInv
    <3>2. P = <<>>
      BY <1>6, <2>2 DEF AnswerTo, Answer
    <3> QED
      BY <3>1, <3>2, PendingEmpty, EmptySeq
  <2> QED
    BY <2>1, <2>2
<1> HIDE DEF P
<1>10. PICK done \in Seq(AnyMessage) : Handled(c, done)
  BY DEF PeerInv
<1>11. Answers(q) = done
  <2>1. Answers(q) = done \o Pending(<<>>)
    BY <1>2, <1>10 DEF Handled, q
  <2> QED
    BY <2>1, PendingEmpty, ConcatEmptySeq
<1>12. count[c] = 0 /\ count'[c] = 0
  BY <1>2 DEF PeerInv
<1>13. Part(c) = <<>> /\ Part(c)' = <<>>
  BY <1>12 DEF Part
<1>14. Handled(c, done)'
  BY <1>2, <1>5, <1>8, <1>9, <1>10, <1>11, <1>13 DEF Handled
<1>15. IsPrefix(stream'[c], AnswerBytes(c)')
  <2>1. AnswerBytes(c)' = Framed(done \o P)
    BY <1>5, <1>8, <1>11 DEF AnswerBytes
  <2>2. AnswerBytes(c) = Framed(done)
    BY <1>11 DEF AnswerBytes, q
  <2>3. Framed(done \o P) = Framed(done) \o Framed(P)
    BY <1>9, FramedConcat
  <2>4. /\ Framed(done) \in Seq(AnyByte) /\ Framed(P) \in Seq(AnyByte)
        /\ Framed(done) \o Framed(P) \in Seq(AnyByte)
    BY <1>9, FramedSeq, ConcatProperties
  <2>5. IsPrefix(Framed(done), Framed(done) \o Framed(P))
    BY <2>4, PrefixOfConcat
  <2>6. IsPrefix(stream[c], Framed(done))
    BY <2>2 DEF PeerInv
  <2>7. IsPrefix(stream[c], Framed(done) \o Framed(P))
    BY <1>4, <2>4, <2>5, <2>6, PrefixTransitive
  <2> QED
    BY <1>2, <2>1, <2>3, <2>7
<1> QED
  BY <1>5, <1>6, <1>7, <1>12, <1>14, <1>15 DEF PeerInv

\* send takes some bytes: they are the next ones of the frame in work.
LEMMA PeerSend ==
    ASSUME TypeInv, NEW c \in Clients, PeerInv(c), SendSome(c)
    PROVE  PeerInv(c)'
<1> DEFINE m == Head(todo[c]).message
           k == count[c]
           rest == Pending(Tail(todo[c]))
<1>1. PICK n \in 1 .. FrameLen - k :
         /\ todo[c] # <<>> /\ Head(todo[c]).op = "send" /\ connected[c]
         /\ m \in AnyMessage /\ Tail(todo[c]) \in Seq(AnyStep)
         /\ stream' = [stream EXCEPT ![c] = stream[c] \o Bytes(m, k + 1, k + n)]
         /\ count' = [count EXCEPT ![c] = IF k + n = FrameLen THEN 0 ELSE k + n]
         /\ todo' = [todo EXCEPT ![c] = IF k + n = FrameLen THEN Tail(todo[c]) ELSE todo[c]]
  BY SendFacts
<1>2. /\ todo[c] \in Seq(AnyStep) /\ k \in 0 .. FrameLen - 1
      /\ todo \in [Clients -> Seq(AnyStep)] /\ count \in [Clients -> 0 .. FrameLen - 1]
      /\ stream \in [Clients -> Seq(AnyByte)]
  BY DEF TypeInv
<1>3. UNCHANGED <<connected, asked, groups>>
  BY DEF SendSome
<1>4. rest \in Seq(AnyMessage) /\ Pending(todo[c]) = <<m>> \o rest /\ <<m>> \in Seq(AnyMessage)
  <2>1. Pending(todo[c]) = <<m>> \o rest
    BY <1>1, <1>2, MessageOfSend, Zenon
  <2>2. rest \in Seq(AnyMessage)
    BY <1>1, PendingSeq, Zenon
  <2> HIDE DEF m
  <2>3. <<m>> \in Seq(AnyMessage)
    BY <1>1
  <2> QED
    BY <2>1, <2>2, <2>3
<1>5. PICK done \in Seq(AnyMessage) : Handled(c, done)
  BY DEF PeerInv
<1>6. Answers(asked[c]) = done \o (<<m>> \o rest) /\ stream[c] = Framed(done) \o Part(c)
  BY <1>1, <1>4, <1>5 DEF Handled
<1>7. k \in 0 .. FrameLen /\ k + n \in k .. FrameLen /\ k + n \in 0 .. FrameLen /\ k + n # 0
  BY <1>2, FrameLenPositive
<1>8. Part(c) = Bytes(m, 1, k)
  <2>1. CASE k = 0
    <3>1. Bytes(m, 1, k) \in Seq(AnyByte) /\ Len(Bytes(m, 1, k)) = 0
      BY <1>1, <1>7, <2>1, BeginningFacts
    <3>2. Bytes(m, 1, k) = <<>>
      BY <3>1, EmptySeq
    <3> QED
      BY <2>1, <3>2 DEF Part
  <2>2. CASE k # 0
    BY <2>2 DEF Part
  <2> QED
    BY <2>1, <2>2
<1>9. stream'[c] = stream[c] \o Bytes(m, k + 1, k + n)
  BY <1>1, <1>2
<1>10. /\ count'[c] = (IF k + n = FrameLen THEN 0 ELSE k + n)
       /\ todo'[c] = (IF k + n = FrameLen THEN Tail(todo[c]) ELSE todo[c])
  BY <1>1, <1>2
<1> HIDE DEF m, k, rest
<1>11. stream'[c] = Framed(done) \o Bytes(m, 1, k + n)
  <2>1. Bytes(m, 1, k + n) = Bytes(m, 1, k) \o Bytes(m, k + 1, k + n)
    BY <1>1, <1>7, BytesSplit
  <2>2. /\ Framed(done) \in Seq(AnyByte) /\ Bytes(m, 1, k) \in Seq(AnyByte)
    BY <1>1, <1>7, FramedSeq, BeginningFacts
  <2>3. Bytes(m, k + 1, k + n) \in Seq(AnyByte)
    <3>1. k + 1 \in Nat \ {0} /\ k + 1 <= (k + n) + 1
      BY <1>7, FrameLenPositive
    <3> QED
      BY <1>1, <1>7, <3>1, BytesFacts
  <2>4. (Framed(done) \o Bytes(m, 1, k)) \o Bytes(m, k + 1, k + n)
           = Framed(done) \o (Bytes(m, 1, k) \o Bytes(m, k + 1, k + n))
    BY <2>2, <2>3, ConcatAssociative, SMTT(30)
  <2> QED
    BY <1>6, <1>8, <1>9, <2>1, <2>4
<1>12. IsPrefix(stream'[c], AnswerBytes(c)')
  <2>1. AnswerBytes(c)' = Framed(done \o (<<m>> \o rest))
    BY <1>3, <1>6 DEF AnswerBytes
  <2> QED
    BY <1>1, <1>4, <1>7, <1>11, <2>1, SentPrefix
<1>13. CASE k + n = FrameLen
  <2>1. PICK now \in Seq(AnyMessage) : now = done \o <<m>>
    BY <1>4, ConcatProperties
  <2>2. done \o (<<m>> \o rest) = now \o rest
    BY <1>4, <2>1, ConcatAssociative, SMTT(30)
  <2>3. Framed(now) = Framed(done) \o Bytes(m, 1, FrameLen)
    BY <1>1, <1>4, <2>1, FramedConcat, FramedOne
  <2>4. Framed(now) \o <<>> = Framed(now)
    BY <2>1, FramedSeq, ConcatEmptySeq
  <2>5. count'[c] = 0 /\ todo'[c] = Tail(todo[c])
    BY <1>10, <1>13
  <2>6. Part(c)' = <<>>
    BY <2>5 DEF Part
  <2>7. Handled(c, now)'
    <3>1. Answers(asked'[c]) = now \o Pending(todo'[c])
      BY <1>3, <1>6, <2>2, <2>5 DEF rest
    <3>2. stream'[c] = Framed(now) \o Part(c)'
      BY <1>11, <1>13, <2>3, <2>4, <2>6
    <3> QED
      BY <3>1, <3>2 DEF Handled
  <2> QED
    BY <1>3, <1>12, <2>1, <2>5, <2>7 DEF PeerInv
<1>14. CASE k + n # FrameLen
  <2>1. count'[c] = k + n /\ todo'[c] = todo[c]
    BY <1>10, <1>14
  <2>2. Part(c)' = Bytes(m, 1, k + n)
    BY <1>7, <2>1 DEF Part, m
  <2>3. Handled(c, done)'
    <3>1. Answers(asked'[c]) = done \o Pending(todo'[c])
      BY <1>3, <1>5, <2>1 DEF Handled
    <3>2. stream'[c] = Framed(done) \o Part(c)'
      BY <1>11, <2>2
    <3> QED
      BY <3>1, <3>2 DEF Handled
  <2> QED
    BY <1>1, <1>3, <1>12, <2>1, <2>3 DEF PeerInv
<1> QED
  BY <1>13, <1>14

\* send fails: the peer is gone and reads no more.
LEMMA PeerFails ==
    ASSUME TypeInv, NEW c \in Clients, PeerInv(c), SendFails(c)
    PROVE  PeerInv(c)'
<1> DEFINE m == Head(todo[c]).message
           rest == Pending(Tail(todo[c]))
<1>1. /\ todo[c] # <<>> /\ Head(todo[c]) \in AnyStep /\ Tail(todo[c]) \in Seq(AnyStep)
      /\ Head(todo[c]).op = "send" /\ todo'[c] = <<>> \o Tail(todo[c])
  BY EmptySeq, PerformFacts DEF SendFails
<1>2. todo'[c] = Tail(todo[c])
  BY <1>1, ConcatEmptySeq
<1>3. /\ ~connected'[c] /\ count'[c] = 0 /\ UNCHANGED <<asked, groups, stream>>
  BY DEF SendFails, TypeInv
<1>4. m \in AnyMessage
  BY <1>1, StepFacts
<1>5. todo[c] \in Seq(AnyStep)
  BY DEF TypeInv
<1>6. /\ rest \in Seq(AnyMessage) /\ Pending(todo[c]) = <<m>> \o rest
      /\ <<m>> \in Seq(AnyMessage)
  <2>1. Pending(todo[c]) = <<m>> \o rest
    BY <1>1, <1>5, MessageOfSend, Zenon
  <2>2. rest \in Seq(AnyMessage)
    BY <1>1, PendingSeq, Zenon
  <2> HIDE DEF m
  <2>3. <<m>> \in Seq(AnyMessage)
    BY <1>4
  <2> QED
    BY <2>1, <2>2, <2>3
<1>7. PICK done \in Seq(AnyMessage) : Handled(c, done)
  BY DEF PeerInv
<1>8. PICK now \in Seq(AnyMessage) : now = done \o <<m>>
  BY <1>6, ConcatProperties
<1>9. done \o (<<m>> \o rest) = now \o rest
  BY <1>6, <1>8, ConcatAssociative
<1>10. Answers(asked'[c]) = now \o Pending(todo'[c])
  <2> HIDE DEF m
  <2> QED
    BY <1>2, <1>3, <1>6, <1>7, <1>9 DEF Handled, rest
<1>11. Handled(c, now)'
  BY <1>3, <1>10 DEF Handled
<1> QED
  BY <1>3, <1>8, <1>11 DEF PeerInv, AnswerBytes

\* What a check leads to sends nothing, as do the steps other than sends.
LEMMA CheckSteps ==
    ASSUME NEW k \in Channels
    PROVE  <<Create(k), Bind(k)>> \in Seq(AnyStep) /\ Pending(<<Create(k), Bind(k)>>) = <<>>
<1>1. Create(k) \in AnyStep /\ Bind(k) \in AnyStep
  BY StepsTyped
<1>2. Pending(<<Create(k), Bind(k)>>) = <<>> \o <<>>
  BY <1>1, MessagesOfSteps, PendingTwo
<1> QED
  BY <1>1, <1>2, JoinSteps

LEMMA QuietPerform ==
    ASSUME TypeInv, NEW c \in Clients, NEW op, op # "send", NEW steps \in Seq(AnyStep),
           Pending(steps) = <<>>, Perform(c, op, steps)
    PROVE  Pending(todo'[c]) = Pending(todo[c])
<1>1. /\ todo[c] # <<>> /\ Tail(todo[c]) \in Seq(AnyStep) /\ Head(todo[c]).op = op
      /\ todo'[c] = steps \o Tail(todo[c])
  BY PerformFacts
<1>2. Pending(todo[c]) = Pending(Tail(todo[c]))
  BY <1>1, MessageOfSend DEF TypeInv
<1>3. Pending(todo'[c]) = <<>> \o Pending(Tail(todo[c]))
  BY <1>1, PendingConcat
<1>4. Pending(Tail(todo[c])) \in Seq(AnyMessage)
  BY <1>1, PendingSeq
<1> QED
  BY <1>2, <1>3, <1>4, ConcatEmptySeq

LEMMA PeerStep ==
    ASSUME TypeInv, \A c \in Clients : PeerInv(c), [Next]_vars
    PROVE  \A c \in Clients : PeerInv(c)'
<1>1. ASSUME NEW c \in Clients, NEW d \in Clients, Take(c) \/ Handle(c) \/ PeerGone(c), d # c
      PROVE  PeerInv(d)'
  <2>1. /\ asked'[d] = asked[d] /\ groups'[d] = groups[d] /\ todo'[d] = todo[d]
        /\ count'[d] = count[d] /\ stream'[d] = stream[d] /\ connected'[d] = connected[d]
    BY <1>1 DEF TypeInv, Take, Handle, PeerGone, CheckChannel, CreateChannel, BindChannel,
                SendVoice, SendSome, SendFails, Perform
  <2> QED
    BY <2>1, PeerKept
<1>2. ASSUME NEW c \in Clients, CheckChannel(c) PROVE PeerInv(c)'
  <2> DEFINE k == Subject(c)
             steps == IF rtp[k] = 0 THEN <<Create(k), Bind(k)>> ELSE <<>>
  <2>1. k \in Channels
    BY <1>2, SubjectFacts DEF CheckChannel, Perform
  <2>2. steps \in Seq(AnyStep) /\ Pending(steps) = <<>>
    BY <2>1, CheckSteps, PendingEmpty, EmptySeq
  <2> HIDE DEF steps
  <2>3. todo[c] # <<>> /\ Head(todo[c]).op = "check" /\ Perform(c, "check", steps)
    BY <1>2 DEF CheckChannel, Perform, steps
  <2>4. Pending(todo'[c]) = Pending(todo[c])
    BY <2>2, <2>3, QuietPerform
  <2> QED
    BY <1>2, <2>3, <2>4, PeerTodoStep DEF CheckChannel
<1>3. ASSUME NEW c \in Clients, NEW op \in {"create", "bind", "voice"}, Perform(c, op, <<>>),
             UNCHANGED <<connected, asked, groups, count, stream>>
      PROVE  PeerInv(c)'
  <2>1. todo[c] # <<>> /\ Head(todo[c]).op = op
    BY <1>3 DEF Perform
  <2>2. Pending(todo'[c]) = Pending(todo[c])
    BY <1>3, PendingEmpty, EmptySeq, QuietPerform
  <2> QED
    BY <1>3, <2>1, <2>2, PeerTodoStep
<1>4. ASSUME NEW c \in Clients, CreateChannel(c) \/ BindChannel(c) \/ SendVoice(c)
      PROVE  PeerInv(c)'
  BY <1>3, <1>4 DEF CreateChannel, BindChannel, SendVoice
<1>5. ASSUME NEW c \in Clients, PeerGone(c) PROVE PeerInv(c)'
  BY <1>5, PeerKept DEF PeerGone
<1>6. CASE UNCHANGED vars
  BY <1>6, PeerKept DEF vars
<1>7. ASSUME NEW c \in Clients, Take(c) \/ Handle(c) \/ PeerGone(c) PROVE PeerInv(c)'
  BY <1>2, <1>4, <1>5, <1>7, PeerTake, PeerSend, PeerFails DEF Handle
<1> QED
  BY <1>1, <1>6, <1>7 DEF Next

\* PeerReadsAnswers holds: however few bytes each send takes, however the
\* threads take turns and whenever a peer leaves, what it has read is a
\* beginning of the frames that its requests are answered with, in their order.
THEOREM PeerAlwaysReadsAnswers == Spec => []PeerReadsAnswers
<1> DEFINE PeersInv == \A c \in Clients : PeerInv(c)
<1>1. Init => TypeInv /\ PeersInv
  BY TypeInit, PeerInit
<1>2. TypeInv /\ PeersInv /\ [Next]_vars => (TypeInv /\ PeersInv)'
  BY TypeStep, PeerStep
<1>3. TypeInv /\ PeersInv => PeerReadsAnswers
  BY DEF PeerReadsAnswers, PeerInv
<1> QED
  BY <1>1, <1>2, <1>3, PTL DEF Spec

-----------------------------------------------------------------------------
\* The abstract service.

\* Sessions are looked for and created only for channels that the client has
\* asked for last.
Sought(q, g) == \A i \in 1 .. Len(q) : q[i].op \in {"check", "create"} => g[q[i].channel] # 0
SoughtInv == \A c \in Clients : Sought(todo[c], groups[c])

LEMMA SoughtConcat ==
    ASSUME NEW p \in Seq(AnyStep), NEW q \in Seq(AnyStep), NEW g, Sought(p, g), Sought(q, g)
    PROVE  Sought(p \o q, g)
<1> DEFINE w == p \o q
<1>1. Len(p) \in Nat /\ Len(q) \in Nat /\ Len(w) = Len(p) + Len(q)
  BY LenProperties, ConcatProperties
<1>2. /\ \A i \in 1 .. Len(p) : w[i] = p[i]
      /\ \A i \in 1 .. Len(q) : w[Len(p) + i] = q[i]
  BY ConcatProperties
<1> HIDE DEF w
<1>3. ASSUME NEW i \in 1 .. Len(w), w[i].op \in {"check", "create"} PROVE g[w[i].channel] # 0
  <2>1. CASE i \in 1 .. Len(p)
    BY <1>2, <1>3, <2>1 DEF Sought
  <2>2. CASE i \notin 1 .. Len(p)
    <3>1. i - Len(p) \in 1 .. Len(q) /\ Len(p) + (i - Len(p)) = i
      BY <1>1, <2>2
    <3>2. w[i] = q[i - Len(p)]
      BY <1>2, <3>1
    <3> QED
      BY <1>3, <3>1, <3>2 DEF Sought
  <2> QED
    BY <2>1, <2>2
<1> QED
  BY <1>3 DEF Sought, w

LEMMA SoughtTail ==
    ASSUME NEW q \in Seq(AnyStep), q # <<>>, NEW g, Sought(q, g)
    PROVE  /\ Sought(Tail(q), g)
           /\ Head(q).op \in {"check", "create"} => g[Head(q).channel] # 0
<1>1. /\ Len(q) \in Nat \ {0} /\ Len(Tail(q)) = Len(q) - 1 /\ Head(q) = q[1]
      /\ \A i \in 1 .. Len(Tail(q)) : Tail(q)[i] = q[i + 1]
  BY EmptySeq, HeadTailProperties
<1>2. \A i \in 1 .. Len(Tail(q)) : i + 1 \in 1 .. Len(q)
  BY <1>1
<1>3. 1 \in 1 .. Len(q)
  BY <1>1
<1> QED
  BY <1>1, <1>2, <1>3 DEF Sought

\* A request looks for the sessions of the channels whose group it has.
LEMMA HandlerSought ==
    ASSUME NEW name \in Names, NEW g \in GroupPairs, NEW ch \in CallChannels
    PROVE  Sought(MasterOnDataFunc(name, g, ch), g)
<1> DEFINE q == MasterOnDataFunc(name, g, ch)
<1>1. CASE name = "Listening"
  <2> DEFINE s == Send(ConfigReply(g))
             x == Check(1)
             y == Check(2)
  <2>1. s.op = "send" /\ x.channel = 1 /\ y.channel = 2
    BY StepFields
  <2>2. \/ q = <<s>>
        \/ g[1] # 0 /\ q = <<x, s>>
        \/ g[2] # 0 /\ q = <<y, s>>
        \/ g[1] # 0 /\ g[2] # 0 /\ q = <<x, y, s>>
    BY <1>1, ListeningSteps
  <2> HIDE DEF q, s, x, y
  <2>3. \A i \in 1 .. Len(q) : q[i] = s \/ (q[i] = x /\ g[1] # 0) \/ (q[i] = y /\ g[2] # 0)
    BY <2>2
  <2> QED
    BY <2>1, <2>3 DEF Sought, q
<1>2. CASE name # "Listening"
  <2>1. ASSUME NEW i \in 1 .. Len(q) PROVE q[i].op \notin {"check", "create"}
    <3>1. \A m : Send(m).op = "send" /\ Voice(ch).op = "voice"
      BY StepFields
    <3>2. q[i] = Voice(ch) \/ \E m : q[i] = Send(m)
      <4>1. CASE name = "CallRequest"
        <5>1. \/ q = <<Send(CallReply("CallRequest")), Send(CallNotify("CallStart", ch))>>
              \/ q = <<Send(CallReply("CallRequest")), Send(CallNotify("CallStart", ch)), Voice(ch)>>
          BY <4>1, CallSteps
        <5> HIDE DEF q
        <5> QED
          BY <5>1
      <4>2. CASE name # "CallRequest"
        <5>1. q \in {<<Send(ConnectReply)>>, <<Send(QueryReply(g))>>,
                     <<Send(CallReply("CallRelease")), Send(CallNotify("CallEnd", ch))>>, <<>>}
          BY <1>2, <4>2 DEF MasterOnDataFunc, Names
        <5> HIDE DEF q
        <5> QED
          BY <5>1
      <4> QED
        BY <4>1, <4>2
    <3> HIDE DEF q
    <3> QED
      BY <3>1, <3>2
  <2> HIDE DEF q
  <2> QED
    BY <2>1 DEF Sought, q
<1> QED
  BY <1>1, <1>2

LEMMA SoughtInit == Init => SoughtInv
BY EmptySeq DEF Init, SoughtInv, Sought

\* A step of a client that goes on with steps that look for what it asked for.
LEMMA SoughtPerform ==
    ASSUME TypeInv, SoughtInv, NEW c \in Clients, NEW op, NEW steps \in Seq(AnyStep),
           Perform(c, op, steps), groups' = groups, Sought(steps, groups[c])
    PROVE  SoughtInv'
<1>1. /\ todo[c] # <<>> /\ Tail(todo[c]) \in Seq(AnyStep)
      /\ todo'[c] = steps \o Tail(todo[c])
      /\ \A d \in Clients : d # c => todo'[d] = todo[d]
  BY PerformFacts
<1>2. Sought(Tail(todo[c]), groups[c])
  BY <1>1, SoughtTail DEF TypeInv, SoughtInv
<1>3. Sought(todo'[c], groups[c])
  BY <1>1, <1>2, SoughtConcat
<1> QED
  BY <1>1, <1>3 DEF SoughtInv

LEMMA SoughtStep == TypeInv /\ SoughtInv /\ [Next]_vars => SoughtInv'
<1> SUFFICES ASSUME TypeInv, SoughtInv, [Next]_vars PROVE SoughtInv'
  OBVIOUS
<1>1. \A g : <<>> \in Seq(AnyStep) /\ Sought(<<>>, g)
  BY EmptySeq DEF Sought
<1>2. ASSUME NEW c \in Clients, Take(c) PROVE SoughtInv'
  <2>1. PICK r \in Sends[c] :
           /\ groups' = [groups EXCEPT ![c] = NotedGroups(c, r)]
           /\ channel' = [channel EXCEPT ![c] = NotedChannel(c, r)]
           /\ todo' = [todo EXCEPT ![c] =
                 IF r.type = "Request"
                 THEN MasterOnDataFunc(r.name, Int16s(groups'[c]), channel'[c])
                 ELSE <<>>]
    BY <1>2 DEF Take
  <2>2. /\ r \in AnyRequest
        /\ Int16s(groups'[c]) = groups'[c] /\ groups'[c] \in GroupPairs
        /\ channel'[c] \in CallChannels
    BY <2>1, TakenSteps
  <2>3. r.name \in Names
    BY <2>2, RequestFacts
  <2>4. Sought(MasterOnDataFunc(r.name, Int16s(groups'[c]), channel'[c]), groups'[c])
    BY <2>2, <2>3, HandlerSought
  <2>5. Sought(todo'[c], groups'[c])
    BY <1>1, <2>1, <2>4 DEF TypeInv
  <2>6. \A d \in Clients : d # c => todo'[d] = todo[d] /\ groups'[d] = groups[d]
    BY <2>1 DEF TypeInv
  <2> QED
    BY <2>5, <2>6 DEF SoughtInv
<1>3. ASSUME NEW c \in Clients, CheckChannel(c) PROVE SoughtInv'
  <2> DEFINE k == Subject(c)
             steps == IF rtp[k] = 0 THEN <<Create(k), Bind(k)>> ELSE <<>>
  <2>1. todo[c] # <<>> /\ Head(todo[c]).op = "check" /\ Perform(c, "check", steps)
    BY <1>3 DEF CheckChannel, Perform
  <2>2. k \in Channels /\ k = Head(todo[c]).channel
    BY <2>1, SubjectFacts DEF Subject
  <2>3. groups[c][k] # 0
    BY <2>1, <2>2, SoughtTail DEF TypeInv, SoughtInv
  <2>4. steps \in Seq(AnyStep)
    BY <2>2, StepsTyped, JoinSteps
  <2>5. Sought(steps, groups[c])
    <3>1. Create(k).channel = k /\ Bind(k).op = "bind"
      BY StepFields
    <3> DEFINE x == Create(k)
               y == Bind(k)
    <3> HIDE DEF x, y, k
    <3>2. Sought(<<x, y>>, groups[c])
      BY <2>3, <3>1 DEF Sought, x, y
    <3> QED
      BY <1>1, <3>2 DEF x, y
  <2> HIDE DEF steps
  <2> QED
    BY <1>3, <2>1, <2>4, <2>5, SoughtPerform DEF CheckChannel
<1>4. ASSUME NEW c \in Clients, NEW op, Perform(c, op, <<>>), groups' = groups PROVE SoughtInv'
  BY <1>1, <1>4, SoughtPerform
<1>5. ASSUME NEW c \in Clients, CreateChannel(c) \/ BindChannel(c) \/ SendVoice(c) \/ SendFails(c)
      PROVE  SoughtInv'
  BY <1>4, <1>5 DEF CreateChannel, BindChannel, SendVoice, SendFails
<1>6. ASSUME NEW c \in Clients, SendSome(c) PROVE SoughtInv'
  <2>1. /\ todo[c] # <<>> /\ groups' = groups
        /\ todo'[c] \in {todo[c], Tail(todo[c])}
        /\ \A d \in Clients : d # c => todo'[d] = todo[d]
    BY <1>6 DEF SendSome, TypeInv
  <2>2. Sought(Tail(todo[c]), groups[c])
    BY <2>1, SoughtTail DEF TypeInv, SoughtInv
  <2> QED
    BY <2>1, <2>2 DEF SoughtInv
<1>7. ASSUME NEW c \in Clients, PeerGone(c) PROVE SoughtInv'
  BY <1>7 DEF PeerGone, SoughtInv
<1>8. CASE UNCHANGED vars
  BY <1>8 DEF vars, SoughtInv
<1> QED
  BY <1>2, <1>3, <1>5, <1>6, <1>7, <1>8 DEF Next, Handle

-----------------------------------------------------------------------------
\* The messages that are whole in a piece of the stream.
Whole(bytes) == FlattenSeq([i \in 1 .. Len(bytes) |-> WholeMessage(bytes[i])])

LEMMA WholeSeq ==
    ASSUME NEW bs \in Seq(AnyByte)
    PROVE  /\ [i \in 1 .. Len(bs) |-> WholeMessage(bs[i])] \in Seq(Seq(AnyMessage))
           /\ Len([i \in 1 .. Len(bs) |-> WholeMessage(bs[i])]) = Len(bs)
           /\ Whole(bs) \in Seq(AnyMessage)
<1>1. Len(bs) \in Nat /\ \A i \in 1 .. Len(bs) : bs[i] \in AnyByte
  BY LenProperties
<1>2. ASSUME NEW b \in AnyByte PROVE WholeMessage(b) \in Seq(AnyMessage)
  <2>1. b[1] \in AnyMessage
    BY DEF AnyByte
  <2> QED
    BY <2>1 DEF WholeMessage, When
<1>3. [i \in 1 .. Len(bs) |-> WholeMessage(bs[i])] \in [1 .. Len(bs) -> Seq(AnyMessage)]
  BY <1>1, <1>2
<1>4. /\ [i \in 1 .. Len(bs) |-> WholeMessage(bs[i])] \in Seq(Seq(AnyMessage))
      /\ Len([i \in 1 .. Len(bs) |-> WholeMessage(bs[i])]) = Len(bs)
  BY <1>1, <1>3, FunctionIsSeq
<1> QED
  BY <1>4, FlattenType DEF Whole

LEMMA WholeConcat ==
    ASSUME NEW p \in Seq(AnyByte), NEW q \in Seq(AnyByte)
    PROVE  Whole(p \o q) = Whole(p) \o Whole(q)
<1> DEFINE M(r) == [i \in 1 .. Len(r) |-> WholeMessage(r[i])]
<1>1. /\ Len(p) \in Nat /\ Len(q) \in Nat
      /\ p \o q \in Seq(AnyByte) /\ Len(p \o q) = Len(p) + Len(q)
      /\ \A i \in 1 .. Len(p) : (p \o q)[i] = p[i]
      /\ \A i \in 1 .. Len(q) : (p \o q)[Len(p) + i] = q[i]
  BY LenProperties, ConcatProperties
<1>2. /\ M(p) \in Seq(Seq(AnyMessage)) /\ Len(M(p)) = Len(p)
      /\ M(q) \in Seq(Seq(AnyMessage)) /\ Len(M(q)) = Len(q)
      /\ M(p \o q) \in Seq(Seq(AnyMessage)) /\ Len(M(p \o q)) = Len(p \o q)
  BY <1>1, WholeSeq
<1>3. /\ \A i \in 1 .. Len(p) : M(p \o q)[i] = M(p)[i]
      /\ \A i \in 1 .. Len(q) : M(p \o q)[Len(p) + i] = M(q)[i]
  <2> DEFINE r == p \o q
  <2> HIDE DEF r
  <2>1. \A i \in 1 .. Len(p) : r[i] = p[i] /\ i \in 1 .. Len(r)
    BY <1>1 DEF r
  <2>2. \A i \in 1 .. Len(q) : r[Len(p) + i] = q[i] /\ Len(p) + i \in 1 .. Len(r)
    BY <1>1 DEF r
  <2>3. \A i \in 1 .. Len(p) : M(r)[i] = M(p)[i]
    BY <2>1
  <2>4. \A i \in 1 .. Len(q) : M(r)[Len(p) + i] = M(q)[i]
    BY <2>2
  <2> QED
    BY <2>3, <2>4 DEF r
<1>4. M(p \o q) = M(p) \o M(q)
  <2> HIDE DEF M
  <2>1. /\ Len(M(p \o q)) = Len(M(p)) + Len(M(q))
        /\ \A i \in 1 .. Len(M(p)) : M(p \o q)[i] = M(p)[i]
        /\ \A i \in 1 .. Len(M(q)) : M(p \o q)[Len(M(p)) + i] = M(q)[i]
    BY <1>1, <1>2, <1>3
  <2> QED
    BY <1>2, <2>1, ConcatByElements
<1> QED
  BY <1>2, <1>4, FlattenConcat, Zenon DEF Whole

\* Only the last byte of a frame makes its message whole.
LEMMA WholePart ==
    ASSUME NEW m \in AnyMessage, NEW from \in Nat \ {0}, NEW to \in 0 .. FrameLen - 1,
           from <= to + 1
    PROVE  Whole(Bytes(m, from, to)) = <<>>
<1> DEFINE bs == Bytes(m, from, to)
           ws == [i \in 1 .. Len(bs) |-> WholeMessage(bs[i])]
<1>1. to \in 0 .. FrameLen /\ to \in Nat /\ FrameLen \in Nat
  BY FrameLenPositive
<1>2. /\ bs \in Seq(AnyByte) /\ Len(bs) = to - from + 1
      /\ \A i \in 1 .. to - from + 1 : bs[i] = <<m, from + i - 1>>
  BY <1>1, BytesFacts
<1> HIDE DEF bs
<1>3. ASSUME NEW i \in 1 .. Len(bs) PROVE WholeMessage(bs[i]) = <<>>
  <2>1. from + i - 1 # FrameLen
    BY <1>1, <1>2
  <2>2. bs[i] = <<m, from + i - 1>>
    BY <1>2
  <2>3. bs[i][2] # FrameLen
    BY <2>1, <2>2
  <2> QED
    BY <2>3 DEF WholeMessage, When
<1>4. \A i \in 1 .. Len(ws) : ws[i] = <<>>
  <2>1. Len(ws) = Len(bs)
    BY <1>2, WholeSeq
  <2> QED
    BY <1>3, <2>1
<1>5. ws \in Seq(Seq(AnyMessage))
  BY <1>2, WholeSeq
<1>6. FlattenSeq(ws) = <<>>
  <2> HIDE DEF ws
  <2> QED
    BY <1>4, <1>5, FlattenEmpties
<1> QED
  BY <1>6 DEF Whole, bs

LEMMA WholeLast ==
    ASSUME NEW m \in AnyMessage
    PROVE  <<<<m, FrameLen>>>> \in Seq(AnyByte) /\ Whole(<<<<m, FrameLen>>>>) = <<m>>
<1> DEFINE b == <<m, FrameLen>>
           bs == <<b>>
<1>1. b \in AnyByte /\ b[1] = m /\ b[2] = FrameLen
  <2>1. FrameLen \in 1 .. FrameLen
    BY FrameLenPositive
  <2> QED
    BY <2>1 DEF AnyByte
<1>2. WholeMessage(b) = <<m>>
  BY <1>1 DEF WholeMessage, When
<1> HIDE DEF b
<1>3. bs \in Seq(AnyByte) /\ Len(bs) = 1 /\ bs[1] = b
  BY <1>1
<1>4. <<m>> \in Seq(AnyMessage)
  OBVIOUS
<1> HIDE DEF bs
<1>5. [i \in 1 .. Len(bs) |-> WholeMessage(bs[i])] = << <<m>> >>
  <2>1. /\ [i \in 1 .. Len(bs) |-> WholeMessage(bs[i])] \in Seq(Seq(AnyMessage))
        /\ Len([i \in 1 .. Len(bs) |-> WholeMessage(bs[i])]) = 1
        /\ [i \in 1 .. Len(bs) |-> WholeMessage(bs[i])][1] = <<m>>
    BY <1>2, <1>3, WholeSeq
  <2> DEFINE t == [i \in 1 .. Len(bs) |-> WholeMessage(bs[i])]
             mm == <<m>>
             T == Seq(AnyMessage)
  <2>2. t \in Seq(T) /\ Len(t) = 1 /\ t[1] = mm
    BY <2>1
  <2> HIDE DEF t, mm, T
  <2>3. t = <<mm>>
    BY <2>2
  <2> QED
    BY <2>3 DEF t, mm
<1> QED
  BY <1>3, <1>4, <1>5, FlattenOne DEF Whole, bs, b

LEMMA WholeEnd ==
    ASSUME NEW m \in AnyMessage, NEW from \in 1 .. FrameLen
    PROVE  Whole(Bytes(m, from, FrameLen)) = <<m>>
<1> DEFINE a == Bytes(m, from, FrameLen - 1)
           z == <<<<m, FrameLen>>>>
           w == Bytes(m, from, FrameLen)
<1>1. /\ FrameLen \in Nat /\ FrameLen >= 1 /\ from \in Nat \ {0} /\ from <= FrameLen
      /\ FrameLen - 1 \in 0 .. FrameLen - 1 /\ FrameLen - 1 \in 0 .. FrameLen
      /\ FrameLen \in 0 .. FrameLen
      /\ from <= (FrameLen - 1) + 1 /\ from <= FrameLen + 1
  BY FrameLenPositive
<1>2. /\ a \in Seq(AnyByte) /\ Len(a) = (FrameLen - 1) - from + 1
      /\ \A i \in 1 .. (FrameLen - 1) - from + 1 : a[i] = <<m, from + i - 1>>
  BY <1>1, BytesFacts
<1>3. /\ w \in Seq(AnyByte) /\ Len(w) = FrameLen - from + 1
      /\ \A i \in 1 .. FrameLen - from + 1 : w[i] = <<m, from + i - 1>>
  BY <1>1, BytesFacts
<1>4. z \in Seq(AnyByte) /\ Whole(z) = <<m>>
  BY WholeLast
<1>5. Len(z) = 1 /\ z[1] = <<m, FrameLen>>
  OBVIOUS
<1>6. Whole(a) = <<>>
  BY <1>1, WholePart
<1> HIDE DEF a, z, w
<1>7. w = a \o z
  <2>1. Len(w) = Len(a) + Len(z)
    <3>1. Len(w) = FrameLen - from + 1 /\ Len(a) = (FrameLen - 1) - from + 1 /\ Len(z) = 1
      BY <1>2, <1>3, <1>5
    <3> QED
      BY <1>1, <3>1
  <2>2. ASSUME NEW i \in 1 .. Len(a) PROVE w[i] = a[i]
    <3>1. i \in 1 .. (FrameLen - 1) - from + 1
      BY <1>2
    <3>2. i \in 1 .. FrameLen - from + 1
      BY <1>1, <3>1
    <3>3. a[i] = <<m, from + i - 1>> /\ w[i] = <<m, from + i - 1>>
      BY <1>2, <1>3, <3>1, <3>2
    <3> QED
      BY <3>3
  <2>3. w[Len(a) + 1] = z[1]
    <3>1. Len(a) + 1 = FrameLen - from + 1 /\ FrameLen - from + 1 \in 1 .. FrameLen - from + 1
      BY <1>1, <1>2
    <3>2. from + (FrameLen - from + 1) - 1 = FrameLen
      BY <1>1
    <3>3. w[FrameLen - from + 1] = <<m, from + (FrameLen - from + 1) - 1>>
      BY <1>3, <3>1
    <3> QED
      BY <1>5, <3>1, <3>2, <3>3
  <2>4. \A i \in 1 .. Len(z) : w[Len(a) + i] = z[i]
    BY <1>5, <2>3
  <2> QED
    BY <1>2, <1>3, <1>4, <2>1, <2>2, <2>4, ConcatByElements
<1>8. Whole(w) = <<>> \o <<m>>
  BY <1>2, <1>4, <1>6, <1>7, WholeConcat
<1>9. <<>> \o <<m>> = <<m>>
  BY JoinTuples
<1> QED
  BY <1>8, <1>9 DEF w

-----------------------------------------------------------------------------
\* What a step does to what the peers see: of one client at a time.
LEMMA OwedStep ==
    ASSUME TypeInv, NEW c \in Clients, \A d \in Clients : d # c => todo'[d] = todo[d]
    PROVE  /\ Owed[c] = Pending(todo[c])
           /\ Owed' = [Owed EXCEPT ![c] = Pending(todo'[c])]
           /\ Pending(todo'[c]) = Pending(todo[c]) => Owed' = Owed
<1>1. Owed' = [d \in Clients |-> Pending(todo'[d])]
  BY DEF Owed
<1>2. \A d \in Clients : d # c => Pending(todo'[d]) = Pending(todo[d])
  OBVIOUS
<1> QED
  BY <1>1, <1>2 DEF Owed

LEMMA ReadStep ==
    ASSUME TypeInv, NEW c \in Clients, \A d \in Clients : d # c => stream'[d] = stream[d]
    PROVE  /\ Read' = [Read EXCEPT ![c] = Whole(stream'[c])]
           /\ Whole(stream'[c]) = Whole(stream[c]) => Read' = Read
           /\ Read[c] = Whole(stream[c])
<1>1. /\ Read = [d \in Clients |-> Whole(stream[d])]
      /\ Read' = [d \in Clients |-> Whole(stream'[d])]
  BY DEF Read, Received, Whole
<1>2. \A d \in Clients : d # c => Whole(stream'[d]) = Whole(stream[d])
  OBVIOUS
<1> QED
  BY <1>1, <1>2

LEMMA SameSeen ==
    /\ stream' = stream => Read' = Read
    /\ rtp' = rtp => Opened' = Opened
    /\ todo' = todo => Owed' = Owed
BY DEF Read, Received, Opened, Owed

\* The service speaks of the same messages.
LEMMA SameMessages ==
    /\ Service!Channels = Channels /\ Service!NoGroups = NoGroups
    /\ \A m : Service!Confirms(m) = Confirms(m)
    /\ \A r, g : Service!Answer(r, g) = Answer(r, g)
<1>1. Service!Channels = Channels /\ Service!NoGroups = NoGroups
  BY DEF Channels, NoGroups, Service!Channels, Service!NoGroups
<1>2. \A m : Service!Confirms(m) = Confirms(m)
  BY DEF Confirms, Service!Confirms
<1>3. \A type, name, ok, g, ch :
         Service!Message(type, name, ok, g, ch) = Message(type, name, ok, g, ch)
  BY DEF Message, Service!Message
<1>4. /\ Service!ConnectReply = ConnectReply
      /\ \A g : Service!ConfigReply(g) = ConfigReply(g) /\ Service!QueryReply(g) = QueryReply(g)
      /\ \A name : Service!CallReply(name) = CallReply(name)
      /\ \A name, ch : Service!CallNotify(name, ch) = CallNotify(name, ch)
  BY <1>1, <1>3 DEF ConnectReply, ConfigReply, QueryReply, CallReply, CallNotify,
     Service!ConnectReply, Service!ConfigReply, Service!QueryReply, Service!CallReply,
     Service!CallNotify
<1>5. \A r, g : Service!Answer(r, g) = Answer(r, g)
  BY <1>4 DEF Answer, Service!Answer
<1> QED
  BY <1>1, <1>2, <1>5

\* A request is taken: its answer is owed.
LEMMA TakeAsks ==
    ASSUME TypeInv, NEW c \in Clients, Take(c)
    PROVE  Service!Ask(c)
<1>1. PICK r \in Sends[c] :
         /\ groups' = [groups EXCEPT ![c] = NotedGroups(c, r)]
         /\ channel' = [channel EXCEPT ![c] = NotedChannel(c, r)]
         /\ todo' = [todo EXCEPT ![c] =
               IF r.type = "Request"
               THEN MasterOnDataFunc(r.name, Int16s(groups'[c]), channel'[c])
               ELSE <<>>]
  BY DEF Take
<1>2. todo[c] = <<>> /\ UNCHANGED <<connected, stream, rtp>>
  BY DEF Take
<1>3. /\ r \in AnyRequest
      /\ groups'[c] = (IF r.name = "Listening" THEN r.groups ELSE groups[c])
      /\ Int16s(groups'[c]) = groups'[c] /\ groups'[c] \in GroupPairs
      /\ r.name \in {"CallRequest", "CallRelease"} => channel'[c] = r.channel
      /\ channel'[c] \in CallChannels
  BY <1>1, TakenSteps
<1>4. /\ todo'[c] = IF r.type = "Request"
                    THEN MasterOnDataFunc(r.name, groups'[c], channel'[c]) ELSE <<>>
      /\ \A d \in Clients : d # c => todo'[d] = todo[d]
  BY <1>1, <1>3 DEF TypeInv
<1>5. Pending(todo'[c]) = Answer(r, groups'[c])
  <2>1. CASE r.type = "Request"
    <3>1. Pending(MasterOnDataFunc(r.name, groups'[c], channel'[c])) = Answer(r, groups'[c])
      <4>1. PICK g \in GroupPairs : g = groups'[c]
        BY <1>3
      <4>2. PICK ch \in CallChannels : ch = channel'[c]
        BY <1>3
      <4>3. r.name = "Listening" => g = r.groups
        BY <1>3, <4>1
      <4>4. r.name \in {"CallRequest", "CallRelease"} => ch = r.channel
        BY <1>3, <4>2
      <4>5. Pending(MasterOnDataFunc(r.name, g, ch)) = Answer(r, g)
        BY <1>3, <2>1, <4>3, <4>4, HandlerSends
      <4> QED
        BY <4>1, <4>2, <4>5
    <3> QED
      BY <1>4, <2>1, <3>1
  <2>2. CASE r.type # "Request"
    BY <1>4, <2>2, PendingEmpty DEF Answer
  <2> QED
    BY <2>1, <2>2
<1>6. Owed[c] = <<>> /\ Owed' = [Owed EXCEPT ![c] = Answer(r, groups'[c])]
  BY <1>2, <1>4, <1>5, OwedStep, PendingEmpty
<1>7. groups' = [groups EXCEPT ![c] = IF r.name = "Listening" THEN r.groups ELSE groups[c]]
  BY <1>1 DEF NotedGroups
<1>8. Service!Answer(r, groups'[c]) = Answer(r, groups'[c])
  BY SameMessages
<1> QED
  BY <1>2, <1>6, <1>7, <1>8, SameSeen DEF Service!Ask

\* The steps that send nothing and create nothing are not seen.
LEMMA QuietUnseen ==
    ASSUME TypeInv, NEW c \in Clients, CheckChannel(c) \/ BindChannel(c) \/ SendVoice(c)
    PROVE  UNCHANGED Service!vars
<1>1. UNCHANGED <<connected, groups, stream, rtp>>
  BY DEF CheckChannel, BindChannel, SendVoice
<1>2. ASSUME NEW op, op # "send", NEW steps \in Seq(AnyStep), Pending(steps) = <<>>,
             Perform(c, op, steps)
      PROVE  Owed' = Owed
  <2>1. Pending(todo'[c]) = Pending(todo[c])
    BY <1>2, QuietPerform
  <2>2. \A d \in Clients : d # c => todo'[d] = todo[d]
    BY <1>2, PerformFacts
  <2> QED
    BY <2>1, <2>2, OwedStep
<1>3. Owed' = Owed
  <2>1. CASE CheckChannel(c)
    <3> DEFINE k == Subject(c)
               steps == IF rtp[k] = 0 THEN <<Create(k), Bind(k)>> ELSE <<>>
    <3>1. Perform(c, "check", steps)
      BY <2>1 DEF CheckChannel
    <3>2. k \in Channels
      BY <3>1, SubjectFacts DEF Perform
    <3>3. steps \in Seq(AnyStep) /\ Pending(steps) = <<>>
      BY <3>2, CheckSteps, PendingEmpty, EmptySeq
    <3> HIDE DEF steps
    <3> QED
      BY <1>2, <3>1, <3>3
  <2>2. CASE BindChannel(c) \/ SendVoice(c)
    BY <1>2, <2>2, PendingEmpty, EmptySeq DEF BindChannel, SendVoice
  <2> QED
    BY <2>1, <2>2
<1> QED
  BY <1>1, <1>3, SameSeen DEF Service!vars

\* A session is created because the client has set its channel; a second one
\* for the channel is not seen.
LEMMA CreateOpens ==
    ASSUME TypeInv, SoughtInv, NEW c \in Clients, CreateChannel(c)
    PROVE  (\E k \in Channels : Service!Open(k)) \/ UNCHANGED Service!vars
<1> DEFINE k == Subject(c)
<1>1. /\ Perform(c, "create", <<>>) /\ rtp' = [rtp EXCEPT ![k] = rtp[k] + 1]
      /\ UNCHANGED <<connected, groups, stream>>
  BY DEF CreateChannel
<1>2. todo[c] # <<>> /\ Head(todo[c]).op = "create"
  BY <1>1 DEF Perform
<1>3. k \in Channels /\ groups[c][k] # 0
  BY <1>2, SubjectFacts, SoughtTail DEF TypeInv, SoughtInv, Subject
<1>4. Owed' = Owed
  <2>1. Pending(todo'[c]) = Pending(todo[c])
    BY <1>1, PendingEmpty, EmptySeq, QuietPerform
  <2>2. \A d \in Clients : d # c => todo'[d] = todo[d]
    BY <1>1, EmptySeq, PerformFacts
  <2> QED
    BY <2>1, <2>2, OwedStep
<1> HIDE DEF k
<1>5. Opened' = Opened \cup {k}
  BY <1>1, <1>3 DEF Opened, TypeInv
<1>6. CASE k \in Opened
  <2>1. Opened' = Opened
    BY <1>5, <1>6
  <2> QED
    BY <1>1, <1>4, <2>1, SameSeen DEF Service!vars
<1>7. CASE k \notin Opened
  BY <1>1, <1>3, <1>4, <1>5, <1>7, SameSeen DEF Service!Open
<1> QED
  BY <1>6, <1>7

\* What is owed first is the message in work.
LEMMA OwedFirst ==
    ASSUME TypeInv, NEW c \in Clients, todo[c] # <<>>, Head(todo[c]).op = "send"
    PROVE  /\ Head(todo[c]).message \in AnyMessage
           /\ Pending(todo[c]) # <<>> /\ Head(Pending(todo[c])) = Head(todo[c]).message
           /\ Tail(Pending(todo[c])) = Pending(Tail(todo[c]))
<1> DEFINE m == Head(todo[c]).message
           rest == Pending(Tail(todo[c]))
<1>1. todo[c] \in Seq(AnyStep) /\ Head(todo[c]) \in AnyStep /\ Tail(todo[c]) \in Seq(AnyStep)
  BY HeadTailProperties DEF TypeInv
<1>2. Pending(todo[c]) = <<m>> \o rest
  BY <1>1, MessageOfSend
<1>3. m \in AnyMessage /\ rest \in Seq(AnyMessage)
  BY <1>1, StepFacts, PendingSeq
<1> HIDE DEF m, rest
<1>4. <<m>> \o rest # <<>> /\ Head(<<m>> \o rest) = m /\ Tail(<<m>> \o rest) = rest
  BY <1>3, FirstAndRest
<1> QED
  BY <1>2, <1>3, <1>4 DEF m, rest

\* The last byte of a frame delivers its message; the others are not seen.
LEMMA SendDelivers ==
    ASSUME TypeInv, ChannelInv, NEW c \in Clients, SendSome(c)
    PROVE  Service!Deliver(c) \/ UNCHANGED Service!vars
<1> DEFINE m == Head(todo[c]).message
           k == count[c]
<1>1. PICK n \in 1 .. FrameLen - k :
         /\ todo[c] # <<>> /\ Head(todo[c]).op = "send" /\ connected[c]
         /\ stream' = [stream EXCEPT ![c] = stream[c] \o Bytes(m, k + 1, k + n)]
         /\ todo' = [todo EXCEPT ![c] = IF k + n = FrameLen THEN Tail(todo[c]) ELSE todo[c]]
  BY SendFacts
<1>2. /\ k \in 0 .. FrameLen - 1 /\ stream[c] \in Seq(AnyByte) /\ todo[c] \in Seq(AnyStep)
      /\ todo \in [Clients -> Seq(AnyStep)] /\ stream \in [Clients -> Seq(AnyByte)]
  BY DEF TypeInv
<1>3. UNCHANGED <<connected, groups, rtp>>
  BY DEF SendSome
<1>4. /\ m \in AnyMessage /\ Pending(todo[c]) # <<>> /\ Head(Pending(todo[c])) = m
      /\ Tail(Pending(todo[c])) = Pending(Tail(todo[c]))
  BY <1>1, OwedFirst
<1>5. /\ k \in Nat /\ k + 1 \in Nat \ {0} /\ k + n \in 0 .. FrameLen /\ k + 1 <= (k + n) + 1
      /\ k + 1 \in 1 .. FrameLen /\ FrameLen \in Nat
      /\ k + n # FrameLen => k + n \in 0 .. FrameLen - 1
  BY <1>2, FrameLenPositive
<1>6. Bytes(m, k + 1, k + n) \in Seq(AnyByte)
  BY <1>4, <1>5, BytesFacts
<1>7. /\ stream'[c] = stream[c] \o Bytes(m, k + 1, k + n)
      /\ todo'[c] = IF k + n = FrameLen THEN Tail(todo[c]) ELSE todo[c]
      /\ \A d \in Clients : d # c => stream'[d] = stream[d] /\ todo'[d] = todo[d]
  BY <1>1, <1>2
<1>8. Confirms(m) \subseteq Opened
  <2> SUFFICES ASSUME NEW j \in Confirms(m) PROVE j \in Opened
    OBVIOUS
  <2>1. j \in Channels
    BY <1>4, ConfirmsChannels
  <2>2. /\ Len(todo[c]) \in Nat \ {0} /\ todo[c][1] = Head(todo[c])
    BY <1>1, <1>2, EmptySeq, HeadTailProperties
  <2>3. 1 \in 1 .. Len(todo[c])
    BY <2>2
  <2>4. rtp[j] # 0 \/ Prepared(todo[c], 1, j)
    BY <1>1, <2>2, <2>3 DEF ChannelInv, Covered
  <2>5. ~Prepared(todo[c], 1, j)
    BY DEF Prepared
  <2> QED
    BY <2>1, <2>4, <2>5 DEF Opened
<1>9. Whole(stream[c]) \in Seq(AnyMessage)
  BY <1>2, WholeSeq
<1> HIDE DEF m, k
<1>10. Whole(stream'[c]) = Whole(stream[c]) \o Whole(Bytes(m, k + 1, k + n))
  BY <1>2, <1>6, <1>7, WholeConcat
<1>11. CASE k + n = FrameLen
  <2>1. Whole(Bytes(m, k + 1, k + n)) = <<m>>
    BY <1>4, <1>5, <1>11, WholeEnd
  <2>2. Whole(stream'[c]) = Append(Whole(stream[c]), m)
    BY <1>4, <1>9, <1>10, <2>1, AppendIsConcat
  <2>3. Read' = [Read EXCEPT ![c] = Append(Read[c], m)]
    BY <1>7, <2>2, ReadStep
  <2>4. /\ Owed[c] # <<>> /\ Head(Owed[c]) = m
        /\ Owed' = [Owed EXCEPT ![c] = Tail(Owed[c])]
    BY <1>4, <1>7, <1>11, OwedStep
  <2> QED
    BY <1>1, <1>3, <1>8, <2>3, <2>4, SameSeen, SameMessages DEF Service!Deliver
<1>12. CASE k + n # FrameLen
  <2>1. Whole(Bytes(m, k + 1, k + n)) = <<>>
    BY <1>4, <1>5, <1>12, WholePart
  <2>2. Whole(stream'[c]) = Whole(stream[c])
    BY <1>9, <1>10, <2>1, ConcatEmptySeq
  <2>3. Read' = Read
    BY <1>7, <2>2, ReadStep
  <2>4. Owed' = Owed
    BY <1>7, <1>12, OwedStep
  <2> QED
    BY <1>3, <2>3, <2>4, SameSeen DEF Service!vars
<1> QED
  BY <1>11, <1>12

LEMMA FailureDrops ==
    ASSUME TypeInv, NEW c \in Clients, SendFails(c)
    PROVE  Service!Drop(c)
<1>1. /\ todo[c] # <<>> /\ Head(todo[c]).op = "send" /\ todo'[c] = <<>> \o Tail(todo[c])
      /\ Tail(todo[c]) \in Seq(AnyStep)
      /\ \A d \in Clients : d # c => todo'[d] = todo[d]
  BY EmptySeq, PerformFacts DEF SendFails
<1>2. todo'[c] = Tail(todo[c])
  BY <1>1, ConcatEmptySeq
<1>3. Owed[c] # <<>> /\ Owed' = [Owed EXCEPT ![c] = Tail(Owed[c])]
  BY <1>1, <1>2, OwedFirst, OwedStep
<1>4. ~connected[c] /\ UNCHANGED <<connected, groups, stream, rtp>>
  BY DEF SendFails
<1> QED
  BY <1>3, <1>4, SameSeen DEF Service!Drop

LEMMA ServiceStep ==
    ASSUME TypeInv, ChannelInv, SoughtInv, [Next]_vars
    PROVE  [Service!Next]_(Service!vars)
<1>1. ASSUME NEW c \in Clients, PeerGone(c) PROVE Service!Leave(c)
  BY <1>1, SameSeen DEF PeerGone, Service!Leave
<1>2. CASE UNCHANGED vars
  BY <1>2, SameSeen DEF vars, Service!vars
<1>3. ASSUME NEW c \in Clients, Take(c) \/ Handle(c) \/ PeerGone(c)
      PROVE  \/ Service!Ask(c) \/ Service!Deliver(c) \/ Service!Drop(c) \/ Service!Leave(c)
             \/ \E k \in Channels : Service!Open(k)
             \/ UNCHANGED Service!vars
  BY <1>1, <1>3, TakeAsks, QuietUnseen, CreateOpens, SendDelivers, FailureDrops DEF Handle
<1> QED
  BY <1>2, <1>3, SameMessages DEF Next, Service!Next

LEMMA ServiceInit == Init => Service!Init
<1> SUFFICES ASSUME Init PROVE Service!Init
  OBVIOUS
<1>1. Owed = [c \in Clients |-> <<>>]
  BY PendingEmpty DEF Init, Owed
<1>2. Whole(<<>>) = <<>>
  <2>1. [i \in 1 .. Len(<<>>) |-> WholeMessage(<<>>[i])] = <<>>
    BY WholeSeq, EmptySeq
  <2> QED
    BY <2>1, FlattenEmpty DEF Whole
<1>3. Read = [c \in Clients |-> <<>>]
  BY <1>2 DEF Init, Read, Received, Whole
<1>4. Opened = {}
  BY DEF Init, Opened
<1> QED
  BY <1>1, <1>3, <1>4, SameMessages DEF Init, Service!Init

\* ImplementsService holds: whatever parse threads, sends and sockets do, the
\* peers see each request answered in whole messages, in order, before the
\* next is taken, the rest of an answer dropped only when they are gone, and
\* every session a message speaks of opened before, because one of them set it.
THEOREM ServiceImplemented == Spec => ImplementsService
<1>1. Init => TypeInv /\ ChannelInv /\ SoughtInv
  BY TypeInit, ChannelInit, SoughtInit
<1>2. TypeInv /\ ChannelInv /\ SoughtInv /\ [Next]_vars => (TypeInv /\ ChannelInv /\ SoughtInv)'
  BY TypeStep, ChannelStep, SoughtStep
<1>3. TypeInv /\ ChannelInv /\ SoughtInv /\ [Next]_vars => [Service!Next]_(Service!vars)
  BY ServiceStep
<1> QED
  BY ServiceInit, <1>1, <1>2, <1>3, PTL DEF Spec, ImplementsService, Service!Spec
=============================================================================
