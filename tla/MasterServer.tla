---------------------------- MODULE MasterServer ----------------------------
(***************************************************************************)
(* MyMasterServer, the application behind JProtocol: the parse thread of   *)
(* every client calls MasterOnDataFunc for each request, which creates the *)
(* RTP sessions of the two channels when they are first asked for, sends   *)
(* the replies and notifications, and sends voice on the session of a      *)
(* call.  The threads of several clients run it at the same time, and      *)
(* nothing guards channel1RTP and channel2RTP.                             *)
(*                                                                         *)
(* MasterOnDataFunc is given here as the list of steps a request leads to; *)
(* one action performs the first of them.  A frame goes to the socket by   *)
(* PhySocketSendData, which sends what send has not yet taken.             *)
(*                                                                         *)
(* A client is here as long as its socket is; how it comes and goes is the *)
(* subject of ClientLifecycle.                                             *)
(***************************************************************************)
EXTENDS CallMessages, Sequences, SequencesExt

CONSTANTS
    Clients,
    Sends,        \* for each client, the requests its peer may make
    MaxRequests,  \* bound of the model: requests of one client
    FrameLen      \* number of bytes of a frame

\* Group ids are read as uint32_t and passed to MasterOnDataFunc as int16_t.
Int16(n) == ((n + 32768) % 65536) - 32768
Int16s(g) == <<Int16(g[1]), Int16(g[2])>>

\* Of the environment: ids that int16_t holds.
ASSUME GroupsAssumption == \A n \in Groups : n \in Nat /\ n < 32768

ASSUME ServerAssumption ==
    /\ Sends \in [Clients -> SUBSET AnyRequest]
    /\ MaxRequests \in Nat \ {0}
    /\ FrameLen \in Nat \ {0}

VARIABLES
    connected,  \* whether the client's socket is
    asked,      \* history: the requests its parse thread has taken
    groups,     \* Listening_Channels_Group of the client's thePROTOCOL_Ctrlr
    channel,    \* the field channel of its PROTOCOL_params
    todo,       \* what MasterOnDataFunc has still to do for it
    count,      \* the local of PhySocketSendData: bytes of the frame sent
    stream,     \* history: the bytes that went to the peer
    rtp,        \* channel1RTP, channel2RTP: 0 for NULL, or the number of the
                \* session, in the order of creation
    bound       \* the session that has the channel's port, or 0

vars == <<connected, asked, groups, channel, todo, count, stream, rtp, bound>>

-----------------------------------------------------------------------------
\* The steps of MasterOnDataFunc.
Step(op, k, m) == [op |-> op, channel |-> k, message |-> m]
NoMessage == Message("None", "None", {}, NoGroups, 0)
Check(k) == Step("check", k, NoMessage)     \* whether the session exists
Create(k) == Step("create", k, NoMessage)   \* new MyRTP
Bind(k) == Step("bind", k, NoMessage)       \* RtpParamsInit
Send(m) == Step("send", 0, m)
Voice(k) == Step("voice", k, NoMessage)     \* SendRTPPayloadData

\* Something that is only there under a condition.
When(condition, item) == IF condition THEN <<item>> ELSE <<>>

\* Mutant: the reply is sent before the sessions are created.
MasterOnDataFunc_ReplyFirst(name, g, ch) ==
    CASE name = "Connect"     -> <<Send(ConnectReply)>>
      [] name = "Listening"   ->
            <<Send(ConfigReply(g))>> \o When(g[1] # 0, Check(1)) \o When(g[2] # 0, Check(2))
      [] name = "Query"       -> <<Send(QueryReply(g))>>
      [] name = "CallRequest" ->
            <<Send(CallReply("CallRequest")), Send(CallNotify("CallStart", ch))>>
            \o When(ch \in Channels, Voice(ch))
      [] name = "CallRelease" ->
            <<Send(CallReply("CallRelease")), Send(CallNotify("CallEnd", ch))>>
      [] OTHER                -> <<>>

\* Mutant: both sessions are created, whether or not their group is set.
MasterOnDataFunc_Both(name, g, ch) ==
    IF name = "Listening" THEN <<Check(1), Check(2), Send(ConfigReply(g))>>
    ELSE MasterOnDataFunc_ReplyFirst(name, g, ch)

\* MasterOnDataFunc for a command and the parameters it is passed.
MasterOnDataFunc(name, g, ch) ==
    CASE name = "Connect"     -> <<Send(ConnectReply)>>
      [] name = "Listening"   ->
            When(g[1] # 0, Check(1)) \o When(g[2] # 0, Check(2)) \o <<Send(ConfigReply(g))>>
      [] name = "Query"       -> <<Send(QueryReply(g))>>
      [] name = "CallRequest" ->
            <<Send(CallReply("CallRequest")), Send(CallNotify("CallStart", ch))>>
            \o When(ch \in Channels, Voice(ch))
      [] name = "CallRelease" ->
            <<Send(CallReply("CallRelease")), Send(CallNotify("CallEnd", ch))>>
      [] OTHER                -> <<>>

Init ==
    /\ connected = [c \in Clients |-> TRUE]
    /\ asked = [c \in Clients |-> <<>>]
    /\ groups = [c \in Clients |-> NoGroups]
    /\ channel = [c \in Clients |-> 0]
    /\ todo = [c \in Clients |-> <<>>]
    /\ count = [c \in Clients |-> 0]
    /\ stream = [c \in Clients |-> <<>>]
    /\ rtp = [k \in Channels |-> 0]
    /\ bound = [k \in Channels |-> 0]

-----------------------------------------------------------------------------
NotedGroups(c, r) == IF r.name = "Listening" THEN r.groups ELSE groups[c]
NotedChannel(c, r) ==
    IF r.name \in {"CallRequest", "CallRelease", "CallStart"} THEN r.channel ELSE channel[c]

\* ProtocolParseThreadFunc, DataProcessFunc: a request is taken, its
\* parameters are noted in the client's thePROTOCOL_Ctrlr, and if it is of
\* type Request it is handled with what is noted there.
Take(c) ==
    /\ todo[c] = <<>>
    /\ Len(asked[c]) < MaxRequests
    /\ \E r \in Sends[c] :
          /\ asked' = [asked EXCEPT ![c] = Append(@, r)]
          /\ groups' = [groups EXCEPT ![c] = NotedGroups(c, r)]
          /\ channel' = [channel EXCEPT ![c] = NotedChannel(c, r)]
          /\ todo' = [todo EXCEPT ![c] =
                IF r.type = "Request"
                THEN MasterOnDataFunc(r.name, Int16s(groups'[c]), channel'[c])
                ELSE <<>>]
    /\ UNCHANGED <<connected, count, stream, rtp, bound>>

\* MasterOnDataFunc comes to a step of kind op, on which steps follow.
Perform(c, op, steps) ==
    /\ todo[c] # <<>>
    /\ Head(todo[c]).op = op
    /\ todo' = [todo EXCEPT ![c] = steps \o Tail(@)]

Subject(c) == Head(todo[c]).channel

\* LISTENING: channelXRTP == NULL ?
CheckChannel(c) ==
    /\ Perform(c, "check",
               IF rtp[Subject(c)] = 0 THEN <<Create(Subject(c)), Bind(Subject(c))>> ELSE <<>>)
    /\ UNCHANGED <<connected, asked, groups, channel, count, stream, rtp, bound>>

\* LISTENING: channelXRTP = new MyRTP.
CreateChannel(c) ==
    /\ Perform(c, "create", <<>>)
    /\ rtp' = [rtp EXCEPT ![Subject(c)] = @ + 1]
    /\ UNCHANGED <<connected, asked, groups, channel, count, stream, bound>>

\* LISTENING: channelXRTP->RtpParamsInit, which binds whatever session the
\* pointer now names to the port of the channel, and fails if one has it.
BindChannel(c) ==
    /\ Perform(c, "bind", <<>>)
    /\ bound' = [bound EXCEPT ![Subject(c)] = IF @ = 0 THEN rtp[Subject(c)] ELSE @]
    /\ UNCHANGED <<connected, asked, groups, channel, count, stream, rtp>>

\* CALLREQUEST: voice is sent if there is a session.
SendVoice(c) ==
    /\ Perform(c, "voice", <<>>)
    /\ UNCHANGED <<connected, asked, groups, channel, count, stream, rtp, bound>>

Bytes(m, from, to) == [i \in 1 .. to - from + 1 |-> <<m, from + i - 1>>]

\* Mutant: what was not taken is not sent again.
SendSome_Once(c) ==
    /\ todo[c] # <<>>
    /\ Head(todo[c]).op = "send"
    /\ connected[c]
    /\ \E n \in 1 .. FrameLen :
          /\ stream' = [stream EXCEPT ![c] = @ \o Bytes(Head(todo[c]).message, 1, n)]
          /\ todo' = [todo EXCEPT ![c] = Tail(@)]
    /\ UNCHANGED <<connected, asked, groups, channel, count, rtp, bound>>

\* Mutant: count goes on from one frame to the next.
SendSome_NoReset(c) ==
    /\ todo[c] # <<>>
    /\ Head(todo[c]).op = "send"
    /\ connected[c]
    /\ \E n \in 1 .. FrameLen - count[c] :
          /\ stream' = [stream EXCEPT ![c] =
                           @ \o Bytes(Head(todo[c]).message, count[c] + 1, count[c] + n)]
          /\ count' = [count EXCEPT ![c] = @ + n]
          /\ todo' = [todo EXCEPT ![c] = IF count[c] + n = FrameLen THEN Tail(@) ELSE @]
    /\ UNCHANGED <<connected, asked, groups, channel, rtp, bound>>

\* PhySocketSendData: send takes some of the bytes that are left; when none
\* are left the function returns.
SendSome(c) ==
    /\ todo[c] # <<>>
    /\ Head(todo[c]).op = "send"
    /\ connected[c]
    /\ \E n \in 1 .. FrameLen - count[c] :
          /\ stream' = [stream EXCEPT ![c] =
                           @ \o Bytes(Head(todo[c]).message, count[c] + 1, count[c] + n)]
          /\ count' = [count EXCEPT ![c] = IF @ + n = FrameLen THEN 0 ELSE @ + n]
          /\ todo' = [todo EXCEPT ![c] = IF count[c] + n = FrameLen THEN Tail(@) ELSE @]
    /\ UNCHANGED <<connected, asked, groups, channel, rtp, bound>>

\* Mutant: every error is taken for a timeout, and the send tried again.
SendFails_Retries(c) ==
    /\ ~connected[c]
    /\ Perform(c, "send", <<Head(todo[c])>>)
    /\ count' = [count EXCEPT ![c] = 0]
    /\ UNCHANGED <<connected, asked, groups, channel, stream, rtp, bound>>

\* PhySocketSendData: send fails, the socket being gone, and the function
\* returns -1, at which nobody looks.
SendFails(c) ==
    /\ ~connected[c]
    /\ Perform(c, "send", <<>>)
    /\ count' = [count EXCEPT ![c] = 0]
    /\ UNCHANGED <<connected, asked, groups, channel, stream, rtp, bound>>

\* The peer disconnects.
PeerGone(c) ==
    /\ connected[c]
    /\ connected' = [connected EXCEPT ![c] = FALSE]
    /\ UNCHANGED <<asked, groups, channel, todo, count, stream, rtp, bound>>

Handle(c) == \/ CheckChannel(c) \/ CreateChannel(c) \/ BindChannel(c)
             \/ SendVoice(c) \/ SendSome(c) \/ SendFails(c)

Next == \E c \in Clients : Take(c) \/ Handle(c) \/ PeerGone(c)

Spec == Init /\ [][Next]_vars

\* The parse threads run, and a peer reads what it is sent or leaves; it need
\* not ask for anything.
FairSpec == Spec /\ \A c \in Clients : WF_vars(Handle(c))

-----------------------------------------------------------------------------
TypeOK ==
    /\ connected \in [Clients -> BOOLEAN]
    /\ asked \in [Clients -> Seq(AnyRequest)]
    /\ groups \in [Clients -> Groups \X Groups \cup {NoGroups}]
    /\ channel \in [Clients -> CallChannels]
    /\ \A c \in Clients : \A i \in DOMAIN todo[c] :
          /\ todo[c][i].op \in {"check", "create", "bind", "send", "voice"}
          /\ todo[c][i].op # "send" => todo[c][i].channel \in Channels
    /\ count \in [Clients -> 0 .. FrameLen - 1]
    /\ DOMAIN stream = Clients
    /\ rtp \in [Channels -> Nat]
    /\ \A k \in Channels : bound[k] \in 0 .. rtp[k]

\* The groups of the last Listening among the first n requests of q.
LastGroups(q, n) ==
    LET listening == {i \in 1 .. n : q[i].name = "Listening"}
    IN  IF listening = {} THEN NoGroups ELSE q[Max(listening)].groups

\* What the i-th request of q is answered with.
AnswerTo(q, i) == Answer(q[i], LastGroups(q, i))
Answers(q) == FlattenSeq([i \in DOMAIN q |-> AnswerTo(q, i)])

\* The frames of messages, one behind the other.
Framed(messages) == FlattenSeq([i \in DOMAIN messages |-> Bytes(messages[i], 1, FrameLen)])
AnswerBytes(c) == Framed(Answers(asked[c]))

\* What a peer reads is a beginning of the frames of the answers to its
\* requests, in the order of these, with no byte missing, doubled or of
\* another client, however few bytes each send takes and whenever the socket
\* breaks; what Query tells are the groups of its own last Listening, though
\* the channels are shared.  Whether the answers are the right ones is not said.
PeerReadsAnswers == \A c \in Clients : IsPrefix(stream[c], AnswerBytes(c))

\* A client that was told that its channel is set finds a session when it
\* calls on it, whichever client's request had it created.
ConfirmedChannelExists ==
    \A c \in Clients : \A i \in DOMAIN stream[c] :
        LET m == stream[c][i][1]
        IN  stream[c][i][2] = FrameLen /\ m.name = "Listening" => \A k \in m.ok : rtp[k] # 0

\* Every request is dealt with, and all of its answer sent if the peer stays.
EveryRequestAnswered ==
    \A c \in Clients :
        todo[c] # <<>> ~> todo[c] = <<>> /\ (connected[c] => stream[c] = AnswerBytes(c))

\* The messages that have arrived whole.
WholeMessage(b) == When(b[2] = FrameLen, b[1])
Received(c) == FlattenSeq([i \in 1 .. Len(stream[c]) |-> WholeMessage(stream[c][i])])

\* The interface description, 3.3: a call that fails at once is one whose
\* CallStart is followed by a CallEnd.
Count(c, name, ok) ==
    Len(SelectSeq(Received(c), LAMBDA m : m.name = name /\ m.ok = ok))
FailedCallIsEnded ==
    \A c \in Clients : \A n \in 1 .. MaxRequests :
        Count(c, "CallRequest", {FALSE}) >= n
            ~> Count(c, "CallEnd", {}) >= n \/ ~connected[c]

\* The messages still to be sent, those among the steps to do.
MessagesOf(step) == When(step.op = "send", step.message)
Pending(steps) == FlattenSeq([i \in 1 .. Len(steps) |-> MessagesOf(steps[i])])

\* The server as the peers see it.
Owed == [c \in Clients |-> Pending(todo[c])]
Read == [c \in Clients |-> Received(c)]
Opened == {k \in Channels : rtp[k] # 0}

Service == INSTANCE CallService WITH
    here <- connected, wanted <- groups, owed <- Owed, read <- Read, open <- Opened

\* Parse threads that share the channels, partial sends and broken sockets
\* look to the peers like a service that answers one request of each after
\* the other by whole messages, and opens the sessions they speak of before.
ImplementsService == Service!Spec
=============================================================================
