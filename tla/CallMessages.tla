---------------------------- MODULE CallMessages ----------------------------
(***************************************************************************)
(* The requests of a peer, the replies and notifications it is sent, and   *)
(* which of them a request is answered with.                               *)
(*                                                                         *)
(* Of a message there is what tells the answers apart.  Identifiers are    *)
(* left out (each message has a new one, so that a reply can be told to    *)
(* belong to a request by its place only), and so are the numbers src and  *)
(* dst of a call, which are sent back as they came.                        *)
(***************************************************************************)
EXTENDS Integers

CONSTANT Groups   \* the group ids in requests; 0 stands for none

Channels == 1 .. 2
CallChannels == Channels \cup {0}    \* 0 for any other name of a channel

Names == {"Connect", "Listening", "Query", "CallRequest", "CallRelease", "CallStart"}

\* A request has all fields, those its name does not call for being unused.
AnyRequest ==
    [type : {"Request", "Reply"}, name : Names, groups : Groups \X Groups,
     channel : CallChannels]

\* Messages to the peer.
Message(type, name, ok, g, ch) ==
    [type |-> type, name |-> name, ok |-> ok, groups |-> g, channel |-> ch]
NoGroups == <<0, 0>>

ConnectReply == Message("Reply", "Connect", {TRUE}, NoGroups, 0)

\* The status of each channel, success if a group is set.
ConfigReply(g) == Message("Reply", "Listening", {k \in Channels : g[k] # 0}, g, 0)

\* One status, success if both are set.
QueryReply(g) == Message("Reply", "Query", {g[1] # 0 /\ g[2] # 0}, g, 0)

\* Both calls are refused: "fail", "Unconnect".
CallReply(name) == Message("Reply", name, {FALSE}, NoGroups, 0)
\* A notification; the type is spelled as in the code, not as in the interface
\* description.
CallNotify(name, ch) == Message("Noitify", name, {}, NoGroups, ch)

\* The channels a message says are set.
Confirms(m) == IF m.name = "Listening" THEN m.ok ELSE {}

\* What request r of a client that has asked for groups g last is answered
\* with: each kind of request has its reply, a call is refused and its
\* notification follows, and Query tells g.  These are the messages the code
\* means to send, not those of the interface description, which differs in
\* what a refused call is followed by, in identifiers, in the type of
\* notifications, and has Query tell the groups being listened to.
Answer(r, g) ==
    IF r.type # "Request" THEN <<>> ELSE
    CASE r.name = "Connect"     -> <<ConnectReply>>
      [] r.name = "Listening"   -> <<ConfigReply(r.groups)>>
      [] r.name = "Query"       -> <<QueryReply(g)>>
      [] r.name = "CallRequest" -> <<CallReply(r.name), CallNotify("CallStart", r.channel)>>
      [] r.name = "CallRelease" -> <<CallReply(r.name), CallNotify("CallEnd", r.channel)>>
      [] OTHER                  -> <<>>
=============================================================================
