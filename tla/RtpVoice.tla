------------------------------ MODULE RtpVoice ------------------------------
(***************************************************************************)
(* The RTP sessions of MyMasterServer, from the request that creates one   *)
(* to ~MyMasterServer.  The parse threads create the session of a channel  *)
(* when its pointer is NULL, start its poll thread, set its callback and,  *)
(* for channel 1, open the file the callback writes to.  ~MyMasterServer   *)
(* deletes the sessions first and only then JProtocol, whose destructor    *)
(* joins the parse threads; nothing guards pointers, sessions and file.    *)
(*                                                                         *)
(* Requests are the lists of steps MasterServer has for them, here without *)
(* the frames that are sent.  A step on a NULL pointer or on freed memory, *)
(* and a write to a file that is not open, end the program: that is what   *)
(* the debug build does.                                                   *)
(***************************************************************************)
EXTENDS Integers, Sequences, FiniteSets

CONSTANTS
    Threads,       \* the parse threads
    Requests,      \* for each of them, the requests its peer may make
    MaxRequests,   \* bound of the model: requests of one peer
    MaxSessions    \* bound of the model: sessions created

Channels == 1 .. 2

\* The steps of a request on a channel.
Op == {"check", "new", "init", "callback", "open", "test", "voice"}
Step(op, k) == [op |-> op, channel |-> k]
Steps == [op : Op, channel : Channels]

ASSUME VoiceAssumption ==
    /\ Requests \in [Threads -> SUBSET Seq({Step(op, k) : op \in {"check", "test"}, k \in Channels})]
    /\ MaxRequests \in Nat
    /\ MaxSessions \in Nat

\* Sessions and poll threads are numbered as they come, a file has the first
\* number that is free; 0 is NULL.
Sessions == 1 .. MaxSessions
NoFault == <<"none", 0>>

VARIABLES
    todo,      \* what each parse thread has still to do
    asked,     \* bound of the model: requests each has taken
    wanted,    \* history: channels some request has set
    rtp,       \* channel1RTP, channel2RTP
    session,   \* whether each session is there
    channel,   \* the channel each session was created for
    bound,     \* the session that has the channel's port
    callback,  \* the sessions whose RecvVoiceCallBackFunc is set
    flagged,   \* the sessions whose set_thread_exit_flag is set
    poll,      \* where each poll thread is
    polls,     \* the session each works on
    thread_p,  \* rx_rtp_thread_p of each session
    fp,        \* the file of channel 1
    open,      \* the files that are open
    phase,     \* where the main thread is in ~MyMasterServer,
    at,        \* at which channel,
    victim,    \* which session it deletes
    joining,   \* and the poll thread it waits for
    raced,     \* history: channels whose session was overwritten by another
    late,      \* history: channels a request worked on during ~MyMasterServer
    fault      \* what ended the program, and the channel

threadVars == <<todo, asked, wanted, late>>
sessionVars == <<session, channel, callback, flagged, thread_p>>
pollVars == <<poll, polls>>
fileVars == <<fp, open>>
mainVars == <<phase, at, victim, joining>>
vars == <<threadVars, rtp, bound, sessionVars, pollVars, fileVars, mainVars, raced, fault>>

Init ==
    /\ todo = [t \in Threads |-> <<>>]
    /\ asked = [t \in Threads |-> 0]
    /\ wanted = {}
    /\ rtp = [k \in Channels |-> 0]
    /\ session = [s \in Sessions |-> "none"]
    /\ channel = [s \in Sessions |-> 0]
    /\ bound = [k \in Channels |-> 0]
    /\ callback = {}
    /\ flagged = {}
    /\ poll = [p \in Sessions |-> "none"]
    /\ polls = [p \in Sessions |-> 0]
    /\ thread_p = [s \in Sessions |-> 0]
    /\ fp = 0
    /\ open = {}
    /\ phase = "running"
    /\ at = 1
    /\ victim = 0
    /\ joining = 0
    /\ raced = {}
    /\ late = {}
    /\ fault = NoFault

-----------------------------------------------------------------------------
\* A parse thread takes a request, which it may until ~JProtocol has joined it.
Take(t) ==
    /\ todo[t] = <<>>
    /\ asked[t] < MaxRequests
    /\ phase # "gone"
    /\ \E r \in Requests[t] : todo' = [todo EXCEPT ![t] = r]
    /\ asked' = [asked EXCEPT ![t] = @ + 1]
    /\ UNCHANGED <<wanted, late, rtp, bound, sessionVars, pollVars, fileVars, mainVars, raced, fault>>

Subject(t) == Head(todo[t]).channel

\* The step of thread t is of kind op, and steps follow on it.
Perform(t, op, steps) ==
    /\ todo[t] # <<>>
    /\ Head(todo[t]).op = op
    /\ todo' = [todo EXCEPT ![t] = steps \o Tail(@)]
    /\ wanted' = IF op = "check" THEN wanted \cup {Subject(t)} ELSE wanted
    /\ late' = IF phase = "running" THEN late ELSE late \cup {Subject(t)}
    /\ UNCHANGED asked

\* The pointers are read anew at each step, so that a thread goes on with
\* whatever session they name by then.
Named(t) == rtp[Subject(t)]
Usable(s) == s \in Sessions /\ session[s] = "alive"

\* LISTENING: the steps for a channel without a session.
Creation(k) ==
    <<Step("new", k), Step("init", k), Step("callback", k)>>
    \o IF k = 1 THEN <<Step("open", k)>> ELSE <<>>

\* Mutant: the pointer of the other channel is tested.
CheckChannel_Other(t) ==
    /\ Perform(t, "check", IF rtp[1] = 0 THEN Creation(Subject(t)) ELSE <<>>)
    /\ UNCHANGED <<rtp, bound, sessionVars, pollVars, fileVars, mainVars, raced, fault>>

\* LISTENING: channelXRTP == NULL ?
CheckChannel(t) ==
    /\ Perform(t, "check", IF Named(t) = 0 THEN Creation(Subject(t)) ELSE <<>>)
    /\ UNCHANGED <<rtp, bound, sessionVars, pollVars, fileVars, mainVars, raced, fault>>

\* LISTENING: channelXRTP = new MyRTP, over whatever was there.
NewSession(t) ==
    /\ Perform(t, "new", <<>>)
    /\ \E s \in Sessions :
          /\ session[s] = "none"
          /\ \A r \in Sessions : r < s => session[r] # "none"
          /\ session' = [session EXCEPT ![s] = "alive"]
          /\ channel' = [channel EXCEPT ![s] = Subject(t)]
          /\ rtp' = [rtp EXCEPT ![Subject(t)] = s]
    /\ raced' = IF Named(t) = 0 THEN raced ELSE raced \cup {Subject(t)}
    /\ UNCHANGED <<bound, callback, flagged, thread_p, pollVars, fileVars, mainVars, fault>>

\* RtpParamsInit: the session binds the port of the channel, unless one has
\* it, and its poll thread is started even if that failed.
InitSession(t) ==
    /\ Perform(t, "init", <<>>)
    /\ Usable(Named(t))
    /\ bound' = [bound EXCEPT ![Subject(t)] = IF @ = 0 THEN Named(t) ELSE @]
    /\ \E p \in Sessions :
          /\ poll[p] = "none"
          /\ \A q \in Sessions : q < p => poll[q] # "none"
          /\ poll' = [poll EXCEPT ![p] = "polling"]
          /\ polls' = [polls EXCEPT ![p] = Named(t)]
          /\ thread_p' = [thread_p EXCEPT ![Named(t)] = p]
    /\ UNCHANGED <<rtp, session, channel, callback, flagged, fileVars, mainVars, raced, fault>>

\* SetCallBackFunc.
SetCallBackFunc(t) ==
    /\ Perform(t, "callback", <<>>)
    /\ Usable(Named(t))
    /\ callback' = callback \cup {Named(t)}
    /\ UNCHANGED <<rtp, bound, session, channel, flagged, thread_p, pollVars,
                   fileVars, mainVars, raced, fault>>

\* LISTENING: the file is opened, over whatever was in fp.
OpenFile(t) ==
    /\ Perform(t, "open", <<>>)
    /\ \E f \in Sessions \ open :
          /\ \A g \in Sessions \ open : f <= g
          /\ fp' = f
          /\ open' = open \cup {f}
    /\ UNCHANGED <<rtp, bound, sessionVars, pollVars, mainVars, raced, fault>>

\* LISTENING: the file cannot be opened, which is printed, and then fseek is
\* called with NULL.
OpenFails(t) ==
    /\ Perform(t, "open", <<>>)
    /\ fault' = <<"open", 1>>
    /\ UNCHANGED <<rtp, bound, sessionVars, pollVars, fileVars, mainVars, raced>>

\* CALLREQUEST: channelXRTP != NULL ?
TestSession(t) ==
    /\ Perform(t, "test", IF Named(t) = 0 THEN <<>> ELSE <<Step("voice", Subject(t))>>)
    /\ UNCHANGED <<rtp, bound, sessionVars, pollVars, fileVars, mainVars, raced, fault>>

\* CALLREQUEST: voice is sent.
SendVoice(t) ==
    /\ Perform(t, "voice", <<>>)
    /\ Usable(Named(t))
    /\ UNCHANGED <<rtp, bound, sessionVars, pollVars, fileVars, mainVars, raced, fault>>

\* Any of these steps on a pointer that is NULL by then, or on a session that
\* has been freed.
UseDead(t) ==
    /\ \E op \in {"init", "callback", "voice"} : Perform(t, op, <<>>)
    /\ ~Usable(Named(t))
    /\ fault' = <<IF Named(t) = 0 THEN "null" ELSE "freed", Subject(t)>>
    /\ UNCHANGED <<rtp, bound, sessionVars, pollVars, fileVars, mainVars, raced>>

Parse(t) == \/ CheckChannel(t) \/ NewSession(t) \/ InitSession(t)
            \/ SetCallBackFunc(t) \/ OpenFile(t) \/ OpenFails(t)
            \/ TestSession(t) \/ SendVoice(t) \/ UseDead(t)

-----------------------------------------------------------------------------
\* OnPollThreadFunc: a packet has come and the callback is called, which for
\* channel 1 writes to fp; it finds the server by pThis.
Deliver(p) ==
    LET s == polls[p]
        k == channel[s]
    IN  /\ poll[p] = "polling"
        /\ session[s] = "alive"
        /\ bound[k] = s
        /\ s \in callback
        /\ fault' = IF phase = "gone" THEN <<"freed", k>>
                    ELSE IF k = 1 /\ fp \notin open THEN <<"file", k>>
                    ELSE fault
        /\ UNCHANGED <<threadVars, rtp, bound, sessionVars, pollVars, fileVars,
                       mainVars, raced>>

\* Mutant: the thread waits for packets, and only then looks at the flag.
PollStops_OnPacket(p) ==
    /\ poll[p] = "polling"
    /\ session[polls[p]] = "alive"
    /\ bound[channel[polls[p]]] = polls[p]
    /\ polls[p] \in flagged
    /\ poll' = [poll EXCEPT ![p] = "leaving"]
    /\ UNCHANGED <<threadVars, rtp, bound, sessionVars, polls, fileVars, mainVars, raced, fault>>

\* OnPollThreadFunc: the flag is seen.
PollStops(p) ==
    /\ poll[p] = "polling"
    /\ session[polls[p]] = "alive"
    /\ polls[p] \in flagged
    /\ poll' = [poll EXCEPT ![p] = "leaving"]
    /\ UNCHANGED <<threadVars, rtp, bound, sessionVars, polls, fileVars, mainVars, raced, fault>>

\* OnPollThreadFunc: BYEDestroy gives the port back, and the thread ends.
ByeDestroy(p) ==
    LET s == polls[p]
    IN  /\ poll[p] = "leaving"
        /\ session[s] = "alive"
        /\ poll' = [poll EXCEPT ![p] = "ended"]
        /\ bound' = [k \in Channels |-> IF bound[k] = s THEN 0 ELSE bound[k]]
        /\ UNCHANGED <<threadVars, rtp, sessionVars, polls, fileVars, mainVars, raced, fault>>

\* A poll thread looks at its session, which has been freed.
PollsDead(p) ==
    /\ poll[p] \in {"polling", "leaving"}
    /\ session[polls[p]] = "freed"
    /\ fault' = <<"freed", channel[polls[p]]>>
    /\ UNCHANGED <<threadVars, rtp, bound, sessionVars, pollVars, fileVars, mainVars, raced>>

Poll(p) == Deliver(p) \/ PollStops(p) \/ ByeDestroy(p) \/ PollsDead(p)

-----------------------------------------------------------------------------
\* "quit" is typed and the server deleted.
Quit ==
    /\ phase = "running"
    /\ phase' = "testing"
    /\ UNCHANGED <<threadVars, rtp, bound, sessionVars, pollVars, fileVars, at,
                   victim, joining, raced, fault>>

\* Mutant: a third channel is looked for.
NextChannel_OffByOne ==
    IF at <= 2 THEN at' = at + 1 /\ phase' = "testing" ELSE at' = at /\ phase' = "gate"

\* ~MyMasterServer goes on with the next channel, or with JProtocol.
NextChannel ==
    IF at = 1 THEN at' = 2 /\ phase' = "testing" ELSE at' = at /\ phase' = "gate"

\* Mutant: the second session is forgotten.
TestChannel_FirstOnly ==
    /\ phase = "testing"
    /\ IF rtp[1] = 0 \/ at = 2 THEN NextChannel ELSE phase' = "deleting" /\ UNCHANGED at
    /\ UNCHANGED <<threadVars, rtp, bound, sessionVars, pollVars, fileVars,
                   victim, joining, raced, fault>>

\* ~MyMasterServer: channelXRTP != NULL ?
TestChannel ==
    /\ phase = "testing"
    /\ IF rtp[at] = 0 THEN NextChannel ELSE phase' = "deleting" /\ UNCHANGED at
    /\ UNCHANGED <<threadVars, rtp, bound, sessionVars, pollVars, fileVars,
                   victim, joining, raced, fault>>

\* Mutant: the file is closed before the session is deleted.
DeleteChannel_ClosesFile ==
    /\ phase = "deleting"
    /\ phase' = "joining"
    /\ victim' = rtp[at]
    /\ flagged' = flagged \cup {rtp[at]}
    /\ joining' = thread_p[rtp[at]]
    /\ IF at = 1 THEN fp' = 0 /\ open' = open \ {fp} ELSE UNCHANGED fileVars
    /\ UNCHANGED <<threadVars, rtp, bound, session, channel, callback, thread_p,
                   pollVars, at, raced, fault>>

\* ~MyRTP: the flag is set, and the poll thread found to be joined.
DeleteChannel ==
    /\ phase = "deleting"
    /\ phase' = "joining"
    /\ victim' = rtp[at]
    /\ flagged' = flagged \cup {rtp[at]}
    /\ joining' = thread_p[rtp[at]]
    /\ UNCHANGED <<threadVars, rtp, bound, session, channel, callback, thread_p,
                   pollVars, fileVars, at, raced, fault>>

\* Mutant: the poll thread is told to stop and not waited for.
JoinPoll_NoWait ==
    /\ phase = "joining"
    /\ phase' = "clearing"
    /\ session' = [session EXCEPT ![victim] = "freed"]
    /\ bound' = [k \in Channels |-> IF bound[k] = victim THEN 0 ELSE bound[k]]
    /\ UNCHANGED <<threadVars, rtp, channel, callback, flagged, thread_p,
                   pollVars, fileVars, at, victim, joining, raced, fault>>

\* ~MyRTP: the poll thread is joined if there is one, and the session freed
\* with the port it has.
JoinPoll ==
    /\ phase = "joining"
    /\ joining # 0 => poll[joining] = "ended"
    /\ phase' = "clearing"
    /\ session' = [session EXCEPT ![victim] = "freed"]
    /\ bound' = [k \in Channels |-> IF bound[k] = victim THEN 0 ELSE bound[k]]
    /\ UNCHANGED <<threadVars, rtp, channel, callback, flagged, thread_p,
                   pollVars, fileVars, at, victim, joining, raced, fault>>

\* ~MyMasterServer: the pointer is cleared,
ClearPointer ==
    /\ phase = "clearing"
    /\ phase' = "closing"
    /\ rtp' = [rtp EXCEPT ![at] = 0]
    /\ victim' = 0
    /\ joining' = 0
    /\ UNCHANGED <<threadVars, bound, sessionVars, pollVars, fileVars, at, raced, fault>>

\* and the file closed with channel 1.
CloseFile ==
    /\ phase = "closing"
    /\ IF at = 1 THEN fp' = 0 /\ open' = open \ {fp} ELSE UNCHANGED fileVars
    /\ NextChannel
    /\ UNCHANGED <<threadVars, rtp, bound, sessionVars, pollVars, victim,
                   joining, raced, fault>>

\* ~JProtocol has joined the parse threads, and the server is freed.
DeleteGate ==
    /\ phase = "gate"
    /\ \A t \in Threads : todo[t] = <<>>
    /\ phase' = "gone"
    /\ UNCHANGED <<threadVars, rtp, bound, sessionVars, pollVars, fileVars, at,
                   victim, joining, raced, fault>>

Delete == TestChannel \/ DeleteChannel \/ JoinPoll \/ ClearPointer \/ CloseFile \/ DeleteGate

Next ==
    /\ fault = NoFault
    /\ \/ \E t \in Threads : Take(t) \/ Parse(t)
       \/ \E p \in Sessions : Poll(p)
       \/ Quit \/ Delete

Spec == Init /\ [][Next]_vars

\* All threads run; packets need not come, and nobody needs to type "quit".
Fairness ==
    /\ \A t \in Threads : WF_vars(fault = NoFault /\ Parse(t))
    /\ \A p \in Sessions : WF_vars(fault = NoFault /\ (PollStops(p) \/ ByeDestroy(p)))
    /\ WF_vars(fault = NoFault /\ Delete)

FairSpec == Spec /\ Fairness

-----------------------------------------------------------------------------
TypeOK ==
    /\ todo \in [Threads -> Seq(Steps)]
    /\ asked \in [Threads -> 0 .. MaxRequests]
    /\ wanted \subseteq Channels
    /\ rtp \in [Channels -> Sessions \cup {0}]
    /\ session \in [Sessions -> {"none", "alive", "freed"}]
    /\ channel \in [Sessions -> Channels \cup {0}]
    /\ bound \in [Channels -> Sessions \cup {0}]
    /\ callback \subseteq Sessions
    /\ flagged \subseteq Sessions
    /\ poll \in [Sessions -> {"none", "polling", "leaving", "ended"}]
    /\ polls \in [Sessions -> Sessions \cup {0}]
    /\ thread_p \in [Sessions -> Sessions \cup {0}]
    /\ fp \in Sessions \cup {0}
    /\ open \subseteq Sessions
    /\ phase \in {"running", "testing", "deleting", "joining", "clearing",
                  "closing", "gate", "gone"}
    /\ at \in Channels
    /\ victim \in Sessions \cup {0}
    /\ joining \in Sessions \cup {0}
    /\ raced \subseteq Channels
    /\ late \subseteq Channels
    /\ fault \in {"none", "null", "freed", "file", "open"} \X (Channels \cup {0})

\* Two requests created the channel's session at the same time, or a request
\* worked on it while the server was being deleted.
Disturbed == raced \cup late

\* A poll thread is joined before its session is freed, unless the channel is
\* disturbed: then it may be one that nobody joins.
PollEndsFirst ==
    \A p \in Sessions :
        poll[p] \in {"polling", "leaving"} /\ session[polls[p]] = "freed"
            => channel[polls[p]] \in Disturbed

\* While the server runs, a channel that a request has set, that is not
\* disturbed and whose session nobody is creating hears what is sent to it:
\* the session its pointer names has the port, a poll thread, the callback,
\* and for channel 1 a file to write to.
Creating(k) ==
    \E t \in Threads : \E i \in DOMAIN todo[t] :
        todo[t][i].channel = k /\ todo[t][i].op \in {"new", "init", "callback", "open"}
ChannelHears ==
    \A k \in Channels \ Disturbed :
        fault = NoFault /\ phase = "running" /\ k \in wanted /\ ~Creating(k) =>
            /\ rtp[k] # 0 /\ bound[k] = rtp[k]
            /\ \E p \in Sessions : polls[p] = rtp[k] /\ poll[p] = "polling"
            /\ rtp[k] \in callback
            /\ k = 1 => fp \in open

\* When the server is freed, so are the sessions of all channels that are not
\* disturbed, with port and file.
VoiceCleanedUp ==
    phase = "gone" =>
        /\ \A s \in Sessions : session[s] = "alive" => channel[s] \in Disturbed
        /\ \A k \in Channels \ Disturbed : bound[k] = 0
        /\ 1 \in Disturbed \/ open = {}

\* The program comes to grief over a session or the file only on a disturbed
\* channel, or if voice is received before the file has been opened.
FaultsExplained ==
    fault[1] \in {"null", "freed", "file"} =>
        \/ fault[2] \in Disturbed
        \/ /\ fault[1] = "file"
           /\ \E t \in Threads : todo[t] # <<>> /\ Head(todo[t]) = Step("open", 1)

\* Deleting the server ends, with all its joins.
ShutdownEnds == phase = "testing" ~> phase = "gone" \/ fault # NoFault
=============================================================================
