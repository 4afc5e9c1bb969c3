---------------------------- MODULE ListenChain ----------------------------
(***************************************************************************)
(* The listener threads of JProtocol.  Each accepts one connection and     *)
(* first starts the next listener, whose thread object it puts in the      *)
(* array listen_thread_p under the index listen_numb; ~JProtocol walks the *)
(* array and joins what it finds.                                          *)
(*                                                                         *)
(* listen_thread_p[listen_numb++] = new MyCreateThread(...) is compiled to *)
(* four steps (see the object file of the build): start the thread, store  *)
(* the pointer, load the counter, write it back plus one.  Nothing guards  *)
(* them.                                                                   *)
(***************************************************************************)
EXTENDS Integers

CONSTANTS
    MAX_LISTENING_COUNT,  \* length of listen_thread_p, 65535 in the code
    MaxThreads,           \* bound of the model: listener threads started
    AcceptRace            \* environment: whether a listener may come back from
                          \* accept before the thread that started it has
                          \* counted it

ASSUME ListenAssumption ==
    /\ MAX_LISTENING_COUNT \in Nat \ {0}
    /\ MaxThreads \in Nat \ {0}
    /\ AcceptRace \in BOOLEAN

Main == -1                        \* the main thread, which starts listener 0
Listeners == 0 .. MaxThreads - 1  \* in the order in which they are started
Threads == Listeners \cup {Main}
NoThread == -2

VARIABLES
    serversoc,        \* whether the variable holds a descriptor
    server_open,      \* whether mytcp_server's socket is open
    listen_thread_p,  \* the listener in each slot, NoThread for NULL
    listen_numb,      \* the counter
    started,          \* history: how many listeners were started
    pc,               \* where each thread is
    child,            \* the listener a thread has started and not yet stored
    count,            \* the value of listen_numb a thread has loaded
    conn,             \* what accept gave: "none", a "socket" or "invalid"
    outcome,          \* history: what became of the socket it accepted
    next              \* main thread: the slot ~JProtocol looks at

vars == <<serversoc, server_open, listen_thread_p, listen_numb, started, pc,
          child, count, conn, outcome, next>>
serverVars == <<serversoc, server_open>>
slotVars == <<listen_thread_p, listen_numb>>

Init ==
    /\ serversoc = TRUE
    /\ server_open = TRUE
    /\ listen_thread_p = [i \in 0 .. MAX_LISTENING_COUNT - 1 |-> NoThread]
    /\ listen_numb = 0
    /\ started = 0
    /\ pc = [t \in Threads |-> IF t = Main THEN "creating" ELSE "unborn"]
    /\ child = [t \in Threads |-> NoThread]
    /\ count = [t \in Threads |-> 0]
    /\ conn = [t \in Listeners |-> "none"]
    /\ outcome = [t \in Listeners |-> "none"]
    /\ next = 0

Goto(t, from, to) == pc[t] = from /\ pc' = [pc EXCEPT ![t] = to]

\* Where a thread goes on after CreateListenThread.
After(t) == IF t = Main THEN "serving" ELSE "accepted"

-----------------------------------------------------------------------------
\* Mutant: one listener more than the array has slots.
StartThread_OffByOne(t) ==
    /\ pc[t] = "creating"
    /\ listen_numb <= MAX_LISTENING_COUNT
    /\ started < MaxThreads
    /\ child' = [child EXCEPT ![t] = started]
    /\ started' = started + 1
    /\ pc' = [pc EXCEPT ![t] = "storing", ![started] = "accepting"]
    /\ UNCHANGED <<serverVars, slotVars, count, conn, outcome, next>>

\* CreateListenThread: start the thread.
StartThread(t) ==
    /\ pc[t] = "creating"
    /\ listen_numb < MAX_LISTENING_COUNT
    /\ started < MaxThreads
    /\ child' = [child EXCEPT ![t] = started]
    /\ started' = started + 1
    /\ pc' = [pc EXCEPT ![t] = "storing", ![started] = "accepting"]
    /\ UNCHANGED <<serverVars, slotVars, count, conn, outcome, next>>

\* CreateListenThread: all slots are used up, and no thread is started.
SlotsUsedUp(t) ==
    /\ Goto(t, "creating", After(t))
    /\ listen_numb >= MAX_LISTENING_COUNT
    /\ UNCHANGED <<serverVars, slotVars, started, child, count, conn, outcome, next>>

\* Mutant: ++listen_numb, the first slot stays empty.
StoreThread_PreIncrement(t) ==
    /\ Goto(t, "storing", "loading")
    /\ listen_thread_p' = [listen_thread_p EXCEPT ![listen_numb + 1] = child[t]]
    /\ UNCHANGED <<serverVars, listen_numb, started, child, count, conn, outcome, next>>

\* CreateListenThread: store the pointer (outside the array, if the counter
\* has reached its end meanwhile).
StoreThread(t) ==
    /\ Goto(t, "storing", "loading")
    /\ listen_thread_p' = [listen_thread_p EXCEPT ![listen_numb] = child[t]]
    /\ UNCHANGED <<serverVars, listen_numb, started, child, count, conn, outcome, next>>

\* CreateListenThread: load the counter,
LoadCount(t) ==
    /\ Goto(t, "loading", "counting")
    /\ count' = [count EXCEPT ![t] = listen_numb]
    /\ UNCHANGED <<serverVars, slotVars, started, child, conn, outcome, next>>

\* and write it back.
StoreCount(t) ==
    /\ Goto(t, "counting", After(t))
    /\ listen_numb' = count[t] + 1
    /\ child' = [child EXCEPT ![t] = NoThread]
    /\ UNCHANGED <<serverVars, listen_thread_p, started, count, conn, outcome, next>>

CreateListenThread(t) ==
    StartThread(t) \/ SlotsUsedUp(t) \/ StoreThread(t) \/ LoadCount(t) \/ StoreCount(t)

-----------------------------------------------------------------------------
Creating(t) == \E u \in Threads : child[u] = t

\* ListenThreadFunc: call accept with the descriptor found in serversoc; with
\* INVALID_SOCKET it fails at once.
CallAccept(t) ==
    /\ Goto(t, "accepting", IF serversoc THEN "waiting" ELSE "checking")
    /\ conn' = [conn EXCEPT ![t] = IF serversoc THEN "none" ELSE "invalid"]
    /\ UNCHANGED <<serverVars, slotVars, started, child, count, outcome, next>>

\* ListenThreadFunc: accept returns a connection.
AcceptConnection(t) ==
    /\ Goto(t, "waiting", "checking")
    /\ server_open
    /\ AcceptRace \/ ~Creating(t)
    /\ conn' = [conn EXCEPT ![t] = "socket"]
    /\ UNCHANGED <<serverVars, slotVars, started, child, count, outcome, next>>

\* ListenThreadFunc: accept fails, because the socket has been closed or, while
\* it is open, for a reason of the network's.
AcceptFails(t) ==
    /\ Goto(t, "waiting", "checking")
    /\ ~server_open \/ AcceptRace \/ ~Creating(t)
    /\ conn' = [conn EXCEPT ![t] = "invalid"]
    /\ UNCHANGED <<serverVars, slotVars, started, child, count, outcome, next>>

\* Mutant: the chain stops one slot early.
CheckServer_Stops(t) ==
    /\ Goto(t, "checking",
            IF serversoc /\ listen_numb + 1 < MAX_LISTENING_COUNT
            THEN "creating" ELSE "accepted")
    /\ UNCHANGED <<serverVars, slotVars, started, child, count, conn, outcome, next>>

\* ListenThreadFunc: go on listening while the server runs.
CheckServer(t) ==
    /\ Goto(t, "checking", IF serversoc THEN "creating" ELSE "accepted")
    /\ UNCHANGED <<serverVars, slotVars, started, child, count, conn, outcome, next>>

\* ListenThreadFunc: the client object is created and registered, unless the
\* counter is at its end; then the socket is neither served nor closed.
Finish(t) ==
    /\ Goto(t, "accepted", "ended")
    /\ outcome' = [outcome EXCEPT ![t] =
                      IF conn[t] = "invalid" THEN "none"
                      ELSE IF listen_numb < MAX_LISTENING_COUNT THEN "served"
                      ELSE "dropped"]
    /\ UNCHANGED <<serverVars, slotVars, started, child, count, conn, next>>

ListenThreadFunc(t) ==
    \/ CallAccept(t) \/ AcceptConnection(t) \/ AcceptFails(t)
    \/ CheckServer(t) \/ Finish(t)

-----------------------------------------------------------------------------
\* "quit" is typed: CloseMater marks the descriptor invalid,
MarkClosed ==
    /\ Goto(Main, "serving", "closing")
    /\ serversoc' = FALSE
    /\ UNCHANGED <<server_open, slotVars, started, child, count, conn, outcome, next>>

\* Mutant: the socket object is dropped without closing the socket.
CloseServer_Leak ==
    /\ Goto(Main, "closing", "joining")
    /\ UNCHANGED <<serverVars, slotVars, started, child, count, conn, outcome, next>>

\* and then closes it.
CloseServer ==
    /\ Goto(Main, "closing", "joining")
    /\ server_open' = FALSE
    /\ UNCHANGED <<serversoc, slotVars, started, child, count, conn, outcome, next>>

\* ~JProtocol: join the listener of the next slot, if there is one, and clear
\* the slot.
JoinNext ==
    /\ pc[Main] = "joining"
    /\ next < MAX_LISTENING_COUNT
    /\ \A t \in Listeners : listen_thread_p[next] = t => pc[t] = "ended"
    /\ listen_thread_p' = [listen_thread_p EXCEPT ![next] = NoThread]
    /\ next' = next + 1
    /\ UNCHANGED <<serverVars, listen_numb, started, pc, child, count, conn, outcome>>

\* ~JProtocol: all slots have been looked at; the object is freed.
JoinDone ==
    /\ Goto(Main, "joining", "gone")
    /\ next = MAX_LISTENING_COUNT
    /\ UNCHANGED <<serverVars, slotVars, started, child, count, conn, outcome, next>>

Next ==
    \/ \E t \in Threads : CreateListenThread(t)
    \/ \E t \in Listeners : ListenThreadFunc(t)
    \/ MarkClosed \/ CloseServer \/ JoinNext \/ JoinDone

Spec == Init /\ [][Next]_vars

\* Every thread runs.  Nobody needs to connect or to type "quit", and accept
\* needs to fail only when the socket is closed.
Fairness ==
    /\ \A t \in Threads : WF_vars(CreateListenThread(t))
    /\ \A t \in Listeners :
          WF_vars(CallAccept(t) \/ (~server_open /\ AcceptFails(t)) \/ CheckServer(t) \/ Finish(t))
    /\ WF_vars(CloseServer \/ JoinNext \/ JoinDone)

FairSpec == Spec /\ Fairness

-----------------------------------------------------------------------------
TypeOK ==
    /\ serversoc \in BOOLEAN /\ server_open \in BOOLEAN
    /\ listen_thread_p \in [0 .. MAX_LISTENING_COUNT - 1 -> Listeners \cup {NoThread}]
    /\ listen_numb \in 0 .. MAX_LISTENING_COUNT
    /\ started \in 0 .. MaxThreads
    /\ pc \in [Threads -> {"unborn", "creating", "storing", "loading", "counting",
                           "accepting", "waiting", "checking", "accepted", "ended",
                           "serving", "closing", "joining", "gone"}]
    /\ child \in [Threads -> Listeners \cup {NoThread}]
    /\ count \in [Threads -> 0 .. MAX_LISTENING_COUNT]
    /\ conn \in [Listeners -> {"none", "socket", "invalid"}]
    /\ outcome \in [Listeners -> {"none", "served", "dropped"}]
    /\ next \in 0 .. MAX_LISTENING_COUNT

\* When ~JProtocol frees the object no listener thread works on it any more:
\* every one that was started was in the array and has been joined, although
\* the chain may go on growing while the array is walked.
AllListenersJoined ==
    pc[Main] = "gone" => \A t \in Listeners : pc[t] \in {"unborn", "ended"}

\* As long as there are free slots and the server runs, somebody is accepting
\* or on the way to start the next listener.
Listening ==
    \E t \in Threads :
        pc[t] \in {"accepting", "waiting", "checking",
                   "creating", "storing", "loading", "counting"}
ListensWhileSlots == serversoc /\ listen_numb < MAX_LISTENING_COUNT => Listening

\* ~JProtocol does not wait for a listener for ever.
ShutdownEnds == pc[Main] = "closing" ~> pc[Main] = "gone"

\* The comment at myprotocol.cpp:264: while the server runs it goes on
\* listening.
ListensWhileRunning == serversoc => Listening

\* The comment at myprotocol.h:152: the counter is the number of listeners.
CountsListeners ==
    (\A t \in Threads : child[t] = NoThread) => listen_numb = started
=============================================================================
