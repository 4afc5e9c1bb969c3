-------------------------- MODULE ClientLifecycle --------------------------
(***************************************************************************)
(* The life of the connections of JProtocol: a listener accepts a socket,  *)
(* starts the next listener and creates a ClientObj, whose two threads run *)
(* at once; it then registers the object in clientmap.  When all listeners *)
(* are used up, the connection accepted last stays without an object.      *)
(* When the peer disconnects, the receive thread leaves a notice in        *)
(* clientqueue and ends; the recovery thread takes the notice and destroys *)
(* the object, holding clientmap_locker while the destructor closes the    *)
(* socket and joins both threads.  ~JProtocol stops the listeners and the  *)
(* recovery thread and destroys what is left.                              *)
(*                                                                         *)
(* A listener is started and counted in one step; module ListenChain takes *)
(* that apart.                                                             *)
(*                                                                         *)
(* clientqueue and jqueue are the queues of FifoQueue; clientqueue is a    *)
(* sequence here, whose entries lie in the slots of a ring and are         *)
(* overwritten when more notices wait than it has slots.  A connection     *)
(* stands for its key in clientmap, the pair of descriptor and remote      *)
(* port.  Requests carry the descriptor's number, and descriptors are used *)
(* again once closed.                                                      *)
(***************************************************************************)
EXTENDS Integers, Sequences, FiniteSets

CONSTANTS
    Conns,         \* the connections the peers make
    Fds,           \* the descriptors the kernel hands out
    None,          \* no connection, no descriptor
    NoticeSlots,   \* slots of the ring of clientqueue, 20 in the code
    MAX_LISTENING_COUNT,  \* listeners that are started in all, 65535 in the code
    MaxRequests    \* bound of the model: requests waiting in one jqueue

ASSUME LifecycleAssumption ==
    /\ None \notin Conns \cup Fds
    /\ NoticeSlots \in Nat \ {0}
    /\ MAX_LISTENING_COUNT \in Nat \ {0}
    /\ MaxRequests \in Nat \ {0}
ASSUME LockerAssumption == None # "recovery"

\* The two threads that destroy client objects.
Deleters == {"recovery", "main"}

VARIABLES
    phase,             \* main thread: how far the program, then ~JProtocol, is
    listener,          \* the listener thread that accepted the connection
    listening,         \* whether there is a listener that has not accepted yet
    listen_numb,       \* number of listeners started
    obj,               \* whether the ClientObj exists
    fd,                \* number of the descriptor the connection came on
    socket,            \* the connection each open descriptor belongs to
    exit_flag,         \* the clients whose set_thread_exit_flag is set
    receiver,          \* receive thread of each client
    parser,            \* parse thread of each client
    jqueue,            \* number of requests waiting for each parse thread
    clientmap,         \* the registered clients
    clientmap_locker,  \* whoever is between Lock and Unlock, or None
    clientqueue,       \* deletion notices not yet taken
    step,              \* where each deleter is
    victim,            \* the client it is at
    missed,            \* history: the clients the recovery thread did not find
    overwritten,       \* history: the clients whose notice was overwritten
    astray             \* history: <<client, other connection that got its reply>>

vars == <<phase, listener, listening, listen_numb, obj, fd, socket, exit_flag,
          receiver, parser, jqueue, clientmap, clientmap_locker, clientqueue,
          step, victim, missed, overwritten, astray>>

\* The variables of the listeners, of the threads of clients, of the registry
\* and of the deleters.
listenVars == <<listener, listening, listen_numb>>
clientVars == <<fd, exit_flag, receiver, parser, jqueue, astray>>
registryVars == <<clientmap, clientmap_locker, clientqueue, overwritten>>
deleterVars == <<step, victim, missed>>

Init ==
    /\ phase = "running"
    /\ listener = [c \in Conns |-> "none"]
    /\ listening = TRUE
    /\ listen_numb = 1
    /\ obj = [c \in Conns |-> "none"]
    /\ fd = [c \in Conns |-> None]
    /\ socket = [f \in Fds |-> None]
    /\ exit_flag = {}
    /\ receiver = [c \in Conns |-> "none"]
    /\ parser = [c \in Conns |-> "none"]
    /\ jqueue = [c \in Conns |-> 0]
    /\ clientmap = {}
    /\ clientmap_locker = None
    /\ clientqueue = <<>>
    /\ step = [d \in Deleters |-> "idle"]
    /\ victim = [d \in Deleters |-> None]
    /\ missed = {}
    /\ overwritten = {}
    /\ astray = {}

\* Whether the descriptor of client c still is its own.
HasSocket(c) == fd[c] # None /\ socket[fd[c]] = c

\* The server's set_thread_exit_flag, set at the start of ~JProtocol.
Stopping == phase \notin {"running", "closed"}

-----------------------------------------------------------------------------
\* CreateListenThread, which is called while the server socket is valid: the
\* next listener is started unless all are used up.
StartListener ==
    /\ listening' = (phase = "running" /\ listen_numb < MAX_LISTENING_COUNT)
    /\ listen_numb' = IF listening' THEN listen_numb + 1 ELSE listen_numb

\* ListenThreadFunc: accept returns a new connection.
Accept(c) ==
    /\ phase = "running"
    /\ listening
    /\ listener[c] = "none"
    /\ \E f \in Fds :
          /\ socket[f] = None
          /\ socket' = [socket EXCEPT ![f] = c]
          /\ fd' = [fd EXCEPT ![c] = f]
    /\ listener' = [listener EXCEPT ![c] = "accepted"]
    /\ listening' = FALSE
    /\ UNCHANGED <<phase, listen_numb, obj, exit_flag, receiver, parser, jqueue,
                   astray, registryVars, deleterVars>>

\* ListenThreadFunc: accept fails, at the latest when the socket is closed;
\* the next listener is started and this one ends.
AcceptFails ==
    /\ listening
    /\ StartListener
    /\ UNCHANGED <<phase, listener, obj, socket, clientVars, registryVars, deleterVars>>

\* ListenThreadFunc: having accepted, start the next listener.
CreateListenThread(c) ==
    /\ listener[c] = "accepted"
    /\ listener' = [listener EXCEPT ![c] = "followed"]
    /\ StartListener
    /\ UNCHANGED <<phase, obj, socket, clientVars, registryVars, deleterVars>>

\* ListenThreadFunc: new ClientObj; its constructor starts both threads.
CreateClient(c) ==
    /\ listener[c] = "followed"
    /\ listen_numb < MAX_LISTENING_COUNT
    /\ listener' = [listener EXCEPT ![c] = "created"]
    /\ obj' = [obj EXCEPT ![c] = "alive"]
    /\ receiver' = [receiver EXCEPT ![c] = "running"]
    /\ parser' = [parser EXCEPT ![c] = "running"]
    /\ UNCHANGED <<phase, listening, listen_numb, fd, socket, exit_flag, jqueue,
                   astray, registryVars, deleterVars>>

\* ListenThreadFunc: all listeners are used up; the thread ends, and the
\* connection is neither served nor closed.
DropSocket(c) ==
    /\ listener[c] = "followed"
    /\ listen_numb >= MAX_LISTENING_COUNT
    /\ listener' = [listener EXCEPT ![c] = "dropped"]
    /\ UNCHANGED <<phase, listening, listen_numb, obj, socket, clientVars,
                   registryVars, deleterVars>>

\* Mutant: the lock is not taken.
Register_NoLock(c) ==
    /\ listener[c] = "created"
    /\ clientmap' = clientmap \cup {c}
    /\ listener' = [listener EXCEPT ![c] = "ended"]
    /\ UNCHANGED <<phase, listening, listen_numb, obj, socket, clientVars,
                   clientmap_locker, clientqueue, overwritten, deleterVars>>

\* ListenThreadFunc: the object is entered in clientmap under the lock, and
\* the thread ends.
Register(c) ==
    /\ listener[c] = "created"
    /\ clientmap_locker = None
    /\ clientmap' = clientmap \cup {c}
    /\ listener' = [listener EXCEPT ![c] = "ended"]
    /\ UNCHANGED <<phase, listening, listen_numb, obj, socket, clientVars,
                   clientmap_locker, clientqueue, overwritten, deleterVars>>

-----------------------------------------------------------------------------
\* ProcessClientReqThreadFunc: a request arrives, from whatever connection
\* has the descriptor, and is queued.
ReceiveRequest(c) ==
    /\ receiver[c] = "running"
    /\ socket[fd[c]] # None
    /\ c \notin exit_flag
    /\ jqueue[c] < MaxRequests
    /\ jqueue' = [jqueue EXCEPT ![c] = @ + 1]
    /\ UNCHANGED <<phase, listenVars, obj, fd, socket, exit_flag, receiver,
                   parser, astray, registryVars, deleterVars>>

\* Mutant: the receive thread closes the socket of a peer that left.
PeerLeaves_Closes(c) ==
    /\ receiver[c] = "running"
    /\ receiver' = [receiver EXCEPT ![c] = "leaving"]
    /\ socket' = [socket EXCEPT ![fd[c]] = None]
    /\ UNCHANGED <<phase, listenVars, obj, fd, exit_flag, parser, jqueue,
                   astray, registryVars, deleterVars>>

\* ProcessClientReqThreadFunc: the peer disconnects, or sends its Q.
PeerLeaves(c) ==
    /\ receiver[c] = "running"
    /\ receiver' = [receiver EXCEPT ![c] = "leaving"]
    /\ UNCHANGED <<phase, listenVars, obj, fd, socket, exit_flag, parser, jqueue,
                   astray, registryVars, deleterVars>>

\* ProcessClientReqThreadFunc: recv fails on a socket the destructor has
\* closed, or the flag is seen.
ReceiverStops(c) ==
    /\ receiver[c] = "running"
    /\ c \in exit_flag \/ socket[fd[c]] = None
    /\ receiver' = [receiver EXCEPT ![c] = "leaving"]
    /\ UNCHANGED <<phase, listenVars, obj, fd, socket, exit_flag, parser, jqueue,
                   astray, registryVars, deleterVars>>

\* The waiting notices whose slot is the one written next: slots are written
\* in turn, whether their notice has been taken or not.
InNextSlot == {i \in DOMAIN clientqueue : (Len(clientqueue) + 1 - i) % NoticeSlots = 0}

\* Mutant: a thread that ends on a Q leaves no notice.
NotifyDelete_Sometimes(c) ==
    /\ receiver[c] = "leaving"
    /\ clientqueue' \in {clientqueue, Append(clientqueue, c)}
    /\ receiver' = [receiver EXCEPT ![c] = "ended"]
    /\ UNCHANGED <<phase, listenVars, obj, fd, socket, exit_flag, parser, jqueue,
                   astray, clientmap, clientmap_locker, overwritten, deleterVars>>

\* ProcessClientReqThread: the notice is left and the thread ends.
NotifyDelete(c) ==
    /\ receiver[c] = "leaving"
    /\ clientqueue' =
          Append([i \in DOMAIN clientqueue |->
                     IF i \in InNextSlot THEN c ELSE clientqueue[i]], c)
    /\ overwritten' = overwritten \cup {clientqueue[i] : i \in InNextSlot}
    /\ receiver' = [receiver EXCEPT ![c] = "ended"]
    /\ UNCHANGED <<phase, listenVars, obj, fd, socket, exit_flag, parser, jqueue,
                   astray, clientmap, clientmap_locker, deleterVars>>

\* Mutant: the emptiness of the queue is not looked at.
TakeRequest_Blind(c) ==
    /\ parser[c] = "running"
    /\ c \notin exit_flag
    /\ jqueue' = [jqueue EXCEPT ![c] = @ - 1]
    /\ parser' = [parser EXCEPT ![c] = "replying"]
    /\ UNCHANGED <<phase, listenVars, obj, fd, socket, exit_flag, receiver,
                   astray, registryVars, deleterVars>>

\* ProtocolParseThreadFunc: a request is taken and handed to the callback.
TakeRequest(c) ==
    /\ parser[c] = "running"
    /\ c \notin exit_flag
    /\ jqueue[c] > 0
    /\ jqueue' = [jqueue EXCEPT ![c] = @ - 1]
    /\ parser' = [parser EXCEPT ![c] = "replying"]
    /\ UNCHANGED <<phase, listenVars, obj, fd, socket, exit_flag, receiver,
                   astray, registryVars, deleterVars>>

\* Mutant: the parse thread also has the client deleted when it cannot send.
Reply_Notifies(c) ==
    /\ parser[c] = "replying"
    /\ parser' = [parser EXCEPT ![c] = "running"]
    /\ clientqueue' \in {clientqueue, Append(clientqueue, c)}
    /\ astray' = astray \cup {<<c, d>> : d \in {socket[fd[c]]} \ {c, None}}
    /\ UNCHANGED <<phase, listenVars, obj, fd, socket, exit_flag, receiver,
                   jqueue, clientmap, clientmap_locker, overwritten, deleterVars>>

\* Mutant: a notification to all clients, under clientmap_locker.
Reply_Broadcast(c) ==
    /\ parser[c] = "replying"
    /\ clientmap_locker = None
    /\ parser' = [parser EXCEPT ![c] = "running"]
    /\ astray' = astray \cup {<<c, d>> : d \in clientmap \ {c}}
    /\ UNCHANGED <<phase, listenVars, obj, fd, socket, exit_flag, receiver,
                   jqueue, registryVars, deleterVars>>

\* The callback replies to the descriptor whose number the request carries:
\* to whatever connection has it now, or in vain.
Reply(c) ==
    /\ parser[c] = "replying"
    /\ parser' = [parser EXCEPT ![c] = "running"]
    /\ astray' = astray \cup {<<c, d>> : d \in {socket[fd[c]]} \ {c, None}}
    /\ UNCHANGED <<phase, listenVars, obj, fd, socket, exit_flag, receiver,
                   jqueue, registryVars, deleterVars>>

\* ProtocolParseThreadFunc: the flag is seen after TakeFromQueue, whether it
\* returned a request, which is dropped, or timed out.
ParserStops(c) ==
    /\ parser[c] = "running"
    /\ c \in exit_flag
    /\ parser' = [parser EXCEPT ![c] = "ended"]
    /\ UNCHANGED <<phase, listenVars, obj, fd, socket, exit_flag, receiver,
                   jqueue, astray, registryVars, deleterVars>>

-----------------------------------------------------------------------------
\* ~ClientObj, run by deleter d: close the socket,
CloseSocket(d) ==
    /\ step[d] = "closing"
    /\ step' = [step EXCEPT ![d] = "flagging"]
    /\ socket' = [socket EXCEPT ![fd[victim[d]]] = None]
    /\ UNCHANGED <<phase, listenVars, obj, clientVars, registryVars, victim, missed>>

\* tell the threads to stop,
SetThreadExitFlag(d) ==
    /\ step[d] = "flagging"
    /\ step' = [step EXCEPT ![d] = "joining_parser"]
    /\ exit_flag' = exit_flag \cup {victim[d]}
    /\ UNCHANGED <<phase, listenVars, obj, fd, socket, receiver, parser, jqueue,
                   astray, registryVars, victim, missed>>

\* wait for the parse thread,
JoinParser(d) ==
    /\ step[d] = "joining_parser"
    /\ parser[victim[d]] = "ended"
    /\ step' = [step EXCEPT ![d] = "joining_receiver"]
    /\ UNCHANGED <<phase, listenVars, obj, socket, clientVars, registryVars, victim, missed>>

\* Mutant: the receive thread is not waited for.
JoinReceiver_NoWait(d) ==
    /\ step[d] = "joining_receiver"
    /\ step' = [step EXCEPT ![d] = "erasing"]
    /\ obj' = [obj EXCEPT ![victim[d]] = "gone"]
    /\ jqueue' = [jqueue EXCEPT ![victim[d]] = 0]
    /\ UNCHANGED <<phase, listenVars, fd, socket, exit_flag, receiver, parser,
                   astray, registryVars, victim, missed>>

\* wait for the receive thread, clear the queue and free the object.
JoinReceiver(d) ==
    /\ step[d] = "joining_receiver"
    /\ receiver[victim[d]] = "ended"
    /\ step' = [step EXCEPT ![d] = "erasing"]
    /\ obj' = [obj EXCEPT ![victim[d]] = "gone"]
    /\ jqueue' = [jqueue EXCEPT ![victim[d]] = 0]
    /\ UNCHANGED <<phase, listenVars, fd, socket, exit_flag, receiver, parser,
                   astray, registryVars, victim, missed>>

Destroy(d) == CloseSocket(d) \/ SetThreadExitFlag(d) \/ JoinParser(d) \/ JoinReceiver(d)

-----------------------------------------------------------------------------
\* RecoveryClientObjThreadFunc: a notice is taken.
TakeNotice ==
    /\ step["recovery"] = "idle"
    /\ ~Stopping
    /\ clientqueue # <<>>
    /\ clientqueue' = Tail(clientqueue)
    /\ victim' = [victim EXCEPT !["recovery"] = Head(clientqueue)]
    /\ step' = [step EXCEPT !["recovery"] = "locking"]
    /\ UNCHANGED <<phase, listenVars, obj, socket, clientVars, clientmap,
                   clientmap_locker, overwritten, missed>>

\* Mutant: the flag is only looked at when a notice is taken.
RecoveryStops_NoTimeout ==
    /\ step["recovery"] = "idle"
    /\ Stopping
    /\ clientqueue # <<>>
    /\ step' = [step EXCEPT !["recovery"] = "exited"]
    /\ UNCHANGED <<phase, listenVars, obj, socket, clientVars, registryVars, victim, missed>>

\* RecoveryClientObjThreadFunc: the flag is seen after TakeFromQueue, whether
\* it returned a notice, which is dropped, or timed out.
RecoveryStops ==
    /\ step["recovery"] = "idle"
    /\ Stopping
    /\ step' = [step EXCEPT !["recovery"] = "exited"]
    /\ UNCHANGED <<phase, listenVars, obj, socket, clientVars, registryVars, victim, missed>>

\* RecoveryClientObjThreadFunc: lock; the client is found and its destructor
\* entered with the lock held.
FindClient ==
    /\ step["recovery"] = "locking"
    /\ clientmap_locker = None
    /\ victim["recovery"] \in clientmap
    /\ clientmap_locker' = "recovery"
    /\ step' = [step EXCEPT !["recovery"] = "closing"]
    /\ UNCHANGED <<phase, listenVars, obj, socket, clientVars, clientmap,
                   clientqueue, overwritten, victim, missed>>

\* RecoveryClientObjThreadFunc: lock, "clientmap no find", unlock.
FindNobody ==
    /\ step["recovery"] = "locking"
    /\ clientmap_locker = None
    /\ victim["recovery"] \notin clientmap
    /\ step' = [step EXCEPT !["recovery"] = "idle"]
    /\ victim' = [victim EXCEPT !["recovery"] = None]
    /\ missed' = missed \cup {victim["recovery"]}
    /\ UNCHANGED <<phase, listenVars, obj, socket, clientVars, registryVars>>

\* RecoveryClientObjThreadFunc: the entry is erased and the lock released.
RecoveryErase ==
    /\ step["recovery"] = "erasing"
    /\ clientmap' = clientmap \ {victim["recovery"]}
    /\ clientmap_locker' = None
    /\ step' = [step EXCEPT !["recovery"] = "idle"]
    /\ victim' = [victim EXCEPT !["recovery"] = None]
    /\ UNCHANGED <<phase, listenVars, obj, socket, clientVars, clientqueue,
                   overwritten, missed>>

Recovery == TakeNotice \/ RecoveryStops \/ FindClient \/ FindNobody \/ RecoveryErase

-----------------------------------------------------------------------------
\* "quit" is typed: ~JProtocol begins with CloseMater, on which accept fails.
CloseMater ==
    /\ phase = "running"
    /\ phase' = "closed"
    /\ UNCHANGED <<listenVars, obj, socket, clientVars, registryVars, deleterVars>>

\* ~JProtocol: the flag of the recovery thread is set.
StopRecovery ==
    /\ phase = "closed"
    /\ phase' = "stopping"
    /\ UNCHANGED <<listenVars, obj, socket, clientVars, registryVars, deleterVars>>

\* Mutant: the recovery thread is not waited for.
JoinRecovery_NoWait ==
    /\ phase = "stopping"
    /\ phase' = "recovery_joined"
    /\ UNCHANGED <<listenVars, obj, socket, clientVars, registryVars, deleterVars>>

\* ~JProtocol: wait for the recovery thread.
JoinRecovery ==
    /\ phase = "stopping"
    /\ step["recovery"] = "exited"
    /\ phase' = "recovery_joined"
    /\ UNCHANGED <<listenVars, obj, socket, clientVars, registryVars, deleterVars>>

\* Mutant: the listener threads are not waited for.
JoinListeners_NoWait ==
    /\ phase = "recovery_joined"
    /\ phase' = "deleting"
    /\ UNCHANGED <<listenVars, obj, socket, clientVars, registryVars, deleterVars>>

\* ~JProtocol: wait for every listener thread.
JoinListeners ==
    /\ phase = "recovery_joined"
    /\ ~listening
    /\ \A c \in Conns : listener[c] \in {"none", "ended", "dropped"}
    /\ phase' = "deleting"
    /\ UNCHANGED <<listenVars, obj, socket, clientVars, registryVars, deleterVars>>

\* ~JProtocol: the first client still in the map, which is sorted by
\* descriptor, is destroyed; no lock is taken.
DeleteFirst ==
    /\ phase = "deleting"
    /\ step["main"] = "idle"
    /\ \E c \in clientmap : victim' = [victim EXCEPT !["main"] = c]
    /\ step' = [step EXCEPT !["main"] = "closing"]
    /\ UNCHANGED <<phase, listenVars, obj, socket, clientVars, registryVars, missed>>

\* ~JProtocol: its entry is erased.
MainErase ==
    /\ step["main"] = "erasing"
    /\ clientmap' = clientmap \ {victim["main"]}
    /\ step' = [step EXCEPT !["main"] = "idle"]
    /\ victim' = [victim EXCEPT !["main"] = None]
    /\ UNCHANGED <<phase, listenVars, obj, socket, clientVars, clientmap_locker,
                   clientqueue, overwritten, missed>>

\* ~JProtocol: the map is empty, and the rest of the object is freed.
FreeProtocol ==
    /\ phase = "deleting"
    /\ step["main"] = "idle"
    /\ clientmap = {}
    /\ phase' = "gone"
    /\ UNCHANGED <<listenVars, obj, socket, clientVars, registryVars, deleterVars>>

Main == \/ CloseMater \/ StopRecovery \/ JoinRecovery \/ JoinListeners
        \/ DeleteFirst \/ MainErase \/ FreeProtocol

Listen(c) == \/ Accept(c) \/ CreateListenThread(c) \/ CreateClient(c)
             \/ DropSocket(c) \/ Register(c)

Client(c) == \/ Listen(c)
             \/ ReceiveRequest(c) \/ PeerLeaves(c) \/ ReceiverStops(c) \/ NotifyDelete(c)
             \/ TakeRequest(c) \/ Reply(c) \/ ParserStops(c)

Next == \/ \E c \in Conns : Client(c)
        \/ AcceptFails
        \/ \E d \in Deleters : Destroy(d)
        \/ Recovery
        \/ Main

Spec == Init /\ [][Next]_vars

\* Every thread runs, and a lock that is free is had.  Peers need not connect,
\* send, read or leave, and nobody needs to type "quit".  A send that times
\* out is repeated for ever, so that a reply to a peer that does not read ends
\* only when the socket is closed; only if the descriptor was used again
\* meanwhile, its new owner is assumed to read.
Fairness ==
    /\ \A c \in Conns :
          /\ WF_vars(CreateListenThread(c)) /\ WF_vars(CreateClient(c))
          /\ WF_vars(DropSocket(c)) /\ WF_vars(Register(c))
          /\ WF_vars(ReceiverStops(c)) /\ WF_vars(NotifyDelete(c))
          /\ WF_vars(~HasSocket(c) /\ Reply(c)) /\ WF_vars(ParserStops(c))
    /\ \A d \in Deleters : WF_vars(Destroy(d))
    /\ WF_vars(Recovery)
    /\ WF_vars(AcceptFails /\ phase # "running")
    /\ WF_vars(Main /\ phase # "running")

FairSpec == Spec /\ Fairness

-----------------------------------------------------------------------------
TypeOK ==
    /\ phase \in {"running", "closed", "stopping", "recovery_joined", "deleting", "gone"}
    /\ listener \in [Conns -> {"none", "accepted", "followed", "created", "ended", "dropped"}]
    /\ listening \in BOOLEAN
    /\ listen_numb \in 1 .. MAX_LISTENING_COUNT
    /\ obj \in [Conns -> {"none", "alive", "gone"}]
    /\ fd \in [Conns -> Fds \cup {None}]
    /\ socket \in [Fds -> Conns \cup {None}]
    /\ exit_flag \subseteq Conns
    /\ receiver \in [Conns -> {"none", "running", "leaving", "ended"}]
    /\ parser \in [Conns -> {"none", "running", "replying", "ended"}]
    /\ jqueue \in [Conns -> 0 .. MaxRequests]
    /\ clientmap \subseteq Conns
    /\ clientmap_locker \in {"recovery", None}
    /\ clientqueue \in Seq(Conns)
    /\ step \in [Deleters -> {"idle", "locking", "closing", "flagging",
                    "joining_parser", "joining_receiver", "erasing", "exited"}]
    /\ victim \in [Deleters -> Conns \cup {None}]
    /\ missed \subseteq Conns
    /\ overwritten \subseteq Conns
    /\ astray \subseteq Conns \X Conns

InDestructor(d) == step[d] \in {"closing", "flagging", "joining_parser", "joining_receiver"}

\* A destructor runs on a live, registered object, and never two on the same
\* one, although ~JProtocol destroys clients without taking the lock.
OneDestructor ==
    \A d \in Deleters : InDestructor(d) =>
        /\ obj[victim[d]] = "alive"
        /\ victim[d] \in clientmap
        /\ \A e \in Deleters \ {d} : victim[e] # victim[d]

\* The threads of a client end before its object is freed, and what they
\* left in the socket table goes with it: no thread works on freed memory
\* and no descriptor outlives its object.
NothingOutlivesObject ==
    \A c \in Conns : obj[c] = "gone" =>
        /\ receiver[c] = "ended" /\ parser[c] = "ended"
        /\ ~HasSocket(c)

\* A notice for c is in the queue or in the hands of the recovery thread.
Noticed(c) ==
    \/ \E i \in DOMAIN clientqueue : clientqueue[i] = c
    \/ victim["recovery"] = c

\* The comment at clientobj.cpp:303, the layer above is told to delete the
\* object: while the server runs, a registered client whose receive thread
\* has ended will be deleted.
NoClientForgotten ==
    \A c \in clientmap : receiver[c] = "ended" /\ ~Stopping => Noticed(c)

\* The only clients for which that fails are those whose notice was taken
\* before their listener had entered them in clientmap, or was overwritten
\* since more notices waited than the ring has slots.
ForgottenWereEarly ==
    \A c \in clientmap \ (missed \cup overwritten) :
        receiver[c] = "ended" /\ ~Stopping => Noticed(c)

\* Numbers of descriptors that are used again do not mix clients up: a receive
\* thread never reads what another connection sends, and a destructor closes
\* no descriptor but its own.
OwnDescriptors ==
    /\ \A c \in Conns : receiver[c] = "running" => socket[fd[c]] \in {c, None}
    /\ \A d \in Deleters : step[d] = "closing" => HasSocket(victim[d])

\* Clients in clientmap have different descriptors, although one that is being
\* destroyed gives its own back while it is still there: the keys, which are
\* ordered by descriptor first, differ, and nobody's entry is replaced.
KeysDiffer == \A c, d \in clientmap : c # d => fd[c] # fd[d]

\* A reply goes to another connection only from a client whose destructor has
\* closed the socket and waits for the parse thread.
StraysOnlyFromDestroyed ==
    [][\A p \in astray' \ astray :
          \E d \in Deleters : step[d] \in {"flagging", "joining_parser"} /\ victim[d] = p[1]]_vars

\* Once ~JProtocol is done no listener runs and no object is left of any
\* connection that was accepted, even of those the recovery thread never
\* found; and no socket, except those that were accepted when the listeners
\* were used up, which nobody closes (myprotocol.cpp:275).
NothingLeftBehind ==
    phase = "gone" =>
        /\ \A c \in Conns : obj[c] # "alive" /\ listener[c] \in {"none", "ended", "dropped"}
        /\ {c \in Conns : HasSocket(c)} = {c \in Conns : listener[c] = "dropped"}
        /\ ~listening

\* A client that is registered when its receive thread leaves its notice is
\* destroyed in the end, unless the notice is overwritten, while the others go
\* on and even if its peer does not read the replies; joining its threads
\* under clientmap_locker blocks nobody for ever.
LeaversRecovered ==
    \A c \in Conns :
        receiver[c] = "leaving" /\ c \in clientmap
            ~> obj[c] = "gone" \/ c \in overwritten

\* A connection that was accepted is registered in the end; the only others
\* are those whose listener finds the listeners used up.
AcceptedRegistered ==
    \A c \in Conns :
        listener[c] = "accepted"
            ~> \/ listener[c] = "ended"
               \/ listener[c] = "dropped" /\ listen_numb = MAX_LISTENING_COUNT

\* ~JProtocol terminates.
ShutdownEnds == phase = "closed" ~> phase = "gone"

\* The threads of a client that have not ended.
Working(c) ==
    (IF receiver[c] \in {"running", "leaving"} THEN {"receiver"} ELSE {})
    \cup (IF parser[c] \in {"running", "replying"} THEN {"parser"} ELSE {})

\* What the whole promises to those who look at the objects only.
Registry == INSTANCE ClientRegistry WITH
    life <- obj, working <- [c \in Conns |-> Working(c)], up <- phase # "gone"

\* Every behaviour of the threads is one of a registry that frees an object
\* once, after both threads have ended, and returns when none is left.
ImplementsRegistry == Registry!Spec
=============================================================================
