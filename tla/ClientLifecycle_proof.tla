----------------------- MODULE ClientLifecycle_proof -----------------------
(***************************************************************************)
(* Proofs about ClientLifecycle, for any number of connections, descriptors *)
(* and waiting requests.                                                    *)
(*                                                                         *)
(* The invariants the runs check are not inductive: that a destructor runs *)
(* on a live object depends on how a connection becomes known to the two   *)
(* deleters and on the main thread deleting clients only after it has      *)
(* joined the recovery thread.  The conjuncts of IInv say that.            *)
(***************************************************************************)
EXTENDS ClientLifecycle, TLAPS

\* From Find or DeleteFirst to the erasure of the entry.
Destroying(d) ==
    step[d] \in {"closing", "flagging", "joining_parser", "joining_receiver", "erasing"}

\* How far its listener thread has brought a connection.
ListenerInv ==
    \A c \in Conns :
        /\ listener[c] \in {"none", "accepted", "followed", "dropped"} => obj[c] = "none"
        /\ listener[c] = "created" => obj[c] = "alive"
        /\ listener[c] = "ended" => obj[c] # "none"
        /\ listener[c] # "none" => fd[c] \in Fds
        /\ listener[c] = "none" => fd[c] = None
        /\ c \in clientmap => listener[c] = "ended"
        /\ listener[c] = "ended" /\ obj[c] = "alive" => c \in clientmap
        /\ obj[c] = "none" => receiver[c] = "none" /\ parser[c] = "none"

\* A descriptor in use is the one its connection came on.
SocketInv ==
    \A f \in Fds : socket[f] # None => fd[socket[f]] = f

\* What a deleter has done to the client it is at.
DeleterInv ==
    \A d \in Deleters :
        /\ Destroying(d) => victim[d] \in clientmap
        /\ InDestructor(d) => obj[victim[d]] = "alive"
        /\ step[d] \in {"flagging", "joining_parser", "joining_receiver"}
              => ~HasSocket(victim[d])
        /\ step[d] = "joining_receiver" => parser[victim[d]] = "ended"
        /\ step[d] = "erasing" => obj[victim[d]] = "gone"
        /\ step[d] = "locking" => d = "recovery" /\ victim[d] \in Conns
        /\ step[d] = "exited" => d = "recovery"
        /\ step[d] \in {"idle", "exited"} => victim[d] = None

\* How far ~JProtocol is.
PhaseInv ==
    /\ phase \in {"recovery_joined", "deleting", "gone"} => step["recovery"] = "exited"
    /\ phase \in {"deleting", "gone"} => ~listening
    /\ phase \in {"deleting", "gone"} =>
          \A c \in Conns : listener[c] \in {"none", "ended", "dropped"}
    /\ step["main"] # "idle" => phase = "deleting"
    /\ phase = "gone" => clientmap = {}

\* What is left of a destroyed object.
GoneInv ==
    \A c \in Conns : obj[c] = "gone" =>
        /\ listener[c] = "ended" /\ receiver[c] = "ended" /\ parser[c] = "ended"
        /\ ~HasSocket(c)
        /\ c \in clientmap => \E d \in Deleters : step[d] = "erasing" /\ victim[d] = c

\* Whoever is still to be deleted, and whose notice was neither missed nor
\* overwritten, has its notice.
NoticeInv ==
    \A c \in Conns :
        obj[c] = "alive" /\ receiver[c] = "ended" /\ c \notin missed \cup overwritten /\ ~Stopping
            => Noticed(c)

\* A notice says that the receive thread is about to end.
EndedInv ==
    /\ \A i \in DOMAIN clientqueue : receiver[clientqueue[i]] = "ended"
    /\ victim["recovery"] \in Conns => receiver[victim["recovery"]] = "ended"

\* A client has its socket until a destructor closes it, and while the server
\* runs that is not before its receive thread has ended.
OwnInv ==
    /\ \A c \in Conns :
          /\ phase = "running" /\ listener[c] # "none" /\ receiver[c] # "ended" => HasSocket(c)
          /\ listener[c] \in {"accepted", "followed", "dropped"} => HasSocket(c)
          /\ receiver[c] = "running" => socket[fd[c]] \in {c, None}
          /\ obj[c] = "alive" /\ ~HasSocket(c) =>
                \E d \in Deleters :
                    /\ step[d] \in {"flagging", "joining_parser", "joining_receiver"}
                    /\ victim[d] = c
    /\ \A d \in Deleters : step[d] = "closing" => HasSocket(victim[d])

IInv == /\ TypeOK /\ ListenerInv /\ SocketInv /\ DeleterInv /\ PhaseInv /\ GoneInv
        /\ NoticeInv /\ EndedInv /\ OwnInv

-----------------------------------------------------------------------------
LEMMA Initially == Init => IInv
<1> SUFFICES ASSUME Init PROVE IInv
  OBVIOUS
<1> USE LifecycleAssumption DEF Init, Deleters
<1>1. TypeOK
  BY DEF TypeOK
<1>2. ListenerInv /\ SocketInv /\ PhaseInv /\ GoneInv /\ NoticeInv
  BY DEF ListenerInv, SocketInv, PhaseInv, GoneInv, NoticeInv, Stopping
<1>3. DeleterInv
  BY DEF DeleterInv, Destroying, InDestructor
<1>4. EndedInv /\ OwnInv
  BY DEF EndedInv, OwnInv
<1> QED
  BY <1>1, <1>2, <1>3, <1>4 DEF IInv

\* Starting a listener keeps the counter within its bound.
LEMMA StartListenerType ==
    ASSUME TypeOK, StartListener
    PROVE  listening' \in BOOLEAN /\ listen_numb' \in 1 .. MAX_LISTENING_COUNT
<1>1. listening' \in BOOLEAN
  BY Zenon DEF StartListener
<1>2. listening' => listen_numb < MAX_LISTENING_COUNT
  BY Zenon DEF StartListener
<1>3. listen_numb' = listen_numb \/ (listening' /\ listen_numb' = listen_numb + 1)
  BY Zenon DEF StartListener
<1>4. listen_numb' \in 1 .. MAX_LISTENING_COUNT
  BY <1>2, <1>3, LifecycleAssumption DEF TypeOK
<1> QED
  BY <1>1, <1>4

\* The types; that CloseSocket and Reply find a descriptor, and the deleters a
\* client, needs the other conjuncts.
LEMMA TypeStep == ASSUME IInv, [Next]_vars PROVE TypeOK'
<1> USE LifecycleAssumption
    DEF IInv, TypeOK, Deleters, listenVars, clientVars, registryVars, deleterVars
<1>1. ASSUME NEW c \in Conns, Accept(c) PROVE TypeOK'
  <2>1. PICK f \in Fds :
            socket' = [socket EXCEPT ![f] = c] /\ fd' = [fd EXCEPT ![c] = f]
    BY <1>1 DEF Accept
  <2>2. socket' \in [Fds -> Conns \cup {None}] /\ fd' \in [Conns -> Fds \cup {None}]
    BY <2>1
  <2>3. /\ listener' = [listener EXCEPT ![c] = "accepted"] /\ listening' = FALSE
        /\ UNCHANGED <<phase, listen_numb, obj, exit_flag, receiver, parser, jqueue,
                       astray, registryVars, deleterVars>>
    BY <1>1 DEF Accept
  <2> QED
    BY <2>2, <2>3
<1>2. ASSUME NEW c \in Conns, CreateClient(c) PROVE TypeOK'
  BY <1>2 DEF CreateClient
<1>3. ASSUME NEW c \in Conns, Register(c) PROVE TypeOK'
  BY <1>3 DEF Register
<1>4. ASSUME NEW c \in Conns, ReceiveRequest(c) PROVE TypeOK'
  BY <1>4 DEF ReceiveRequest
<1>5. ASSUME NEW c \in Conns, PeerLeaves(c) PROVE TypeOK'
  BY <1>5 DEF PeerLeaves
<1>6. ASSUME NEW c \in Conns, ReceiverStops(c) PROVE TypeOK'
  BY <1>6 DEF ReceiverStops
<1>7. ASSUME NEW c \in Conns, NotifyDelete(c) PROVE TypeOK'
  <2>1. clientqueue' \in Seq(Conns)
    <3> DEFINE old == [i \in 1 .. Len(clientqueue) |->
                          IF i \in InNextSlot THEN c ELSE clientqueue[i]]
    <3>1. old \in [1 .. Len(clientqueue) -> Conns] /\ Len(clientqueue) \in Nat
      OBVIOUS
    <3>2. old \in Seq(Conns)
      BY <3>1
    <3>3. clientqueue' = Append(old, c)
      BY <1>7 DEF NotifyDelete
    <3> HIDE DEF old
    <3> QED
      BY <3>2, <3>3
  <2>2. overwritten' \subseteq Conns
    BY <1>7 DEF NotifyDelete, InNextSlot
  <2> QED
    BY <1>7, <2>1, <2>2 DEF NotifyDelete
<1>8. ASSUME NEW c \in Conns, TakeRequest(c) PROVE TypeOK'
  BY <1>8 DEF TakeRequest
<1>9. ASSUME NEW c \in Conns, Reply(c) PROVE TypeOK'
  BY <1>9 DEF Reply, ListenerInv
<1>10. ASSUME NEW c \in Conns, ParserStops(c) PROVE TypeOK'
  BY <1>10 DEF ParserStops
<1>11. ASSUME NEW d \in Deleters, CloseSocket(d) PROVE TypeOK'
  <2>1. fd[victim[d]] \in Fds
    BY <1>11 DEF CloseSocket, ListenerInv, DeleterInv, Destroying
  <2> QED
    BY <1>11, <2>1 DEF CloseSocket
<1>12. ASSUME NEW d \in Deleters, SetThreadExitFlag(d) PROVE TypeOK'
  BY <1>12 DEF SetThreadExitFlag, DeleterInv, Destroying, InDestructor,
      HasSocket
<1>13. ASSUME NEW d \in Deleters, JoinParser(d) PROVE TypeOK'
  BY <1>13 DEF JoinParser
<1>14. ASSUME NEW d \in Deleters, JoinReceiver(d) PROVE TypeOK'
  BY <1>14 DEF JoinReceiver, DeleterInv, Destroying, InDestructor, HasSocket
<1>15. ASSUME TakeNotice PROVE TypeOK'
  BY <1>15 DEF TakeNotice
<1>16. ASSUME RecoveryStops PROVE TypeOK'
  BY <1>16 DEF RecoveryStops
<1>17. ASSUME FindClient PROVE TypeOK'
  BY <1>17 DEF FindClient
<1>18. ASSUME FindNobody PROVE TypeOK'
  BY <1>18 DEF FindNobody, DeleterInv, Destroying, InDestructor, HasSocket
<1>19. ASSUME RecoveryErase PROVE TypeOK'
  BY <1>19 DEF RecoveryErase
<1>20. ASSUME CloseMater PROVE TypeOK'
  BY <1>20 DEF CloseMater
<1>21. ASSUME StopRecovery PROVE TypeOK'
  BY <1>21 DEF StopRecovery
<1>22. ASSUME JoinRecovery PROVE TypeOK'
  BY <1>22 DEF JoinRecovery
<1>23. ASSUME JoinListeners PROVE TypeOK'
  BY <1>23 DEF JoinListeners
<1>24. ASSUME DeleteFirst PROVE TypeOK'
  BY <1>24 DEF DeleteFirst
<1>25. ASSUME MainErase PROVE TypeOK'
  BY <1>25 DEF MainErase
<1>26. ASSUME FreeProtocol PROVE TypeOK'
  BY <1>26 DEF FreeProtocol
<1>27. ASSUME UNCHANGED vars PROVE TypeOK'
  BY <1>27 DEF vars
<1>28. ASSUME NEW c \in Conns, CreateListenThread(c) PROVE TypeOK'
  BY <1>28, StartListenerType DEF CreateListenThread
<1>29. ASSUME NEW c \in Conns, DropSocket(c) PROVE TypeOK'
  BY <1>29 DEF DropSocket
<1>30. ASSUME AcceptFails PROVE TypeOK'
  BY <1>30, StartListenerType DEF AcceptFails
<1> QED
  BY <1>1, <1>2, <1>3, <1>4, <1>5, <1>6, <1>7, <1>8, <1>9, <1>10, <1>11,
      <1>12, <1>13, <1>14, <1>15, <1>16, <1>17, <1>18, <1>19, <1>20, <1>21,
      <1>22, <1>23, <1>24, <1>25, <1>26, <1>27, <1>28, <1>29, <1>30
    DEF Next, Listen, Client, Destroy, Recovery, Main

\* Only its listener brings a connection to life, and only a deleter that has
\* freed the object takes it out of clientmap.
LEMMA ListenerStep == ASSUME IInv, [Next]_vars PROVE ListenerInv'
<1> USE LifecycleAssumption
    DEF IInv, TypeOK, Deleters, listenVars, clientVars, registryVars, deleterVars
<1>1. ASSUME NEW c \in Conns, Accept(c) PROVE ListenerInv'
  BY <1>1 DEF Accept, ListenerInv
<1>2. ASSUME NEW c \in Conns, CreateClient(c) PROVE ListenerInv'
  BY <1>2 DEF CreateClient, ListenerInv
<1>3. ASSUME NEW c \in Conns, Register(c) PROVE ListenerInv'
  BY <1>3 DEF Register, ListenerInv
<1>4. ASSUME NEW c \in Conns, PeerLeaves(c) PROVE ListenerInv'
  BY <1>4 DEF PeerLeaves, ListenerInv
<1>5. ASSUME NEW c \in Conns, ReceiverStops(c) PROVE ListenerInv'
  BY <1>5 DEF ReceiverStops, ListenerInv
<1>6. ASSUME NEW c \in Conns, NotifyDelete(c) PROVE ListenerInv'
  BY <1>6 DEF NotifyDelete, ListenerInv
<1>7. ASSUME NEW c \in Conns, TakeRequest(c) PROVE ListenerInv'
  BY <1>7 DEF TakeRequest, ListenerInv
<1>8. ASSUME NEW c \in Conns, Reply(c) PROVE ListenerInv'
  BY <1>8 DEF Reply, ListenerInv
<1>9. ASSUME NEW c \in Conns, ParserStops(c) PROVE ListenerInv'
  BY <1>9 DEF ParserStops, ListenerInv
<1>10. ASSUME NEW d \in Deleters, JoinReceiver(d) PROVE ListenerInv'
  BY <1>10 DEF JoinReceiver, ListenerInv, DeleterInv, Destroying,
      InDestructor, HasSocket
<1>11. ASSUME RecoveryErase PROVE ListenerInv'
  BY <1>11 DEF RecoveryErase, ListenerInv, DeleterInv, Destroying,
      InDestructor, HasSocket
<1>12. ASSUME MainErase PROVE ListenerInv'
  BY <1>12 DEF MainErase, ListenerInv, DeleterInv, Destroying, InDestructor,
      HasSocket
<1>13. ASSUME UNCHANGED <<listener, obj, fd, receiver, parser, clientmap>> PROVE ListenerInv'
  BY <1>13 DEF ListenerInv
<1>14. ASSUME NEW c \in Conns, CreateListenThread(c) PROVE ListenerInv'
  BY <1>14 DEF CreateListenThread, StartListener, ListenerInv
<1>15. ASSUME NEW c \in Conns, DropSocket(c) PROVE ListenerInv'
  BY <1>15 DEF DropSocket, ListenerInv
<1> QED
  BY <1>1, <1>2, <1>3, <1>4, <1>5, <1>6, <1>7, <1>8, <1>9, <1>10, <1>11,
      <1>12, <1>13, <1>14, <1>15
    DEF Next, Listen, AcceptFails, Client, Destroy, Recovery, Main, vars, ReceiveRequest,
        CloseSocket, SetThreadExitFlag, JoinParser, TakeNotice, RecoveryStops,
        FindClient, FindNobody, CloseMater, StopRecovery, JoinRecovery,
        JoinListeners, DeleteFirst, FreeProtocol

\* A closed descriptor is given to one connection, which had none.
LEMMA SocketStep == ASSUME IInv, [Next]_vars PROVE SocketInv'
<1> USE LifecycleAssumption
    DEF IInv, TypeOK, Deleters, listenVars, clientVars, registryVars, deleterVars
<1>1. ASSUME NEW c \in Conns, Accept(c) PROVE SocketInv'
  BY <1>1 DEF Accept, SocketInv, ListenerInv
<1>2. ASSUME NEW d \in Deleters, CloseSocket(d) PROVE SocketInv'
  BY <1>2 DEF CloseSocket, SocketInv
<1>3. ASSUME UNCHANGED <<fd, socket>> PROVE SocketInv'
  BY <1>3 DEF SocketInv
<1> QED
  BY <1>1, <1>2, <1>3
    DEF Next, Listen, CreateListenThread, DropSocket, AcceptFails, Client, Destroy, Recovery, Main, vars, CreateClient, Register,
        ReceiveRequest, PeerLeaves, ReceiverStops, NotifyDelete, TakeRequest,
        Reply, ParserStops, SetThreadExitFlag, JoinParser, JoinReceiver,
        TakeNotice, RecoveryStops, FindClient, FindNobody, RecoveryErase,
        CloseMater, StopRecovery, JoinRecovery, JoinListeners, DeleteFirst,
        MainErase, FreeProtocol

\* A client that a deleter finds in clientmap is alive: a freed one is still
\* there only while its own deleter erases it, and the main thread does not
\* begin before the recovery thread has ended.
LEMMA DeleterStep == ASSUME IInv, [Next]_vars PROVE DeleterInv'
<1> USE LifecycleAssumption
    DEF IInv, TypeOK, Deleters, listenVars, clientVars, registryVars, deleterVars
<1>1. ASSUME NEW c \in Conns, Accept(c) PROVE DeleterInv'
  BY <1>1 DEF Accept, DeleterInv, ListenerInv, Destroying, InDestructor,
      HasSocket
<1>2. ASSUME NEW c \in Conns, CreateClient(c) PROVE DeleterInv'
  BY <1>2 DEF CreateClient, DeleterInv, ListenerInv, Destroying, InDestructor,
      HasSocket
<1>3. ASSUME NEW c \in Conns, Register(c) PROVE DeleterInv'
  BY <1>3 DEF Register, DeleterInv, Destroying, InDestructor, HasSocket
<1>4. ASSUME NEW c \in Conns, TakeRequest(c) PROVE DeleterInv'
  BY <1>4 DEF TakeRequest, DeleterInv, Destroying, InDestructor, HasSocket
<1>5. ASSUME NEW c \in Conns, Reply(c) PROVE DeleterInv'
  BY <1>5 DEF Reply, DeleterInv, Destroying, InDestructor, HasSocket
<1>6. ASSUME NEW c \in Conns, ParserStops(c) PROVE DeleterInv'
  BY <1>6 DEF ParserStops, DeleterInv, Destroying, InDestructor, HasSocket
<1>7. ASSUME NEW d \in Deleters, CloseSocket(d) PROVE DeleterInv'
  BY <1>7 DEF CloseSocket, DeleterInv, Destroying, InDestructor, HasSocket
<1>8. ASSUME NEW d \in Deleters, SetThreadExitFlag(d) PROVE DeleterInv'
  BY <1>8 DEF SetThreadExitFlag, DeleterInv, Destroying, InDestructor,
      HasSocket
<1>9. ASSUME NEW d \in Deleters, JoinParser(d) PROVE DeleterInv'
  BY <1>9 DEF JoinParser, DeleterInv, Destroying, InDestructor, HasSocket
<1>10. ASSUME NEW d \in Deleters, JoinReceiver(d) PROVE DeleterInv'
  <2>1. \A e \in Deleters \ {d} : ~Destroying(e)
    BY <1>10 DEF JoinReceiver, DeleterInv, PhaseInv, Destroying
  <2> QED
    BY <1>10, <2>1 DEF JoinReceiver, DeleterInv, Destroying, InDestructor, HasSocket
<1>11. ASSUME TakeNotice PROVE DeleterInv'
  BY <1>11 DEF TakeNotice, DeleterInv, Destroying, InDestructor, HasSocket
<1>12. ASSUME RecoveryStops PROVE DeleterInv'
  BY <1>12 DEF RecoveryStops, DeleterInv, Destroying, InDestructor, HasSocket
<1>13. ASSUME FindClient PROVE DeleterInv'
  <2>1. victim["recovery"] \in clientmap /\ obj[victim["recovery"]] # "none"
    BY <1>13 DEF FindClient, ListenerInv
  <2>2. ~ \E d \in Deleters : step[d] = "erasing"
    BY <1>13 DEF FindClient, PhaseInv
  <2>3. obj[victim["recovery"]] = "alive"
    BY <2>1, <2>2 DEF GoneInv
  <2> QED
    BY <1>13, <2>1, <2>3 DEF FindClient, DeleterInv, Destroying, InDestructor, HasSocket
<1>14. ASSUME FindNobody PROVE DeleterInv'
  BY <1>14 DEF FindNobody, DeleterInv, Destroying, InDestructor, HasSocket
<1>15. ASSUME RecoveryErase PROVE DeleterInv'
  <2>1. ~Destroying("main")
    BY <1>15 DEF RecoveryErase, DeleterInv, PhaseInv, Destroying
  <2> QED
    BY <1>15, <2>1 DEF RecoveryErase, DeleterInv, Destroying, InDestructor, HasSocket
<1>16. ASSUME DeleteFirst PROVE DeleterInv'
  <2>1. PICK c \in clientmap : victim' = [victim EXCEPT !["main"] = c]
    BY <1>16 DEF DeleteFirst
  <2>2. ~ \E d \in Deleters : step[d] = "erasing"
    BY <1>16 DEF DeleteFirst, PhaseInv
  <2>3. c \in Conns /\ obj[c] = "alive"
    BY <2>1, <2>2 DEF ListenerInv, GoneInv
  <2> QED
    BY <1>16, <2>1, <2>3 DEF DeleteFirst, DeleterInv, Destroying, InDestructor, HasSocket
<1>17. ASSUME MainErase PROVE DeleterInv'
  <2>1. ~Destroying("recovery")
    BY <1>17 DEF MainErase, DeleterInv, PhaseInv, Destroying
  <2> QED
    BY <1>17, <2>1 DEF MainErase, DeleterInv, Destroying, InDestructor, HasSocket
<1>18. ASSUME UNCHANGED <<obj, fd, socket, parser, clientmap, step, victim>> PROVE DeleterInv'
  BY <1>18 DEF DeleterInv, Destroying, InDestructor, HasSocket
<1> QED
  BY <1>1, <1>2, <1>3, <1>4, <1>5, <1>6, <1>7, <1>8, <1>9, <1>10, <1>11,
      <1>12, <1>13, <1>14, <1>15, <1>16, <1>17, <1>18
    DEF Next, Listen, CreateListenThread, DropSocket, AcceptFails, Client, Destroy, Recovery, Main, vars, ReceiveRequest,
        PeerLeaves, ReceiverStops, NotifyDelete, CloseMater, StopRecovery,
        JoinRecovery, JoinListeners, FreeProtocol

\* ~JProtocol joins the recovery thread and the listeners before it deletes.
LEMMA PhaseStep == ASSUME IInv, [Next]_vars PROVE PhaseInv'
<1> USE LifecycleAssumption
    DEF IInv, TypeOK, Deleters, listenVars, clientVars, registryVars, deleterVars
<1>1. ASSUME NEW c \in Conns, Accept(c) PROVE PhaseInv'
  BY <1>1 DEF Accept, PhaseInv
<1>2. ASSUME NEW c \in Conns, CreateClient(c) PROVE PhaseInv'
  BY <1>2 DEF CreateClient, PhaseInv
<1>3. ASSUME NEW c \in Conns, Register(c) PROVE PhaseInv'
  <2>1. phase \notin {"deleting", "gone"}
    BY <1>3 DEF Register, PhaseInv
  <2> QED
    BY <1>3, <2>1 DEF Register, PhaseInv
<1>4. ASSUME NEW d \in Deleters, CloseSocket(d) PROVE PhaseInv'
  BY <1>4 DEF CloseSocket, PhaseInv
<1>5. ASSUME NEW d \in Deleters, SetThreadExitFlag(d) PROVE PhaseInv'
  BY <1>5 DEF SetThreadExitFlag, PhaseInv
<1>6. ASSUME NEW d \in Deleters, JoinParser(d) PROVE PhaseInv'
  BY <1>6 DEF JoinParser, PhaseInv
<1>7. ASSUME NEW d \in Deleters, JoinReceiver(d) PROVE PhaseInv'
  BY <1>7 DEF JoinReceiver, PhaseInv
<1>8. ASSUME TakeNotice PROVE PhaseInv'
  BY <1>8 DEF TakeNotice, PhaseInv
<1>9. ASSUME RecoveryStops PROVE PhaseInv'
  BY <1>9 DEF RecoveryStops, PhaseInv
<1>10. ASSUME FindClient PROVE PhaseInv'
  BY <1>10 DEF FindClient, PhaseInv
<1>11. ASSUME FindNobody PROVE PhaseInv'
  BY <1>11 DEF FindNobody, PhaseInv
<1>12. ASSUME RecoveryErase PROVE PhaseInv'
  BY <1>12 DEF RecoveryErase, PhaseInv
<1>13. ASSUME CloseMater PROVE PhaseInv'
  BY <1>13 DEF CloseMater, PhaseInv
<1>14. ASSUME StopRecovery PROVE PhaseInv'
  BY <1>14 DEF StopRecovery, PhaseInv
<1>15. ASSUME JoinRecovery PROVE PhaseInv'
  BY <1>15 DEF JoinRecovery, PhaseInv
<1>16. ASSUME JoinListeners PROVE PhaseInv'
  BY <1>16 DEF JoinListeners, PhaseInv
<1>17. ASSUME DeleteFirst PROVE PhaseInv'
  BY <1>17 DEF DeleteFirst, PhaseInv
<1>18. ASSUME MainErase PROVE PhaseInv'
  BY <1>18 DEF MainErase, PhaseInv
<1>19. ASSUME FreeProtocol PROVE PhaseInv'
  BY <1>19 DEF FreeProtocol, PhaseInv
<1>20. ASSUME UNCHANGED <<phase, listener, listening, clientmap, step>> PROVE PhaseInv'
  BY <1>20 DEF PhaseInv
<1>21. ASSUME NEW c \in Conns, CreateListenThread(c) PROVE PhaseInv'
  BY <1>21 DEF CreateListenThread, StartListener, PhaseInv
<1>22. ASSUME NEW c \in Conns, DropSocket(c) PROVE PhaseInv'
  BY <1>22 DEF DropSocket, PhaseInv
<1>23. ASSUME AcceptFails PROVE PhaseInv'
  BY <1>23 DEF AcceptFails, StartListener, PhaseInv
<1> QED
  BY <1>1, <1>2, <1>3, <1>4, <1>5, <1>6, <1>7, <1>8, <1>9, <1>10, <1>11,
      <1>12, <1>13, <1>14, <1>15, <1>16, <1>17, <1>18, <1>19, <1>20, <1>21, <1>22, <1>23
    DEF Next, Listen, Client, Destroy, Recovery, Main, vars, ReceiveRequest,
        PeerLeaves, ReceiverStops, NotifyDelete, TakeRequest, Reply,
        ParserStops

\* Nothing comes back to life, and the socket of a destroyed client is not its
\* own again.
LEMMA GoneStep == ASSUME IInv, [Next]_vars PROVE GoneInv'
<1> USE LifecycleAssumption
    DEF IInv, TypeOK, Deleters, listenVars, clientVars, registryVars, deleterVars
<1>1. ASSUME NEW c \in Conns, Accept(c) PROVE GoneInv'
  BY <1>1 DEF Accept, GoneInv, HasSocket
<1>2. ASSUME NEW c \in Conns, CreateClient(c) PROVE GoneInv'
  BY <1>2 DEF CreateClient, GoneInv, HasSocket
<1>3. ASSUME NEW c \in Conns, Register(c) PROVE GoneInv'
  BY <1>3 DEF Register, GoneInv, HasSocket
<1>4. ASSUME NEW c \in Conns, PeerLeaves(c) PROVE GoneInv'
  BY <1>4 DEF PeerLeaves, GoneInv, HasSocket
<1>5. ASSUME NEW c \in Conns, ReceiverStops(c) PROVE GoneInv'
  BY <1>5 DEF ReceiverStops, GoneInv, HasSocket
<1>6. ASSUME NEW c \in Conns, NotifyDelete(c) PROVE GoneInv'
  BY <1>6 DEF NotifyDelete, GoneInv, HasSocket
<1>7. ASSUME NEW c \in Conns, TakeRequest(c) PROVE GoneInv'
  BY <1>7 DEF TakeRequest, GoneInv, HasSocket
<1>8. ASSUME NEW c \in Conns, Reply(c) PROVE GoneInv'
  BY <1>8 DEF Reply, GoneInv, HasSocket
<1>9. ASSUME NEW c \in Conns, ParserStops(c) PROVE GoneInv'
  BY <1>9 DEF ParserStops, GoneInv, HasSocket
<1>10. ASSUME NEW d \in Deleters, CloseSocket(d) PROVE GoneInv'
  BY <1>10 DEF CloseSocket, GoneInv, HasSocket
<1>11. ASSUME NEW d \in Deleters, SetThreadExitFlag(d) PROVE GoneInv'
  BY <1>11 DEF SetThreadExitFlag, GoneInv, HasSocket
<1>12. ASSUME NEW d \in Deleters, JoinParser(d) PROVE GoneInv'
  BY <1>12 DEF JoinParser, GoneInv, HasSocket
<1>13. ASSUME NEW d \in Deleters, JoinReceiver(d) PROVE GoneInv'
  <2>1. /\ victim[d] \in Conns /\ victim[d] \in clientmap
        /\ listener[victim[d]] = "ended" /\ parser[victim[d]] = "ended"
        /\ ~HasSocket(victim[d])
    BY <1>13 DEF JoinReceiver, ListenerInv, DeleterInv, Destroying
  <2> QED
    BY <1>13, <2>1 DEF JoinReceiver, GoneInv, HasSocket
<1>14. ASSUME TakeNotice PROVE GoneInv'
  BY <1>14 DEF TakeNotice, GoneInv, HasSocket
<1>15. ASSUME RecoveryStops PROVE GoneInv'
  BY <1>15 DEF RecoveryStops, GoneInv, HasSocket
<1>16. ASSUME FindClient PROVE GoneInv'
  BY <1>16 DEF FindClient, GoneInv, HasSocket
<1>17. ASSUME FindNobody PROVE GoneInv'
  BY <1>17 DEF FindNobody, GoneInv, HasSocket
<1>18. ASSUME RecoveryErase PROVE GoneInv'
  BY <1>18 DEF RecoveryErase, GoneInv, HasSocket
<1>19. ASSUME DeleteFirst PROVE GoneInv'
  BY <1>19 DEF DeleteFirst, GoneInv, HasSocket
<1>20. ASSUME MainErase PROVE GoneInv'
  BY <1>20 DEF MainErase, GoneInv, HasSocket
<1>21. ASSUME UNCHANGED <<listener, obj, fd, socket, receiver, parser, clientmap, step, victim>> PROVE GoneInv'
  BY <1>21 DEF GoneInv, HasSocket
<1>22. ASSUME NEW c \in Conns, CreateListenThread(c) PROVE GoneInv'
  BY <1>22 DEF CreateListenThread, StartListener, GoneInv, HasSocket
<1>23. ASSUME NEW c \in Conns, DropSocket(c) PROVE GoneInv'
  BY <1>23 DEF DropSocket, GoneInv, HasSocket
<1> QED
  BY <1>1, <1>2, <1>3, <1>4, <1>5, <1>6, <1>7, <1>8, <1>9, <1>10, <1>11,
      <1>12, <1>13, <1>14, <1>15, <1>16, <1>17, <1>18, <1>19, <1>20, <1>21, <1>22, <1>23
    DEF Next, Listen, AcceptFails, Client, Destroy, Recovery, Main, vars, ReceiveRequest,
        CloseMater, StopRecovery, JoinRecovery, JoinListeners, FreeProtocol

\* A notice is kept, unless its slot is written again, until the recovery
\* thread is done with its client.
LEMMA NoticeStep == ASSUME IInv, [Next]_vars PROVE NoticeInv'
<1> USE LifecycleAssumption
    DEF IInv, TypeOK, Deleters, listenVars, clientVars, registryVars, deleterVars
<1>1. ASSUME NEW c \in Conns, CreateClient(c) PROVE NoticeInv'
  BY <1>1 DEF CreateClient, NoticeInv, Stopping, Noticed
<1>2. ASSUME NEW c \in Conns, PeerLeaves(c) PROVE NoticeInv'
  BY <1>2 DEF PeerLeaves, NoticeInv, Stopping, Noticed
<1>3. ASSUME NEW c \in Conns, ReceiverStops(c) PROVE NoticeInv'
  BY <1>3 DEF ReceiverStops, NoticeInv, Stopping, Noticed
<1>4. ASSUME NEW c \in Conns, NotifyDelete(c) PROVE NoticeInv'
  <2> SUFFICES ASSUME NEW e \in Conns, Stopping' = Stopping, obj[e] = "alive",
                      receiver'[e] = "ended", e \notin missed, e \notin overwritten', ~Stopping
               PROVE  Noticed(e)'
    BY <1>4 DEF NotifyDelete, NoticeInv, Stopping
  <2>1. /\ clientqueue'[Len(clientqueue) + 1] = c
        /\ Len(clientqueue) + 1 \in DOMAIN clientqueue'
        /\ \A i \in DOMAIN clientqueue :
              /\ i \in DOMAIN clientqueue'
              /\ i \notin InNextSlot => clientqueue'[i] = clientqueue[i]
    BY <1>4 DEF NotifyDelete
  <2>2. CASE e = c
    BY <2>1, <2>2 DEF Noticed
  <2>3. CASE e # c
    <3>1. Noticed(e)
      BY <1>4, <2>3 DEF NotifyDelete, NoticeInv
    <3>2. \A i \in InNextSlot : clientqueue[i] # e
      BY <1>4 DEF NotifyDelete
    <3> QED
      BY <1>4, <2>1, <3>1, <3>2 DEF NotifyDelete, Noticed
  <2> QED
    BY <2>2, <2>3
<1>5. ASSUME NEW d \in Deleters, JoinReceiver(d) PROVE NoticeInv'
  BY <1>5 DEF JoinReceiver, NoticeInv, Stopping, Noticed
<1>6. ASSUME TakeNotice PROVE NoticeInv'
  <2> SUFFICES ASSUME NEW c \in Conns, Noticed(c) PROVE Noticed(c)'
    BY <1>6 DEF TakeNotice, NoticeInv, Stopping
  <2>1. victim["recovery"] = None
    BY <1>6 DEF TakeNotice, DeleterInv
  <2>2. PICK i \in DOMAIN clientqueue : clientqueue[i] = c
    BY <2>1 DEF Noticed
  <2>3. CASE i = 1
    <3>1. victim'["recovery"] = c
      BY <1>6, <2>2, <2>3 DEF TakeNotice
    <3> QED
      BY <3>1 DEF Noticed
  <2>4. CASE i # 1
    <3>1. i - 1 \in DOMAIN clientqueue' /\ clientqueue'[i - 1] = c
      BY <1>6, <2>2, <2>4 DEF TakeNotice
    <3> QED
      BY <3>1 DEF Noticed
  <2> QED
    BY <2>3, <2>4
<1>7. ASSUME FindNobody PROVE NoticeInv'
  BY <1>7 DEF FindNobody, NoticeInv, Stopping, Noticed
<1>8. ASSUME RecoveryErase PROVE NoticeInv'
  <2>1. obj[victim["recovery"]] = "gone"
    BY <1>8 DEF RecoveryErase, DeleterInv
  <2>2. UNCHANGED <<phase, obj, receiver, clientqueue, overwritten, missed>>
    BY <1>8 DEF RecoveryErase
  <2>3. \A c \in Conns : obj[c] = "alive" /\ Noticed(c) => Noticed(c)'
    BY <2>1, <2>2 DEF Noticed
  <2> QED
    BY <2>2, <2>3 DEF NoticeInv, Stopping
<1>9. ASSUME CloseMater PROVE NoticeInv'
  BY <1>9 DEF CloseMater, NoticeInv, Stopping, Noticed
<1>10. ASSUME StopRecovery PROVE NoticeInv'
  BY <1>10 DEF StopRecovery, NoticeInv, Stopping, Noticed
<1>11. ASSUME JoinRecovery PROVE NoticeInv'
  BY <1>11 DEF JoinRecovery, NoticeInv, Stopping, Noticed
<1>12. ASSUME JoinListeners PROVE NoticeInv'
  BY <1>12 DEF JoinListeners, NoticeInv, Stopping, Noticed
<1>13. ASSUME DeleteFirst PROVE NoticeInv'
  BY <1>13 DEF DeleteFirst, NoticeInv, Stopping, Noticed
<1>14. ASSUME MainErase PROVE NoticeInv'
  BY <1>14 DEF MainErase, NoticeInv, Stopping, Noticed
<1>15. ASSUME FreeProtocol PROVE NoticeInv'
  BY <1>15 DEF FreeProtocol, NoticeInv, Stopping, Noticed
<1>16. ASSUME UNCHANGED <<phase, obj, receiver, clientqueue, victim, missed, overwritten>> PROVE NoticeInv'
  BY <1>16 DEF NoticeInv, Stopping, Noticed
<1> QED
  BY <1>1, <1>2, <1>3, <1>4, <1>5, <1>6, <1>7, <1>8, <1>9, <1>10, <1>11,
      <1>12, <1>13, <1>14, <1>15, <1>16
    DEF Next, Listen, CreateListenThread, DropSocket, AcceptFails, Client, Destroy, Recovery, Main, vars, Accept, Register,
        ReceiveRequest, TakeRequest, Reply, ParserStops, CloseSocket,
        SetThreadExitFlag, JoinParser, RecoveryStops, FindClient

\* The thread that leaves a notice ends, and never runs again.
LEMMA EndedStep == ASSUME IInv, [Next]_vars PROVE EndedInv'
<1> USE LifecycleAssumption
    DEF IInv, TypeOK, Deleters, listenVars, clientVars, registryVars, deleterVars
<1>1. ASSUME NEW c \in Conns, CreateClient(c) PROVE EndedInv'
  BY <1>1 DEF CreateClient, EndedInv, ListenerInv
<1>2. ASSUME NEW c \in Conns, PeerLeaves(c) PROVE EndedInv'
  BY <1>2 DEF PeerLeaves, EndedInv
<1>3. ASSUME NEW c \in Conns, ReceiverStops(c) PROVE EndedInv'
  BY <1>3 DEF ReceiverStops, EndedInv
<1>4. ASSUME NEW c \in Conns, NotifyDelete(c) PROVE EndedInv'
  BY <1>4 DEF NotifyDelete, EndedInv
<1>5. ASSUME TakeNotice PROVE EndedInv'
  <2>1. victim'["recovery"] = clientqueue[1] /\ 1 \in DOMAIN clientqueue
    BY <1>5 DEF TakeNotice
  <2>2. ASSUME NEW i \in DOMAIN clientqueue'
        PROVE  i + 1 \in DOMAIN clientqueue /\ clientqueue'[i] = clientqueue[i + 1]
    BY <1>5, <2>2 DEF TakeNotice
  <2>3. receiver' = receiver
    BY <1>5 DEF TakeNotice, clientVars
  <2> QED
    BY <2>1, <2>2, <2>3 DEF EndedInv
<1>6. ASSUME FindNobody PROVE EndedInv'
  BY <1>6 DEF FindNobody, EndedInv
<1>7. ASSUME RecoveryErase PROVE EndedInv'
  BY <1>7 DEF RecoveryErase, EndedInv
<1>8. ASSUME DeleteFirst PROVE EndedInv'
  BY <1>8 DEF DeleteFirst, EndedInv
<1>9. ASSUME MainErase PROVE EndedInv'
  BY <1>9 DEF MainErase, EndedInv
<1>10. ASSUME UNCHANGED <<receiver, clientqueue, victim>> PROVE EndedInv'
  BY <1>10 DEF EndedInv
<1> QED
  BY <1>1, <1>2, <1>3, <1>4, <1>5, <1>6, <1>7, <1>8, <1>9, <1>10
    DEF Next, Listen, CreateListenThread, DropSocket, AcceptFails, Client, Destroy, Recovery, Main, vars, Accept, Register,
        ReceiveRequest, TakeRequest, Reply, ParserStops, CloseSocket,
        SetThreadExitFlag, JoinParser, JoinReceiver, RecoveryStops,
        FindClient, CloseMater, StopRecovery, JoinRecovery, JoinListeners,
        FreeProtocol

\* No live client is without its socket unless a destructor has closed it; no
\* descriptor is given out that a receive thread still reads.
LEMMA OwnStep == ASSUME IInv, [Next]_vars PROVE OwnInv'
<1> USE LifecycleAssumption
    DEF IInv, TypeOK, Deleters, listenVars, clientVars, registryVars, deleterVars
<1>1. ASSUME NEW c \in Conns, Accept(c) PROVE OwnInv'
  BY <1>1 DEF Accept, OwnInv, ListenerInv, DeleterInv, HasSocket, Destroying,
      InDestructor
<1>2. ASSUME NEW c \in Conns, CreateClient(c) PROVE OwnInv'
  BY <1>2 DEF CreateClient, OwnInv, HasSocket
<1>3. ASSUME NEW c \in Conns, Register(c) PROVE OwnInv'
  BY <1>3 DEF Register, OwnInv, HasSocket
<1>4. ASSUME NEW c \in Conns, PeerLeaves(c) PROVE OwnInv'
  BY <1>4 DEF PeerLeaves, OwnInv, HasSocket
<1>5. ASSUME NEW c \in Conns, ReceiverStops(c) PROVE OwnInv'
  BY <1>5 DEF ReceiverStops, OwnInv, HasSocket
<1>6. ASSUME NEW c \in Conns, NotifyDelete(c) PROVE OwnInv'
  BY <1>6 DEF NotifyDelete, OwnInv, HasSocket
<1>7. ASSUME NEW d \in Deleters, CloseSocket(d) PROVE OwnInv'
  <2>1. /\ victim[d] \in Conns /\ HasSocket(victim[d])
        /\ listener[victim[d]] = "ended" /\ fd[victim[d]] \in Fds
    BY <1>7 DEF CloseSocket, DeleterInv, ListenerInv, OwnInv, Destroying
  <2>2. phase = "running" => receiver[victim[d]] = "ended"
    BY <1>7, <2>1 DEF CloseSocket, EndedInv, PhaseInv
  <2>3. \A c \in Conns \ {victim[d]} : HasSocket(c)' = HasSocket(c)
    BY <1>7, <2>1 DEF CloseSocket, HasSocket
  <2>4. \A e \in Deleters \ {d} : step'[e] = step[e] /\ step[e] # "closing"
    BY <1>7 DEF CloseSocket, PhaseInv
  <2>5. step'[d] = "flagging" /\ victim' = victim
    BY <1>7 DEF CloseSocket
  <2>6. ASSUME NEW c \in Conns
        PROVE  /\ phase' = "running" /\ listener'[c] # "none" /\ receiver'[c] # "ended" => HasSocket(c)'
               /\ listener'[c] \in {"accepted", "followed", "dropped"} => HasSocket(c)'
               /\ receiver'[c] = "running" => socket'[fd'[c]] \in {c, None}
               /\ obj'[c] = "alive" /\ ~HasSocket(c)' =>
                     \E e \in Deleters :
                         /\ step'[e] \in {"flagging", "joining_parser", "joining_receiver"}
                         /\ victim'[e] = c
    <3>1. CASE c = victim[d]
      BY <1>7, <2>1, <2>2, <2>5, <3>1 DEF CloseSocket
    <3>2. CASE c # victim[d]
      <4>1. HasSocket(c)' = HasSocket(c)
        BY <2>3, <3>2
      <4>2. receiver[c] = "running" => socket'[fd'[c]] \in {c, None}
        BY <1>7 DEF CloseSocket, OwnInv
      <4>3. \A e \in Deleters : victim[e] = c => step'[e] = step[e]
        BY <2>4, <3>2
      <4> QED
        BY <1>7, <2>5, <4>1, <4>2, <4>3 DEF CloseSocket, OwnInv
    <3> QED
      BY <3>1, <3>2
  <2> QED
    BY <2>4, <2>5, <2>6 DEF OwnInv
<1>8. ASSUME NEW d \in Deleters, SetThreadExitFlag(d) PROVE OwnInv'
  BY <1>8 DEF SetThreadExitFlag, OwnInv, HasSocket
<1>9. ASSUME NEW d \in Deleters, JoinParser(d) PROVE OwnInv'
  BY <1>9 DEF JoinParser, OwnInv, HasSocket
<1>10. ASSUME NEW d \in Deleters, JoinReceiver(d) PROVE OwnInv'
  BY <1>10 DEF JoinReceiver, OwnInv, HasSocket
<1>11. ASSUME TakeNotice PROVE OwnInv'
  BY <1>11 DEF TakeNotice, OwnInv, DeleterInv, HasSocket, Destroying,
      InDestructor
<1>12. ASSUME RecoveryStops PROVE OwnInv'
  BY <1>12 DEF RecoveryStops, OwnInv, DeleterInv, HasSocket, Destroying,
      InDestructor
<1>13. ASSUME FindClient PROVE OwnInv'
  <2>1. PICK d \in Deleters, c \in Conns :
            /\ step' = [step EXCEPT ![d] = "closing"] /\ victim'[d] = c
            /\ c \in clientmap /\ obj[c] = "alive"
            /\ \A e \in Deleters \ {d} : victim'[e] = victim[e]
            /\ \A e \in Deleters : step[e] \notin {"flagging", "joining_parser", "joining_receiver"}
    <3>1. victim["recovery"] \in clientmap /\ obj[victim["recovery"]] # "none"
      BY <1>13 DEF FindClient, ListenerInv
    <3>2. step["main"] = "idle"
      BY <1>13 DEF FindClient, PhaseInv
    <3>3. obj[victim["recovery"]] = "alive"
      BY <1>13, <3>1, <3>2 DEF FindClient, GoneInv
    <3> QED
      BY <1>13, <3>1, <3>2, <3>3 DEF FindClient
  <2>2. HasSocket(c)
    BY <2>1 DEF OwnInv
  <2>3. UNCHANGED <<phase, listener, obj, fd, socket, receiver>>
    BY <1>13 DEF FindClient
  <2>4. \A e \in Conns : obj[e] = "alive" => HasSocket(e)
    BY <2>1 DEF OwnInv
  <2> QED
    BY <2>1, <2>2, <2>3, <2>4 DEF OwnInv, HasSocket
<1>14. ASSUME FindNobody PROVE OwnInv'
  BY <1>14 DEF FindNobody, OwnInv, DeleterInv, HasSocket, Destroying,
      InDestructor
<1>15. ASSUME RecoveryErase PROVE OwnInv'
  BY <1>15 DEF RecoveryErase, OwnInv, DeleterInv, HasSocket, Destroying,
      InDestructor
<1>16. ASSUME CloseMater PROVE OwnInv'
  BY <1>16 DEF CloseMater, OwnInv, HasSocket
<1>17. ASSUME StopRecovery PROVE OwnInv'
  BY <1>17 DEF StopRecovery, OwnInv, HasSocket
<1>18. ASSUME JoinRecovery PROVE OwnInv'
  BY <1>18 DEF JoinRecovery, OwnInv, HasSocket
<1>19. ASSUME JoinListeners PROVE OwnInv'
  BY <1>19 DEF JoinListeners, OwnInv, HasSocket
<1>20. ASSUME DeleteFirst PROVE OwnInv'
  <2>1. PICK d \in Deleters, c \in Conns :
            /\ step' = [step EXCEPT ![d] = "closing"] /\ victim'[d] = c
            /\ c \in clientmap /\ obj[c] = "alive"
            /\ \A e \in Deleters \ {d} : victim'[e] = victim[e]
            /\ \A e \in Deleters : step[e] \notin {"flagging", "joining_parser", "joining_receiver"}
    <3>1. PICK c \in clientmap : victim' = [victim EXCEPT !["main"] = c]
      BY <1>20 DEF DeleteFirst
    <3>2. step["recovery"] = "exited" /\ step["main"] = "idle"
      BY <1>20 DEF DeleteFirst, PhaseInv
    <3>3. c \in Conns /\ obj[c] = "alive"
      BY <3>1, <3>2 DEF ListenerInv, GoneInv
    <3> QED
      BY <1>20, <3>1, <3>2, <3>3 DEF DeleteFirst
  <2>2. HasSocket(c)
    BY <2>1 DEF OwnInv
  <2>3. UNCHANGED <<phase, listener, obj, fd, socket, receiver>>
    BY <1>20 DEF DeleteFirst
  <2>4. \A e \in Conns : obj[e] = "alive" => HasSocket(e)
    BY <2>1 DEF OwnInv
  <2> QED
    BY <2>1, <2>2, <2>3, <2>4 DEF OwnInv, HasSocket
<1>21. ASSUME MainErase PROVE OwnInv'
  BY <1>21 DEF MainErase, OwnInv, DeleterInv, HasSocket, Destroying,
      InDestructor
<1>22. ASSUME FreeProtocol PROVE OwnInv'
  BY <1>22 DEF FreeProtocol, OwnInv, HasSocket
<1>23. ASSUME UNCHANGED <<phase, listener, obj, fd, socket, receiver, step, victim>> PROVE OwnInv'
  BY <1>23 DEF OwnInv, HasSocket
<1>24. ASSUME NEW c \in Conns, CreateListenThread(c) PROVE OwnInv'
  BY <1>24 DEF CreateListenThread, StartListener, OwnInv, HasSocket
<1>25. ASSUME NEW c \in Conns, DropSocket(c) PROVE OwnInv'
  BY <1>25 DEF DropSocket, OwnInv, HasSocket
<1> QED
  BY <1>1, <1>2, <1>3, <1>4, <1>5, <1>6, <1>7, <1>8, <1>9, <1>10, <1>11,
      <1>12, <1>13, <1>14, <1>15, <1>16, <1>17, <1>18, <1>19, <1>20, <1>21,
      <1>22, <1>23, <1>24, <1>25
    DEF Next, Listen, AcceptFails, Client, Destroy, Recovery, Main, vars, ReceiveRequest,
        TakeRequest, Reply, ParserStops

-----------------------------------------------------------------------------
LEMMA Invariance == Spec => []IInv
<1>1. IInv /\ [Next]_vars => IInv'
  BY TypeStep, ListenerStep, SocketStep, DeleterStep, PhaseStep, GoneStep,
     NoticeStep, EndedStep, OwnStep DEF IInv
<1> QED
  BY Initially, <1>1, PTL DEF Spec

\* No step, of any thread at any time, leaves a variable outside its type: in
\* particular a destructor always has a client and a descriptor to close.
THEOREM TypeCorrect == Spec => []TypeOK
<1>1. IInv => TypeOK
  BY DEF IInv
<1> QED
  BY Invariance, <1>1, PTL

\* However many clients leave, and whenever "quit" is typed, a ~ClientObj runs
\* on a live object that is still in clientmap, and never two on the same
\* one, although ~JProtocol takes no lock.
THEOREM DestroyedOnce == Spec => []OneDestructor
<1>1. IInv => OneDestructor
  <2> SUFFICES ASSUME IInv, NEW d \in Deleters, InDestructor(d)
               PROVE  /\ obj[victim[d]] = "alive"
                      /\ victim[d] \in clientmap
                      /\ \A e \in Deleters \ {d} : victim[e] # victim[d]
    BY DEF OneDestructor
  <2>1. obj[victim[d]] = "alive" /\ victim[d] \in clientmap
    BY DEF IInv, DeleterInv, Destroying, InDestructor
  <2>2. victim[d] # None
    BY <2>1, LifecycleAssumption DEF IInv, TypeOK
  <2>3. ASSUME NEW e \in Deleters \ {d} PROVE victim[e] # victim[d]
    <3>1. CASE d = "main"
      <4>1. step["recovery"] = "exited"
        BY <3>1 DEF IInv, PhaseInv, InDestructor
      <4> QED
        BY <2>2, <2>3, <3>1, <4>1 DEF IInv, DeleterInv, Deleters
    <3>2. CASE d = "recovery"
      <4>1. step["main"] = "idle"
        BY <3>2 DEF IInv, PhaseInv, InDestructor
      <4> QED
        BY <2>2, <2>3, <3>2, <4>1 DEF IInv, DeleterInv, Deleters
    <3> QED
      BY <3>1, <3>2 DEF Deleters
  <2> QED
    BY <2>1, <2>3
<1> QED
  BY Invariance, <1>1, PTL

\* When a ClientObj has been freed both of its threads have ended and its
\* descriptor is closed, or belongs to a later connection.
THEOREM ThreadsEndFirst == Spec => []NothingOutlivesObject
<1>1. IInv => NothingOutlivesObject
  BY DEF IInv, GoneInv, NothingOutlivesObject
<1> QED
  BY Invariance, <1>1, PTL

\* A registered client whose receive thread has ended and which has no notice
\* any more is one that the recovery thread looked for before it was
\* registered, or whose notice was overwritten when more notices waited than
\* the ring has slots: there is no other way to be forgotten.
THEOREM OnlyTheEarlyForgotten == Spec => []ForgottenWereEarly
<1>1. IInv => ForgottenWereEarly
  <2> SUFFICES ASSUME IInv, NEW c \in clientmap \ (missed \cup overwritten),
                      receiver[c] = "ended", ~Stopping
               PROVE  Noticed(c)
    BY DEF ForgottenWereEarly
  <2>1. c \in Conns /\ obj[c] \in {"alive", "gone"}
    BY DEF IInv, TypeOK, ListenerInv
  <2>2. CASE obj[c] = "alive"
    BY <2>1, <2>2 DEF IInv, NoticeInv
  <2>3. CASE obj[c] = "gone"
    <3>1. PICK d \in Deleters : step[d] = "erasing" /\ victim[d] = c
      BY <2>1, <2>3 DEF IInv, GoneInv
    <3>2. d = "recovery"
      BY <3>1 DEF IInv, PhaseInv, Deleters, Stopping
    <3> QED
      BY <3>1, <3>2 DEF Noticed
  <2> QED
    BY <2>1, <2>2, <2>3
<1> QED
  BY Invariance, <1>1, PTL

\* When ~JProtocol returns, no listener runs, every object that was created
\* has been freed, also those of clients the recovery thread missed, and of
\* the sockets that were accepted exactly those are left that were dropped
\* because the listeners were used up.
THEOREM ShutdownIsComplete == Spec => []NothingLeftBehind
<1>1. IInv => NothingLeftBehind
  <2> SUFFICES ASSUME IInv, phase = "gone"
               PROVE  /\ \A c \in Conns : obj[c] # "alive" /\ listener[c] \in {"none", "ended", "dropped"}
                      /\ {c \in Conns : HasSocket(c)} = {c \in Conns : listener[c] = "dropped"}
                      /\ ~listening
    BY DEF NothingLeftBehind
  <2>1. \A c \in Conns : obj[c] # "alive" /\ listener[c] \in {"none", "ended", "dropped"}
    BY DEF IInv, PhaseInv, ListenerInv
  <2>2. ASSUME NEW c \in Conns, HasSocket(c) PROVE listener[c] = "dropped"
    <3>1. listener[c] # "none"
      BY <2>2 DEF IInv, ListenerInv, HasSocket
    <3>2. listener[c] # "ended"
      BY <2>1, <2>2 DEF IInv, TypeOK, ListenerInv, GoneInv
    <3> QED
      BY <2>1, <3>1, <3>2
  <2>3. ASSUME NEW c \in Conns, listener[c] = "dropped" PROVE HasSocket(c)
    BY <2>3 DEF IInv, OwnInv
  <2>4. ~listening
    BY DEF IInv, PhaseInv
  <2> QED
    BY <2>1, <2>2, <2>3, <2>4
<1> QED
  BY Invariance, <1>1, PTL

\* Whatever connections come and go, and whatever numbers accept gives out
\* again, a receive thread reads only what its own peer sends, and a
\* destructor closes only its own client's socket.
THEOREM DescriptorsKeptApart == Spec => []OwnDescriptors
<1>1. IInv => OwnDescriptors
  BY DEF IInv, OwnInv, OwnDescriptors
<1> QED
  BY Invariance, <1>1, PTL

\* The only way for a reply to reach another client is that the destructor of
\* the client that asked has closed the socket under its parse thread.
THEOREM OnlyTheDyingStray == Spec => StraysOnlyFromDestroyed
<1> DEFINE Strays ==
      \A p \in astray' \ astray :
          \E d \in Deleters : step[d] \in {"flagging", "joining_parser"} /\ victim[d] = p[1]
<1>1. ASSUME IInv, [Next]_vars PROVE [Strays]_vars
  <2>1. ASSUME NEW c \in Conns, Reply(c) PROVE Strays
    <3> SUFFICES ASSUME NEW p \in astray' \ astray
                 PROVE  \E d \in Deleters :
                            step[d] \in {"flagging", "joining_parser"} /\ victim[d] = p[1]
      OBVIOUS
    <3>1. p[1] = c /\ socket[fd[c]] \notin {c, None}
      BY <2>1 DEF Reply
    <3>2. ~HasSocket(c)
      BY <3>1 DEF HasSocket
    <3>3. parser[c] = "replying"
      BY <2>1 DEF Reply
    <3>4. obj[c] = "alive"
      <4>1. obj[c] # "none" /\ obj[c] # "gone"
        BY <1>1, <3>3 DEF IInv, ListenerInv, GoneInv
      <4> QED
        BY <1>1, <4>1 DEF IInv, TypeOK
    <3>5. PICK d \in Deleters :
              step[d] \in {"flagging", "joining_parser", "joining_receiver"} /\ victim[d] = c
      BY <1>1, <3>2, <3>4 DEF IInv, OwnInv
    <3>6. step[d] # "joining_receiver"
      BY <1>1, <3>3, <3>5 DEF IInv, DeleterInv
    <3> QED
      BY <3>1, <3>5, <3>6
  <2>2. ASSUME UNCHANGED astray PROVE Strays
    BY <2>2
  <2> QED
    BY <1>1, <2>1, <2>2
      DEF Next, Client, Listen, Destroy, Recovery, Main, vars, clientVars, Accept, AcceptFails,
          CreateListenThread, DropSocket, CreateClient,
          Register, ReceiveRequest, PeerLeaves, ReceiverStops, NotifyDelete, TakeRequest,
          ParserStops, CloseSocket, SetThreadExitFlag, JoinParser, JoinReceiver,
          TakeNotice, RecoveryStops, FindClient, FindNobody, RecoveryErase,
          CloseMater, StopRecovery, JoinRecovery, JoinListeners, DeleteFirst,
          MainErase, FreeProtocol
<1> QED
  BY Invariance, <1>1, PTL DEF Spec, StraysOnlyFromDestroyed

-----------------------------------------------------------------------------
\* A step of a client's threads is a step of the registry, or none.
LEMMA ClientSteps ==
    ASSUME IInv, NEW c \in Conns, Client(c)
    PROVE  Registry!Next \/ UNCHANGED <<obj, [e \in Conns |-> Working(e)], phase # "gone">>
<1> USE DEF IInv, TypeOK, listenVars, clientVars, registryVars, deleterVars
<1>1. CASE CreateClient(c)
  <2>1. obj[c] = "none" /\ phase # "gone"
    BY <1>1 DEF CreateClient, ListenerInv, PhaseInv
  <2>2. Working(c)' = {"receiver", "parser"} /\ \A e \in Conns \ {c} : Working(e)' = Working(e)
    BY <1>1 DEF CreateClient, Working
  <2>3. Registry!Create(c)
    <3>1. [e \in Conns |-> Working(e)]'
             = [[e \in Conns |-> Working(e)] EXCEPT ![c] = {"receiver", "parser"}]
      BY <2>2
    <3> QED
      BY <1>1, <2>1, <3>1 DEF CreateClient, Registry!Create, Registry!ThreadsOfClient, Working
  <2> QED
    BY <2>3 DEF Registry!Next
<1>2. CASE NotifyDelete(c)
  <2>1. obj[c] = "alive"
    <3>1. receiver[c] = "leaving"
      BY <1>2 DEF NotifyDelete
    <3>2. obj[c] # "none" /\ obj[c] # "gone"
      BY <3>1 DEF ListenerInv, GoneInv
    <3> QED
      BY <3>2
  <2>2. /\ Working(c)' = Working(c) \ {"receiver"} /\ "receiver" \in Working(c)
        /\ \A e \in Conns \ {c} : Working(e)' = Working(e)
    BY <1>2 DEF NotifyDelete, Working
  <2>3. Registry!EndThread(c, "receiver")
    BY <1>2, <2>1, <2>2 DEF NotifyDelete, Registry!EndThread, Working
  <2> QED
    BY <2>3 DEF Registry!Next, Registry!ThreadsOfClient
<1>3. CASE ParserStops(c)
  <2>1. obj[c] = "alive"
    BY <1>3 DEF ParserStops, ListenerInv, GoneInv
  <2>2. /\ Working(c)' = Working(c) \ {"parser"} /\ "parser" \in Working(c)
        /\ \A e \in Conns \ {c} : Working(e)' = Working(e)
    BY <1>3 DEF ParserStops, Working
  <2>3. Registry!EndThread(c, "parser")
    BY <1>3, <2>1, <2>2 DEF ParserStops, Registry!EndThread, Working
  <2> QED
    BY <2>3 DEF Registry!Next, Registry!ThreadsOfClient
<1>4. CASE \/ Accept(c) \/ CreateListenThread(c) \/ DropSocket(c) \/ Register(c)
           \/ ReceiveRequest(c) \/ PeerLeaves(c) \/ ReceiverStops(c) \/ TakeRequest(c) \/ Reply(c)
  <2>1. UNCHANGED <<obj, phase>> /\ \A e \in Conns : Working(e)' = Working(e)
    BY <1>4 DEF Accept, CreateListenThread, DropSocket, Register, ReceiveRequest, PeerLeaves, ReceiverStops, TakeRequest,
                Reply, Working
  <2> QED
    BY <2>1
<1> QED
  BY <1>1, <1>2, <1>3, <1>4 DEF Client, Listen

\* A step of a deleter, or of ~JProtocol, is a step of the registry, or none.
LEMMA DeleterSteps ==
    ASSUME IInv, (\E d \in Deleters : Destroy(d)) \/ Recovery \/ Main
    PROVE  Registry!Next \/ UNCHANGED <<obj, [e \in Conns |-> Working(e)], phase # "gone">>
<1> USE DEF IInv, TypeOK, listenVars, clientVars, registryVars, deleterVars
<1>1. ASSUME NEW d \in Deleters, JoinReceiver(d)
      PROVE  Registry!Next
  <2>1. /\ victim[d] \in Conns /\ obj[victim[d]] = "alive" /\ phase # "gone"
        /\ receiver[victim[d]] = "ended" /\ parser[victim[d]] = "ended"
    BY <1>1 DEF JoinReceiver, DeleterInv, PhaseInv, Destroying, InDestructor, Deleters
  <2>2. Working(victim[d]) = {} /\ \A e \in Conns : Working(e)' = Working(e)
    BY <1>1, <2>1 DEF JoinReceiver, Working
  <2>3. Registry!Free(victim[d])
    BY <1>1, <2>1, <2>2 DEF JoinReceiver, Registry!Free, Working
  <2> QED
    BY <2>1, <2>3 DEF Registry!Next
<1>2. CASE FreeProtocol
  <2>1. \A c \in Conns : obj[c] # "alive"
    BY <1>2 DEF FreeProtocol, PhaseInv, ListenerInv
  <2>2. Registry!GoDown
    BY <1>2, <2>1 DEF FreeProtocol, Registry!GoDown, Working
  <2> QED
    BY <2>2 DEF Registry!Next
<1>3. ASSUME UNCHANGED <<obj, receiver, parser>>, (phase = "gone") = (phase' = "gone")
      PROVE  UNCHANGED <<obj, [e \in Conns |-> Working(e)], phase # "gone">>
  BY <1>3 DEF Working
<1> QED
  BY <1>1, <1>2, <1>3
    DEF Destroy, Recovery, Main, CloseSocket, SetThreadExitFlag, JoinParser,
        TakeNotice, RecoveryStops, FindClient, FindNobody, RecoveryErase,
        CloseMater, StopRecovery, JoinRecovery, JoinListeners, DeleteFirst, MainErase

\* Every behaviour of listeners, client threads, recovery thread and
\* ~JProtocol is one of the abstract registry: each object is created and
\* freed once, its threads end in between, and the server goes down last.
THEOREM RegistryImplemented == Spec => ImplementsRegistry
<1>1. Init => Registry!Init
  BY DEF Init, Registry!Init, Working
<1>2. IInv /\ [Next]_vars => [Registry!Next]_<<obj, [c \in Conns |-> Working(c)], phase # "gone">>
  <2> SUFFICES ASSUME IInv, [Next]_vars
               PROVE  Registry!Next \/ UNCHANGED <<obj, [c \in Conns |-> Working(c)], phase # "gone">>
    OBVIOUS
  <2>1. CASE UNCHANGED vars
    BY <2>1 DEF vars, Working
  <2>2. CASE AcceptFails
    BY <2>2 DEF AcceptFails, Working, clientVars
  <2> QED
    BY <2>1, <2>2, ClientSteps, DeleterSteps DEF Next
<1>3. IInv /\ [Next]_vars => [Registry!Next]_(Registry!vars)
  BY <1>2 DEF Registry!vars, Working
<1> QED
  BY Invariance, <1>1, <1>3, PTL DEF Spec, ImplementsRegistry, Registry!Spec

-----------------------------------------------------------------------------
\* The recovery thread holds the lock while it destroys a client.
LockInv == Destroying("recovery") => clientmap_locker = "recovery"

\* Whoever is in clientmap without a socket of its own is being destroyed, so
\* that nobody can be entered meanwhile.
LEMMA NobodyEnters ==
    ASSUME IInv, LockInv, NEW d \in clientmap, ~HasSocket(d), NEW c \in Conns, Register(c)
    PROVE  FALSE
<1> USE DEF IInv, TypeOK, Deleters
<1>1. d \in Conns /\ obj[d] # "none"
  BY DEF ListenerInv
<1>2. \E e \in Deleters : Destroying(e)
  <2>1. CASE obj[d] = "alive"
    BY <1>1, <2>1 DEF OwnInv, Destroying
  <2>2. CASE obj[d] = "gone"
    BY <1>1, <2>2 DEF GoneInv, Destroying
  <2> QED
    BY <1>1, <2>1, <2>2
<1>3. ~Destroying("recovery")
  BY LockerAssumption DEF LockInv, Register
<1>4. phase = "deleting"
  BY <1>2, <1>3 DEF PhaseInv, Destroying
<1> QED
  BY <1>4 DEF PhaseInv, Register

LEMMA LockStep == ASSUME IInv, LockInv, [Next]_vars PROVE LockInv'
<1> USE DEF LockInv, Destroying, IInv, TypeOK, Deleters, listenVars, clientVars, registryVars, deleterVars
<1>1. ASSUME NEW c \in Conns, Client(c) PROVE LockInv'
  BY <1>1 DEF Client, Listen, Accept, CreateListenThread, DropSocket, CreateClient, Register, ReceiveRequest, PeerLeaves,
              ReceiverStops, NotifyDelete, TakeRequest, Reply, ParserStops
<1>2. ASSUME NEW d \in Deleters, Destroy(d) PROVE LockInv'
  BY <1>2 DEF Destroy, CloseSocket, SetThreadExitFlag, JoinParser, JoinReceiver
<1>3. ASSUME Recovery PROVE LockInv'
  BY <1>3 DEF Recovery, TakeNotice, RecoveryStops, FindClient, FindNobody, RecoveryErase
<1>4. ASSUME Main PROVE LockInv'
  BY <1>4 DEF Main, CloseMater, StopRecovery, JoinRecovery, JoinListeners,
              DeleteFirst, MainErase, FreeProtocol
<1>5. CASE UNCHANGED vars
  BY <1>5 DEF vars
<1>6. CASE AcceptFails
  BY <1>6 DEF AcceptFails
<1> QED
  BY <1>1, <1>2, <1>3, <1>4, <1>5, <1>6 DEF Next

LEMMA KeysStep == ASSUME IInv, LockInv, KeysDiffer, [Next]_vars PROVE KeysDiffer'
<1> USE DEF KeysDiffer, IInv, TypeOK, listenVars, clientVars, registryVars, deleterVars
<1>1. ASSUME NEW c \in Conns, Accept(c) PROVE KeysDiffer'
  <2>1. c \notin clientmap
    BY <1>1 DEF Accept, ListenerInv
  <2> QED
    BY <1>1, <2>1 DEF Accept
<1>2. ASSUME NEW c \in Conns, Register(c) PROVE KeysDiffer'
  <2>1. HasSocket(c)
    <3>1. obj[c] = "alive" /\ c \notin clientmap
      BY <1>2 DEF Register, ListenerInv
    <3> QED
      BY <3>1 DEF OwnInv, DeleterInv, Destroying
  <2>2. \A d \in clientmap : HasSocket(d)
    BY <1>2, NobodyEnters
  <2>3. \A d \in clientmap : d # c => fd[d] # fd[c]
    BY <2>1, <2>2 DEF HasSocket
  <2> QED
    BY <1>2, <2>3 DEF Register
<1>3. ASSUME clientmap' \subseteq clientmap, fd' = fd PROVE KeysDiffer'
  BY <1>3
<1>4. ASSUME NEW c \in Conns, Client(c), ~Accept(c), ~Register(c) PROVE KeysDiffer'
  BY <1>3, <1>4 DEF Client, Listen, CreateListenThread, DropSocket, CreateClient, ReceiveRequest, PeerLeaves, ReceiverStops,
                    NotifyDelete, TakeRequest, Reply, ParserStops
<1>5. ASSUME NEW d \in Deleters, Destroy(d) PROVE KeysDiffer'
  BY <1>3, <1>5 DEF Destroy, CloseSocket, SetThreadExitFlag, JoinParser, JoinReceiver
<1>6. ASSUME Recovery PROVE KeysDiffer'
  BY <1>3, <1>6 DEF Recovery, TakeNotice, RecoveryStops, FindClient, FindNobody, RecoveryErase
<1>7. ASSUME Main PROVE KeysDiffer'
  BY <1>3, <1>7 DEF Main, CloseMater, StopRecovery, JoinRecovery, JoinListeners,
                    DeleteFirst, MainErase, FreeProtocol
<1>8. CASE UNCHANGED vars
  BY <1>3, <1>8 DEF vars
<1>9. CASE AcceptFails
  BY <1>3, <1>9 DEF AcceptFails
<1> QED
  BY <1>1, <1>2, <1>4, <1>5, <1>6, <1>7, <1>8, <1>9 DEF Next

\* The descriptors of the entries of clientmap differ, for any number of
\* connections and descriptors: a client is entered under the lock, which the
\* recovery thread holds from before it closes a socket to after it has erased
\* the entry, and ~JProtocol begins to destroy when nobody is entered any more.
THEOREM KeysKeptApart == Spec => []KeysDiffer
<1>1. Init => LockInv /\ KeysDiffer
  BY DEF Init, LockInv, KeysDiffer, Destroying, Deleters
<1>2. IInv /\ LockInv /\ KeysDiffer /\ [Next]_vars => LockInv' /\ KeysDiffer'
  BY LockStep, KeysStep
<1> QED
  BY Invariance, <1>1, <1>2, PTL DEF Spec
=============================================================================
