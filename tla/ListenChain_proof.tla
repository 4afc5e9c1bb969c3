-------------------------- MODULE ListenChain_proof --------------------------
(***************************************************************************)
(* Theorems about ListenChain, for an array of any length, when no         *)
(* listener accepts before the thread that started it has counted it.      *)
(*                                                                         *)
(* What makes them true is that the chain has one end: of all threads only *)
(* the newest can start another, so that each slot is written by one       *)
(* thread and the counter is loaded and written back by one at a time,     *)
(* though nothing guards them.                                             *)
(***************************************************************************)
EXTENDS ListenChain, TLAPS

\* Where a thread that has started a listener has still to store it.
Storing == {"storing", "loading", "counting"}

\* Where a thread is before it starts the next listener.
Coming == {"accepting", "waiting", "checking", "creating"}

\* Whether the newest listener is still being stored, which only the thread
\* started before it can do.
Busy == started > 0 /\ pc[started - 2] \in Storing

\* Each thread stays in its own program.
HomeInv ==
    /\ \A t \in Listeners :
          /\ pc[t] = "unborn" <=> t >= started
          /\ pc[t] \notin {"serving", "closing", "joining", "gone"}
    /\ pc[Main] \in {"creating", "serving", "closing", "joining", "gone"} \cup Storing

\* The descriptor is marked before the socket is closed, and not before the
\* main thread has started its listener.
ServerInv ==
    /\ serversoc => server_open
    /\ pc[Main] \in {"closing", "joining", "gone"} => ~serversoc

\* Only the newest thread is on the way to start another; while it is being
\* stored it does not get that far unless the server is closed.
FrontInv ==
    /\ \A t \in Threads : pc[t] \in Coming => t = started - 1
    /\ \A t \in Threads : pc[t] \in Storing =>
          /\ started > 0
          /\ t = started - 2
          /\ child[t] = started - 1
          /\ pc[started - 1] \in {"accepting", "waiting", "checking", "accepted", "ended"}
          /\ serversoc => pc[started - 1] \in {"accepting", "waiting"}

\* The counter is the number of listeners started, up to the one not yet
\* counted, so that the array has a slot for each.
CountInv ==
    /\ started <= MAX_LISTENING_COUNT
    /\ listen_numb = IF Busy THEN started - 1 ELSE started
    /\ \A t \in Threads : pc[t] = "counting" => count[t] = listen_numb

\* Every listener that was stored is in its slot until that is joined.
SlotInv ==
    \A i \in 0 .. MAX_LISTENING_COUNT - 1 :
        i < started /\ next <= i /\ pc[i - 1] # "storing" => listen_thread_p[i] = i

\* The walk over the array leaves only ended listeners behind.
WalkInv ==
    /\ \A t \in Listeners : t < next => pc[t] \in {"unborn", "ended"}
    /\ pc[Main] \notin {"joining", "gone"} => next = 0
    /\ pc[Main] = "gone" => next = MAX_LISTENING_COUNT

\* While the server runs the newest thread goes on, unless the slots are full.
LiveInv ==
    serversoc => \/ Busy
                 \/ pc[started - 1] \in Coming
                 \/ listen_numb >= MAX_LISTENING_COUNT

IInv == /\ TypeOK /\ HomeInv /\ ServerInv /\ FrontInv /\ CountInv /\ SlotInv
        /\ WalkInv /\ LiveInv

-----------------------------------------------------------------------------
LEMMA InvInit == Init => IInv
<1> SUFFICES ASSUME Init PROVE IInv
  OBVIOUS
<1> USE ListenAssumption DEF Init, Threads, Listeners, Main, NoThread
<1>1. TypeOK
  BY DEF TypeOK
<1>2. HomeInv
  BY DEF HomeInv, Storing
<1>3. ServerInv
  BY DEF ServerInv
<1>4. FrontInv
  BY DEF FrontInv, Coming, Storing
<1>5. CountInv
  BY DEF CountInv, Busy
<1>6. SlotInv
  BY DEF SlotInv
<1>7. WalkInv
  BY DEF WalkInv
<1>8. LiveInv
  BY DEF LiveInv, Coming
<1> QED
  BY <1>1, <1>2, <1>3, <1>4, <1>5, <1>6, <1>7, <1>8 DEF IInv

\* A listener is started by the newest thread, when all listeners before it
\* are stored and counted and there is a slot for one more.
LEMMA StartThreadStep ==
    ASSUME IInv, NEW t \in Threads, StartThread(t)
    PROVE  IInv'
<1> USE ListenAssumption DEF IInv, Threads, Listeners, Main, NoThread
<1>1. /\ pc[t] = "creating"
      /\ t = started - 1
      /\ started \in Listeners
      /\ pc[started] = "unborn"
  BY DEF StartThread, TypeOK, HomeInv, FrontInv, Coming
<1>2. \A u \in Threads : pc[u] \notin Storing
  BY <1>1 DEF TypeOK, FrontInv
<1>3. listen_numb = started /\ started < MAX_LISTENING_COUNT
  BY <1>2 DEF StartThread, TypeOK, CountInv, Busy
<1>4. /\ pc' = [u \in Threads |-> IF u = t THEN "storing"
                               ELSE IF u = started THEN "accepting" ELSE pc[u]]
      /\ child' = [u \in Threads |-> IF u = t THEN started ELSE child[u]]
      /\ started' = started + 1
  BY <1>1 DEF StartThread, TypeOK
<1>5. UNCHANGED <<serversoc, server_open, listen_thread_p, listen_numb, count,
                  conn, outcome, next>>
  BY DEF StartThread, serverVars, slotVars
<1>6. TypeOK'
  BY <1>1, <1>4, <1>5 DEF TypeOK
<1>7. HomeInv'
  BY <1>1, <1>4, <1>5 DEF TypeOK, HomeInv, Storing
<1>8. ServerInv'
  BY <1>4, <1>5 DEF TypeOK, ServerInv
<1>9. FrontInv'
  BY <1>1, <1>2, <1>4, <1>5 DEF TypeOK, FrontInv, HomeInv, Storing, Coming
<1>10. CountInv'
  BY <1>1, <1>2, <1>3, <1>4, <1>5 DEF TypeOK, CountInv, Busy, Storing
<1>11. SlotInv'
  BY <1>1, <1>2, <1>4, <1>5 DEF TypeOK, SlotInv, Storing
<1>12. WalkInv'
  BY <1>1, <1>4, <1>5 DEF TypeOK, HomeInv, WalkInv
<1>13. LiveInv'
  BY <1>1, <1>4, <1>5 DEF TypeOK, LiveInv, Busy, Storing
<1> QED
  BY <1>6, <1>7, <1>8, <1>9, <1>10, <1>11, <1>12, <1>13

LEMMA InvStep ==
    ASSUME ~AcceptRace
    PROVE  IInv /\ [Next]_vars => IInv'
<1> SUFFICES ASSUME IInv, [Next]_vars PROVE IInv'
  OBVIOUS
<1> USE ListenAssumption
    DEF IInv, Threads, Listeners, Main, NoThread, Storing, Coming, Busy, Goto,
        serverVars, slotVars
<1>1. ASSUME NEW t \in Threads, StartThread(t) PROVE IInv'
  BY <1>1, StartThreadStep
<1>2. ASSUME NEW t \in Threads, SlotsUsedUp(t) PROVE IInv'
  <2> USE <1>2 DEF SlotsUsedUp, After
  <2>1. TypeOK'
    BY DEF TypeOK
  <2>2. HomeInv'
    BY DEF TypeOK, HomeInv
  <2>3. ServerInv'
    BY DEF TypeOK, ServerInv
  <2>4. FrontInv'
    BY DEF TypeOK, FrontInv
  <2>5. CountInv'
    BY DEF TypeOK, CountInv
  <2>6. SlotInv'
    BY DEF TypeOK, SlotInv
  <2>7. WalkInv'
    BY DEF TypeOK, WalkInv
  <2>8. LiveInv'
    BY DEF TypeOK, LiveInv
  <2> QED
    BY <2>1, <2>2, <2>3, <2>4, <2>5, <2>6, <2>7, <2>8
<1>3. ASSUME NEW t \in Threads, StoreThread(t) PROVE IInv'
  <2> USE <1>3 DEF StoreThread
  <2>1. TypeOK'
    BY DEF TypeOK
  <2>2. HomeInv'
    BY DEF TypeOK, HomeInv
  <2>3. ServerInv'
    BY DEF TypeOK, ServerInv
  <2>4. FrontInv'
    BY DEF TypeOK, FrontInv
  <2>5. CountInv'
    BY DEF TypeOK, CountInv
  <2>6. SlotInv'
    <3>1. started > 0 /\ t = started - 2 /\ child[t] = started - 1
      BY DEF TypeOK, FrontInv
    <3>2. listen_numb = started - 1
      BY <3>1 DEF TypeOK, CountInv
    <3>3. listen_thread_p' = [i \in 0 .. MAX_LISTENING_COUNT - 1 |->
                                IF i = started - 1 THEN started - 1 ELSE listen_thread_p[i]]
      BY <3>1, <3>2 DEF TypeOK
    <3>4. ASSUME NEW i \in 0 .. MAX_LISTENING_COUNT - 1,
                 i < started, next <= i, i # started - 1
          PROVE  listen_thread_p[i] = i
      <4>1. i - 1 \in Threads /\ i - 1 # t
        BY <3>1, <3>4 DEF TypeOK
      <4>2. pc[i - 1] # "storing"
        BY <3>1, <3>4, <4>1 DEF FrontInv
      <4> QED
        BY <3>4, <4>2 DEF SlotInv
    <3> QED
      BY <3>1, <3>3, <3>4 DEF TypeOK, SlotInv
  <2>7. WalkInv'
    BY DEF TypeOK, WalkInv
  <2>8. LiveInv'
    BY DEF TypeOK, LiveInv
  <2> QED
    BY <2>1, <2>2, <2>3, <2>4, <2>5, <2>6, <2>7, <2>8
<1>4. ASSUME NEW t \in Threads, LoadCount(t) PROVE IInv'
  <2> USE <1>4 DEF LoadCount
  <2>1. TypeOK'
    BY DEF TypeOK
  <2>2. HomeInv'
    BY DEF TypeOK, HomeInv
  <2>3. ServerInv'
    BY DEF TypeOK, ServerInv
  <2>4. FrontInv'
    BY DEF TypeOK, FrontInv
  <2>5. CountInv'
    BY DEF TypeOK, CountInv
  <2>6. SlotInv'
    BY DEF TypeOK, SlotInv
  <2>7. WalkInv'
    BY DEF TypeOK, WalkInv
  <2>8. LiveInv'
    BY DEF TypeOK, LiveInv
  <2> QED
    BY <2>1, <2>2, <2>3, <2>4, <2>5, <2>6, <2>7, <2>8
<1>5. ASSUME NEW t \in Threads, StoreCount(t) PROVE IInv'
  <2> USE <1>5 DEF StoreCount, After
  <2>1. TypeOK'
    <3>1. listen_numb' = started /\ UNCHANGED count
      BY DEF TypeOK, FrontInv, CountInv
    <3>2. listen_numb' \in 0 .. MAX_LISTENING_COUNT
      BY <3>1 DEF TypeOK, CountInv
    <3>3. After(t) \in {"serving", "accepted"}
      OBVIOUS
    <3> QED
      BY <3>2, <3>3 DEF TypeOK
  <2>2. HomeInv'
    BY DEF TypeOK, HomeInv
  <2>3. ServerInv'
    BY DEF TypeOK, ServerInv
  <2>4. FrontInv'
    BY DEF TypeOK, FrontInv
  <2>5. CountInv'
    BY DEF TypeOK, FrontInv, CountInv
  <2>6. SlotInv'
    BY DEF TypeOK, SlotInv
  <2>7. WalkInv'
    BY DEF TypeOK, WalkInv
  <2>8. LiveInv'
    BY DEF TypeOK, FrontInv, LiveInv
  <2> QED
    BY <2>1, <2>2, <2>3, <2>4, <2>5, <2>6, <2>7, <2>8
<1>6. ASSUME NEW t \in Listeners, CallAccept(t) PROVE IInv'
  <2> USE <1>6 DEF CallAccept
  <2>1. TypeOK'
    BY DEF TypeOK
  <2>2. HomeInv'
    BY DEF TypeOK, HomeInv
  <2>3. ServerInv'
    BY DEF TypeOK, ServerInv
  <2>4. FrontInv'
    BY DEF TypeOK, FrontInv
  <2>5. CountInv'
    BY DEF TypeOK, CountInv
  <2>6. SlotInv'
    BY DEF TypeOK, FrontInv, SlotInv
  <2>7. WalkInv'
    BY DEF TypeOK, WalkInv
  <2>8. LiveInv'
    BY DEF TypeOK, LiveInv
  <2> QED
    BY <2>1, <2>2, <2>3, <2>4, <2>5, <2>6, <2>7, <2>8
<1>7. ASSUME NEW t \in Listeners, AcceptConnection(t) PROVE IInv'
  <2> USE <1>7 DEF AcceptConnection, Creating
  <2>1. TypeOK'
    BY DEF TypeOK
  <2>2. HomeInv'
    BY DEF TypeOK, HomeInv
  <2>3. ServerInv'
    BY DEF TypeOK, ServerInv
  <2>4. FrontInv'
    BY DEF TypeOK, FrontInv
  <2>5. CountInv'
    BY DEF TypeOK, HomeInv, CountInv
  <2>6. SlotInv'
    BY DEF TypeOK, FrontInv, SlotInv
  <2>7. WalkInv'
    BY DEF TypeOK, WalkInv
  <2>8. LiveInv'
    BY DEF TypeOK, FrontInv, LiveInv
  <2> QED
    BY <2>1, <2>2, <2>3, <2>4, <2>5, <2>6, <2>7, <2>8
<1>8. ASSUME NEW t \in Listeners, AcceptFails(t) PROVE IInv'
  <2> USE <1>8 DEF AcceptFails, Creating
  <2>1. TypeOK'
    BY DEF TypeOK
  <2>2. HomeInv'
    BY DEF TypeOK, HomeInv
  <2>3. ServerInv'
    BY DEF TypeOK, ServerInv
  <2>4. FrontInv'
    BY DEF TypeOK, HomeInv, ServerInv, FrontInv
  <2>5. CountInv'
    BY DEF TypeOK, CountInv
  <2>6. SlotInv'
    <3>1. \A u \in Threads : pc'[u] = "storing" <=> pc[u] = "storing"
      BY DEF TypeOK
    <3>2. UNCHANGED <<started, next, listen_thread_p>>
      OBVIOUS
    <3>3. ASSUME NEW i \in 0 .. MAX_LISTENING_COUNT - 1,
                 i < started, next <= i, pc'[i - 1] # "storing"
          PROVE  listen_thread_p[i] = i
      <4>1. i - 1 \in Threads
        BY <3>3 DEF TypeOK
      <4> QED
        BY <3>1, <3>3, <4>1 DEF SlotInv
    <3> QED
      BY <3>2, <3>3 DEF SlotInv
  <2>7. WalkInv'
    BY DEF TypeOK, WalkInv
  <2>8. LiveInv'
    BY DEF TypeOK, FrontInv, LiveInv
  <2> QED
    BY <2>1, <2>2, <2>3, <2>4, <2>5, <2>6, <2>7, <2>8
<1>9. ASSUME NEW t \in Listeners, CheckServer(t) PROVE IInv'
  <2> USE <1>9 DEF CheckServer
  <2>1. TypeOK'
    BY DEF TypeOK
  <2>2. HomeInv'
    BY DEF TypeOK, HomeInv
  <2>3. ServerInv'
    BY DEF TypeOK, ServerInv
  <2>4. FrontInv'
    BY DEF TypeOK, FrontInv
  <2>5. CountInv'
    BY DEF TypeOK, CountInv
  <2>6. SlotInv'
    BY DEF TypeOK, FrontInv, SlotInv
  <2>7. WalkInv'
    BY DEF TypeOK, WalkInv
  <2>8. LiveInv'
    BY DEF TypeOK, FrontInv, LiveInv
  <2> QED
    BY <2>1, <2>2, <2>3, <2>4, <2>5, <2>6, <2>7, <2>8
<1>10. ASSUME NEW t \in Listeners, Finish(t) PROVE IInv'
  <2> USE <1>10 DEF Finish
  <2>1. TypeOK'
    BY DEF TypeOK
  <2>2. HomeInv'
    BY DEF TypeOK, HomeInv
  <2>3. ServerInv'
    BY DEF TypeOK, ServerInv
  <2>4. FrontInv'
    BY DEF TypeOK, FrontInv
  <2>5. CountInv'
    BY DEF TypeOK, CountInv
  <2>6. SlotInv'
    <3>1. /\ pc[t] = "accepted" /\ pc' = [pc EXCEPT ![t] = "ended"]
          /\ UNCHANGED <<listen_thread_p, started, next>>
      OBVIOUS
    <3>2. \A u \in Threads : pc[u] = "storing" => pc'[u] = "storing"
      BY <3>1 DEF TypeOK
    <3>3. started \in 0 .. MaxThreads
      BY DEF TypeOK
    <3> HIDE <1>10 DEF Finish
    <3> QED
      BY <3>1, <3>2, <3>3 DEF SlotInv
  <2>7. WalkInv'
    BY DEF TypeOK, WalkInv
  <2>8. LiveInv'
    BY DEF TypeOK, LiveInv
  <2> QED
    BY <2>1, <2>2, <2>3, <2>4, <2>5, <2>6, <2>7, <2>8
<1>11. ASSUME MarkClosed PROVE IInv'
  <2> USE <1>11 DEF MarkClosed
  <2>1. TypeOK'
    BY DEF TypeOK
  <2>2. HomeInv'
    BY DEF TypeOK, HomeInv
  <2>3. ServerInv'
    BY DEF TypeOK, ServerInv
  <2>4. FrontInv'
    BY DEF TypeOK, FrontInv
  <2>5. CountInv'
    BY DEF TypeOK, CountInv
  <2>6. SlotInv'
    BY DEF TypeOK, SlotInv
  <2>7. WalkInv'
    BY DEF TypeOK, WalkInv
  <2>8. LiveInv'
    BY DEF TypeOK, LiveInv
  <2> QED
    BY <2>1, <2>2, <2>3, <2>4, <2>5, <2>6, <2>7, <2>8
<1>12. ASSUME CloseServer PROVE IInv'
  <2> USE <1>12 DEF CloseServer
  <2>1. TypeOK'
    BY DEF TypeOK
  <2>2. HomeInv'
    BY DEF TypeOK, HomeInv
  <2>3. ServerInv'
    BY DEF TypeOK, ServerInv
  <2>4. FrontInv'
    BY DEF TypeOK, FrontInv
  <2>5. CountInv'
    BY DEF TypeOK, CountInv
  <2>6. SlotInv'
    BY DEF TypeOK, SlotInv
  <2>7. WalkInv'
    BY DEF TypeOK, WalkInv
  <2>8. LiveInv'
    BY DEF TypeOK, LiveInv
  <2> QED
    BY <2>1, <2>2, <2>3, <2>4, <2>5, <2>6, <2>7, <2>8
<1>13. ASSUME JoinNext PROVE IInv'
  <2> USE <1>13 DEF JoinNext
  <2>1. TypeOK'
    BY DEF TypeOK
  <2>2. HomeInv'
    BY DEF TypeOK, HomeInv
  <2>3. ServerInv'
    BY DEF TypeOK, ServerInv
  <2>4. FrontInv'
    BY DEF TypeOK, FrontInv
  <2>5. CountInv'
    BY DEF TypeOK, CountInv
  <2>6. SlotInv'
    BY DEF TypeOK, SlotInv
  <2>7. WalkInv'
    BY DEF TypeOK, HomeInv, FrontInv, CountInv, SlotInv, WalkInv
  <2>8. LiveInv'
    BY DEF TypeOK, LiveInv
  <2> QED
    BY <2>1, <2>2, <2>3, <2>4, <2>5, <2>6, <2>7, <2>8
<1>14. ASSUME JoinDone PROVE IInv'
  <2> USE <1>14 DEF JoinDone
  <2>1. TypeOK'
    BY DEF TypeOK
  <2>2. HomeInv'
    BY DEF TypeOK, HomeInv
  <2>3. ServerInv'
    BY DEF TypeOK, ServerInv
  <2>4. FrontInv'
    BY DEF TypeOK, FrontInv
  <2>5. CountInv'
    BY DEF TypeOK, CountInv
  <2>6. SlotInv'
    BY DEF TypeOK, SlotInv
  <2>7. WalkInv'
    BY DEF TypeOK, WalkInv
  <2>8. LiveInv'
    BY DEF TypeOK, LiveInv
  <2> QED
    BY <2>1, <2>2, <2>3, <2>4, <2>5, <2>6, <2>7, <2>8
<1>15. CASE UNCHANGED vars
  BY <1>15 DEF vars, TypeOK, HomeInv, ServerInv, FrontInv, CountInv, SlotInv,
     WalkInv, LiveInv
<1> QED
  BY <1>1, <1>2, <1>3, <1>4, <1>5, <1>6, <1>7, <1>8, <1>9, <1>10,
     <1>11, <1>12, <1>13, <1>14, <1>15
     DEF Next, CreateListenThread, ListenThreadFunc

LEMMA Invariant ==
    ASSUME ~AcceptRace
    PROVE  Spec => []IInv
BY InvInit, InvStep, PTL DEF Spec

\* The counter stays within the array, and no pointer is stored outside it.
THEOREM TypeCorrect ==
    ASSUME ~AcceptRace
    PROVE  Spec => []TypeOK
<1>1. IInv => TypeOK
  BY DEF IInv
<1> QED
  BY <1>1, Invariant, PTL

\* When the object is freed every listener that was ever started has ended,
\* whenever "quit" was typed and however far the chain grew meanwhile.
THEOREM EveryListenerJoined ==
    ASSUME ~AcceptRace
    PROVE  Spec => []AllListenersJoined
<1>1. IInv => AllListenersJoined
  BY ListenAssumption
     DEF IInv, TypeOK, HomeInv, CountInv, WalkInv, AllListenersJoined, Listeners,
         Threads, Main
<1> QED
  BY <1>1, Invariant, PTL

\* The chain does not break before the slots are used up: somebody accepts or
\* is on the way to start the next listener.
THEOREM ListensUntilFull ==
    ASSUME ~AcceptRace
    PROVE  Spec => []ListensWhileSlots
<1>1. IInv => ListensWhileSlots
  BY ListenAssumption
     DEF IInv, TypeOK, CountInv, LiveInv, Busy, Coming, Storing, ListensWhileSlots,
         Listening, Listeners, Threads, Main
<1> QED
  BY <1>1, Invariant, PTL
=============================================================================
