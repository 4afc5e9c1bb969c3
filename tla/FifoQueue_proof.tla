-------------------------- MODULE FifoQueue_proof --------------------------
(***************************************************************************)
(* Theorems about FifoQueue, for every number of producers, slots and      *)
(* packets.                                                                *)
(*                                                                         *)
(* TypeOK and NoEmptyTake need one invariant, WakeInv: the consumer pops   *)
(* without looking, so that even the type of the popped slot rests on the  *)
(* accounting of wakeups.  ExactlyOnceInOrder adds OrderInv, which says    *)
(* where in the ring the packets still to be taken lie.                    *)
(***************************************************************************)
EXTENDS FifoQueue, FiniteSetTheorems, TLAPS

\* The lock belongs to whoever is between Lock and Unlock.
LockInv ==
    \A t \in Threads : queuelock = t <=> pc[t] \in {"copied", "popped"}

\* Each thread stays in its own half of the program, and the consumer has
\* not taken the branch that ends its loop.
PcInv ==
    /\ \A p \in Producers : pc[p] \in {"idle", "copied", "linked"}
    /\ pc[Consumer] \in {"idle", "woken", "locking", "popped"}

\* Every wakeup counted, held or about to be posted has its packet.
WakeupsBacked == queuesem + Woken + Cardinality(Posting) <= Len(m_list)

WakeInv ==
    /\ TypeOK
    /\ LockInv
    /\ PcInv
    /\ WakeupsBacked
    /\ ret # SYN_EMPTY

-----------------------------------------------------------------------------
LEMMA PostingFinite ==
    /\ IsFiniteSet(Posting)
    /\ Cardinality(Posting) \in Nat
BY ThreadsAssumption, FS_Subset, FS_CardinalityType DEF Posting

\* A step of a producer that does not end or begin in "linked", and a step of
\* the consumer, leave Posting alone.
LEMMA PostingSame ==
    ASSUME \A p \in Producers : pc[p] = "linked" <=> pc'[p] = "linked"
    PROVE  Posting' = Posting
BY DEF Posting

LEMMA WakeInit == Init => WakeInv
<1> SUFFICES ASSUME Init PROVE WakeInv
  OBVIOUS
<1> USE ThreadsAssumption, SizesAssumption DEF Init, Threads, Slots
<1>1. TypeOK
  BY DEF TypeOK, PCs, SYN_OBJECT_o, SYN_TIMEOUT, SYN_EMPTY
<1>2. LockInv /\ PcInv /\ ret # SYN_EMPTY
  BY DEF LockInv, PcInv, SYN_TIMEOUT, SYN_EMPTY
<1>3. WakeupsBacked
  <2>1. Posting = {}
    BY DEF Posting
  <2>2. Woken = 0
    BY DEF Woken
  <2> QED
    BY <2>1, <2>2, FS_EmptySet DEF WakeupsBacked
<1> QED
  BY <1>1, <1>2, <1>3 DEF WakeInv

LEMMA WakeStep == WakeInv /\ [Next]_vars => WakeInv'
<1> SUFFICES ASSUME WakeInv, [Next]_vars PROVE WakeInv'
  OBVIOUS
<1> USE ThreadsAssumption, SizesAssumption, PostingFinite
    DEF WakeInv, Threads, Slots
<1>1. ASSUME NEW p \in Producers, PushCopy(p) PROVE WakeInv'
  <2> USE <1>1 DEF PushCopy, Goto, Acquire
  <2>1. TypeOK'
    BY DEF TypeOK, PCs
  <2>2. (LockInv /\ PcInv /\ ret # SYN_EMPTY)'
    BY DEF LockInv, PcInv, TypeOK
  <2>3. Posting' = Posting /\ Woken' = Woken
    BY PostingSame DEF TypeOK, Woken
  <2>4. WakeupsBacked'
    BY <2>3 DEF WakeupsBacked
  <2> QED
    BY <2>1, <2>2, <2>4
<1>2. ASSUME NEW p \in Producers, PushLink(p) PROVE WakeInv'
  <2> USE <1>2 DEF PushLink, Goto, Release
  <2>1. TypeOK'
    BY DEF TypeOK, PCs, NextSlot
  <2>2. (LockInv /\ PcInv /\ ret # SYN_EMPTY)'
    BY DEF LockInv, PcInv, TypeOK
  <2>3. Posting' = Posting \cup {p} /\ p \notin Posting /\ Woken' = Woken
    BY DEF TypeOK, Woken, Posting
  <2>4. Cardinality(Posting') = Cardinality(Posting) + 1
    BY <2>3, FS_AddElement
  <2>5. Len(m_list') = Len(m_list) + 1 /\ Len(m_list) \in Nat
    BY DEF TypeOK
  <2>6. WakeupsBacked'
    BY <2>3, <2>4, <2>5 DEF WakeupsBacked, TypeOK, Woken
  <2> QED
    BY <2>1, <2>2, <2>6
<1>3. ASSUME NEW p \in Producers, PushPost(p) PROVE WakeInv'
  <2> USE <1>3 DEF PushPost, Goto
  <2>1. TypeOK'
    BY DEF TypeOK, PCs
  <2>2. (LockInv /\ PcInv /\ ret # SYN_EMPTY)'
    BY DEF LockInv, PcInv, TypeOK
  <2>3. Posting' = Posting \ {p} /\ p \in Posting /\ Woken' = Woken
    BY DEF TypeOK, Woken, Posting
  <2>4. Cardinality(Posting') = Cardinality(Posting) - 1
    BY <2>3, FS_RemoveElement
  <2>5. queuesem' <= queuesem + 1 /\ queuesem' \in Nat /\ queuesem \in Nat
    BY DEF TypeOK
  <2>6. Len(m_list) \in Nat
    BY DEF TypeOK
  <2>7. WakeupsBacked'
    BY <2>3, <2>4, <2>5, <2>6 DEF WakeupsBacked, Woken
  <2> QED
    BY <2>1, <2>2, <2>7
<1>4. ASSUME TakeWait PROVE WakeInv'
  <2> USE <1>4 DEF TakeWait, Goto
  <2>1. TypeOK'
    BY DEF TypeOK, PCs
  <2>2. (LockInv /\ PcInv /\ ret # SYN_EMPTY)'
    BY DEF LockInv, PcInv, TypeOK
  <2>3. Posting' = Posting
    BY PostingSame DEF TypeOK
  <2>4. Woken = 0 /\ Woken' = 1
    BY DEF TypeOK, Woken
  <2>5. WakeupsBacked'
    BY <2>3, <2>4 DEF WakeupsBacked, TypeOK
  <2> QED
    BY <2>1, <2>2, <2>5
<1>5. ASSUME TakeTimeout PROVE WakeInv'
  <2> USE <1>5 DEF TakeTimeout
  <2>1. (TypeOK /\ LockInv /\ PcInv /\ ret # SYN_EMPTY)'
    BY DEF TypeOK, LockInv, PcInv, SYN_OBJECT_o, SYN_TIMEOUT, SYN_EMPTY
  <2>2. WakeupsBacked'
    BY DEF WakeupsBacked, Posting, Woken
  <2> QED
    BY <2>1, <2>2
<1>6. ASSUME TakeTest PROVE WakeInv'
  <2> USE <1>6 DEF TakeTest, Goto
  <2>1. m_list # <<>>
    <3>1. Woken = 1
      BY DEF Woken
    <3>2. Len(m_list) > 0
      BY <3>1 DEF WakeupsBacked, TypeOK
    <3> QED
      BY <3>2
  <2>2. (TypeOK /\ ret # SYN_EMPTY)'
    BY <2>1 DEF TypeOK, PCs
  <2>3. (LockInv /\ PcInv)'
    BY <2>1 DEF LockInv, PcInv, TypeOK
  <2>4. Posting' = Posting /\ Woken' = Woken
    BY <2>1, PostingSame DEF TypeOK, Woken
  <2>5. WakeupsBacked'
    BY <2>4 DEF WakeupsBacked
  <2> QED
    BY <2>2, <2>3, <2>5
<1>7. ASSUME TakePop PROVE WakeInv'
  <2> USE <1>7 DEF TakePop, Goto, Acquire
  <2>1. Woken = 1 /\ Woken' = 0
    BY DEF Woken, TypeOK
  <2>2. Len(m_list) > 0 /\ m_list # <<>>
    BY <2>1 DEF WakeupsBacked, TypeOK
  <2>3. TypeOK'
    BY <2>2 DEF TypeOK, PCs
  <2>4. (LockInv /\ PcInv /\ ret # SYN_EMPTY)'
    BY DEF LockInv, PcInv, TypeOK
  <2>5. Posting' = Posting
    BY PostingSame DEF TypeOK
  <2>6. Len(m_list') = Len(m_list) - 1
    BY <2>2 DEF TypeOK
  <2>7. WakeupsBacked'
    BY <2>1, <2>5, <2>6 DEF WakeupsBacked, TypeOK
  <2> QED
    BY <2>3, <2>4, <2>7
<1>8. ASSUME TakeCopy PROVE WakeInv'
  <2> USE <1>8 DEF TakeCopy, Goto, Release
  <2>1. (TypeOK /\ ret # SYN_EMPTY)'
    BY DEF TypeOK, PCs, SYN_OBJECT_o, SYN_TIMEOUT, SYN_EMPTY
  <2>2. (LockInv /\ PcInv)'
    BY DEF LockInv, PcInv, TypeOK
  <2>3. Posting' = Posting /\ Woken' = Woken
    BY PostingSame DEF TypeOK, Woken
  <2>4. WakeupsBacked'
    BY <2>3 DEF WakeupsBacked
  <2> QED
    BY <2>1, <2>2, <2>4
<1>9. CASE UNCHANGED vars
  <2>1. (TypeOK /\ LockInv /\ PcInv /\ ret # SYN_EMPTY)'
    BY <1>9 DEF vars, TypeOK, LockInv, PcInv
  <2>2. WakeupsBacked'
    BY <1>9 DEF vars, WakeupsBacked, Posting, Woken
  <2> QED
    BY <2>1, <2>2
<1> QED
  BY <1>1, <1>2, <1>3, <1>4, <1>5, <1>6, <1>7, <1>8, <1>9 DEF Next, Push, Take

LEMMA WakeInvariant == Spec => []WakeInv
BY WakeInit, WakeStep, PTL DEF Spec

\* The queue's state always has its type; in particular the consumer never
\* pops an empty list.
THEOREM TypeCorrect == Spec => []TypeOK
<1>1. WakeInv => TypeOK
  BY DEF WakeInv
<1> QED
  BY <1>1, WakeInvariant, PTL

\* The branch of TakeFromQueue marked "no happen but must check" never
\* happens, with any number of producers, any ring and any semaphore.
THEOREM EmptyTakeNeverHappens == Spec => []NoEmptyTake
<1>1. WakeInv => NoEmptyTake
  BY DEF WakeInv, PcInv, NoEmptyTake
<1> QED
  BY <1>1, WakeInvariant, PTL

-----------------------------------------------------------------------------
\* The slot written d pushes ago.
SlotBack(d) == IF fifo_counter >= d THEN fifo_counter - d
                                    ELSE fifo_counter - d + Ring

\* 1 while the consumer holds a slot it has popped and not yet copied.
Popped == IF pc[Consumer] = "popped" THEN 1 ELSE 0

\* Where the packets lie when no more of them wait than there are slots: the
\* list names the slots written last, in order, and each of them still holds
\* the packet it was linked for.
OrderInv ==
    /\ Len(m_list) <= Window
    /\ \A i \in 1 .. Len(m_list) : m_list[i] = SlotBack(Len(m_list) - i + 1)
    /\ \A i \in 1 .. Len(m_list) : fifobuff[m_list[i]] = taken + Popped + i
    /\ pushed = taken + Popped + Len(m_list)
    /\ Popped = 1 => fifobuff[sBuffer] = taken + 1
    /\ \A p \in Producers : pc[p] = "copied" =>
           /\ fifobuff[fifo_counter] = pushed + 1
           /\ Len(m_list) < Window
    /\ packet = taken

LEMMA OrderInit == Init => OrderInv
BY ThreadsAssumption, SizesAssumption
   DEF Init, OrderInv, Popped, Threads, Slots

\* The types of the parts OrderInv compares.
OrderTypes ==
    /\ Len(m_list) \in Nat
    /\ \A i \in 1 .. Len(m_list) : m_list[i] \in 0 .. Ring - 1
    /\ fifo_counter \in 0 .. Ring - 1
    /\ pushed \in Nat
    /\ taken \in Nat
    /\ fifobuff \in [0 .. Ring - 1 -> Nat]
    /\ sBuffer \in 0 .. Ring - 1
    /\ Popped \in {0, 1}
    /\ pc \in [Producers \cup {Consumer} -> PCs]
    /\ Ring \in Nat \ {0}
    /\ Window \in Nat \ {0}

LEMMA OrderTypesHold == WakeInv => OrderTypes
BY SizesAssumption DEF OrderTypes, WakeInv, TypeOK, Popped, Slots, Threads

LEMMA OrderStep ==
    ASSUME Window <= Ring, WakeInv, OrderInv, [Next]_vars
    PROVE  OrderInv'
<1>0. OrderTypes
  BY OrderTypesHold
<1> USE ThreadsAssumption, <1>0 DEF OrderTypes
<1>1. ASSUME NEW p \in Producers, PushCopy(p) PROVE OrderInv'
  <2> USE <1>1 DEF PushCopy, Goto, Acquire, Threads
  <2>1. Popped' = Popped
    BY DEF Popped
  <2>2. Popped = 0
    BY DEF WakeInv, LockInv, Popped
  <2>3. ASSUME NEW i \in 1 .. Len(m_list)
        PROVE  m_list[i] # fifo_counter
    <3>1. m_list[i] = SlotBack(Len(m_list) - i + 1)
      BY DEF OrderInv
    <3>2. Len(m_list) - i + 1 \in 1 .. Ring - 1
      OBVIOUS
    <3> QED
      BY <3>1, <3>2 DEF SlotBack
  <2>4. \A i \in 1 .. Len(m_list) : fifobuff'[m_list[i]] = fifobuff[m_list[i]]
    BY <2>3
  <2>5. fifobuff'[fifo_counter] = pushed + 1
    OBVIOUS
  <2> QED
    BY <2>1, <2>2, <2>4, <2>5 DEF OrderInv, SlotBack
<1>2. ASSUME NEW p \in Producers, PushLink(p) PROVE OrderInv'
  <2> USE <1>2 DEF PushLink, Goto, Release, Threads
  <2>1. Popped' = Popped /\ Popped = 0
    BY DEF Popped, WakeInv, LockInv
  <2>2. /\ fifobuff[fifo_counter] = pushed + 1
        /\ Len(m_list) < Window
    BY DEF OrderInv
  <2>3. /\ Len(m_list') = Len(m_list) + 1
        /\ m_list'[Len(m_list) + 1] = fifo_counter
        /\ \A i \in 1 .. Len(m_list) : m_list'[i] = m_list[i]
    OBVIOUS
  <2>4. ASSUME NEW i \in 1 .. Len(m_list')
        PROVE  m_list'[i] = SlotBack(Len(m_list) - i + 1)'
    <3>1. CASE i = Len(m_list) + 1
      <4>1. m_list'[i] = fifo_counter /\ Len(m_list') - i + 1 = 1
        BY <2>3, <3>1
      <4>2. fifo_counter = IF fifo_counter' >= 1 THEN fifo_counter' - 1
                                                 ELSE fifo_counter' - 1 + Ring
        BY DEF NextSlot
      <4> QED
        BY <4>1, <4>2 DEF SlotBack
    <3>2. CASE i \in 1 .. Len(m_list)
      <4>1. m_list'[i] = SlotBack(Len(m_list) - i + 1)
        BY <2>3, <3>2 DEF OrderInv
      <4>2. Len(m_list) - i + 1 \in 1 .. Ring - 1
        BY <2>2, <3>2
      <4> QED
        BY <4>1, <4>2 DEF SlotBack, NextSlot
    <3> QED
      BY <2>3, <3>1, <3>2
  <2>5. ASSUME NEW i \in 1 .. Len(m_list')
        PROVE  fifobuff'[m_list'[i]] = taken' + Popped' + i
    <3>1. CASE i = Len(m_list) + 1
      BY <2>1, <2>2, <2>3, <3>1 DEF OrderInv
    <3>2. CASE i \in 1 .. Len(m_list)
      BY <2>1, <2>3, <3>2 DEF OrderInv
    <3> QED
      BY <2>3, <3>1, <3>2
  <2>6. Len(m_list') - 1 = Len(m_list) /\ Len(m_list') <= Window
    BY <2>2, <2>3
  <2>7. \A q \in Producers : pc'[q] # "copied"
    BY DEF WakeInv, LockInv
  <2>8. pushed' = taken' + Popped' + Len(m_list') /\ packet' = taken' /\ Popped' # 1
    BY <2>1, <2>3 DEF OrderInv
  <2> QED
    BY <2>4, <2>5, <2>6, <2>7, <2>8 DEF OrderInv
<1>3. ASSUME NEW p \in Producers, PushPost(p) PROVE OrderInv'
  BY <1>3 DEF PushPost, Goto, Threads, OrderInv, SlotBack, Popped
<1>4. CASE TakeWait
  BY <1>4 DEF TakeWait, Goto, Threads, OrderInv, SlotBack, Popped
<1>5. CASE TakeTimeout
  BY <1>5 DEF TakeTimeout, Threads, OrderInv, SlotBack, Popped
<1>6. CASE TakeTest
  BY <1>6 DEF TakeTest, Goto, Threads, OrderInv, SlotBack, Popped
<1>7. CASE TakePop
  <2>1. Len(m_list) > 0
    BY <1>7, PostingFinite
       DEF TakePop, Goto, Threads, WakeInv, WakeupsBacked, Woken, TypeOK
  <2>2. /\ Len(m_list') = Len(m_list) - 1
        /\ \A i \in 1 .. Len(m_list') : m_list'[i] = m_list[i + 1]
        /\ sBuffer' = m_list[1]
    BY <1>7, <2>1 DEF TakePop, WakeInv, TypeOK
  <2>3. Popped = 0 /\ Popped' = 1
    BY <1>7 DEF TakePop, Goto, Threads, Popped
  <2>4. UNCHANGED <<fifobuff, fifo_counter, packet, pushed, taken>>
    BY <1>7 DEF TakePop
  <2>5. ASSUME NEW i \in 1 .. Len(m_list')
        PROVE  /\ m_list'[i] = SlotBack(Len(m_list) - i + 1)'
               /\ fifobuff'[m_list'[i]] = taken' + Popped' + i
    <3>1. i + 1 \in 1 .. Len(m_list)
      BY <2>2
    <3>2. /\ m_list[i + 1] = SlotBack(Len(m_list) - (i + 1) + 1)
          /\ fifobuff[m_list[i + 1]] = taken + Popped + (i + 1)
      BY <3>1 DEF OrderInv
    <3>3. Len(m_list) - (i + 1) + 1 = Len(m_list') - i + 1
      BY <2>2
    <3>4. m_list'[i] = m_list[i + 1]
      BY <2>2
    <3>5. m_list'[i] = SlotBack(Len(m_list) - i + 1)'
      BY <2>4, <3>2, <3>3, <3>4 DEF SlotBack
    <3>6. taken + Popped + (i + 1) = taken' + Popped' + i
      BY <2>3, <2>4
    <3> QED
      BY <2>4, <3>2, <3>4, <3>5, <3>6
  <2>6. fifobuff'[sBuffer'] = taken' + 1
    BY <2>1, <2>2, <2>3, <2>4 DEF OrderInv
  <2>7. \A q \in Producers : pc'[q] # "copied"
    BY <1>7 DEF TakePop, Goto, Acquire, Threads, WakeInv, LockInv
  <2>8. pushed' = taken' + Popped' + Len(m_list') /\ Len(m_list') <= Window
    BY <2>2, <2>3, <2>4 DEF OrderInv
  <2>9. packet' = taken'
    BY <2>4 DEF OrderInv
  <2> QED
    BY <2>5, <2>6, <2>7, <2>8, <2>9 DEF OrderInv
<1>8. CASE TakeCopy
  <2> USE <1>8 DEF TakeCopy, Goto, Release, Threads
  <2>1. Popped = 1 /\ Popped' = 0
    BY DEF Popped
  <2>2. packet' = taken'
    BY <2>1 DEF OrderInv
  <2>3. \A q \in Producers : pc'[q] # "copied"
    BY DEF WakeInv, LockInv
  <2> QED
    BY <2>1, <2>2, <2>3 DEF OrderInv, SlotBack
<1>9. CASE UNCHANGED vars
  BY <1>9 DEF vars, Threads, OrderInv, SlotBack, Popped
<1> QED
  BY <1>1, <1>2, <1>3, <1>4, <1>5, <1>6, <1>7, <1>8, <1>9 DEF Next, Push, Take

\* As long as no more packets wait than the ring has slots, the k-th packet
\* taken is the k-th packet pushed.
THEOREM InOrder == Spec => []ExactlyOnceInOrder
<1> DEFINE Inv == WakeInv /\ (Window <= Ring => OrderInv)
<1>1. Init => Inv
  BY WakeInit, OrderInit
<1>2. Inv /\ [Next]_vars => Inv'
  BY WakeStep, OrderStep
<1>3. Inv => ExactlyOnceInOrder
  BY DEF OrderInv, ExactlyOnceInOrder
<1> QED
  BY <1>1, <1>2, <1>3, PTL DEF Spec

\* Then the queue, with its slots, lock and semaphore, implements the channel
\* of PacketQueue: linking a packet is AbsPut, copying one out is AbsGet, and
\* every other step is invisible.
THEOREM QueueImplementsChannel ==
    ASSUME Window <= Ring
    PROVE  Spec => ImplementsChannel
<1> DEFINE Inv == WakeInv /\ OrderInv
<1>1. Init => Inv
  BY WakeInit, OrderInit
<1>2. Inv /\ [Next]_vars => Inv'
  BY WakeStep, OrderStep
<1>3. Init => Channel!AbsInit
  BY DEF Init, Channel!AbsInit
<1>4. Inv /\ [Next]_vars => [Channel!AbsNext]_(Channel!absVars)
  <2> SUFFICES ASSUME Inv, [Next]_vars
               PROVE  [Channel!AbsNext]_(Channel!absVars)
    OBVIOUS
  <2> USE DEF Channel!AbsNext, Channel!AbsPut, Channel!AbsGet, Channel!absVars
  <2>1. ASSUME NEW p \in Producers, PushCopy(p) PROVE UNCHANGED Channel!absVars
    BY <2>1 DEF PushCopy
  <2>2. ASSUME NEW p \in Producers, PushLink(p) PROVE Channel!AbsPut
    BY <2>2 DEF PushLink
  <2>3. ASSUME NEW p \in Producers, PushPost(p) PROVE UNCHANGED Channel!absVars
    BY <2>3 DEF PushPost
  <2>4. CASE TakeCopy
    <3>1. fifobuff[sBuffer] = taken + 1 /\ pushed >= taken + 1
      BY <2>4, OrderTypesHold DEF OrderTypes, TakeCopy, Goto, OrderInv, Popped
    <3>2. taken < pushed
      BY <3>1, OrderTypesHold DEF OrderTypes
    <3> QED
      BY <2>4, <3>1, <3>2 DEF TakeCopy
  <2>5. CASE TakeWait \/ TakeTimeout \/ TakeTest \/ TakePop
    BY <2>5 DEF TakeWait, TakeTimeout, TakeTest, TakePop
  <2>6. CASE UNCHANGED vars
    BY <2>6 DEF vars
  <2> QED
    BY <2>1, <2>2, <2>3, <2>4, <2>5, <2>6 DEF Next, Push, Take
<1> QED
  BY <1>1, <1>2, <1>3, <1>4, PTL DEF Spec, ImplementsChannel, Channel!AbsSpec
-----------------------------------------------------------------------------
\* No more packets wait than the producers let wait, and whoever holds the
\* lock to push has room for one.
WindowInv ==
    /\ Len(m_list) <= Window
    /\ \A p \in Producers : pc[p] = "copied" => Len(m_list) < Window

CountInv == WakeInv /\ WindowInv /\ WakeupForEveryPacket

LEMMA CountInit == Init => CountInv
<1> SUFFICES ASSUME Init PROVE CountInv
  OBVIOUS
<1> USE ThreadsAssumption, SizesAssumption DEF Init, Threads
<1>1. WindowInv
  BY DEF WindowInv
<1>2. Cardinality(Posting) = 0 /\ Woken = 0
  <2>1. Posting = {}
    BY DEF Posting
  <2> QED
    BY <2>1, FS_EmptySet DEF Woken
<1> QED
  BY <1>1, <1>2, WakeInit DEF CountInv, WakeupForEveryPacket

LEMMA CountStep == CountInv /\ [Next]_vars => CountInv'
<1> SUFFICES ASSUME CountInv, [Next]_vars PROVE (WindowInv /\ WakeupForEveryPacket)'
  BY WakeStep DEF CountInv
<1> USE ThreadsAssumption, SizesAssumption, PostingFinite
    DEF CountInv, WakeInv, WindowInv, Threads, Slots
<1>0. Len(m_list) \in Nat /\ queuesem \in Nat
  BY DEF TypeOK
<1>1. ASSUME NEW p \in Producers, PushCopy(p) PROVE (WindowInv /\ WakeupForEveryPacket)'
  <2> USE <1>1 DEF PushCopy, Goto, Acquire
  <2>1. WindowInv'
    BY DEF TypeOK
  <2>2. Posting' = Posting /\ Woken' = Woken
    BY PostingSame DEF TypeOK, Woken
  <2> QED
    BY <2>1, <2>2 DEF WakeupForEveryPacket
<1>2. ASSUME NEW p \in Producers, PushLink(p) PROVE (WindowInv /\ WakeupForEveryPacket)'
  <2> USE <1>2 DEF PushLink, Goto, Release
  <2>1. Len(m_list') = Len(m_list) + 1 /\ Len(m_list) < Window
    BY DEF TypeOK
  <2>2. \A q \in Producers : pc'[q] # "copied"
    BY DEF TypeOK, LockInv
  <2>3. WindowInv'
    BY <1>0, <2>1, <2>2
  <2>4. Posting' = Posting \cup {p} /\ p \notin Posting /\ Woken' = Woken
    BY DEF TypeOK, Woken, Posting
  <2>5. Cardinality(Posting') = Cardinality(Posting) + 1
    BY <2>4, FS_AddElement
  <2> QED
    BY <1>0, <2>1, <2>3, <2>4, <2>5 DEF WakeupForEveryPacket, Woken
<1>3. ASSUME NEW p \in Producers, PushPost(p) PROVE (WindowInv /\ WakeupForEveryPacket)'
  <2> USE <1>3 DEF PushPost, Goto
  <2>1. WindowInv'
    BY DEF TypeOK
  <2>2. Posting' = Posting \ {p} /\ p \in Posting /\ Woken' = Woken
    BY DEF TypeOK, Woken, Posting
  <2>3. Cardinality(Posting') = Cardinality(Posting) - 1
    BY <2>2, FS_RemoveElement
  \* The packet of p is in the list, so that the count is below the window.
  <2>4. ASSUME Window <= SemMax PROVE queuesem' = queuesem + 1
    <3>1. Cardinality(Posting') \in Nat /\ Woken \in Nat
      BY <2>2, FS_RemoveElement, FS_CardinalityType DEF Woken
    <3>2. queuesem < Window
      BY <1>0, <2>3, <2>4, <3>1 DEF WakeupForEveryPacket
    <3> QED
      BY <1>0, <2>4, <3>2
  <2> QED
    BY <1>0, <2>1, <2>2, <2>3, <2>4 DEF WakeupForEveryPacket, Woken
<1>4. ASSUME TakeWait PROVE (WindowInv /\ WakeupForEveryPacket)'
  <2> USE <1>4 DEF TakeWait, Goto
  <2>1. WindowInv'
    BY DEF TypeOK
  <2>2. Posting' = Posting /\ Woken = 0 /\ Woken' = 1
    BY PostingSame DEF TypeOK, Woken
  <2> QED
    BY <1>0, <2>1, <2>2 DEF WakeupForEveryPacket
<1>5. ASSUME TakeTimeout PROVE (WindowInv /\ WakeupForEveryPacket)'
  BY <1>5 DEF TakeTimeout, WakeupForEveryPacket, Posting, Woken
<1>6. ASSUME TakeTest PROVE (WindowInv /\ WakeupForEveryPacket)'
  <2> USE <1>6 DEF TakeTest, Goto
  <2>1. WindowInv'
    BY DEF TypeOK
  <2>2. m_list # <<>>
    <3>1. Woken = 1
      BY DEF Woken
    <3>2. Len(m_list) > 0
      BY <1>0, <3>1 DEF WakeupsBacked
    <3> QED
      BY <3>2
  <2>3. Posting' = Posting /\ Woken' = Woken
    BY <2>2, PostingSame DEF TypeOK, Woken
  <2> QED
    BY <2>1, <2>3 DEF WakeupForEveryPacket
<1>7. ASSUME TakePop PROVE (WindowInv /\ WakeupForEveryPacket)'
  <2> USE <1>7 DEF TakePop, Goto, Acquire
  <2>1. Posting' = Posting /\ Woken = 1 /\ Woken' = 0
    BY PostingSame DEF TypeOK, Woken
  <2>2. Len(m_list) > 0 /\ m_list # <<>>
    BY <1>0, <2>1 DEF WakeupsBacked
  <2>3. Len(m_list') = Len(m_list) - 1
    BY <2>2 DEF TypeOK
  <2>4. WindowInv'
    BY <1>0, <2>3 DEF TypeOK
  <2> QED
    BY <1>0, <2>1, <2>3, <2>4 DEF WakeupForEveryPacket
<1>8. ASSUME TakeCopy PROVE (WindowInv /\ WakeupForEveryPacket)'
  <2> USE <1>8 DEF TakeCopy, Goto, Release
  <2>1. WindowInv'
    BY DEF TypeOK
  <2>2. Posting' = Posting /\ Woken' = Woken
    BY PostingSame DEF TypeOK, Woken
  <2> QED
    BY <2>1, <2>2 DEF WakeupForEveryPacket
<1>9. CASE UNCHANGED vars
  BY <1>9 DEF vars, WakeupForEveryPacket, Posting, Woken
<1> QED
  BY <1>1, <1>2, <1>3, <1>4, <1>5, <1>6, <1>7, <1>8, <1>9 DEF Next, Push, Take

\* While no more packets wait than the semaphore can count, no wakeup is lost:
\* the count, the posts under way and the wakeup being served are exactly the
\* packets in the list, so that the consumer never sleeps on a packet.
THEOREM NoLostWakeup == Spec => []WakeupForEveryPacket
<1>1. Spec => []CountInv
  BY CountInit, CountStep, PTL DEF Spec
<1>2. CountInv => WakeupForEveryPacket
  BY DEF CountInv
<1> QED
  BY <1>1, <1>2, PTL
=============================================================================
