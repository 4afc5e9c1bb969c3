----------------------------- MODULE FifoQueue -----------------------------
(***************************************************************************)
(* FifoQueue: the queue between two threads of the gateway.  A receive     *)
(* thread pushes request frames for the parse thread of its client         *)
(* (ClientObj::jqueue), and every receive thread pushes its deletion       *)
(* notice for the recovery thread (JProtocol::clientqueue).                *)
(*                                                                         *)
(* The packet bytes live in a ring of slots that is reused blindly; m_list *)
(* holds the slots still to be read, and a semaphore counts them.  The     *)
(* ring and the list are guarded by queuelock, the semaphore is posted     *)
(* after the lock is released, and the reader tests the list for emptiness *)
(* without the lock.                                                       *)
(*                                                                         *)
(* A packet is represented by its number in push order.                    *)
(***************************************************************************)
EXTENDS Integers, Sequences, FiniteSets

CONSTANTS
    Producers,   \* the threads that push
    Consumer,    \* the one thread that takes
    NoOne,       \* the owner of a free lock
    Ring,        \* number of slots, 20 in the code
    SemMax,      \* greatest count of the semaphore, 100 in the code
    Window,      \* environment: packets a producer lets wait in the queue
    MaxPush      \* bound of the model: number of pushes

ASSUME ThreadsAssumption ==
    /\ IsFiniteSet(Producers)
    /\ Consumer \notin Producers
    /\ NoOne \notin Producers \cup {Consumer}
ASSUME SizesAssumption ==
    /\ Ring \in Nat \ {0}
    /\ SemMax \in Nat \ {0}
    /\ Window \in Nat \ {0}
    /\ MaxPush \in Nat

VARIABLES
    m_list,        \* slots holding packets not yet taken, oldest first
    fifobuff,      \* the packet each slot holds, 0 for a cleared slot
    fifo_counter,  \* the slot the next push writes
    queuelock,     \* the thread inside the critical section
    queuesem,      \* count of the semaphore
    pc,            \* where each thread is
    sBuffer,       \* the slot the consumer popped and still has to copy
    packet,        \* the packet the consumer copied last
    ret,           \* what TakeFromQueue returned last
    pushed,        \* history: number of packets linked into m_list
    taken          \* history: number of packets the consumer copied

vars == <<m_list, fifobuff, fifo_counter, queuelock, queuesem, pc, sBuffer,
          packet, ret, pushed, taken>>

Threads == Producers \cup {Consumer}
Slots == 0 .. Ring - 1

\* Return codes of TakeFromQueue.
SYN_OBJECT_o == 0
SYN_TIMEOUT == 1
SYN_EMPTY == -2

\* Mutant: the counter wraps one slot too late.
NextSlot_Late(c) == IF c + 1 > Ring THEN 0 ELSE c + 1

\* Mutant: the counter wraps one slot too early, and the ring is a slot short.
NextSlot_Early(c) == IF c + 1 > Ring - 2 THEN 0 ELSE c + 1

\* fifo_counter++, back to 0 after the last slot.
NextSlot(c) == IF c + 1 > Ring - 1 THEN 0 ELSE c + 1

Init ==
    /\ m_list = <<>>
    /\ fifobuff = [s \in Slots |-> 0]
    /\ fifo_counter = 0
    /\ queuelock = NoOne
    /\ queuesem = 0
    /\ pc = [t \in Threads |-> "idle"]
    /\ sBuffer = 0
    /\ packet = 0
    /\ ret = SYN_TIMEOUT
    /\ pushed = 0
    /\ taken = 0

Goto(t, from, to) ==
    /\ pc[t] = from
    /\ pc' = [pc EXCEPT ![t] = to]

Acquire(t) == queuelock = NoOne /\ queuelock' = t
Release(t) == queuelock = t /\ queuelock' = NoOne

-----------------------------------------------------------------------------
\* Mutant: the semaphore is posted before the packet is linked.
PushCopy_PostsEarly(p) ==
    /\ Goto(p, "idle", "copied")
    /\ Len(m_list) < Window
    /\ pushed < MaxPush
    /\ Acquire(p)
    /\ fifobuff' = [fifobuff EXCEPT ![fifo_counter] = pushed + 1]
    /\ queuesem' = IF queuesem < SemMax THEN queuesem + 1 ELSE queuesem
    /\ UNCHANGED <<m_list, fifo_counter, sBuffer, packet, ret, pushed, taken>>

\* PushToQueue: lock and copy the packet into the slot of fifo_counter.
\* The guard on Window is the environment's: what the code on this side
\* waits for before it sends more.
PushCopy(p) ==
    /\ Goto(p, "idle", "copied")
    /\ Len(m_list) < Window
    /\ pushed < MaxPush
    /\ Acquire(p)
    /\ fifobuff' = [fifobuff EXCEPT ![fifo_counter] = pushed + 1]
    /\ UNCHANGED <<m_list, fifo_counter, queuesem, sBuffer, packet, ret,
                   pushed, taken>>

\* PushToQueue: link the slot at the tail, advance the counter, unlock.
PushLink(p) ==
    /\ Goto(p, "copied", "linked")
    /\ m_list' = Append(m_list, fifo_counter)
    /\ fifo_counter' = NextSlot(fifo_counter)
    /\ pushed' = pushed + 1
    /\ Release(p)
    /\ UNCHANGED <<fifobuff, queuesem, sBuffer, packet, ret, taken>>

\* Mutant: an event, which remembers one post, instead of a semaphore.
PushPost_Event(p) ==
    /\ Goto(p, "linked", "idle")
    /\ queuesem' = 1
    /\ UNCHANGED <<m_list, fifobuff, fifo_counter, queuelock, sBuffer, packet,
                   ret, pushed, taken>>

\* PushToQueue: ReleaseSemaphore, which fails and changes nothing at the
\* greatest count; the result is not looked at.
PushPost(p) ==
    /\ Goto(p, "linked", "idle")
    /\ queuesem' = IF queuesem < SemMax THEN queuesem + 1 ELSE queuesem
    /\ UNCHANGED <<m_list, fifobuff, fifo_counter, queuelock, sBuffer, packet,
                   ret, pushed, taken>>

-----------------------------------------------------------------------------
\* TakeFromQueue: SemWait is satisfied.
TakeWait ==
    /\ Goto(Consumer, "idle", "woken")
    /\ queuesem > 0
    /\ queuesem' = queuesem - 1
    /\ UNCHANGED <<m_list, fifobuff, fifo_counter, queuelock, sBuffer, packet,
                   ret, pushed, taken>>

\* TakeFromQueue: SemWait times out, and the caller's loop calls again.
TakeTimeout ==
    /\ pc[Consumer] = "idle"
    /\ queuesem = 0
    /\ ret' = SYN_TIMEOUT
    /\ UNCHANGED <<m_list, fifobuff, fifo_counter, queuelock, queuesem, pc,
                   sBuffer, packet, pushed, taken>>

\* TakeFromQueue: test the list for emptiness, before the lock is taken.  The
\* branch of an empty list, marked "no happen but must check", returns a
\* negative number, on which the loops of both callers end for good.
TakeTest ==
    LET empty == m_list = <<>>
    IN  /\ Goto(Consumer, "woken", IF empty THEN "exited" ELSE "locking")
        /\ ret' = IF empty THEN SYN_EMPTY ELSE ret
        /\ UNCHANGED <<m_list, fifobuff, fifo_counter, queuelock, queuesem,
                       sBuffer, packet, pushed, taken>>

\* Mutant: the newest packet is popped instead of the oldest.
TakePop_Newest ==
    /\ Goto(Consumer, "locking", "popped")
    /\ Acquire(Consumer)
    /\ sBuffer' = m_list[Len(m_list)]
    /\ m_list' = SubSeq(m_list, 1, Len(m_list) - 1)
    /\ UNCHANGED <<fifobuff, fifo_counter, queuesem, packet, ret, pushed, taken>>

\* TakeFromQueue: lock and pop the front.
TakePop ==
    /\ Goto(Consumer, "locking", "popped")
    /\ Acquire(Consumer)
    /\ sBuffer' = Head(m_list)
    /\ m_list' = Tail(m_list)
    /\ UNCHANGED <<fifobuff, fifo_counter, queuesem, packet, ret, pushed, taken>>

\* TakeFromQueue: copy the slot, unlock, return.
TakeCopy ==
    /\ Goto(Consumer, "popped", "idle")
    /\ packet' = fifobuff[sBuffer]
    /\ ret' = SYN_OBJECT_o
    /\ taken' = taken + 1
    /\ Release(Consumer)
    /\ UNCHANGED <<m_list, fifobuff, fifo_counter, queuesem, sBuffer, pushed>>

Push(p) == PushCopy(p) \/ PushLink(p) \/ PushPost(p)
Take == TakeWait \/ TakeTimeout \/ TakeTest \/ TakePop \/ TakeCopy

Next == (\E p \in Producers : Push(p)) \/ Take

Spec == Init /\ [][Next]_vars

\* Threads are scheduled: a producer that began a push finishes it, and the
\* consumer loops for ever.  Nobody has to begin a push.  Weak fairness is
\* enough for TakePop: once Window packets wait no producer takes the lock.
Fairness ==
    /\ \A p \in Producers : WF_vars(PushLink(p)) /\ WF_vars(PushPost(p))
    /\ WF_vars(TakeWait) /\ WF_vars(TakeTest)
    /\ WF_vars(TakePop) /\ WF_vars(TakeCopy)

FairSpec == Spec /\ Fairness

-----------------------------------------------------------------------------
PCs == {"idle", "copied", "linked", "woken", "locking", "popped", "exited"}

\* The type invariant, for the whole state of the queue and its threads.
TypeOK ==
    /\ m_list \in Seq(Slots)
    /\ fifobuff \in [Slots -> Nat]
    /\ fifo_counter \in Slots
    /\ queuelock \in Threads \cup {NoOne}
    /\ queuesem \in 0 .. SemMax
    /\ pc \in [Threads -> PCs]
    /\ sBuffer \in Slots
    /\ packet \in Nat
    /\ ret \in {SYN_OBJECT_o, SYN_TIMEOUT, SYN_EMPTY}
    /\ pushed \in Nat
    /\ taken \in Nat

\* Producers between the link and the post, and whether the consumer holds a
\* wakeup for a packet it has not popped.
Posting == {p \in Producers : pc[p] = "linked"}
Woken == IF pc[Consumer] \in {"woken", "locking"} THEN 1 ELSE 0

\* The branch of TakeFromQueue marked "no happen but must check" is never
\* taken, although the list is tested without the lock: a wakeup is always
\* backed by a packet in the list.  The loops of the parse thread and of the
\* recovery thread end for good when it is taken.
NoEmptyTake == ret # SYN_EMPTY /\ pc[Consumer] # "exited"

\* When no more packets wait than the semaphore counts, the wakeups that are
\* counted, about to be posted or being served are exactly the packets in the
\* list: none is stranded behind a lost post and none is announced twice.
WakeupForEveryPacket ==
    Window <= SemMax =>
        Len(m_list) = queuesem + Cardinality(Posting) + Woken

\* When no more packets wait than the ring has slots, the k-th packet taken
\* is the k-th packet pushed: nothing is lost, repeated or overtaken by the
\* reuse of the slots.
ExactlyOnceInOrder == Window <= Ring => packet = taken

\* Every packet pushed is eventually taken, whatever the producers do next.
EveryPacketTaken ==
    \A n \in 1 .. MaxPush : pushed >= n ~> taken >= n

\* FifoQueue implements the channel of PacketQueue.
Channel == INSTANCE PacketQueue WITH
              put <- pushed, got <- taken, last <- packet
ImplementsChannel == Channel!AbsSpec

\* What the comments at fifoqueue.cpp:72 and :109 say without a condition: the
\* packet returned is the first one of the list, the oldest not yet taken.
TakesTheFirst == packet = taken
=============================================================================
