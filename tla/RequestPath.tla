---------------------------- MODULE RequestPath ----------------------------
(***************************************************************************)
(* The way of a request from the socket to the parse thread: StreamFraming *)
(* puts it into jqueue, here with the memory of that queue, and the parse  *)
(* thread reads it there.                                                  *)
(*                                                                         *)
(* A packet is FdSize bytes for the descriptor and then the payload.  Push *)
(* copies it to the next slot of fifobuff, however long it is; take copies *)
(* one slot, with whatever an earlier packet left behind a shorter one.    *)
(* PushRecvBuffToQueue admits payloads as long as a slot (MaxPacket), that *)
(* is, longer than what a slot has for them.                               *)
(*                                                                         *)
(* Push and take are one step each: FifoQueue has them in detail.          *)
(***************************************************************************)
EXTENDS StreamFraming

CONSTANTS
    Descriptor,   \* the digits sprintf writes for the descriptor
    FdSize,       \* sizeof(HSocket), 4 in the code
    SlotSize,     \* bytes of a slot, 512 in the code
    Ring,         \* slots, 20 in the code
    Objects       \* the texts the JSON reader takes for one whole object

Room == SlotSize - FdSize

ASSUME SlotAssumption ==
    /\ Descriptor \in Seq(Digit) /\ Len(Descriptor) \in 1 .. FdSize
    /\ FdSize \in Nat /\ SlotSize \in Nat /\ FdSize < SlotSize
    /\ MaxPacket <= 2 * SlotSize - FdSize
    /\ Ring \in 2 .. CLOSE_BRACE
\* An object ends with the brace that closes it, and none begins another.
ASSUME ObjectsAssumption ==
    /\ Objects \subseteq Seq(Byte \ {0}) \ {<<>>}
    /\ \A o \in Objects : Last(o) = CLOSE_BRACE
    /\ \A o1, o2 \in Objects : IsPrefix(o1, o2) => o1 = o2

VARIABLES
    fifobuff,      \* the bytes of all slots
    m_list,        \* where the waiting packets begin
    fifo_counter,  \* the slot written next
    requests,      \* history: what the parse thread has found in its packets
    crashed,       \* the program has ended with an access violation
    crowded        \* history: so many packets have waited that no slot was free

slotVars == <<fifobuff, m_list, fifo_counter, requests, crashed, crowded>>
pathVars == <<vars, slotVars>>

Cells == 0 .. Ring * SlotSize - 1
Nowhere == Ring * SlotSize

PathInit ==
    /\ Init
    /\ fifobuff = [k \in Cells |-> 0]
    /\ m_list = <<>>
    /\ fifo_counter = 0
    /\ requests = <<>>
    /\ crashed = FALSE
    /\ crowded = FALSE

-----------------------------------------------------------------------------
Packet(payload) == Descriptor \o [k \in 1 .. FdSize - Len(Descriptor) |-> 0] \o payload

\* The counter once a packet has been copied to its slot.  Behind the last
\* slot is fifo_counter itself, low byte first: the bytes of the packet that
\* go there replace its lowest bytes, the others being 0.  All numbers that
\* are no slot count as Ring.
CounterAfter(packet) ==
    LET inside == Nowhere - fifo_counter * SlotSize
        over == SubSeq(packet, inside + 1, Len(packet))
    IN  IF Len(packet) <= inside THEN fifo_counter
        ELSE IF over[1] < Ring /\ \A k \in 2 .. Len(over) : over[k] = 0 THEN over[1]
        ELSE Ring

Copy(packet) ==
    LET start == fifo_counter * SlotSize
    IN  fifobuff' = [k \in Cells |-> IF k - start \in 0 .. Len(packet) - 1
                                     THEN packet[k - start + 1]
                                     ELSE fifobuff[k]]

\* Mutant: the counter goes one slot too far.
PushToQueue_TooFar(packet) ==
    /\ Copy(packet)
    /\ m_list' = Append(m_list, CounterAfter(packet) * SlotSize)
    /\ fifo_counter' = IF CounterAfter(packet) >= Ring THEN 0 ELSE CounterAfter(packet) + 1
    /\ crowded' = (crowded \/ Len(m_list') >= Ring)

\* PushToQueue: the packet is copied to the slot of fifo_counter and, if it is
\* longer, into what is behind it; the slot that the counter then says is
\* linked, and the next is the one behind that, the first after the last.
PushToQueue(packet) ==
    /\ Copy(packet)
    /\ m_list' = Append(m_list, CounterAfter(packet) * SlotSize)
    /\ fifo_counter' = IF CounterAfter(packet) + 1 >= Ring THEN 0 ELSE CounterAfter(packet) + 1
    /\ crowded' = (crowded \/ Len(m_list') >= Ring)

\* The receive thread: a payload it hands over is pushed in the same step, and
\* a negative length ends the program.
Receive ==
    /\ ~crashed
    /\ Next
    /\ IF jqueue' = jqueue
       THEN UNCHANGED <<fifobuff, m_list, fifo_counter, crowded>>
       ELSE PushToQueue(Packet(Last(jqueue')))
    /\ crashed' = SaysNegative
    /\ UNCHANGED requests

\* The n bytes from start on.
BytesAt(start, n) == [k \in 1 .. n |-> fifobuff[start + k - 1]]

\* sscanf: the digits the descriptor begins with.
ReadDescriptor(bytes) ==
    LET digits == CHOOSE n \in 0 .. Len(bytes) :
                     /\ \A k \in 1 .. n : IsDigit(bytes[k])
                     /\ n = Len(bytes) \/ ~IsDigit(bytes[n + 1])
    IN  SubSeq(bytes, 1, digits)

\* The JSON reader: the object that the text begins with, whatever follows it;
\* none, an error, if it does not end before the text does.
ReadObject(text) == {object \in Objects : IsPrefix(object, text)}

\* ProtocolParseThreadFunc: the first packet is taken and read.
Parse ==
    /\ ~crashed
    /\ m_list # <<>>
    /\ Head(m_list) # Nowhere
    /\ LET start == Head(m_list)
           read == ReadObject(BytesAt(start + FdSize, Room))
       IN  requests' = IF read = {} THEN requests
                       ELSE Append(requests, [fd |-> ReadDescriptor(BytesAt(start, FdSize)),
                                              payload |-> CHOOSE object \in read : TRUE])
    /\ m_list' = Tail(m_list)
    /\ UNCHANGED <<vars, fifobuff, fifo_counter, crashed, crowded>>

\* The same for a packet that is nowhere: the memory read is no request, or
\* cannot be read, which ends the program.
ParseNowhere ==
    /\ ~crashed
    /\ m_list # <<>>
    /\ Head(m_list) = Nowhere
    /\ m_list' = Tail(m_list)
    /\ crashed' \in BOOLEAN
    /\ pc' = IF crashed' THEN "ended" ELSE pc
    /\ UNCHANGED <<received, data, count, bytes_remained, pro_length, recv_length,
                   jqueue, fifobuff, fifo_counter, requests, crowded>>

PathNext == Receive \/ Parse \/ ParseNowhere

PathSpec == PathInit /\ [][PathNext]_pathVars

\* The receive thread runs; the peer sends and closes as it likes.
FairPathSpec == PathSpec /\ WF_pathVars(pc = "start" /\ Receive)

-----------------------------------------------------------------------------
PathTypeOK ==
    /\ TypeOK
    /\ fifobuff \in [Cells -> Byte]
    /\ m_list \in Seq({slot * SlotSize : slot \in 0 .. Ring})
    /\ fifo_counter \in 0 .. Ring - 1
    /\ requests \in Seq([fd : Seq(Digit), payload : Objects])
    /\ crashed \in BOOLEAN
    /\ crowded \in BOOLEAN

\* What the parse thread should find in the packets of some payloads: those
\* that leave room for the descriptor.
Found(payloads) ==
    FlattenSeq([i \in DOMAIN payloads |->
        IF Len(payloads[i]) <= Room THEN <<[fd |-> Descriptor, payload |-> payloads[i]]>> ELSE <<>>])

\* As long as a slot has been free, the parse thread has found, of the packets
\* it took, exactly those whose payload leaves room for the descriptor, each
\* with the descriptor and the payload it was sent with: neither the end of a
\* packet that is longer nor what is left of an earlier one in the same slot
\* gets into another.
ParsedAsSent ==
    ~crowded => requests = Found(SubSeq(jqueue, 1, Len(jqueue) - Len(m_list)))
=============================================================================
