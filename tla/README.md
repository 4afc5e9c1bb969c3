# A TLA+ model of the RTP voice gateway

The program (`src/ConsoleApplication-RTPVoice/ConsoleApplication-RTPVoice`) is a
Windows console server.  Third-party applications connect to it by TCP, send
framed JSON requests (Connect, Listening, Query, CallRequest, CallRelease) and
get replies and notifications; a request to listen on a channel opens an RTP
session, and a call sends voice on it.  Until `quit` is typed it serves any
number of clients at once, with a listener, a receive and a parse thread for
each connection.  The repository has no tests.

File names below are relative to `src/` of that directory (`FifoQueue/…`,
`ClientObj/…`, `MyProtocol/…`, `mymaster.cpp`, …); line numbers are those of the
files decoded from GB18030 (`MyRTP/myrtp.cpp`: UTF-16).

## 1. Inventory

| Component | State | Operations | Talks to |
|---|---|---|---|
| **FifoQueue** (`FifoQueue/`) | ring of 20 slots of 512 bytes, list of slots, slot counter, lock, semaphore | `PushToQueue`, `TakeFromQueue`, `ClearQueue` | receive threads push, one thread takes |
| **SynInterface** (`SynInterface/`) | critical section, semaphore (at most 100), thread handle | `Lock/Unlock`, `SemWait/SemPost`, `MyCreateThread` (starts in the constructor, joins in the destructor) | everything |
| **ClientObj, framing** (`ClientObj/clientobj.cpp:349-479`) | buffer of 2048 bytes, `count`, `bytes_remained`, `pro_length` | `StickDismantleProtocol`, `PushRecvBuffToQueue` | socket in, `jqueue` out |
| **ClientObj, threads** (`ClientObj/clientobj.cpp:1-348`) | socket, exit flag, two threads, `jqueue`, `thePROTOCOL_Ctrlr` | constructor, receive thread, parse thread (`DataProcessFunc`), destructor | calls `MasterOnDataFunc`, leaves a notice in `clientqueue` |
| **JProtocol, listeners** (`MyProtocol/myprotocol.cpp:128-139, 237-291`) | server socket, `listen_thread_p[65535]`, `listen_numb` | `CreateListenThread`, `ListenThreadFunc`, `CloseMater` | each listener starts the next and creates a ClientObj |
| **JProtocol, registry** (`MyProtocol/myprotocol.cpp:14-61, 292-357`) | `clientmap` and its lock, `clientqueue`, exit flag, recovery thread | register, notify, recover, `~JProtocol` | deletes ClientObjs |
| **JProtocol, replies** (`MyProtocol/myprotocol.cpp:358-710`) | none of its own | `ConnectReply` … `CallEndNotify`, `SendDataToTheThirdParty`, `PhySocketSendData` | called by MyMasterServer on a parse thread |
| **MyMasterServer** (`mymaster.cpp`) | `channel1RTP`, `channel2RTP`, voice file `fp`, JProtocol | `Start`, `MasterOnDataFunc`, destructor | callback of all parse threads |
| **MyRTP** (`MyRTP/`) | RTP session of jrtplib, port, sequence | `RtpParamsInit`, `SendRTPPayloadData`, poll thread with a callback | MyMasterServer |
| **SocketWrap** (`SocketWrap/`) | none | wrappers of Winsock, results as `transresult_t` | JProtocol, ClientObj |
| **Common** (`Common/common.h`) | types of messages and keys, `SocketParams_t::operator<` | | everything |
| **Console entry** (`../ConsoleApplication-RTPVoice.cpp`) | | creates the server, reads the keyboard until `quit`, deletes it | |
| jrtplib, JsonWrap (`../lib/`) | vendored headers and binaries | | |

What makes it hard, and what correctness means there:

* *FifoQueue.*  The list is tested for emptiness without the lock, the semaphore
  is posted after the lock is released, and the slots are reused blindly.  It
  should hand every packet over once and in order, and never take the branch
  "no happen but must check", on which the loop of its caller ends for good.
* *Framing.*  recv returns the stream in any chunks.  Every frame that has
  arrived should be queued, once, in order, without waiting for later bytes;
  after damage nothing but whole frames; the loop over `Start` should end.
* *Life of a connection.*  A client is created before it is registered, its
  threads may end before that, the recovery thread destroys it under a lock
  while joining its threads, `~JProtocol` destroys without the lock, descriptor
  numbers are used again.  No object may be destroyed twice or under its
  threads, none forgotten, none left when the program ends, no join may block
  for ever, and a reply should go to the client that asked.
* *Listeners.*  The chain grows while the destructor walks its array; counter
  and slots are written by two threads.  All listeners should be joined, and
  the server should listen as long as it runs.
* *Application.*  Partial sends, sockets that break in the middle of a frame,
  and two parse threads creating the RTP sessions of the same channel.  A peer
  should read the answers to its requests byte by byte, and a channel it was told is
  listening should have a session.
* *Voice.*  Pointers, sessions, poll threads and the file are shared by parse
  threads, poll threads and the destructor, and nothing guards them;
  `~MyMasterServer` deletes the sessions before it stops the threads that use
  them.  A channel that was set should hear what is sent to it, no session be
  freed under its poll thread, and nothing be left when the server is gone.

`PROJECT.json` lists the hazards one by one, at their lines, with the property
that covers each or the reason why none does.

## 2. Modules

```
PacketQueue         what a queue promises: exactly once, in order
  ^ implemented by
FifoQueue           ring, list, lock, semaphore, one action per step of push and take
  ^ proved in FifoQueue_proof
StreamFraming       bytes of one connection -> payloads in jqueue
  ^ extended by
RequestPath         ... -> slots of the ring -> what the parse thread reads there
  ^ both proved in RequestPath_proof
ClientRegistry      what the registry promises: objects freed once, after their threads
  ^ implemented by
ClientLifecycle     listeners, receive/parse threads, recovery thread, ~JProtocol
  ^ proved in ClientLifecycle_proof
ClientKeys          the order of the keys of clientmap (theorems only)
ListenChain         the array of listeners and its counter, CloseMater, the join loop
  ^ proved in ListenChain_proof
CallMessages        requests, replies and notifications, and which answer which
CallService         the service the peers see, in whole messages
  ^ implemented by
MasterServer        callbacks of the parse threads, RTP sessions, bytes of the replies
  ^ proved in MasterServer_proof
RtpVoice            the same callbacks with poll threads, file and ~MyMasterServer
  ^ proved in RtpVoice_proof
SequenceFacts       lemmas on concatenation, flattening and prefixes, for RequestPath and MasterServer
MC*                 instances for TLC, one module per model
```

The models meet at interfaces that one of them proves or checks and the other
assumes.  `FifoQueue` implements `PacketQueue`; `ClientLifecycle` therefore has
`clientqueue` as a sequence and `jqueue` as a number of waiting requests.  What
happens when more entries wait than there are slots is not abstracted away with
it: `ClientLifecycle` overwrites the notices that lie in the slot written next,
and `RequestPath` has the bytes of the slots of `jqueue`.  `RequestPath` ends
where the parse thread has read a request, `MasterServer` begins there.
`ClientLifecycle` has one listener per connection; `ListenChain` says how they
are started and joined.  `MasterServer` abstracts the coming and going of
sockets to `PeerGone`.  `RtpVoice` has the steps of `MasterOnDataFunc` that
`MasterServer` has, without the frames and with all the rest.

### FifoQueue

`PushCopy`, `PushLink`, `PushPost` are the three parts of `PushToQueue` between
which another thread can be seen: inside the lock, after it, and after the
semaphore.  `TakeWait`/`TakeTimeout`, `TakeTest` (without the lock), `TakePop`,
`TakeCopy` are those of `TakeFromQueue`.  A failed `ReleaseSemaphore` leaves the
count.  A packet is its number.  `Window` is an assumption on the environment:
how many packets the producers let wait.  The code does not enforce one; the
theorems say for which windows (up to the ring, up to the semaphore) the
promises hold, and the run `fifo_overrun` what happens beyond.

Elsewhere: `ClearQueue` (called by `~ClientObj` when both threads have ended) is
part of `ClientLifecycle!JoinReceiver`; packets longer than a slot are in
`RequestPath`.

### StreamFraming

One action per branch of `StickDismantleProtocol`, one step per round from the
label `Start`.  The buffer, with its bytes behind `count`, is modelled as it is,
because the code looks into it: the first byte decides the branch, the byte
where the frame should end is compared with `}`.  `ParsedLength` is `sscanf` of
the four bytes behind the head: blanks, a sign, digits; it leaves `pro_length` alone when
there is no digit.  A negative length takes the branch of a chunk that holds more than
its frame, is not refused by `PushRecvBuffToQueue`, and is a size beyond all memory for
`memcpy`: `HeadNegative` ends the program.  `ErrorClear` includes `SocketClearRecvBuffer`, which drops any
number of bytes that have arrived by then.  The peer's stream is a constant;
`Chunks` says where recv may cut it.  `Intact` separates the part in which every
frame is well-formed from the part with truncated frames and stray bytes.
`OnlyWholeFrames` is about both: `Selections` has, for the first m frames, what any
some of their payloads make, each once and in order.  The last section of the module
says what the properties ask of peer and network (`HeadersWhole`, `BufferSuffices`,
`LossesShow`); `MCStreamFraming` assumes that its instance has it, which TLC
evaluates on each run with `WholeHeaders`.

### RequestPath

`Receive` is a step of `StreamFraming`, and what it hands over is written into
`fifobuff` in the same step: the digits of the descriptor, zeros up to
`sizeof(HSocket)`, and the payload, however long.  `PushRecvBuffToQueue` admits
payloads as long as a slot, so the end of the longest lies in the next slot, or,
from the last slot, in `fifo_counter`, which lies behind the ring.  `Parse`
copies one slot and reads descriptor and object from it, with what an earlier
packet may have left there; the JSON reader takes the object of `Objects` that
the text begins with (an object ends with the brace that closes it, so that none
begins another).  `CounterAfter` is what `fifo_counter` says when a packet has been copied:
bytes that go over the end of the ring replace it, and the slot linked is the one it
then names, if it names one; a brace names none.  `ParseNowhere` is a packet whose linked
address is not in the ring.  `ParsedAsSent` relates both ends of the path: the requests
found are exactly the payloads that leave room for the descriptor, unless no slot
was free (`crowded`, a history variable).  It holds because the end of a long
payload is overwritten by the next push before anybody reads it.

A push and a take are one step each here; FifoQueue has them in detail, and its
theorems say that with a slot free nothing is lost by taking them as one.

### ClientLifecycle

| Actor | Actions | Code |
|---|---|---|
| listener | `Accept`, `AcceptFails`, `CreateListenThread`, `CreateClient`, `DropSocket`, `Register` | `myprotocol.cpp:237-291` |
| receive thread | `ReceiveRequest`, `PeerLeaves`, `ReceiverStops`, `NotifyDelete` | `clientobj.cpp:277-348` |
| parse thread | `TakeRequest`, `Reply`, `ParserStops` | `clientobj.cpp:125-276` |
| either deleter, in `~ClientObj` | `CloseSocket`, `SetThreadExitFlag`, `JoinParser`, `JoinReceiver` | `clientobj.cpp:75-114` |
| recovery thread | `TakeNotice`, `RecoveryStops`, `FindClient`, `FindNobody`, `RecoveryErase` | `myprotocol.cpp:302-344` |
| main thread, in `~JProtocol` | `CloseMater`, `StopRecovery`, `JoinRecovery`, `JoinListeners`, `DeleteFirst`, `MainErase`, `FreeProtocol` | `myprotocol.cpp:19-61` |

`socket` maps a descriptor to the connection that has it, so that reuse of
numbers is visible; a request carries the number (`clientobj.cpp:474`), and
`Reply` goes to whoever has it.  `missed` (clients that a notice did not
find in the map), `overwritten` (notices whose slot was used again) and `astray`
(replies that went to another connection) are history variables.
`Register`, `FindClient` and `FindNobody` wait for `clientmap_locker`, which the
recovery thread holds from `FindClient` to `RecoveryErase`, that is, while it
joins the threads of the client.

`listen_numb` counts the listeners started and never goes down.  When it has reached
`MAX_LISTENING_COUNT` no further one is started, and a connection whose listener finds it
there gets no object (`DropSocket`, the test at `myprotocol.cpp:275`) and stays open:
`NothingLeftBehind` says that when all is over exactly these sockets are left, and
`AcceptedRegistered` that they are the only connections not registered.  A listener
is started and counted in one step here; that it is not in the code is the subject of
`ListenChain`.

`clientqueue` lies in a ring of `NoticeSlots` slots, written in turn.  A notice
that is left while the slot written next still has a waiting one makes both say
the same (`InNextSlot`), so that one client is looked for twice and another not
at all.

`ClientRegistry` is what all of this amounts to: an object is created with two
threads, each ends once, the object is freed after them and once, and the
server is down only when none is left.  `ImplementsRegistry` maps `obj`, the
threads that have not ended and `phase` to its variables.

Abstractions: the contents of requests, timeouts that change nothing.  A
connection stands for its key in `clientmap`.  That keys of live clients differ
is `KeysDiffer`, and that the order of the map tells apart what differs is
`ClientKeys`.

### ClientKeys

`SocketParams_t::operator<` is a strict weak order, and two keys are one for the
map exactly if descriptor and port agree.  The module has theorems and no
behaviours.

### ListenChain

`listen_thread_p[listen_numb++] = new MyCreateThread(...)` is four steps, in the
order in which the build's object file has them: start the thread, store the
pointer, load the counter, write it back plus one.  The new listener runs from
the first.  `AcceptRace = FALSE` is an assumption on the environment: no
listener comes back from accept, with a connection or without, before the thread that
started it has written the counter back, as long as the socket is open.  `CloseMater`
marks the descriptor and then closes it; accept fails on a descriptor that is marked,
and returns when it is closed.  It may fail before, too, which uses up a slot.

### MasterServer

`MasterOnDataFunc` is the list of steps a command leads to; one action performs
the first of them, so that two parse threads interleave between the test of
`channel1RTP`, the `new` and the `RtpParamsInit`.  `SendSome` lets send take any
part of what is left, `SendFails` is a broken socket, `count` is the local of
`PhySocketSendData`.  `Take` is `ProtocolParseThreadFunc` with
`DataProcessFunc`: parameters are noted in `thePROTOCOL_Ctrlr` also for messages
that are not of type Request, and `Query` answers what is noted there.  Group
ids pass through `int16_t` (`Int16`); `GroupsAssumption` restricts them to ids
for which that changes nothing.

`CallMessages` has the messages both sides know, and with `Answer` those a request is
answered with.  `Answer` is what the code means to send; it is not taken from the
interface description, which differs (section 5), and the properties of `serve` say that
these messages get to the right peer, whole and in order, not that they are the
right ones.  Identifiers are left out, and so are `src` and `dst` of a call.
`CallService` is the server as the peers see it: `Ask` takes a request and owes its answer, once the last one is
paid; `Deliver` is a message that arrives whole, and needs the channels it
confirms to be open; `Drop` a message to a peer that is gone; `Open` a channel
that gets its session, which needs a client that has set it.  `ImplementsService`
maps the sends still to do to the messages owed (`Owed`), the frames whose last byte
has gone out to those read (`Read`), and channels whose pointer is not NULL to
those open (`Opened`).  A send that takes a part, the test of a pointer, the binding of
a port and the second session two threads create for one channel are not seen.

Not modelled: `Start` (its creation of the server and of the first listener is
`ListenChain!Init` with `CreateListenThread`), sends with descriptor 0 to all
clients (no call in the repository passes 0), unknown names of commands (an
iterator at the end is followed), the timeouts of a peer that does not read (a
retry changes no state here; fairness excludes that it lasts for ever).

### RtpVoice

| Actor | Actions | Code |
|---|---|---|
| parse thread, Listening | `CheckChannel`, `NewSession`, `InitSession`, `SetCallBackFunc`, `OpenFile`, `OpenFails` | `mymaster.cpp`, `MasterOnDataFunc`; `myrtp.cpp`, `RtpParamsInit` |
| parse thread, CallRequest | `TestSession`, `SendVoice` | `mymaster.cpp`; `myrtp.cpp`, `SendRTPPayloadData` |
| either, on a pointer that is not good any more | `UseDead` | the same lines |
| poll thread | `Deliver`, `PollStops`, `ByeDestroy`, `PollsDead` | `myrtp.cpp`, `OnPollThreadFunc`; `mymaster.cpp`, the callback |
| main thread | `Quit`, `TestChannel`, `DeleteChannel`, `JoinPoll`, `ClearPointer`, `CloseFile`, `DeleteGate` | `mymaster.cpp`, `~MyMasterServer`; `myrtp.cpp`, `~MyRTP` |

A parse thread has a list of steps and reads the pointers anew at each of them,
as the code does.  `session` says which objects exist, `thread_p` which poll
thread each would join, `polls` which session each poll thread works on; after a
race these differ.  `fault` is what ended the program: a `null` or `freed`
session, a `file` that is not open, a file that could not be opened (`open`).
`raced` and `late` are history variables, together `Disturbed`: the channels
whose pointer was overwritten by a second session, and those a request worked
on while `~MyMasterServer` was under way.  The code excludes neither; the
properties say that nothing goes wrong on any other channel.  One fault needs no
disturbance: a voice packet for channel 1 that comes between the callback being
set and the file being opened (`FaultsExplained`).

`DeleteGate` is `~JProtocol` seen from here; `ClientLifecycle` says that it
returns and that no parse thread is left then.

## 3. Runs

| Run | Question | Answer |
|---|---|---|
| `fifo` | Does the queue, with producers that respect the ring, hand over each packet once, in order, eventually, with no empty wakeup? | yes, and it implements `PacketQueue` |
| `fifo_overrun` | Is the packet returned the first of the list, as the comment says? | no: with more packets waiting than slots an old slot is overwritten |
| `framing` | Is every frame found, whatever the chunks, unless a header is cut; is the damage limited after truncated frames and stray bytes; does the loop end; does the parse thread read what was sent, though some payloads are longer than their slot? | yes, unless all slots are used |
| `framing_header_cut` | Does "packet sticking and splitting" hold for any chunks? | no: a header cut in two loses frames |
| `lifecycle` | Threads before object, one destructor, nobody forgotten but early leavers and those whose notice was overwritten, nothing left at the end, no foreign socket read or closed, keys that differ; do replies stray from clients being destroyed only; do recovery, registration and shutdown end though peers do not read? | yes, and it implements `ClientRegistry`; left at the end are the sockets accepted when the listeners were used up |
| `lifecycle_forgotten` | Is the layer above told to delete each object? | not if the peer leaves before its listener has registered the client |
| `chain` | Are all listeners joined though the chain grows meanwhile; does somebody listen as long as there are slots; does shutdown end? | yes, if the counter is written before the new listener accepts |
| `chain_cap` | Does the server go on listening while it runs? | no, it stops for good after `MAX_LISTENING_COUNT` listeners |
| `chain_race` | Is `listen_numb` the number of listeners? | not when the new listener accepts early |
| `serve` | Does each peer read the answers to its requests; has a confirmed channel a session; is every request answered; are sessions created only for channels that are set? | yes, and it implements `CallService` |
| `voice` | Are poll threads joined before their session is freed; does a channel that was set hear; is all cleaned up; what can end the program; does shutdown end? | yes, on channels nobody disturbed; voice that comes before its file is open ends the program |
| `serve_failed_call` | Is a call that fails at once ended by a CallEnd? | no, it is sent only in answer to CallRelease |

Every property of a passing run has a mutant, a definition next to the mutated
one in its module, marked `Mutant:`, that shows which mistake it would find.

### Bounds

* `fifo`: ring 3 for 20, semaphore 4 for 100, seven pushes by two producers.
  The counter goes round the ring twice; what matters is only which of window,
  ring and semaphore is the smallest, and the proofs hold for all values.
* `framing`: fourteen messages, among them payloads of less than a recv, more
  than a chunk, exactly `MaxPacket` and one byte more, a truncated frame, stray bytes,
  a header that says -3 and a lone Q, cut in all ways that
  `WholeHeaders` allows, chunks up to 20 bytes, so several frames to a chunk and
  several chunks to a frame.  Slots have 7 bytes, 2 of them for the descriptor,
  so that payloads of 6 and 7 run into the next slot; there are 3 slots, so that
  they do so from the last one, and become crowded.  `BUFLENGTH` 32 is the least that the longest frame
  and a chunk behind it need; the real 2048 is the same for payloads up to about
  1500 bytes with chunks of 512.
* `lifecycle`: two connections, two descriptors, one waiting request: enough for
  one client being destroyed while another is created and gets its descriptor,
  and for a deletion by the main thread after one by the recovery thread.  Four
  listeners, so that both connections may be served, and that accepts that fail use them
  up before one or both are; 200,027 states.  One
  slot for notices, so that the second notice overwrites the first.  The safety
  properties are proved for all values.
* `chain`: four slots and five threads, one thread more than slots, so that
  the end of the array is reached; without the race no fifth thread starts.
* `serve`: two clients with two requests each, out of sets that contain all
  commands, a channel both ask for, a message of type Reply, a channel without
  group and a call on a channel that may not exist; frames of two bytes, so that
  a send can take a part.
* `voice`: two parse threads with one request each, which listen on channel 1
  together, on channel 2 alone, or call, and three sessions, one of which can be
  leaked.  The safety properties are proved for all values.

`CHECK_DEADLOCK FALSE` is said where the program ends (all but the queue, whose
consumer waits with a timeout for ever).

### Fairness

Threads of the operating system run: weak fairness of the steps of a thread
that need nobody else.  A critical section that is free is had by whoever waits:
the holders in question wait for it only finitely often while others hold it, so
weak fairness is enough in the models.  Of peers it is not assumed that they connect,
send or leave, nor of RTP packets that they come or of the keyboard that it is used; that
peers read is assumed in `serve`, and in `lifecycle` in one case.

* `lifecycle`: a reply is assumed to end only once the socket of its client is
  closed (`WF` of `~HasSocket(c) /\ Reply(c)`): the code retries a send that
  timed out without end, and `~ClientObj` closes the socket before it waits for
  the parse thread, which is why shutdown and recovery end all the same.  If the
  descriptor has been given to another connection meanwhile the reply goes there, and
  that peer is assumed to read it: one that does not would hold up the destructor, and
  with it `clientmap_locker`.
* `chain`: accept is assumed to fail only when the socket is closed.
* `framing`: the receive thread goes on with what it has; the peer need not send.
* `serve`: a peer reads what it is sent or its socket breaks, `WF` of
  `SendSome \/ SendFails`; without that no answer is ever sent whole.
* `voice`: parse threads, the stopping of poll threads and `~MyMasterServer` go
  on; packets need not come.  All under `fault = NoFault`: nothing runs after
  the program has ended.

## 4. Proofs

All theorems are checked by TLAPS for every value of the constants.

**FifoQueue_proof.**  `TypeCorrect`, `EmptyTakeNeverHappens` (`NoEmptyTake`),
`InOrder` (`ExactlyOnceInOrder`), `QueueImplementsChannel`
(`Window <= Ring` implies `Spec => ImplementsChannel`).  The consumer pops
without looking, so that even the type of what it pops needs `WakeInv`: the
count of the semaphore, the producers about to post and the wakeup the consumer
holds are together at most the length of the list.  `OrderInv` adds where in
the ring the waiting packets lie: the slots of the list are the last ones
written, counted back from `fifo_counter`, and the i-th of them still holds the
i-th packet not yet taken, which is so as long as at most `Ring` packets wait.
`NoLostWakeup` (`WakeupForEveryPacket`, if `Window` is at most the count of the
semaphore) needs `WindowInv`, since a wakeup is lost only when the semaphore is
full.  Assumed: the threads are distinct and finitely many, the sizes positive.

**ClientLifecycle_proof.**  `TypeCorrect`, `DestroyedOnce` (`OneDestructor`),
`ThreadsEndFirst` (`NothingOutlivesObject`), `OnlyTheEarlyForgotten`
(`ForgottenWereEarly`), `ShutdownIsComplete` (`NothingLeftBehind`),
`DescriptorsKeptApart` (`OwnDescriptors`), `OnlyTheDyingStray`
(`StraysOnlyFromDestroyed`), `RegistryImplemented` (`ImplementsRegistry`), all
from one invariant `IInv` with these conjuncts, and `KeysKeptApart`
(`KeysDiffer`) with `LockInv` besides, which says that the recovery thread has
the lock while it destroys:

* `ListenerInv`, a connection is in `clientmap` only after its listener has
  ended, and a live object whose listener has ended is in it;
* `SocketInv`, a descriptor in use is the one its connection came on;
* `DeleterInv`, what the destructor has done at each of its steps;
* `PhaseInv`, `~JProtocol` deletes only after it has joined the recovery thread
  and the listeners;
* `GoneInv`, what is left of a destroyed object: ended threads, no socket, and
  an entry in `clientmap` only while its deleter is about to erase it;
* `NoticeInv`, a client to be deleted whose notice was neither missed nor
  overwritten has its notice;
* `EndedInv`, a notice says that its receive thread is past its last read;
* `OwnInv`, a client has its socket until a destructor closes it, and while the
  server runs that is not before its receive thread has ended.

Apart from types, none of the properties is inductive.  `OneDestructor` fails in states where
both deleters are at work, which `PhaseInv` excludes; that a client found in the
map is alive needs `GoneInv` with `ListenerInv` (the key step of the proof,
`FindClient` and `DeleteFirst` in `DeleterStep`); `NothingLeftBehind` combines
`ListenerInv`, `GoneInv`, `OwnInv` and `SocketInv` with an empty map, and says exactly which
sockets are left: those of connections whose listener was `dropped`.  Assumed: `None` is
neither a connection nor a descriptor, nor the name of a deleter.

**ClientKeys.**  `StrictWeakOrder` and `KeyIsDescriptorAndPort`, from the
definition of the order.

**ListenChain_proof.**  `TypeCorrect`, `EveryListenerJoined`
(`AllListenersJoined`), `ListensUntilFull` (`ListensWhileSlots`), all under
`~AcceptRace`, for any length of the array and any number of threads.  Even the
type of the counter rests on the whole invariant: the chain has one end
(`FrontInv`: only the newest thread can start another, and only one is between
starting and counting), so that `listen_numb` is the number of threads started
(`CountInv`), each has its own slot (`SlotInv`), and the walk over the array
misses none (`WalkInv`).  With `AcceptRace` these are false, as `chain_race`
shows.

**RtpVoice_proof.**  `TypeCorrect`, `PollThreadJoined` (`PollEndsFirst`),
`NothingLeft` (`VoiceCleanedUp`), `OnlyDisturbedFaults` (`FaultsExplained`),
`SetChannelsHear` (`ChannelHears`), for any number of parse threads, requests
and sessions.  The invariant is the properties and, as long as there is no
fault, `Core`.  Its idea: on a channel that is not disturbed one thread at most
is between `new` and the opening of the file, so that pointer, session, poll
thread, port and file belong together (`OwnerInv`, `SessionInv`), it is known
how far they are (`CreatedInv`, `FileInv`), and `~MyMasterServer` finds them
so (`ShutdownInv`).  `ShapeInv` says of the lists of steps what makes it enough
to look at their heads (`doing`, `of`): each step of a creation is followed by
the next one.  On a fault the pointers may be anything, which is why `Core` is
claimed only without one.  Assumed: requests are lists of checks and tests.

**RequestPath_proof** (on StreamFraming and RequestPath).  Without any condition
on the peer: `PathTypeCorrect` (`PathTypeOK`), and `ParsedWhatWasQueued`, that
`ParsedAsSent` holds while only JSON objects are queued.  For a peer and a network
as `HeadersWhole` and `BufferSuffices` say: `FramesNotWithheld`
(`NothingWithheld`), `FramesInOrder` (`InOrder`), `BufferHolds`
(`BufferNotOverrun` as long as frames are intact), and `FramesParsedAsSent`
(`ParsedAsSent`, for a stream of frames with objects, both halves together).  For a
damaged stream, while the buffer is not overrun: `WholeFramesOnly`
(`OnlyWholeFrames`) if `LossesShow`, and `NothingIsInvented` whatever is sent and
however it is cut.  "Whatever" includes lengths with blanks and signs: `ParsedFacts` says of
any four bytes that the length is at most what four digits say; if it is negative,
`HeadNegative` is the only round there is, before anything is queued or moved.

* `HeadersWhole`: no chunk ends inside the header of an intact frame.  The code
  needs it: `framing_header_cut` breaks `InOrder` without it.
* `BufferSuffices`: a frame less one byte and a chunk fit in the buffer.  With the
  sizes of the code that is every frame of up to 1537 bytes; what is longer than
  512 is not queued anyway, but is waited for.

* `LossesShow`: of all frames, whole or not, a PROTOCOL_HEAD is nowhere but at the
  beginning of a header, no header is cut, and when bytes of a frame are lost, the
  chunk with the byte where its last should be is not the one of the header, goes on
  behind that byte and has no brace there; or else the header says a negative length, which
  ends the program.  The code can see a loss only then:
  `BodyDismantle` looks for a brace, `HeadDismantle` and the two exact cases do not.
* `[]BufferNotOverrun`, for damaged streams: it cannot be had from conditions like the
  ones above, since short chunks that begin no frame are put behind each other
  without end.

`NothingWithheld` says nothing of the buffer, so the invariant `StreamInv` has what
`Framing(n)` says for some n: n frames have been queued, the buffer begins with the
byte behind the n-th and holds everything received since (`Waiting` counts the
chunk in work too), and if the next frame is awaited its header has been read
right and less than the frame is there.  `NotCut(received)` is what makes a round
that begins with a header have all five bytes of it.  A step of the code is then
a step from n to n, or to n + 1 with the payload of that frame in the queue
(`QueueFrame`), and that `BodyLoss` and `ErrorClear` are never taken comes out
of it (`RoundFraming`).

With damage there is no such n.  `PlaceInv` says that there is a byte b up to which
the stream is used up: what is queued are payloads of frames in the first b bytes
(`QueuedBy`), and the buffer holds the bytes behind b (`InPlace`), so that an awaited
frame has its header there and the length is what the stream says (`Said`), or it
begins with a byte that is no head (`Astray`) and is cleared before anything
more is queued.  `FrameOrLoss` is where `LossesShow` comes in: at the byte where
the awaited frame should end, either it is a frame of the stream (`QueueWhole`) or the
round takes `BodyLoss`, which puts the last chunk at the front and so moves b to
where that chunk begins.  For that `InPlace` remembers that the bytes in work are the
end of a chunk, and all of it while a frame is awaited.

Without `LossesShow` the bytes of two messages can make one packet, and
`NothingInvented` is what remains: each payload queued has a PROTOCOL_HEAD of its own
before it, and all of these bytes are bytes received, in their order, none of them used
twice.  The buffer need not hold a stretch of the stream any more (`ErrorClear` drops bytes
from the socket too, and `HeadDismantle` forgets `count` of them when short chunks came
before), so `ScrapsInv` says of it only that it holds some of the bytes behind those used
(`Used`, `Within`), and that the head is there while a frame is awaited (`HeadKept`).
`WithinPick` is the step: what is taken from the front and what is left of a buffer are
again such bytes, with a place between them.  No run has this property, since
TLC would have to search for the bytes; the theorem has its own definition.

`KeptInv` is about the ring: the d-th last packet pushed lies, as far as its slot
goes, where it was put, d slots before the counter, or is nowhere.  A push that leaves
a slot free has found two, so that the slot it writes and the one behind it, into which a
long packet runs, belong to no packet that waits (`PushKept`).  What is read
there begins with the object queued and nothing shorter, since no object begins
another (`ObjectRead`); an object that is cut off at the end of its slot is no
object, and gives none (`FoundOne`).

Assumed of the parameters: what `StreamAssumption`, `LimitsAssumption`,
`SlotAssumption` and `ObjectsAssumption` say, of which TLC evaluates the instance:
frames do not overlap, a descriptor fits its field, a packet is no longer than two
slots, there are two slots at least and fewer than
`}` counts, and an object ends with that brace, which the numbers of the code satisfy.

**MasterServer_proof.**  `TypeCorrect`, `PeerAlwaysReadsAnswers`
(`PeerReadsAnswers`), `ConfirmedChannelAlwaysExists` (`ConfirmedChannelExists`),
`ServiceImplemented` (`Spec => ImplementsService`), for any clients, requests and lengths of frames.  `PeerInv`: the answers to
the requests taken are those done followed by those of the sends still to do
(`Pending(todo[c])`), and while the peer is there its stream is the frames of
the former and the first `count[c]` bytes of the frame in work.  A socket that
breaks leaves a beginning of that behind.  The lemma `HandlerSends` says that
`MasterOnDataFunc` sends the answer, command by command, and `AnswersNext` that
a new request changes no earlier answer, though `AnswerTo` looks back for the
last Listening.  `ChannelInv`: each send still to do that confirms a channel comes after a
`check` or `create` of that channel or finds it there (`Covered`), which a thread
that has passed the test relies on even when another one creates the session first.
The refinement needs `SoughtInv` besides: what is looked for or created has been
asked for by the client last, which holds because a client's groups change only when
it has nothing to do.  Each action has its lemma: `TakeAsks`, `QuietUnseen`,
`CreateOpens`, `SendDelivers`, `FailureDrops`.  In `SendDelivers` a send takes the
last byte of a frame and one more message is whole in the stream (`WholeEnd`), or
it does not and none is (`WholePart`); that the channels of the message are open is
`ChannelInv`, since nothing comes before the first step.
Assumed: `GroupsAssumption`, ids that `int16_t` holds.

**SequenceFacts** has what these two rest on.  `FlattenSeq` is defined by
recursion; that it takes `Append` and `\o` apart (`FlattenAppend`, `FlattenConcat`)
is proved with the least number for which it would fail (`LeastNumber`), which needs
no induction theorem with an operator as parameter.

**Only model-checked.**  All liveness: fairness and ENABLED are out of the prover's
reach.  `BufferNotOverrun` beyond the intact part, for the reason above: it holds in
the instance because that sends few short chunks in a row.  Every other invariant and
action property of the runs that pass is stated by a theorem.

## 5. Where code and comments disagree

* `fifoqueue.cpp:109` says the first packet of the list is returned; with more
  than 20 packets waiting its slot holds a later one (`fifo_overrun`).
* `clientobj.h:58` announces a procedure for packets stuck together or split;
  a split inside the five bytes of the header is not recognised
  (`framing_header_cut`).
* `clientobj.cpp:303` says the layer above is told to delete the object; the
  notice is thrown away if the object is not yet in the map
  (`lifecycle_forgotten`).
* `myprotocol.cpp:264`, "the server runs, so go on listening": not past 65535
  connections (`chain_cap`).
* `myprotocol.h:152`, "listening count": can lag behind by lost increments
  (`chain_race`).  Then slots are overwritten, and `~JProtocol` does not join
  the listener that was in one.
* The interface description (doc, v3.0, 3.3): a call that fails at once is
  followed by CallStart, then CallEnd; CallEnd never comes unasked
  (`serve_failed_call`).
* Without a run: the interface description calls the identifier of a message
  unique and shows replies that repeat the identifier of their request, while
  the code makes a new GUID for every message.  Identifiers are not modelled.
* Without a run: it describes Query (4.1.3) as returning the groups being listened to,
  while the code returns those this client asked for last, though another client may have
  set the same channel since, and though a message of type Reply may have named them,
  which sets nothing.  The sessions know no groups, so that the model has nothing of the
  code's to compare with; `Answer` says what the code returns, and a passing `serve` does
  not mean that the description is kept to.
* Without a run: it spells the type of notifications Notify, the code Noitify
  (`myprotocol.cpp:656, 682`).
* Without a run: the comment at
  `operator<` of `SocketParams_t` names the address where the code compares
  ports (`ClientKeys`).

## 6. Done and not modelled

Modelled in this order: the queue (everything else stands on it) with its
abstract specification and proofs; the framing; the life of connections with its
proofs; the chain of listeners; the application.  Then, on these: the memory of
`jqueue` under the framing, the ring of notices, the registry as an abstract
specification, the keys of `clientmap`, the RTP sessions with the shutdown of the
application, and the proofs of the chain, of wakeups and of the voice, then those of
the framing, of the ring under it and of the application, and with them the
application's abstract service.

Left for a later version:

1. *Sends to all clients*: descriptor 0 under `clientmap_locker`.  Nothing in
   the repository calls it; with it, frames of two threads would share a socket,
   and a peer that does not read would hold the lock.
2. *Retries in MasterServer*: a peer that stops reading while its parse thread
   is in the middle of a frame; in ClientLifecycle it is a reply that never
   ends until the socket is closed.
3. *ClientLifecycle over RtpVoice*: `DeleteGate` is the only point they share, so
   that little is expected from the product of their states.

Left out: jrtplib and JsonWrap (vendored, only headers and binaries; they are
by far the largest part of the repository), the building and parsing of JSON
texts (pure conversions; what they select is modelled in MasterServer), the
wrappers of Winsock beyond the results the callers look at, logging, GUIDs,
and behaviour the language leaves undefined where it depends on the bytes of the
stack (the hazards without a property say which).
