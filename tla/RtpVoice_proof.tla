---------------------------- MODULE RtpVoice_proof ----------------------------
(***************************************************************************)
(* Theorems about RtpVoice, for any number of parse threads and sessions   *)
(* and whatever the peers request.                                         *)
(*                                                                         *)
(* What makes them true is that a channel whose pointer was overwritten,   *)
(* or that a request worked on while the server was being deleted, is left *)
(* out of account: on every other channel one thread at a time is between  *)
(* creating the session and opening the file, so that pointer, session,    *)
(* poll thread, port and file belong together until ~MyMasterServer takes  *)
(* them apart, in this order.                                              *)
(***************************************************************************)
EXTENDS RtpVoice, SequenceTheorems, TLAPS

\* The step each parse thread is at, and its channel.
doing == [t \in Threads |-> IF todo[t] = <<>> THEN "idle" ELSE todo[t][1].op]
of == [t \in Threads |-> IF todo[t] = <<>> THEN 0 ELSE todo[t][1].channel]

\* A step that is followed by the rest of a creation, and what follows it.
Unfinished(a) == a.op \in {"new", "init"} \/ (a.op = "callback" /\ a.channel = 1)
Follows(a, b) ==
    /\ b.channel = a.channel
    /\ a.op = "new" => b.op = "init"
    /\ a.op = "init" => b.op = "callback"
    /\ a.op = "callback" => b.op = "open"

\* The steps of a creation come one after the other, and nothing but the steps
\* of a request comes after them.
Resting == {"check", "test"}
Shape(q) ==
    \A i \in 1 .. Len(q) :
        IF Unfinished(q[i])
        THEN i < Len(q) /\ Follows(q[i], q[i + 1])
        ELSE i < Len(q) => q[i + 1].op \in Resting
ShapeInv ==
    /\ todo \in [Threads -> Seq(Steps)]
    /\ \A t \in Threads : Shape(todo[t])

\* Thread t goes on to step x of channel k, or to the next step of its request.
GoesTo(t, x, k) ==
    /\ doing' = [doing EXCEPT ![t] = x]
    /\ of' = [of EXCEPT ![t] = k]
Rests(t) ==
    GoesTo(t, "idle", 0) \/ \E x \in Resting, k \in Channels : GoesTo(t, x, k)

\* Thread t is at a step of one of these kinds on channel k.
At(t, ops, k) == doing[t] \in ops /\ of[t] = k

\* Only the file of channel 1 is opened.
DoingInv ==
    /\ doing \in [Threads -> Op \cup {"idle"}]
    /\ of \in [Threads -> Channels \cup {0}]
    /\ \A t \in Threads : /\ doing[t] # "idle" => of[t] \in Channels
                          /\ doing[t] = "open" => of[t] = 1

\* What TypeOK says of all variables but todo, asked and fault.
TypeRest ==
    /\ wanted \subseteq Channels
    /\ rtp \in [Channels -> Sessions \cup {0}]
    /\ session \in [Sessions -> {"none", "alive", "freed"}]
    /\ channel \in [Sessions -> Channels \cup {0}]
    /\ bound \in [Channels -> Sessions \cup {0}]
    /\ callback \subseteq Sessions
    /\ flagged \subseteq Sessions
    /\ poll \in [Sessions -> {"none", "polling", "leaving", "ended"}]
    /\ polls \in [Sessions -> Sessions \cup {0}]
    /\ thread_p \in [Sessions -> Sessions \cup {0}]
    /\ fp \in Sessions \cup {0}
    /\ open \subseteq Sessions
    /\ phase \in {"running", "testing", "deleting", "joining", "clearing",
                  "closing", "gate", "gone"}
    /\ at \in Channels
    /\ victim \in Sessions \cup {0}
    /\ joining \in Sessions \cup {0}
    /\ raced \subseteq Channels
    /\ late \subseteq Channels

\* What goes with a session: its channel, poll thread, port and pointer.
SessionInv ==
    /\ \A s \in Sessions :
          /\ session[s] = "none" => channel[s] = 0 /\ thread_p[s] = 0 /\ s \notin callback
          /\ session[s] # "none" => channel[s] \in Channels
          /\ thread_p[s] # 0 => poll[thread_p[s]] # "none" /\ polls[thread_p[s]] = s
    /\ \A k \in Channels :
          /\ rtp[k] # 0 => channel[rtp[k]] = k
          /\ bound[k] # 0 => channel[bound[k]] = k /\ session[bound[k]] = "alive"
    /\ \A p \in Sessions :
          poll[p] # "none" => polls[p] # 0 /\ channel[polls[p]] # 0

\* While the server runs no session is freed or told to stop, and whoever uses
\* one finds it.
RunningInv ==
    phase = "running" =>
        /\ \A s \in Sessions : session[s] # "freed"
        /\ flagged = {}
        /\ \A t \in Threads : \A k \in Channels :
              At(t, {"init", "callback", "open", "voice"}, k) => rtp[k] # 0

\* The session of an undisturbed channel is the one its pointer names, with one
\* poll thread, and one thread creates it.
OwnerInv ==
    \A k \in Channels \ Disturbed :
        /\ \A s \in Sessions : session[s] = "alive" /\ channel[s] = k => rtp[k] = s
        /\ \A p \in Sessions :
              poll[p] \in {"polling", "leaving"} /\ channel[polls[p]] = k
                  => thread_p[polls[p]] = p /\ session[polls[p]] = "alive"
        /\ \A t, u \in Threads :
              At(t, {"init", "callback", "open"}, k) /\ At(u, {"init", "callback", "open"}, k)
                  => t = u
        /\ \A t \in Threads :
              /\ At(t, {"init"}, k) /\ phase = "running" => thread_p[rtp[k]] = 0
              /\ At(t, {"init", "callback"}, k) /\ rtp[k] # 0 => rtp[k] \notin callback

\* How far the creation of its session is.
CreatedInv ==
    \A k \in Channels \ Disturbed :
        phase = "running" =>
            /\ rtp[k] # 0 /\ (\A t \in Threads : ~At(t, {"init"}, k)) =>
                  /\ bound[k] = rtp[k]
                  /\ thread_p[rtp[k]] # 0 /\ poll[thread_p[rtp[k]]] = "polling"
            /\ rtp[k] # 0 /\ (\A t \in Threads : ~At(t, {"init", "callback"}, k))
                  => rtp[k] \in callback
            /\ k \in wanted => rtp[k] # 0 \/ \E t \in Threads : At(t, {"new"}, k)

\* The file of channel 1 is open from the end of the creation until the session
\* is gone.
FileInv ==
    1 \notin Disturbed =>
        /\ open \subseteq {fp}
        /\ rtp[1] # 0 /\ (\A t \in Threads : ~At(t, {"init", "callback", "open"}, 1)) => fp \in open
        /\ \A t \in Threads : At(t, {"init", "callback", "open"}, 1) => open = {}
        /\ rtp[1] = 0 /\ open # {} => at = 1 /\ phase = "closing"

\* How far ~MyMasterServer is with the session it is at, and with those before.
ShutdownInv ==
    /\ phase = "deleting" => rtp[at] # 0
    /\ phase \in {"joining", "clearing"} => victim # 0 /\ channel[victim] = at
    /\ phase = "joining" /\ at \notin Disturbed =>
          victim = rtp[at] /\ joining = thread_p[victim]
    /\ phase = "clearing" => session[victim] = "freed"
    /\ phase = "clearing" /\ at \notin Disturbed => victim = rtp[at]
    /\ phase = "running" => at = 1
    /\ phase \in {"gate", "gone"} => at = 2
    /\ \A k \in Channels \ Disturbed :
          k < at \/ phase \in {"gate", "gone"} \/ (k = at /\ phase = "closing") => rtp[k] = 0

Core == /\ ShapeInv /\ DoingInv /\ TypeRest /\ SessionInv /\ RunningInv
        /\ OwnerInv /\ CreatedInv /\ FileInv /\ ShutdownInv

\* What can have ended the program, and NoFault.
Faults == {"none", "null", "freed", "file", "open"} \X (Channels \cup {0})

\* And what TypeOK says of these two.
TypeOthers ==
    /\ asked \in [Threads -> 0 .. MaxRequests]
    /\ fault \in Faults

\* After a fault nothing happens any more, so that what led to it may be lost.
IInv == /\ TypeOK /\ ShapeInv /\ PollEndsFirst /\ VoiceCleanedUp /\ FaultsExplained
        /\ fault = NoFault => Core

-----------------------------------------------------------------------------
LEMMA NonEmpty ==
    ASSUME NEW q \in Seq(Steps)
    PROVE  q # <<>> <=> Len(q) > 0
BY EmptySeq, LenProperties

LEMMA ShapeTail ==
    ASSUME NEW q \in Seq(Steps), q # <<>>, Shape(q)
    PROVE  /\ Tail(q) \in Seq(Steps)
           /\ Shape(Tail(q))
           /\ Unfinished(q[1]) => Tail(q) # <<>> /\ Follows(q[1], Tail(q)[1])
           /\ ~Unfinished(q[1]) /\ Tail(q) # <<>> => Tail(q)[1].op \in Resting
<1>1. /\ Tail(q) \in Seq(Steps)
      /\ Len(Tail(q)) = Len(q) - 1
      /\ \A i \in 1 .. Len(Tail(q)) : Tail(q)[i] = q[i + 1]
      /\ Len(q) \in Nat \ {0}
  BY HeadTailProperties, EmptySeq
<1>2. ASSUME NEW i \in 1 .. Len(Tail(q))
      PROVE  IF Unfinished(Tail(q)[i])
             THEN i < Len(Tail(q)) /\ Follows(Tail(q)[i], Tail(q)[i + 1])
             ELSE i < Len(Tail(q)) => Tail(q)[i + 1].op \in Resting
  <2>1. /\ i + 1 \in 1 .. Len(q)
        /\ Tail(q)[i] = q[i + 1]
        /\ i < Len(Tail(q)) => Tail(q)[i + 1] = q[(i + 1) + 1]
        /\ i < Len(Tail(q)) <=> i + 1 < Len(q)
    BY <1>1
  <2> QED
    BY <2>1 DEF Shape
<1>3. Shape(Tail(q))
  BY <1>2 DEF Shape
<1> DEFINE d == Tail(q)
<1> HIDE DEF d
<1>4. d # <<>> <=> Len(d) > 0
  BY <1>1, NonEmpty DEF d
<1>5. Tail(q) # <<>> <=> 1 < Len(q)
  BY <1>1, <1>4 DEF d
<1>6. Tail(q) # <<>> => Tail(q)[1] = q[2]
  BY <1>1, <1>5
<1>7. 1 \in 1 .. Len(q)
  BY <1>1
<1> QED
  BY <1>1, <1>3, <1>5, <1>6, <1>7 DEF Shape

LEMMA ShapeConcat ==
    ASSUME NEW c \in Seq(Steps), Shape(c), NEW d \in Seq(Steps), Shape(d),
           d # <<>> => d[1].op \in Resting
    PROVE  /\ c \o d \in Seq(Steps)
           /\ Shape(c \o d)
           /\ c # <<>> => c \o d # <<>> /\ (c \o d)[1] = c[1]
<1> DEFINE r == c \o d
<1>1. /\ r \in Seq(Steps)
      /\ Len(r) = Len(c) + Len(d)
      /\ \A i \in 1 .. Len(r) : r[i] = IF i <= Len(c) THEN c[i] ELSE d[i - Len(c)]
      /\ Len(c) \in Nat /\ Len(d) \in Nat
      /\ c # <<>> => Len(c) > 0
  BY ConcatProperties, LenProperties, EmptySeq
<1> HIDE DEF r
<1>2. Len(d) > 0 => d # <<>>
  BY EmptySeq
<1>3. ASSUME NEW i \in 1 .. Len(r)
      PROVE  IF Unfinished(r[i])
             THEN i < Len(r) /\ Follows(r[i], r[i + 1])
             ELSE i < Len(r) => r[i + 1].op \in Resting
  <2>1. CASE i < Len(c)
    <3>1. r[i] = c[i] /\ r[i + 1] = c[i + 1] /\ i \in 1 .. Len(c) /\ i < Len(r)
      BY <1>1, <2>1
    <3> QED
      BY <2>1, <3>1 DEF Shape
  <2>2. CASE i = Len(c)
    <3>1. r[i] = c[i] /\ i \in 1 .. Len(c)
      BY <1>1, <2>2
    <3>2. ~Unfinished(r[i])
      BY <2>2, <3>1 DEF Shape
    <3>3. i < Len(r) => r[i + 1] = d[1] /\ d # <<>>
      BY <1>1, <1>2, <2>2
    <3> QED
      BY <3>2, <3>3
  <2>3. CASE i > Len(c)
    <3>1. /\ i - Len(c) \in 1 .. Len(d)
          /\ r[i] = d[i - Len(c)]
          /\ i < Len(r) => r[i + 1] = d[(i - Len(c)) + 1]
          /\ i < Len(r) <=> i - Len(c) < Len(d)
      BY <1>1, <2>3
    <3> QED
      BY <3>1 DEF Shape
  <2> QED
    BY <1>1, <2>1, <2>2, <2>3
<1>4. Shape(r)
  BY <1>3 DEF Shape
<1>5. c # <<>> => r # <<>> /\ r[1] = c[1]
  BY <1>1, EmptySeq
<1> QED
  BY <1>1, <1>4, <1>5 DEF r

LEMMA ShapeCreation ==
    ASSUME NEW k \in Channels
    PROVE  /\ Creation(k) \in Seq(Steps) /\ Shape(Creation(k))
           /\ Creation(k) # <<>> /\ Creation(k)[1] = Step("new", k)
<1> DEFINE c == Creation(k)
<1>1. /\ Step("new", k) \in Steps /\ Step("init", k) \in Steps
      /\ Step("callback", k) \in Steps /\ Step("open", k) \in Steps
  BY DEF Steps, Step, Op
<1>2. CASE k = 1
  <2>1. c = <<Step("new", k), Step("init", k), Step("callback", k)>> \o <<Step("open", k)>>
    BY <1>2 DEF Creation
  <2>2. /\ c \in Seq(Steps) /\ Len(c) = 4
        /\ c[1] = Step("new", k) /\ c[2] = Step("init", k)
        /\ c[3] = Step("callback", k) /\ c[4] = Step("open", k)
    BY <1>1, <2>1
  <2> HIDE DEF c
  <2>3. /\ Unfinished(c[1]) /\ Unfinished(c[2]) /\ Unfinished(c[3]) /\ ~Unfinished(c[4])
        /\ Follows(c[1], c[2]) /\ Follows(c[2], c[3]) /\ Follows(c[3], c[4])
    BY <1>2, <2>2 DEF Unfinished, Follows, Step
  <2>4. 1 .. Len(c) = {1, 2, 3, 4}
    BY <2>2
  <2>5. Shape(c)
    BY <2>2, <2>3, <2>4 DEF Shape
  <2>6. c # <<>>
    BY <2>2, NonEmpty
  <2> QED
    BY <2>2, <2>5, <2>6 DEF c
<1>3. CASE k # 1
  <2>1. c = <<Step("new", k), Step("init", k), Step("callback", k)>> \o <<>>
    BY <1>3 DEF Creation
  <2>2. /\ c \in Seq(Steps) /\ Len(c) = 3
        /\ c[1] = Step("new", k) /\ c[2] = Step("init", k) /\ c[3] = Step("callback", k)
    BY <1>1, <2>1
  <2> HIDE DEF c
  <2>3. /\ Unfinished(c[1]) /\ Unfinished(c[2]) /\ ~Unfinished(c[3])
        /\ Follows(c[1], c[2]) /\ Follows(c[2], c[3])
    BY <1>3, <2>2 DEF Unfinished, Follows, Step
  <2>4. 1 .. Len(c) = {1, 2, 3}
    BY <2>2
  <2>5. Shape(c)
    BY <2>2, <2>3, <2>4 DEF Shape
  <2>6. c # <<>>
    BY <2>2, NonEmpty
  <2> QED
    BY <2>2, <2>5, <2>6 DEF c
<1> QED
  BY <1>2, <1>3

LEMMA ShapeVoice ==
    ASSUME NEW k \in Channels
    PROVE  /\ <<Step("voice", k)>> \in Seq(Steps) /\ Shape(<<Step("voice", k)>>)
<1>1. Step("voice", k) \in Steps
  BY DEF Steps, Step, Op
<1> QED
  BY <1>1 DEF Shape, Unfinished, Step

LEMMA ShapeRequest ==
    ASSUME NEW t \in Threads, NEW r \in Requests[t]
    PROVE  /\ r \in Seq(Steps) /\ Shape(r)
           /\ r # <<>> => r[1].op \in Resting
<1> DEFINE R == {Step(op, k) : op \in {"check", "test"}, k \in Channels}
<1>1. r \in Seq(R)
  BY VoiceAssumption
<1>2. R \subseteq Steps
  BY DEF Steps, Step, Op
<1>3. \A a \in R : a.op \in Resting
  BY DEF Step, Resting
<1> HIDE DEF R
<1>4. \A i \in 1 .. Len(r) : r[i] \in R
  BY <1>1, ElementOfSeq
<1>5. \A i \in 1 .. Len(r) : i < Len(r) => i + 1 \in 1 .. Len(r)
  BY <1>1, LenProperties
<1>6. Shape(r)
  BY <1>3, <1>4, <1>5 DEF Shape, Unfinished, Resting
<1>7. r # <<>> => 1 \in 1 .. Len(r)
  BY <1>1, EmptySeq
<1> QED
  BY <1>1, <1>2, <1>3, <1>4, <1>6, <1>7, SeqMonotonic

-----------------------------------------------------------------------------
\* What the step of a thread makes of doing and of.
LEMMA TodoStep ==
    ASSUME ShapeInv, NEW t \in Threads, NEW q \in Seq(Steps), Shape(q),
           todo' = [todo EXCEPT ![t] = q]
    PROVE  /\ ShapeInv'
           /\ q = <<>> => GoesTo(t, "idle", 0)
           /\ q # <<>> => GoesTo(t, q[1].op, q[1].channel)
<1>1. /\ todo' \in [Threads -> Seq(Steps)]
      /\ todo'[t] = q
      /\ \A u \in Threads \ {t} : todo'[u] = todo[u]
  BY DEF ShapeInv
<1>2. ShapeInv'
  BY <1>1 DEF ShapeInv
<1>3. /\ doing' = [u \in Threads |-> IF todo'[u] = <<>> THEN "idle" ELSE todo'[u][1].op]
      /\ of' = [u \in Threads |-> IF todo'[u] = <<>> THEN 0 ELSE todo'[u][1].channel]
  BY DEF doing, of
<1>4. CASE q = <<>>
  BY <1>1, <1>2, <1>3, <1>4 DEF GoesTo, doing, of
<1>5. CASE q # <<>>
  BY <1>1, <1>2, <1>3, <1>5 DEF GoesTo, doing, of
<1> QED
  BY <1>4, <1>5

LEMMA HeadOf ==
    ASSUME ShapeInv, NEW t \in Threads, todo[t] # <<>>
    PROVE  /\ Head(todo[t]) = todo[t][1] /\ todo[t][1] \in Steps
           /\ doing[t] = todo[t][1].op /\ of[t] = todo[t][1].channel
           /\ Subject(t) = of[t] /\ of[t] \in Channels
<1>1. todo[t] \in Seq(Steps)
  BY DEF ShapeInv
<1>2. 1 \in 1 .. Len(todo[t])
  BY <1>1, EmptySeq
<1>3. todo[t][1] \in Steps
  BY <1>1, <1>2, ElementOfSeq
<1>4. Head(todo[t]) = todo[t][1]
  BY <1>1
<1> QED
  BY <1>3, <1>4 DEF doing, of, Subject, Steps

\* A step that nothing is put before what remains.
LEMMA StepDone ==
    ASSUME ShapeInv, NEW t \in Threads, NEW op, Perform(t, op, <<>>)
    PROVE  /\ ShapeInv'
           /\ doing[t] = op /\ of[t] = Subject(t) /\ of[t] \in Channels
           /\ op = "new" => GoesTo(t, "init", of[t])
           /\ op = "init" => GoesTo(t, "callback", of[t])
           /\ op = "callback" /\ of[t] = 1 => GoesTo(t, "open", 1)
           /\ op \notin {"new", "init", "callback"} => Rests(t)
           /\ op = "callback" /\ of[t] # 1 => Rests(t)
<1> DEFINE d == Tail(todo[t])
<1>1. todo[t] \in Seq(Steps) /\ todo[t] # <<>> /\ Shape(todo[t])
  BY DEF ShapeInv, Perform
<1>2. /\ Head(todo[t]) = todo[t][1] /\ todo[t][1] \in Steps
      /\ doing[t] = op /\ todo[t][1].op = op /\ todo[t][1].channel = of[t]
      /\ of[t] = Subject(t) /\ of[t] \in Channels
  BY <1>1, HeadOf DEF Perform
<1>3. /\ d \in Seq(Steps) /\ Shape(d)
      /\ Unfinished(todo[t][1]) => d # <<>> /\ Follows(todo[t][1], d[1])
      /\ ~Unfinished(todo[t][1]) /\ d # <<>> => d[1].op \in Resting
  BY <1>1, ShapeTail
<1>4. todo' = [todo EXCEPT ![t] = d]
  <2>1. todo' = [todo EXCEPT ![t] = <<>> \o d]
    BY DEF Perform
  <2> QED
    BY <1>3, <2>1, ConcatEmptySeq
<1> HIDE DEF d
<1>5. /\ ShapeInv'
      /\ d = <<>> => GoesTo(t, "idle", 0)
      /\ d # <<>> => GoesTo(t, d[1].op, d[1].channel)
  BY <1>3, <1>4, TodoStep
<1>6. d # <<>> => d[1].channel \in Channels
  <2>1. d # <<>> => d[1] \in Steps
    BY <1>3, EmptySeq, ElementOfSeq
  <2> QED
    BY <2>1 DEF Steps
<1>7. ASSUME ~Unfinished(todo[t][1]) PROVE Rests(t)
  BY <1>3, <1>5, <1>6, <1>7 DEF Rests
<1> QED
  BY <1>2, <1>3, <1>5, <1>7 DEF Unfinished, Follows

\* A step that others are put before what remains.
LEMMA StepSplit ==
    ASSUME ShapeInv, NEW t \in Threads, NEW op \in Resting, NEW c \in Seq(Steps),
           Shape(c), c # <<>>, Perform(t, op, c)
    PROVE  /\ ShapeInv'
           /\ doing[t] = op /\ of[t] = Subject(t) /\ of[t] \in Channels
           /\ GoesTo(t, c[1].op, c[1].channel)
<1> DEFINE d == Tail(todo[t])
           r == c \o d
<1>1. todo[t] \in Seq(Steps) /\ todo[t] # <<>> /\ Shape(todo[t])
  BY DEF ShapeInv, Perform
<1>2. /\ Head(todo[t]) = todo[t][1] /\ doing[t] = op /\ todo[t][1].op = op
      /\ of[t] = Subject(t) /\ of[t] \in Channels
  BY <1>1, HeadOf DEF Perform
<1>3. ~Unfinished(todo[t][1])
  BY <1>2 DEF Unfinished, Resting
<1>4. /\ d \in Seq(Steps) /\ Shape(d)
      /\ d # <<>> => d[1].op \in Resting
  BY <1>1, <1>3, ShapeTail
<1>5. todo' = [todo EXCEPT ![t] = r]
  BY DEF Perform
<1> HIDE DEF d
<1>6. r \in Seq(Steps) /\ Shape(r) /\ r # <<>> /\ r[1] = c[1]
  BY <1>4, ShapeConcat
<1> HIDE DEF r
<1> QED
  BY <1>2, <1>5, <1>6, TodoStep

-----------------------------------------------------------------------------
LEMMA CoreInit == Init => Core
<1> SUFFICES ASSUME Init PROVE Core
  OBVIOUS
<1> USE VoiceAssumption DEF Init
<1>1. todo \in [Threads -> Seq(Steps)] /\ \A t \in Threads : todo[t] = <<>>
  BY EmptySeq
<1>2. ShapeInv
  BY <1>1, EmptySeq DEF ShapeInv, Shape
<1>3. /\ doing = [t \in Threads |-> "idle"]
      /\ of = [t \in Threads |-> 0]
  BY <1>1 DEF doing, of
<1>4. DoingInv
  BY <1>3 DEF DoingInv
<1>5. TypeRest
  BY DEF TypeRest, Channels
<1>6. SessionInv
  BY DEF SessionInv
<1>7. RunningInv
  BY <1>3 DEF RunningInv, At
<1>8. OwnerInv
  BY <1>3 DEF OwnerInv, At
<1>9. CreatedInv
  BY DEF CreatedInv
<1>10. FileInv
  BY <1>3 DEF FileInv, Channels, At
<1>11. ShutdownInv
  BY DEF ShutdownInv, Channels
<1> QED
  BY <1>2, <1>4, <1>5, <1>6, <1>7, <1>8, <1>9, <1>10, <1>11 DEF Core

\* A session is created where the pointer is NULL, or the channel counts as
\* disturbed.
LEMMA NewSessionStep ==
    ASSUME Core, NEW t \in Threads, NewSession(t)
    PROVE  Core'
<1> USE DEF Core
<1>1. /\ doing[t] = "new"
      /\ of[t] \in Channels
      /\ late' = IF phase = "running" THEN late ELSE late \cup {of[t]}
      /\ GoesTo(t, "init", of[t])
      /\ \E s \in Sessions :
            /\ session[s] = "none"
            /\ session' = [session EXCEPT ![s] = "alive"]
            /\ channel' = [channel EXCEPT ![s] = of[t]]
            /\ rtp' = [rtp EXCEPT ![of[t]] = s]
      /\ raced' = IF rtp[of[t]] = 0 THEN raced ELSE raced \cup {of[t]}
      /\ UNCHANGED <<wanted, callback, flagged, thread_p, bound,
                    poll, polls, fp, open, phase, at, victim, joining>>
  BY StepDone DEF NewSession, Perform, threadVars, sessionVars, pollVars,
     fileVars, mainVars, Named, Usable
<1>2. ShapeInv'
  BY StepDone DEF NewSession
<1> DEFINE k == of[t]
<1>3. PICK s \in Sessions :
             /\ session[s] = "none"
             /\ session' = [session EXCEPT ![s] = "alive"]
             /\ channel' = [channel EXCEPT ![s] = k]
             /\ rtp' = [rtp EXCEPT ![k] = s]
  BY <1>1
<1>4. /\ k \in Channels /\ s # 0
      /\ channel[s] = 0 /\ thread_p[s] = 0 /\ s \notin callback
      /\ \A c \in Channels : rtp'[c] = IF c = k THEN s ELSE rtp[c]
      /\ \A r \in Sessions : session'[r] = IF r = s THEN "alive" ELSE session[r]
      /\ \A r \in Sessions : channel'[r] = IF r = s THEN k ELSE channel[r]
  BY <1>1, <1>3 DEF TypeRest, SessionInv, Sessions
<1>5. \A c \in Channels \ Disturbed' :
          c \notin Disturbed /\ (c = k => rtp[c] = 0 /\ phase = "running")
  BY <1>1, <1>3, <1>4 DEF TypeRest, Disturbed
<1>6. /\ rtp' \in [Channels -> Sessions \cup {0}]
      /\ session' \in [Sessions -> {"none", "alive", "freed"}]
      /\ channel' \in [Sessions -> Channels \cup {0}]
  BY <1>1, <1>3, <1>4 DEF TypeRest
<1>7. raced' \subseteq Channels /\ late' \subseteq Channels
  BY <1>1, <1>4 DEF TypeRest
<1>8. TypeRest'
  BY <1>1, <1>6, <1>7 DEF TypeRest
<1>9. DoingInv'
  BY <1>1 DEF At, GoesTo, Rests, Resting, Disturbed, Channels, NextChannel, Op,
     DoingInv, TypeRest
<1>10. SessionInv'
  BY <1>1 DEF At, GoesTo, Rests, Resting, Disturbed, Channels, NextChannel, Op,
     SessionInv, TypeRest, DoingInv
<1>11. RunningInv'
  <2>1. /\ \A u \in Threads : doing'[u] = IF u = t THEN "init" ELSE doing[u]
        /\ \A u \in Threads : of'[u] = of[u]
    BY <1>1 DEF GoesTo, DoingInv
  <2> QED
    BY <1>1, <1>4, <2>1 DEF RunningInv, At
<1>12. OwnerInv'
  <2>1. /\ \A p \in Sessions : poll[p] # "none" => polls[p] \in Sessions /\ polls[p] # s
    BY <1>1, <1>4 DEF TypeRest, SessionInv
  <2>2. /\ \A u \in Threads : doing'[u] = IF u = t THEN "init" ELSE doing[u]
        /\ \A u \in Threads : of'[u] = of[u]
    BY <1>1 DEF GoesTo, DoingInv
  <2>3. ASSUME NEW c \in Channels \ Disturbed', NEW r \in Sessions, session'[r] = "alive", channel'[r] = c
        PROVE  rtp'[c] = r
    BY <1>1, <1>4, <1>5, <2>3 DEF OwnerInv, TypeRest, Sessions
  <2>4. ASSUME NEW c \in Channels \ Disturbed', NEW p \in Sessions,
               poll[p] \in {"polling", "leaving"}, channel'[polls[p]] = c
        PROVE  thread_p[polls[p]] = p /\ session'[polls[p]] = "alive"
    BY <1>1, <1>4, <1>5, <2>1, <2>4 DEF OwnerInv
  <2>5. ASSUME NEW c \in Channels \ Disturbed', NEW u \in Threads \ {t}, c = k
        PROVE  ~At(u, {"init", "callback", "open"}, c)
    BY <1>1, <1>5, <2>5 DEF RunningInv, At
  <2>6. ASSUME NEW c \in Channels \ Disturbed', NEW u \in Threads, NEW v \in Threads,
               At(u, {"init", "callback", "open"}, c)', At(v, {"init", "callback", "open"}, c)'
        PROVE  u = v
    BY <1>1, <1>5, <2>2, <2>5, <2>6 DEF OwnerInv, At
  <2>7. ASSUME NEW c \in Channels \ Disturbed', NEW u \in Threads
         PROVE /\ At(u, {"init"}, c)' /\ phase' = "running" => thread_p'[rtp'[c]] = 0
               /\ At(u, {"init", "callback"}, c)' /\ rtp'[c] # 0 => rtp'[c] \notin callback'
    BY <1>1, <1>4, <1>5, <2>2, <2>5 DEF OwnerInv, At
  <2> QED
    BY <1>1, <2>3, <2>4, <2>6, <2>7 DEF OwnerInv
<1>13. CreatedInv'
  <2>1. /\ \A u \in Threads : doing'[u] = IF u = t THEN "init" ELSE doing[u]
        /\ \A u \in Threads : of'[u] = of[u]
    BY <1>1 DEF GoesTo, DoingInv
  <2>2. At(t, {"init"}, k)' /\ doing[t] = "new"
    BY <1>1, <2>1 DEF At
  <2> QED
    BY <1>1, <1>4, <1>5, <2>1, <2>2 DEF CreatedInv, At
<1>14. FileInv'
  BY <1>1 DEF At, GoesTo, Rests, Resting, Disturbed, Channels, NextChannel, Op,
     FileInv, TypeRest, DoingInv
<1>15. ShutdownInv'
  <2>1. /\ phase \in {"joining", "clearing"} => victim # s /\ victim \in Sessions
    BY <1>1, <1>4 DEF TypeRest, ShutdownInv, Channels
  <2>2. phase = "deleting" => rtp'[at] # 0
    BY <1>1, <1>4 DEF ShutdownInv, TypeRest
  <2>3. ASSUME NEW c \in Channels \ Disturbed'
        PROVE  c < at \/ phase \in {"gate", "gone"} \/ (c = at /\ phase = "closing") => rtp'[c] = 0
    BY <1>1, <1>4, <1>5 DEF ShutdownInv, TypeRest, Channels
  <2> QED
    BY <1>1, <1>4, <1>5, <2>1, <2>2, <2>3 DEF ShutdownInv, TypeRest
<1> QED
  BY <1>2, <1>8, <1>9, <1>10, <1>11, <1>12, <1>13, <1>14, <1>15

\* The session the pointer names gets the port and its poll thread.
LEMMA InitSessionStep ==
    ASSUME Core, NEW t \in Threads, InitSession(t)
    PROVE  Core'
<1> USE DEF Core
<1>1. /\ doing[t] = "init"
      /\ of[t] \in Channels
      /\ late' = IF phase = "running" THEN late ELSE late \cup {of[t]}
      /\ GoesTo(t, "callback", of[t])
      /\ rtp[of[t]] \in Sessions
      /\ session[rtp[of[t]]] = "alive"
      /\ bound' = [bound EXCEPT ![of[t]] = IF bound[of[t]] = 0 THEN rtp[of[t]] ELSE bound[of[t]]]
      /\ \E p \in Sessions :
            /\ poll[p] = "none"
            /\ poll' = [poll EXCEPT ![p] = "polling"]
            /\ polls' = [polls EXCEPT ![p] = rtp[of[t]]]
            /\ thread_p' = [thread_p EXCEPT ![rtp[of[t]]] = p]
      /\ UNCHANGED <<wanted, rtp, session, channel, callback,
                    flagged, fp, open, phase, at, victim, joining, raced>>
  BY StepDone DEF InitSession, Perform, threadVars, sessionVars, pollVars,
     fileVars, mainVars, Named, Usable
<1>2. ShapeInv'
  BY StepDone DEF InitSession
<1> DEFINE k == of[t]
           s == rtp[k]
<1>3. PICK p \in Sessions :
             /\ poll[p] = "none"
             /\ poll' = [poll EXCEPT ![p] = "polling"]
             /\ polls' = [polls EXCEPT ![p] = s]
             /\ thread_p' = [thread_p EXCEPT ![s] = p]
  BY <1>1
<1>4. /\ k \in Channels /\ s \in Sessions /\ s # 0 /\ p # 0 /\ channel[s] = k
      /\ \A q \in Sessions : poll'[q] = IF q = p THEN "polling" ELSE poll[q]
      /\ \A q \in Sessions : polls'[q] = IF q = p THEN s ELSE polls[q]
      /\ \A r \in Sessions : thread_p'[r] = IF r = s THEN p ELSE thread_p[r]
      /\ \A c \in Channels : bound'[c] = IF c = k /\ bound[c] = 0 THEN s ELSE bound[c]
  BY <1>1, <1>3 DEF TypeRest, SessionInv, Sessions
<1>5. \A c \in Channels \ Disturbed' : c \notin Disturbed /\ (c = k => phase = "running")
  BY <1>1, <1>4 DEF TypeRest, Disturbed
<1>6. /\ \A u \in Threads : doing'[u] = IF u = t THEN "callback" ELSE doing[u]
      /\ \A u \in Threads : of'[u] = of[u]
  BY <1>1 DEF GoesTo, DoingInv
<1>7. UNCHANGED <<wanted, rtp, session, channel, callback, phase>>
  BY <1>1
<1>8. /\ bound' \in [Channels -> Sessions \cup {0}]
      /\ poll' \in [Sessions -> {"none", "polling", "leaving", "ended"}]
      /\ polls' \in [Sessions -> Sessions \cup {0}]
      /\ thread_p' \in [Sessions -> Sessions \cup {0}]
  BY <1>1, <1>3, <1>4 DEF TypeRest
<1>9. late' \subseteq Channels
  BY <1>1, <1>4 DEF TypeRest
<1>10. TypeRest'
  BY <1>1, <1>8, <1>9 DEF TypeRest
<1> HIDE DEF k, s
<1>11. DoingInv'
  BY <1>1 DEF At, GoesTo, Rests, Resting, Disturbed, Channels, NextChannel, Op,
     DoingInv, TypeRest
<1>12. SessionInv'
  <2>1. session[s] = "alive"
    BY <1>1 DEF s, k
  <2>2. ASSUME NEW r \in Sessions, thread_p'[r] # 0
        PROVE  poll'[thread_p'[r]] # "none" /\ polls'[thread_p'[r]] = r
    BY <1>1, <1>3, <1>4, <2>2 DEF SessionInv, TypeRest
  <2>3. ASSUME NEW c \in Channels, bound'[c] # 0
        PROVE  channel[bound'[c]] = c /\ session[bound'[c]] = "alive"
    BY <1>1, <1>4, <2>1, <2>3 DEF SessionInv
  <2>4. ASSUME NEW q \in Sessions, poll'[q] # "none"
        PROVE  polls'[q] # 0 /\ channel[polls'[q]] # 0
    BY <1>1, <1>4, <2>4 DEF SessionInv, Channels
  <2> QED
    BY <1>1, <1>4, <1>7, <2>1, <2>2, <2>3, <2>4 DEF SessionInv
<1>13. RunningInv'
  BY <1>1 DEF At, GoesTo, Rests, Resting, Disturbed, Channels, NextChannel, Op,
     RunningInv, TypeRest, DoingInv
<1>14. OwnerInv'
  <2>1. doing[t] = "init" /\ session[s] = "alive" /\ k = of[t] /\ rtp[k] = s
    BY <1>1 DEF s, k
  <2>2. \A c \in Channels \ Disturbed' : c = k => thread_p[s] = 0 /\ s \notin callback
    BY <1>1, <1>4, <1>5, <2>1 DEF OwnerInv, At
  <2>3. \A q \in Sessions : poll[q] # "none" => polls[q] \in Sessions
    BY <1>1 DEF SessionInv, TypeRest
  <2>4. ASSUME NEW c \in Channels \ Disturbed', NEW q \in Sessions,
               poll'[q] \in {"polling", "leaving"}, channel[polls'[q]] = c
        PROVE  thread_p'[polls'[q]] = q /\ session[polls'[q]] = "alive"
    <3>1. CASE q = p
      BY <1>1, <1>4, <2>1, <3>1
    <3>2. CASE q # p
      <4>1. thread_p[polls[q]] = q /\ session[polls[q]] = "alive" /\ polls[q] \in Sessions
        BY <1>1, <1>4, <1>5, <2>3, <2>4, <3>2 DEF OwnerInv
      <4>2. polls[q] # s
        BY <1>1, <1>4, <1>5, <2>2, <2>4, <3>2, <4>1 DEF Sessions
      <4> QED
        BY <1>1, <1>4, <3>2, <4>1, <4>2
    <3> QED
      BY <1>1, <3>1, <3>2
  <2>5. ASSUME NEW c \in Channels \ Disturbed', NEW u \in Threads, NEW v \in Threads,
               At(u, {"init", "callback", "open"}, c)', At(v, {"init", "callback", "open"}, c)'
        PROVE  u = v
    BY <1>1, <1>5, <1>6, <2>1, <2>5 DEF OwnerInv, At
  <2>6. ASSUME NEW c \in Channels \ Disturbed', NEW u \in Threads, At(u, {"init"}, c)', phase = "running"
         PROVE  thread_p'[rtp[c]] = 0
    <3>1. u # t /\ At(u, {"init"}, c)
      BY <1>1, <1>6, <2>6 DEF At
    <3>2. c # k
      BY <1>1, <1>5, <2>1, <3>1 DEF OwnerInv, At
    <3>3. thread_p[rtp[c]] = 0
      BY <1>1, <1>5, <2>6, <3>1 DEF OwnerInv
    <3>4. rtp[c] # 0 /\ rtp[c] \in Sessions
      BY <1>1, <1>5, <2>6, <3>1 DEF RunningInv, TypeRest, At
    <3>5. rtp[c] # s
      BY <1>1, <1>4, <2>1, <3>2, <3>4 DEF SessionInv
    <3> QED
      BY <1>1, <1>4, <3>3, <3>4, <3>5
  <2>7. ASSUME NEW c \in Channels \ Disturbed', NEW u \in Threads,
                At(u, {"init", "callback"}, c)', rtp[c] # 0
         PROVE  rtp[c] \notin callback
    BY <1>1, <1>5, <1>6, <2>1, <2>2, <2>7 DEF OwnerInv, At
  <2>8. \A c \in Channels \ Disturbed' : \A r \in Sessions :
            session[r] = "alive" /\ channel[r] = c => rtp[c] = r
    BY <1>1, <1>5 DEF OwnerInv
  <2> QED
    BY <1>1, <1>7, <2>4, <2>5, <2>6, <2>7, <2>8 DEF OwnerInv
<1>15. CreatedInv'
  <2>1. doing[t] = "init" /\ session[s] = "alive" /\ k = of[t] /\ rtp[k] = s
    BY <1>1 DEF s, k
  <2>2. ASSUME NEW c \in Channels \ Disturbed', phase = "running", rtp[c] # 0,
               \A u \in Threads : ~At(u, {"init"}, c)'
        PROVE  /\ bound'[c] = rtp[c]
               /\ thread_p'[rtp[c]] # 0 /\ poll'[thread_p'[rtp[c]]] = "polling"
    <3>1. CASE c = k
      <4>1. bound[c] # 0 => bound[c] = s
        BY <1>1, <1>5, <2>1, <3>1 DEF SessionInv, OwnerInv, TypeRest
      <4> QED
        BY <1>1, <1>4, <2>1, <3>1, <4>1
    <3>2. CASE c # k
      <4>1. \A u \in Threads : ~At(u, {"init"}, c)
        BY <1>1, <1>6, <2>1, <2>2, <3>2 DEF At
      <4>2. bound[c] = rtp[c] /\ thread_p[rtp[c]] # 0 /\ poll[thread_p[rtp[c]]] = "polling"
        BY <1>1, <1>5, <2>2, <4>1 DEF CreatedInv
      <4>3. rtp[c] \in Sessions /\ rtp[c] # s
        BY <1>1, <1>4, <2>2, <3>2 DEF SessionInv, TypeRest
      <4>4. thread_p[rtp[c]] \in Sessions /\ thread_p[rtp[c]] # p
        BY <1>1, <1>3, <4>2, <4>3 DEF TypeRest
      <4> QED
        BY <1>1, <1>4, <3>2, <4>2, <4>3, <4>4
    <3> QED
      BY <1>1, <3>1, <3>2
  <2>3. ASSUME NEW c \in Channels \ Disturbed', phase = "running", rtp[c] # 0,
               \A u \in Threads : ~At(u, {"init", "callback"}, c)'
        PROVE  rtp[c] \in callback
    BY <1>1, <1>5, <1>6, <2>1, <2>3 DEF CreatedInv, At
  <2>4. ASSUME NEW c \in Channels \ Disturbed', phase = "running", c \in wanted
        PROVE  rtp[c] # 0 \/ \E u \in Threads : At(u, {"new"}, c)'
    BY <1>1, <1>5, <1>6, <2>1, <2>4 DEF CreatedInv, At
  <2> QED
    BY <1>1, <1>7, <2>2, <2>3, <2>4 DEF CreatedInv
<1>16. FileInv'
  BY <1>1 DEF At, GoesTo, Rests, Resting, Disturbed, Channels, NextChannel, Op,
     FileInv, TypeRest, DoingInv
<1>17. ShutdownInv'
  BY <1>1 DEF At, GoesTo, Rests, Resting, Disturbed, Channels, NextChannel, Op,
     ShutdownInv, TypeRest, DoingInv, SessionInv
<1> QED
  BY <1>2, <1>10, <1>11, <1>12, <1>13, <1>14, <1>15, <1>16, <1>17

\* The session that is freed is the one of its channel, whose poll thread has
\* ended.
LEMMA JoinPollStep ==
    ASSUME Core, JoinPoll
    PROVE  Core'
<1> USE DEF Core
<1>1. /\ doing' = doing /\ of' = of
      /\ phase = "joining"
      /\ joining # 0 => poll[joining] = "ended"
      /\ phase' = "clearing"
      /\ session' = [session EXCEPT ![victim] = "freed"]
      /\ bound' = [k \in Channels |-> IF bound[k] = victim THEN 0 ELSE bound[k]]
      /\ UNCHANGED <<wanted, late, rtp, channel, callback, flagged,
                    thread_p, poll, polls, fp, open, at, victim, joining,
                    raced>>
  BY DEF JoinPoll, doing, of, threadVars, sessionVars, pollVars, fileVars,
     mainVars
<1>2. ShapeInv'
  BY DEF JoinPoll, ShapeInv, threadVars
<1>3. DoingInv'
  BY <1>1 DEF At, GoesTo, Rests, Resting, Disturbed, Channels, NextChannel, Op,
     DoingInv, TypeRest
<1>4. TypeRest'
  BY <1>1 DEF At, GoesTo, Rests, Resting, Disturbed, Channels, NextChannel, Op,
     TypeRest, DoingInv
<1>5. SessionInv'
  BY <1>1 DEF At, GoesTo, Rests, Resting, Disturbed, Channels, NextChannel, Op,
     SessionInv, TypeRest, DoingInv, ShutdownInv
<1>6. RunningInv'
  BY <1>1 DEF At, GoesTo, Rests, Resting, Disturbed, Channels, NextChannel, Op,
     RunningInv, TypeRest, DoingInv
<1>7. OwnerInv'
  <2>1. /\ victim \in Sessions /\ channel[victim] = at
        /\ at \notin Disturbed => victim = rtp[at] /\ joining = thread_p[victim]
    BY <1>1 DEF ShutdownInv, TypeRest
  <2>2. \A r \in Sessions : session'[r] = IF r = victim THEN "freed" ELSE session[r]
    BY <1>1, <2>1 DEF TypeRest
  <2>3. /\ Disturbed' = Disturbed
        /\ UNCHANGED <<rtp, channel, callback, thread_p, poll, polls>>
    BY <1>1 DEF Disturbed
  <2>4. ASSUME NEW c \in Channels \ Disturbed, NEW p \in Sessions,
               poll[p] \in {"polling", "leaving"}, channel[polls[p]] = c
        PROVE  thread_p[polls[p]] = p /\ session'[polls[p]] = "alive"
    <3>1. thread_p[polls[p]] = p /\ session[polls[p]] = "alive" /\ polls[p] \in Sessions
      BY <1>1, <2>4 DEF OwnerInv, SessionInv, TypeRest
    <3>2. ASSUME polls[p] = victim PROVE FALSE
      <4>1. c = at /\ joining = p
        BY <1>1, <2>1, <2>4, <3>1, <3>2
      <4>2. poll[p] = "ended"
        BY <1>1, <4>1 DEF Sessions
      <4> QED
        BY <1>1, <2>4, <4>2
    <3> QED
      BY <1>1, <2>2, <3>1, <3>2
  <2>5. ASSUME NEW c \in Channels \ Disturbed
        PROVE  /\ \A r \in Sessions : session'[r] = "alive" /\ channel[r] = c => rtp[c] = r
               /\ \A t, u \in Threads :
                     At(t, {"init", "callback", "open"}, c)' /\ At(u, {"init", "callback", "open"}, c)'
                        => t = u
               /\ \A t \in Threads :
                     /\ At(t, {"init"}, c)' /\ phase' = "running" => thread_p[rtp[c]] = 0
                     /\ At(t, {"init", "callback"}, c)' /\ rtp[c] # 0 => rtp[c] \notin callback
    BY <1>1, <2>2 DEF OwnerInv, At
  <2> QED
    BY <1>1, <2>3, <2>4, <2>5 DEF OwnerInv
<1>8. CreatedInv'
  BY <1>1 DEF At, GoesTo, Rests, Resting, Disturbed, Channels, NextChannel, Op,
     CreatedInv, TypeRest, DoingInv
<1>9. FileInv'
  BY <1>1 DEF At, GoesTo, Rests, Resting, Disturbed, Channels, NextChannel, Op,
     FileInv, TypeRest, DoingInv
<1>10. ShutdownInv'
  BY <1>1 DEF At, GoesTo, Rests, Resting, Disturbed, Channels, NextChannel, Op,
     ShutdownInv, TypeRest, DoingInv
<1> QED
  BY <1>2, <1>3, <1>4, <1>5, <1>6, <1>7, <1>8, <1>9, <1>10

LEMMA CoreStep ==
    ASSUME Core,
           \/ \E t \in Threads :
                 \/ Take(t) \/ CheckChannel(t) \/ NewSession(t) \/ InitSession(t)
                 \/ SetCallBackFunc(t) \/ OpenFile(t) \/ TestSession(t) \/ SendVoice(t)
           \/ \E p \in Sessions : PollStops(p) \/ ByeDestroy(p)
           \/ Quit \/ Delete
    PROVE  Core'
<1> USE DEF Core, At, GoesTo, Rests, Resting, Disturbed, Channels, NextChannel, Op
<1>1. ASSUME NEW t \in Threads, Take(t) PROVE Core'
  <2>1. PICK r \in Requests[t] : todo' = [todo EXCEPT ![t] = r]
    BY <1>1 DEF Take
  <2>2. /\ r \in Seq(Steps) /\ Shape(r)
        /\ r # <<>> => r[1].op \in Resting /\ r[1] \in Steps
    BY ShapeRequest, EmptySeq, ElementOfSeq
  <2>3. /\ ShapeInv'
        /\ r = <<>> => GoesTo(t, "idle", 0)
        /\ r # <<>> => GoesTo(t, r[1].op, r[1].channel)
    BY <2>1, <2>2, TodoStep
  <2>4. Rests(t)
    BY <2>2, <2>3 DEF Rests, Steps
  <2>5. /\ doing[t] = "idle"
        /\ phase # "gone"
        /\ UNCHANGED <<wanted, late, rtp, session, channel,
                      callback, flagged, thread_p, bound, poll, polls, fp,
                      open, phase, at, victim, joining, raced>>
    BY <1>1 DEF Take, doing, threadVars, sessionVars, pollVars, fileVars, mainVars
  <2>6. DoingInv' /\ TypeRest' /\ SessionInv' /\ RunningInv' /\ OwnerInv' /\
        CreatedInv' /\ FileInv' /\ ShutdownInv'
    BY <2>4, <2>5 DEF DoingInv, TypeRest, SessionInv, RunningInv, OwnerInv, CreatedInv,
       FileInv, ShutdownInv
  <2> QED
    BY <2>3, <2>6
<1>2. ASSUME NEW t \in Threads, CheckChannel(t) PROVE Core'
  <2>1. /\ todo[t] # <<>> /\ Head(todo[t]).op = "check"
        /\ doing[t] = "check" /\ of[t] = Subject(t) /\ of[t] \in Channels
    BY <1>2, HeadOf DEF CheckChannel, Perform
  <2>2. ASSUME rtp[of[t]] = 0
        PROVE  ShapeInv' /\ GoesTo(t, "new", of[t])
    <3>1. Perform(t, "check", Creation(of[t]))
      BY <1>2, <2>1, <2>2 DEF CheckChannel, Named
    <3> DEFINE c == Creation(of[t])
    <3>2. c \in Seq(Steps) /\ Shape(c) /\ c # <<>> /\ c[1] = Step("new", of[t])
      BY <2>1, ShapeCreation
    <3> HIDE DEF c
    <3>3. Perform(t, "check", c)
      BY <3>1 DEF c
    <3>4. ShapeInv' /\ GoesTo(t, c[1].op, c[1].channel)
      BY <3>2, <3>3, StepSplit DEF Resting
    <3> QED
      BY <2>2, <3>2, <3>4 DEF Step
  <2>3. ASSUME rtp[of[t]] # 0
        PROVE  ShapeInv' /\ Rests(t)
    <3>1. Perform(t, "check", <<>>)
      BY <1>2, <2>1, <2>3 DEF CheckChannel, Named
    <3> QED
      BY <3>1, StepDone
  <2>4. /\ late' = IF phase = "running" THEN late ELSE late \cup {of[t]}
        /\ rtp[of[t]] = 0 => GoesTo(t, "new", of[t])
        /\ rtp[of[t]] # 0 => Rests(t)
        /\ wanted' = wanted \cup {of[t]}
        /\ UNCHANGED <<rtp, session, channel, callback, flagged,
                      thread_p, bound, poll, polls, fp, open, phase, at,
                      victim, joining, raced>>
    BY <1>2, <2>1, <2>2, <2>3 DEF CheckChannel, Perform, threadVars,
       sessionVars, pollVars, fileVars, mainVars
  <2>5. ShapeInv'
    BY <2>2, <2>3
  <2>6. DoingInv'
    BY <2>1, <2>4 DEF DoingInv, TypeRest
  <2>7. TypeRest'
    BY <2>1, <2>4 DEF DoingInv, TypeRest
  <2>8. SessionInv'
    BY <2>1, <2>4 DEF DoingInv, TypeRest, SessionInv
  <2>9. RunningInv'
    BY <2>1, <2>4 DEF DoingInv, TypeRest, RunningInv
  <2>10. OwnerInv'
    BY <2>1, <2>4 DEF DoingInv, TypeRest, OwnerInv
  <2>11. CreatedInv'
    BY <2>1, <2>4 DEF DoingInv, TypeRest, CreatedInv
  <2>12. FileInv'
    BY <2>1, <2>4 DEF DoingInv, TypeRest, FileInv
  <2>13. ShutdownInv'
    BY <2>1, <2>4 DEF DoingInv, TypeRest, ShutdownInv
  <2> QED
    BY <2>5, <2>6, <2>7, <2>8, <2>9, <2>10, <2>11, <2>12, <2>13
<1>3. ASSUME NEW t \in Threads, NewSession(t) PROVE Core'
  BY <1>3, NewSessionStep
<1>4. ASSUME NEW t \in Threads, InitSession(t) PROVE Core'
  BY <1>4, InitSessionStep
<1>5. ASSUME NEW t \in Threads, SetCallBackFunc(t) PROVE Core'
  <2>1. /\ doing[t] = "callback"
        /\ of[t] \in Channels
        /\ late' = IF phase = "running" THEN late ELSE late \cup {of[t]}
        /\ of[t] = 1 => GoesTo(t, "open", 1)
        /\ of[t] # 1 => Rests(t)
        /\ rtp[of[t]] \in Sessions
        /\ session[rtp[of[t]]] = "alive"
        /\ callback' = callback \cup {rtp[of[t]]}
        /\ UNCHANGED <<wanted, rtp, session, channel, flagged,
                      thread_p, bound, poll, polls, fp, open, phase, at,
                      victim, joining, raced>>
    BY <1>5, StepDone DEF SetCallBackFunc, Perform, threadVars, sessionVars,
       pollVars, fileVars, mainVars, Named, Usable
  <2>2. ShapeInv'
    BY <1>5, StepDone DEF SetCallBackFunc
  <2>3. DoingInv'
    BY <2>1 DEF DoingInv, TypeRest
  <2>4. TypeRest'
    BY <2>1 DEF DoingInv, TypeRest
  <2>5. SessionInv'
    BY <2>1 DEF DoingInv, TypeRest, SessionInv
  <2>6. RunningInv'
    BY <2>1 DEF DoingInv, TypeRest, RunningInv
  <2>7. OwnerInv'
    BY <2>1 DEF DoingInv, TypeRest, SessionInv, OwnerInv
  <2>8. CreatedInv'
    BY <2>1 DEF DoingInv, TypeRest, CreatedInv
  <2>9. FileInv'
    BY <2>1 DEF DoingInv, TypeRest, FileInv
  <2>10. ShutdownInv'
    BY <2>1 DEF DoingInv, TypeRest, ShutdownInv
  <2> QED
    BY <2>2, <2>3, <2>4, <2>5, <2>6, <2>7, <2>8, <2>9, <2>10
<1>6. ASSUME NEW t \in Threads, OpenFile(t) PROVE Core'
  <2>1. /\ doing[t] = "open"
        /\ of[t] \in Channels
        /\ late' = IF phase = "running" THEN late ELSE late \cup {of[t]}
        /\ Rests(t)
        /\ \E f \in Sessions \ open : fp' = f /\ open' = open \cup {f}
        /\ UNCHANGED <<wanted, rtp, session, channel, callback,
                      flagged, thread_p, bound, poll, polls, phase, at,
                      victim, joining, raced>>
    BY <1>6, StepDone DEF OpenFile, Perform, threadVars, sessionVars, pollVars,
       fileVars, mainVars, Named, Usable
  <2>2. ShapeInv'
    BY <1>6, StepDone DEF OpenFile
  <2>3. DoingInv'
    BY <2>1 DEF DoingInv, TypeRest
  <2>4. TypeRest'
    BY <2>1 DEF DoingInv, TypeRest
  <2>5. SessionInv'
    BY <2>1 DEF DoingInv, TypeRest, SessionInv
  <2>6. RunningInv'
    BY <2>1 DEF DoingInv, TypeRest, RunningInv
  <2>7. OwnerInv'
    BY <2>1 DEF DoingInv, TypeRest, OwnerInv
  <2>8. CreatedInv'
    BY <2>1 DEF DoingInv, TypeRest, CreatedInv
  <2>9. FileInv'
    BY <2>1 DEF DoingInv, TypeRest, RunningInv, OwnerInv, FileInv
  <2>10. ShutdownInv'
    BY <2>1 DEF DoingInv, TypeRest, ShutdownInv
  <2> QED
    BY <2>2, <2>3, <2>4, <2>5, <2>6, <2>7, <2>8, <2>9, <2>10
<1>7. ASSUME NEW t \in Threads, TestSession(t) PROVE Core'
  <2>1. /\ todo[t] # <<>> /\ Head(todo[t]).op = "test"
        /\ doing[t] = "test" /\ of[t] = Subject(t) /\ of[t] \in Channels
    BY <1>7, HeadOf DEF TestSession, Perform
  <2>2. ASSUME rtp[of[t]] # 0
        PROVE  ShapeInv' /\ GoesTo(t, "voice", of[t])
    <3>1. Perform(t, "test", <<Step("voice", of[t])>>)
      BY <1>7, <2>1, <2>2 DEF TestSession, Named
    <3> DEFINE c == <<Step("voice", of[t])>>
    <3>2. c \in Seq(Steps) /\ Shape(c) /\ c # <<>> /\ c[1] = Step("voice", of[t])
      BY <2>1, ShapeVoice
    <3> HIDE DEF c
    <3>3. Perform(t, "test", c)
      BY <3>1 DEF c
    <3>4. ShapeInv' /\ GoesTo(t, c[1].op, c[1].channel)
      BY <3>2, <3>3, StepSplit DEF Resting
    <3> QED
      BY <2>2, <3>2, <3>4 DEF Step
  <2>3. ASSUME rtp[of[t]] = 0
        PROVE  ShapeInv' /\ Rests(t)
    <3>1. Perform(t, "test", <<>>)
      BY <1>7, <2>1, <2>3 DEF TestSession, Named
    <3> QED
      BY <3>1, StepDone
  <2>4. /\ late' = IF phase = "running" THEN late ELSE late \cup {of[t]}
        /\ rtp[of[t]] # 0 => GoesTo(t, "voice", of[t])
        /\ rtp[of[t]] = 0 => Rests(t)
        /\ UNCHANGED <<wanted, rtp, session, channel, callback,
                      flagged, thread_p, bound, poll, polls, fp, open, phase,
                      at, victim, joining, raced>>
    BY <1>7, <2>1, <2>2, <2>3 DEF TestSession, Perform, threadVars,
       sessionVars, pollVars, fileVars, mainVars
  <2>5. ShapeInv'
    BY <2>2, <2>3
  <2>6. DoingInv'
    BY <2>1, <2>4 DEF DoingInv, TypeRest
  <2>7. TypeRest'
    BY <2>1, <2>4 DEF DoingInv, TypeRest
  <2>8. SessionInv'
    BY <2>1, <2>4 DEF DoingInv, TypeRest, SessionInv
  <2>9. RunningInv'
    BY <2>1, <2>4 DEF DoingInv, TypeRest, RunningInv
  <2>10. OwnerInv'
    BY <2>1, <2>4 DEF DoingInv, TypeRest, OwnerInv
  <2>11. CreatedInv'
    BY <2>1, <2>4 DEF DoingInv, TypeRest, CreatedInv
  <2>12. FileInv'
    BY <2>1, <2>4 DEF DoingInv, TypeRest, FileInv
  <2>13. ShutdownInv'
    BY <2>1, <2>4 DEF DoingInv, TypeRest, ShutdownInv
  <2> QED
    BY <2>5, <2>6, <2>7, <2>8, <2>9, <2>10, <2>11, <2>12, <2>13
<1>8. ASSUME NEW t \in Threads, SendVoice(t) PROVE Core'
  <2>1. /\ doing[t] = "voice"
        /\ of[t] \in Channels
        /\ late' = IF phase = "running" THEN late ELSE late \cup {of[t]}
        /\ Rests(t)
        /\ UNCHANGED <<wanted, rtp, session, channel, callback,
                      flagged, thread_p, bound, poll, polls, fp, open, phase,
                      at, victim, joining, raced>>
    BY <1>8, StepDone DEF SendVoice, Perform, threadVars, sessionVars, pollVars,
       fileVars, mainVars, Named, Usable
  <2>2. ShapeInv'
    BY <1>8, StepDone DEF SendVoice
  <2>3. DoingInv'
    BY <2>1 DEF DoingInv, TypeRest
  <2>4. TypeRest'
    BY <2>1 DEF DoingInv, TypeRest
  <2>5. SessionInv'
    BY <2>1 DEF DoingInv, TypeRest, SessionInv
  <2>6. RunningInv'
    BY <2>1 DEF DoingInv, TypeRest, RunningInv
  <2>7. OwnerInv'
    BY <2>1 DEF DoingInv, TypeRest, OwnerInv
  <2>8. CreatedInv'
    BY <2>1 DEF DoingInv, TypeRest, CreatedInv
  <2>9. FileInv'
    BY <2>1 DEF DoingInv, TypeRest, FileInv
  <2>10. ShutdownInv'
    BY <2>1 DEF DoingInv, TypeRest, ShutdownInv
  <2> QED
    BY <2>2, <2>3, <2>4, <2>5, <2>6, <2>7, <2>8, <2>9, <2>10
<1>9. ASSUME NEW p \in Sessions, PollStops(p) PROVE Core'
  <2>1. /\ doing' = doing /\ of' = of
        /\ poll[p] = "polling"
        /\ session[polls[p]] = "alive"
        /\ polls[p] \in flagged
        /\ poll' = [poll EXCEPT ![p] = "leaving"]
        /\ UNCHANGED <<wanted, late, rtp, session, channel,
                      callback, flagged, thread_p, bound, polls, fp, open,
                      phase, at, victim, joining, raced>>
    BY <1>9 DEF PollStops, doing, of, threadVars, sessionVars, pollVars, fileVars,
       mainVars
  <2>2. ShapeInv'
    BY <1>9 DEF PollStops, ShapeInv, threadVars
  <2>3. DoingInv' /\ TypeRest' /\ SessionInv' /\ RunningInv' /\ OwnerInv' /\
        FileInv' /\ ShutdownInv'
    BY <2>1 DEF DoingInv, TypeRest, SessionInv, RunningInv, OwnerInv, FileInv,
       ShutdownInv
  <2>4. CreatedInv'
    BY <2>1 DEF DoingInv, TypeRest, RunningInv, OwnerInv, CreatedInv
  <2> QED
    BY <2>2, <2>3, <2>4
<1>10. ASSUME NEW p \in Sessions, ByeDestroy(p) PROVE Core'
  <2>1. /\ doing' = doing /\ of' = of
        /\ poll[p] = "leaving"
        /\ session[polls[p]] = "alive"
        /\ poll' = [poll EXCEPT ![p] = "ended"]
        /\ bound' = [k \in Channels |-> IF bound[k] = polls[p] THEN 0 ELSE bound[k]]
        /\ UNCHANGED <<wanted, late, rtp, session, channel,
                      callback, flagged, thread_p, polls, fp, open, phase, at,
                      victim, joining, raced>>
    BY <1>10 DEF ByeDestroy, doing, of, threadVars, sessionVars, pollVars, fileVars,
       mainVars
  <2>2. ShapeInv'
    BY <1>10 DEF ByeDestroy, ShapeInv, threadVars
  <2>3. DoingInv' /\ TypeRest' /\ SessionInv' /\ RunningInv' /\ OwnerInv' /\
        FileInv' /\ ShutdownInv'
    BY <2>1 DEF DoingInv, TypeRest, SessionInv, RunningInv, OwnerInv, FileInv,
       ShutdownInv
  <2>4. CreatedInv'
    BY <2>1 DEF DoingInv, TypeRest, SessionInv, OwnerInv, CreatedInv
  <2> QED
    BY <2>2, <2>3, <2>4
<1>11. ASSUME Quit PROVE Core'
  <2>1. /\ doing' = doing /\ of' = of
        /\ phase = "running"
        /\ phase' = "testing"
        /\ UNCHANGED <<wanted, late, rtp, session, channel,
                      callback, flagged, thread_p, bound, poll, polls, fp,
                      open, at, victim, joining, raced>>
    BY <1>11 DEF Quit, doing, of, threadVars, sessionVars, pollVars, fileVars,
       mainVars
  <2>2. ShapeInv'
    BY <1>11 DEF Quit, ShapeInv, threadVars
  <2>3. DoingInv' /\ TypeRest' /\ SessionInv' /\ RunningInv' /\ OwnerInv' /\
        CreatedInv' /\ FileInv' /\ ShutdownInv'
    BY <2>1 DEF DoingInv, TypeRest, SessionInv, RunningInv, OwnerInv, CreatedInv,
       FileInv, ShutdownInv
  <2> QED
    BY <2>2, <2>3
<1>12. ASSUME TestChannel PROVE Core'
  <2>1. /\ doing' = doing /\ of' = of
        /\ phase = "testing"
        /\ IF rtp[at] = 0 THEN NextChannel ELSE phase' = "deleting" /\ at' = at
        /\ UNCHANGED <<wanted, late, rtp, session, channel,
                      callback, flagged, thread_p, bound, poll, polls, fp,
                      open, victim, joining, raced>>
    BY <1>12 DEF TestChannel, doing, of, threadVars, sessionVars, pollVars,
       fileVars, mainVars
  <2>2. ShapeInv'
    BY <1>12 DEF TestChannel, ShapeInv, threadVars
  <2>3. DoingInv' /\ TypeRest' /\ SessionInv' /\ RunningInv' /\ OwnerInv' /\
        CreatedInv' /\ FileInv' /\ ShutdownInv'
    BY <2>1 DEF DoingInv, TypeRest, SessionInv, RunningInv, OwnerInv, CreatedInv,
       FileInv, ShutdownInv
  <2> QED
    BY <2>2, <2>3
<1>13. ASSUME DeleteChannel PROVE Core'
  <2>1. /\ doing' = doing /\ of' = of
        /\ phase = "deleting"
        /\ phase' = "joining"
        /\ victim' = rtp[at]
        /\ flagged' = flagged \cup {rtp[at]}
        /\ joining' = thread_p[rtp[at]]
        /\ UNCHANGED <<wanted, late, rtp, session, channel,
                      callback, thread_p, bound, poll, polls, fp, open, at,
                      raced>>
    BY <1>13 DEF DeleteChannel, doing, of, threadVars, sessionVars, pollVars,
       fileVars, mainVars
  <2>2. ShapeInv'
    BY <1>13 DEF DeleteChannel, ShapeInv, threadVars
  <2>3. DoingInv' /\ SessionInv' /\ RunningInv' /\ OwnerInv' /\ CreatedInv' /\
        FileInv'
    BY <2>1 DEF DoingInv, TypeRest, SessionInv, RunningInv, OwnerInv, CreatedInv,
       FileInv
  <2>4. TypeRest'
    BY <2>1 DEF DoingInv, TypeRest, SessionInv, ShutdownInv
  <2>5. ShutdownInv'
    BY <2>1 DEF DoingInv, TypeRest, SessionInv, ShutdownInv
  <2> QED
    BY <2>2, <2>3, <2>4, <2>5
<1>14. ASSUME JoinPoll PROVE Core'
  BY <1>14, JoinPollStep
<1>15. ASSUME ClearPointer PROVE Core'
  <2>1. /\ doing' = doing /\ of' = of
        /\ phase = "clearing"
        /\ phase' = "closing"
        /\ rtp' = [rtp EXCEPT ![at] = 0]
        /\ victim' = 0
        /\ joining' = 0
        /\ UNCHANGED <<wanted, late, session, channel, callback,
                      flagged, thread_p, bound, poll, polls, fp, open, at,
                      raced>>
    BY <1>15 DEF ClearPointer, doing, of, threadVars, sessionVars, pollVars,
       fileVars, mainVars
  <2>2. ShapeInv'
    BY <1>15 DEF ClearPointer, ShapeInv, threadVars
  <2>3. DoingInv' /\ TypeRest' /\ SessionInv' /\ RunningInv' /\ CreatedInv' /\
        FileInv' /\ ShutdownInv'
    BY <2>1 DEF DoingInv, TypeRest, SessionInv, RunningInv, CreatedInv, FileInv,
       ShutdownInv
  <2>4. OwnerInv'
    BY <2>1 DEF DoingInv, TypeRest, SessionInv, OwnerInv, ShutdownInv
  <2> QED
    BY <2>2, <2>3, <2>4
<1>16. ASSUME CloseFile PROVE Core'
  <2>1. /\ doing' = doing /\ of' = of
        /\ phase = "closing"
        /\ IF at = 1 THEN fp' = 0 /\ open' = open \ {fp} ELSE UNCHANGED <<fp, open>>
        /\ NextChannel
        /\ UNCHANGED <<wanted, late, rtp, session, channel,
                      callback, flagged, thread_p, bound, poll, polls, victim,
                      joining, raced>>
    BY <1>16 DEF CloseFile, doing, of, threadVars, sessionVars, pollVars, fileVars,
       mainVars
  <2>2. ShapeInv'
    BY <1>16 DEF CloseFile, ShapeInv, threadVars
  <2>3. DoingInv' /\ TypeRest' /\ SessionInv' /\ RunningInv' /\ OwnerInv' /\
        CreatedInv' /\ ShutdownInv'
    BY <2>1 DEF DoingInv, TypeRest, SessionInv, RunningInv, OwnerInv, CreatedInv,
       ShutdownInv
  <2>4. FileInv'
    BY <2>1 DEF DoingInv, TypeRest, SessionInv, FileInv, ShutdownInv
  <2> QED
    BY <2>2, <2>3, <2>4
<1>17. ASSUME DeleteGate PROVE Core'
  <2>1. /\ doing' = doing /\ of' = of
        /\ phase = "gate"
        /\ phase' = "gone"
        /\ UNCHANGED <<wanted, late, rtp, session, channel,
                      callback, flagged, thread_p, bound, poll, polls, fp,
                      open, at, victim, joining, raced>>
    BY <1>17 DEF DeleteGate, doing, of, threadVars, sessionVars, pollVars, fileVars,
       mainVars
  <2>2. ShapeInv'
    BY <1>17 DEF DeleteGate, ShapeInv, threadVars
  <2>3. DoingInv' /\ TypeRest' /\ SessionInv' /\ RunningInv' /\ OwnerInv' /\
        CreatedInv' /\ FileInv' /\ ShutdownInv'
    BY <2>1 DEF DoingInv, TypeRest, SessionInv, RunningInv, OwnerInv, CreatedInv,
       FileInv, ShutdownInv
  <2> QED
    BY <2>2, <2>3
<1> QED
  BY <1>1, <1>2, <1>3, <1>4, <1>5, <1>6, <1>7, <1>8, <1>9, <1>10, <1>11,
     <1>12, <1>13, <1>14, <1>15, <1>16, <1>17
     DEF Delete

-----------------------------------------------------------------------------
LEMMA CoreGives == Core => PollEndsFirst /\ VoiceCleanedUp
<1> SUFFICES ASSUME Core PROVE PollEndsFirst /\ VoiceCleanedUp
  OBVIOUS
<1>1. ASSUME NEW p \in Sessions, poll[p] \in {"polling", "leaving"}, session[polls[p]] = "freed"
      PROVE  channel[polls[p]] \in Disturbed
  BY <1>1 DEF Core, TypeRest, SessionInv, OwnerInv
<1>2. ASSUME phase = "gone"
      PROVE  \A k \in Channels \ Disturbed : rtp[k] = 0
  BY <1>2 DEF Core, ShutdownInv
<1>3. ASSUME phase = "gone", NEW s \in Sessions, session[s] = "alive", channel[s] \notin Disturbed
      PROVE  FALSE
  <2>1. channel[s] \in Channels \ Disturbed
    BY <1>3 DEF Core, SessionInv
  <2>2. rtp[channel[s]] = s
    BY <1>3, <2>1 DEF Core, OwnerInv
  <2> QED
    BY <1>2, <1>3, <2>1, <2>2 DEF Sessions
<1>4. ASSUME phase = "gone", NEW k \in Channels \ Disturbed
      PROVE  bound[k] = 0
  BY <1>3, <1>4 DEF Core, TypeRest, SessionInv
<1>5. ASSUME phase = "gone", 1 \notin Disturbed
      PROVE  open = {}
  BY <1>2, <1>5 DEF Core, FileInv, Channels
<1> QED
  BY <1>1, <1>3, <1>4, <1>5 DEF PollEndsFirst, VoiceCleanedUp

LEMMA TypeSplit ==
    ShapeInv => (TypeOK <=> TypeRest /\ TypeOthers)
BY DEF TypeOK, TypeRest, TypeOthers, ShapeInv, Faults

LEMMA InvInit == Init => IInv
<1> SUFFICES ASSUME Init PROVE IInv
  OBVIOUS
<1>1. Core
  BY CoreInit
<1>2. /\ asked \in [Threads -> 0 .. MaxRequests]
      /\ fault \in Faults
  BY VoiceAssumption DEF Init, NoFault, Faults
<1>3. FaultsExplained
  BY DEF Init, NoFault, FaultsExplained
<1> QED
  BY <1>1, <1>2, <1>3, CoreGives, TypeSplit DEF IInv, Core, TypeOthers

\* A step after which the program goes on.
LEMMA GoodStep ==
    ASSUME IInv, fault = NoFault, fault' = fault,
           asked' \in [Threads -> 0 .. MaxRequests], Core'
    PROVE  IInv'
<1>1. PollEndsFirst' /\ VoiceCleanedUp'
  BY CoreGives, PTL
<1>2. fault' \in Faults
  BY DEF NoFault, Faults
<1>3. TypeOK'
  <2>1. ShapeInv' /\ TypeRest' /\ TypeOthers'
    BY <1>2 DEF Core, TypeOthers
  <2> QED
    BY <2>1, TypeSplit, PTL
<1>4. FaultsExplained'
  BY DEF FaultsExplained, NoFault
<1> QED
  BY <1>1, <1>3, <1>4 DEF IInv, Core

\* A step that ends the program leaves all but todo and late as it was.
LEMMA FaultStep ==
    ASSUME IInv, fault = NoFault, ShapeInv', UNCHANGED asked,
           fault' \in Faults \ {NoFault},
           late \subseteq late', late' \subseteq Channels, FaultsExplained',
           UNCHANGED <<wanted, rtp, session, channel, callback, flagged, thread_p,
                       bound, poll, polls, fp, open, phase, at, victim, joining, raced>>
    PROVE  IInv'
<1>1. Core
  BY DEF IInv
<1>2. TypeRest'
  BY <1>1 DEF Core, TypeRest
<1>3. asked' \in [Threads -> 0 .. MaxRequests]
  BY TypeSplit DEF IInv, TypeOthers
<1>4. fault' # NoFault
  OBVIOUS
<1>5. PollEndsFirst'
  BY DEF IInv, PollEndsFirst, Disturbed
<1>6. VoiceCleanedUp'
  BY DEF IInv, VoiceCleanedUp, Disturbed
<1>7. TypeOK'
  <2>1. TypeOthers'
    BY <1>3 DEF TypeOthers
  <2> QED
    BY <1>2, <2>1, TypeSplit, PTL
<1> QED
  BY <1>4, <1>5, <1>6, <1>7 DEF IInv

LEMMA InvStep == IInv /\ [Next]_vars => IInv'
<1> SUFFICES ASSUME IInv, [Next]_vars PROVE IInv'
  OBVIOUS
<1>1. ASSUME UNCHANGED vars PROVE IInv'
  <2>1. UNCHANGED <<todo, asked, wanted, late, rtp, bound, session, channel, callback,
                    flagged, thread_p, poll, polls, fp, open, phase, at, victim,
                    joining, raced, fault>>
    BY <1>1 DEF vars, threadVars, sessionVars, pollVars, fileVars, mainVars
  <2>2. doing' = doing /\ of' = of
    BY <2>1 DEF doing, of
  <2>3. TypeOK' /\ ShapeInv' /\ PollEndsFirst' /\ VoiceCleanedUp' /\ FaultsExplained'
    BY <2>1 DEF IInv, TypeOK, ShapeInv, PollEndsFirst, VoiceCleanedUp, FaultsExplained, Disturbed
  <2>4. Core => Core'
    BY <2>1, <2>2, <2>3 DEF Core, DoingInv, TypeRest, SessionInv, RunningInv, OwnerInv, CreatedInv,
       FileInv, ShutdownInv, Disturbed, At
  <2> QED
    BY <2>1, <2>3, <2>4 DEF IInv
<1>2. SUFFICES ASSUME Next PROVE IInv'
  BY <1>1
<1>3. fault = NoFault /\ Core
  BY <1>2 DEF Next, IInv
<1>4. asked \in [Threads -> 0 .. MaxRequests]
  BY TypeSplit DEF IInv, TypeOthers
<1>5. ASSUME NEW t \in Threads, Take(t) PROVE IInv'
  <2>1. fault' = fault /\ asked' \in [Threads -> 0 .. MaxRequests]
    BY <1>4, <1>5, VoiceAssumption DEF Take
  <2> QED
    BY <1>3, <1>5, <2>1, CoreStep, GoodStep
<1>6. ASSUME NEW t \in Threads,
             \/ CheckChannel(t) \/ NewSession(t) \/ InitSession(t) \/ SetCallBackFunc(t)
             \/ OpenFile(t) \/ TestSession(t) \/ SendVoice(t)
      PROVE  IInv'
  <2>1. fault' = fault /\ asked' = asked
    BY <1>6 DEF CheckChannel, NewSession, InitSession, SetCallBackFunc, OpenFile,
       TestSession, SendVoice, Perform
  <2> QED
    BY <1>3, <1>4, <1>6, <2>1, CoreStep, GoodStep
<1>7. ASSUME NEW t \in Threads, OpenFails(t) PROVE IInv'
  <2>1. Perform(t, "open", <<>>)
    BY <1>7 DEF OpenFails
  <2>2. ShapeInv' /\ Subject(t) \in Channels
    BY <1>3, <2>1, StepDone DEF Core
  <2>3. /\ fault' = <<"open", 1>>
        /\ UNCHANGED <<asked, wanted, rtp, session, channel, callback, flagged, thread_p,
                       bound, poll, polls, fp, open, phase, at, victim, joining, raced>>
        /\ late \subseteq late' /\ late' \subseteq late \cup {Subject(t)}
    BY <1>7 DEF OpenFails, Perform, sessionVars, pollVars, fileVars, mainVars
  <2>4. FaultsExplained'
    BY <2>3 DEF FaultsExplained
  <2>5. late' \subseteq Channels
    BY <1>3, <2>2, <2>3 DEF Core, TypeRest
  <2>6. fault' \in Faults \ {NoFault}
    BY <2>3 DEF Channels, Faults, NoFault
  <2> QED
    BY <1>3, <2>2, <2>3, <2>4, <2>5, <2>6, FaultStep
<1>8. ASSUME NEW t \in Threads, UseDead(t) PROVE IInv'
  <2>1. PICK op \in {"init", "callback", "voice"} : Perform(t, op, <<>>)
    BY <1>8 DEF UseDead
  <2>2. /\ ShapeInv' /\ Subject(t) \in Channels
        /\ doing[t] = op /\ of[t] = Subject(t)
    BY <1>3, <2>1, StepDone DEF Core
  <2>3. /\ fault' = <<IF Named(t) = 0 THEN "null" ELSE "freed", Subject(t)>>
        /\ ~Usable(Named(t))
        /\ UNCHANGED <<asked, wanted, rtp, session, channel, callback, flagged, thread_p,
                       bound, poll, polls, fp, open, phase, at, victim, joining, raced>>
        /\ late' = IF phase = "running" THEN late ELSE late \cup {Subject(t)}
    BY <1>8, <2>1 DEF UseDead, Perform, sessionVars, pollVars, fileVars, mainVars
  <2>4. phase # "running"
    <3>1. SUFFICES ASSUME phase = "running" PROVE Usable(Named(t))
      BY <2>3
    <3>2. Named(t) # 0 /\ Named(t) = rtp[Subject(t)]
      BY <1>3, <2>2, <3>1 DEF Core, RunningInv, At, Named
    <3>3. Named(t) \in Sessions /\ session[Named(t)] # "freed"
      BY <1>3, <2>2, <3>1, <3>2 DEF Core, TypeRest, RunningInv
    <3>4. channel[Named(t)] = Subject(t)
      BY <1>3, <2>2, <3>2 DEF Core, SessionInv
    <3>5. session[Named(t)] # "none"
      BY <1>3, <2>2, <3>3, <3>4 DEF Core, SessionInv, Channels
    <3> QED
      BY <1>3, <3>3, <3>5 DEF Core, TypeRest, Usable
  <2>5. fault'[2] = Subject(t) /\ Subject(t) \in Disturbed'
    BY <2>3, <2>4 DEF Disturbed
  <2>6. FaultsExplained'
    BY <2>5 DEF FaultsExplained
  <2>7. late \subseteq late' /\ late' \subseteq Channels
    BY <1>3, <2>2, <2>3 DEF Core, TypeRest
  <2>8. fault' \in Faults \ {NoFault}
    BY <2>2, <2>3 DEF Faults, NoFault
  <2> QED
    BY <1>3, <2>2, <2>3, <2>6, <2>7, <2>8, FaultStep
<1>9. ASSUME NEW p \in Sessions, Deliver(p) PROVE IInv'
  <2> DEFINE s == polls[p]
             k == channel[s]
  <2>1. /\ poll[p] = "polling" /\ session[s] = "alive" /\ bound[k] = s /\ s \in callback
        /\ UNCHANGED <<todo, asked, wanted, late, rtp, bound, session, channel, callback,
                       flagged, thread_p, poll, polls, fp, open, phase, at, victim,
                       joining, raced>>
        /\ fault' = IF phase = "gone" THEN <<"freed", k>>
                    ELSE IF k = 1 /\ fp \notin open THEN <<"file", k>>
                    ELSE fault
    BY <1>9 DEF Deliver, threadVars, sessionVars, pollVars, fileVars, mainVars
  <2>2. s \in Sessions /\ k \in Channels
    BY <1>3, <2>1 DEF Core, TypeRest, SessionInv
  <2> HIDE DEF s, k
  <2>3. channel[s] = k
    BY DEF k
  <2>4. ShapeInv'
    BY <1>3, <2>1 DEF Core, ShapeInv
  <2>5. CASE phase = "gone"
    <3>1. fault' = <<"freed", k>>
      BY <2>1, <2>5
    <3>2. k \in Disturbed
      BY <2>1, <2>2, <2>3, <2>5 DEF IInv, VoiceCleanedUp
    <3>3. FaultsExplained'
      BY <2>1, <3>1, <3>2 DEF FaultsExplained, Disturbed
    <3>4. late' \subseteq Channels
      BY <1>3, <2>1 DEF Core, TypeRest
    <3>5. fault' \in Faults \ {NoFault}
      BY <2>2, <3>1 DEF Faults, NoFault
    <3> QED
      BY <1>3, <2>1, <2>4, <3>3, <3>4, <3>5, FaultStep
  <2>6. CASE phase # "gone" /\ k = 1 /\ fp \notin open
    <3>1. fault' = <<"file", k>>
      BY <2>1, <2>6
    <3>2. ASSUME k \notin Disturbed
          PROVE  \E t \in Threads : todo[t] # <<>> /\ Head(todo[t]) = Step("open", 1)
      <4>1. rtp[1] = s /\ s # 0
        <5>1. rtp[k] = s
          BY <1>3, <2>1, <2>2, <2>3, <3>2 DEF Core, OwnerInv
        <5> QED
          BY <2>2, <2>6, <5>1 DEF Sessions
      <4>2. PICK t \in Threads : At(t, {"init", "callback", "open"}, 1)
        BY <1>3, <2>6, <3>2, <4>1 DEF Core, FileInv
      <4>3. ~At(t, {"init", "callback"}, 1)
        BY <1>3, <2>1, <2>2, <2>6, <3>2, <4>1 DEF Core, OwnerInv
      <4>4. doing[t] = "open" /\ of[t] = 1
        BY <4>2, <4>3 DEF At
      <4>5. todo[t] # <<>>
        BY <4>4 DEF doing
      <4>6. /\ Head(todo[t]) \in Steps
            /\ Head(todo[t]).op = "open" /\ Head(todo[t]).channel = 1
        BY <1>3, <4>4, <4>5, HeadOf DEF Core
      <4> QED
        BY <4>5, <4>6 DEF Steps, Step
    <3>3. FaultsExplained'
      BY <2>1, <3>1, <3>2 DEF FaultsExplained, Disturbed
    <3>4. late' \subseteq Channels
      BY <1>3, <2>1 DEF Core, TypeRest
    <3>5. fault' \in Faults \ {NoFault}
      BY <2>2, <3>1 DEF Faults, NoFault
    <3> QED
      BY <1>3, <2>1, <2>4, <3>3, <3>4, <3>5, FaultStep
  <2>7. CASE phase # "gone" /\ ~(k = 1 /\ fp \notin open)
    <3>1. fault' = fault
      BY <2>1, <2>7
    <3> QED
      BY <1>1, <2>1, <3>1 DEF vars, threadVars, sessionVars, pollVars, fileVars, mainVars
  <2> QED
    BY <2>5, <2>6, <2>7
<1>10. ASSUME NEW p \in Sessions, PollsDead(p) PROVE IInv'
  <2>1. /\ poll[p] \in {"polling", "leaving"} /\ session[polls[p]] = "freed"
        /\ fault' = <<"freed", channel[polls[p]]>>
        /\ UNCHANGED <<todo, asked, wanted, late, rtp, bound, session, channel, callback,
                       flagged, thread_p, poll, polls, fp, open, phase, at, victim,
                       joining, raced>>
    BY <1>10 DEF PollsDead, threadVars, sessionVars, pollVars, fileVars, mainVars
  <2>2. channel[polls[p]] \in Disturbed
    BY <2>1 DEF IInv, PollEndsFirst
  <2>3. FaultsExplained'
    BY <2>1, <2>2 DEF FaultsExplained, Disturbed
  <2>4. Disturbed \subseteq Channels /\ late \subseteq Channels
    BY <1>3 DEF Core, TypeRest, Disturbed
  <2>5. fault' \in Faults \ {NoFault}
    BY <2>1, <2>2, <2>4 DEF Faults, NoFault
  <2>6. ShapeInv'
    BY <1>3, <2>1 DEF Core, ShapeInv
  <2> QED
    BY <1>3, <2>1, <2>3, <2>4, <2>5, <2>6, FaultStep
<1>11. ASSUME NEW p \in Sessions, PollStops(p) \/ ByeDestroy(p) PROVE IInv'
  <2>1. fault' = fault /\ asked' = asked
    BY <1>11 DEF PollStops, ByeDestroy, threadVars
  <2> QED
    BY <1>3, <1>4, <1>11, <2>1, CoreStep, GoodStep
<1>12. ASSUME Quit \/ Delete PROVE IInv'
  <2>1. fault' = fault /\ asked' = asked
    BY <1>12 DEF Quit, Delete, TestChannel, DeleteChannel, JoinPoll, ClearPointer, CloseFile,
       DeleteGate, threadVars
  <2> QED
    BY <1>3, <1>4, <1>12, <2>1, CoreStep, GoodStep
<1> QED
  BY <1>2, <1>5, <1>6, <1>7, <1>8, <1>9, <1>10, <1>11, <1>12 DEF Next, Parse, Poll

LEMMA Invariant == Spec => []IInv
BY InvInit, InvStep, PTL DEF Spec

\* Sessions, poll threads, ports and files keep their types, whatever the
\* requests of the parse threads and the deletion do between each other's steps.
THEOREM TypeCorrect == Spec => []TypeOK
<1>1. IInv => TypeOK
  BY DEF IInv
<1> QED
  BY <1>1, Invariant, PTL

\* ~MyRTP joins the poll thread before the session is freed, except for a poll
\* thread that was left behind on a disturbed channel.
THEOREM PollThreadJoined == Spec => []PollEndsFirst
<1>1. IInv => PollEndsFirst
  BY DEF IInv
<1> QED
  BY <1>1, Invariant, PTL

\* No session, port or file of an undisturbed channel outlives the server.
THEOREM NothingLeft == Spec => []VoiceCleanedUp
<1>1. IInv => VoiceCleanedUp
  BY DEF IInv
<1> QED
  BY <1>1, Invariant, PTL

\* NULL, freed memory and a closed file are met only on a disturbed channel, but
\* for voice that comes before the file has been opened.
THEOREM OnlyDisturbedFaults == Spec => []FaultsExplained
<1>1. IInv => FaultsExplained
  BY DEF IInv
<1> QED
  BY <1>1, Invariant, PTL

\* A channel that was set hears what is sent to it until the server is deleted.
THEOREM SetChannelsHear == Spec => []ChannelHears
<1>1. ASSUME IInv PROVE ChannelHears
  <2>1. SUFFICES ASSUME NEW k \in Channels \ Disturbed, fault = NoFault, phase = "running",
                        k \in wanted, ~Creating(k)
                 PROVE  /\ rtp[k] # 0 /\ bound[k] = rtp[k]
                        /\ \E p \in Sessions : polls[p] = rtp[k] /\ poll[p] = "polling"
                        /\ rtp[k] \in callback
                        /\ k = 1 => fp \in open
    BY DEF ChannelHears
  <2>2. Core
    BY <1>1, <2>1 DEF IInv
  <2>3. ASSUME NEW t \in Threads PROVE ~At(t, {"new", "init", "callback", "open"}, k)
    <3>1. SUFFICES ASSUME At(t, {"new", "init", "callback", "open"}, k) PROVE FALSE
      OBVIOUS
    <3>2. todo[t] # <<>>
      BY <3>1 DEF At, doing
    <3>3. todo[t] \in Seq(Steps)
      BY <2>2 DEF Core, ShapeInv
    <3>4. 1 \in DOMAIN todo[t]
      BY <3>2, <3>3, EmptySeq, LenProperties
    <3>5. todo[t][1].channel = k /\ todo[t][1].op \in {"new", "init", "callback", "open"}
      BY <2>2, <3>1, <3>2, HeadOf DEF Core, At
    <3> QED
      BY <2>1, <3>4, <3>5 DEF Creating
  <2>4. rtp[k] # 0
    BY <2>1, <2>2, <2>3 DEF Core, CreatedInv, At
  <2>5. /\ bound[k] = rtp[k] /\ rtp[k] \in callback
        /\ thread_p[rtp[k]] # 0 /\ poll[thread_p[rtp[k]]] = "polling"
    BY <2>1, <2>2, <2>3, <2>4 DEF Core, CreatedInv, At
  <2>6. thread_p[rtp[k]] \in Sessions /\ polls[thread_p[rtp[k]]] = rtp[k]
    BY <2>2, <2>4, <2>5 DEF Core, TypeRest, SessionInv
  <2>7. k = 1 => fp \in open
    BY <2>1, <2>2, <2>3, <2>4 DEF Core, FileInv, At
  <2> QED
    BY <2>4, <2>5, <2>6, <2>7
<1> QED
  BY <1>1, Invariant, PTL
=============================================================================
