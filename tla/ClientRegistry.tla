---------------------------- MODULE ClientRegistry ----------------------------
(***************************************************************************)
(* What JProtocol promises about its ClientObjs: an object is created with *)
(* two threads that work on it, each of them ends once and is never        *)
(* started again, the object is freed once and not before both have ended, *)
(* and the server is down only when no object is left, after which none is *)
(* created.                                                                *)
(***************************************************************************)
CONSTANT Conns

VARIABLES
    life,     \* of each connection's object: none, alive or gone
    working,  \* the threads of each object that have not ended
    up        \* whether ~JProtocol has not yet returned

vars == <<life, working, up>>

ThreadsOfClient == {"receiver", "parser"}

Init ==
    /\ life = [c \in Conns |-> "none"]
    /\ working = [c \in Conns |-> {}]
    /\ up = TRUE

\* A new connection gets its object, whose threads run at once.
Create(c) ==
    /\ up
    /\ life[c] = "none"
    /\ life' = [life EXCEPT ![c] = "alive"]
    /\ working' = [working EXCEPT ![c] = ThreadsOfClient]
    /\ UNCHANGED up

\* A thread ends, which it does while its object is there.
EndThread(c, t) ==
    /\ life[c] = "alive"
    /\ t \in working[c]
    /\ working' = [working EXCEPT ![c] = @ \ {t}]
    /\ UNCHANGED <<life, up>>

\* An object no thread works on is freed.
Free(c) ==
    /\ up
    /\ life[c] = "alive"
    /\ working[c] = {}
    /\ life' = [life EXCEPT ![c] = "gone"]
    /\ UNCHANGED <<working, up>>

\* The server is down when no object is left.
GoDown ==
    /\ up
    /\ \A c \in Conns : life[c] # "alive"
    /\ up' = FALSE
    /\ UNCHANGED <<life, working>>

Next == \/ \E c \in Conns : Create(c) \/ Free(c) \/ \E t \in ThreadsOfClient : EndThread(c, t)
        \/ GoDown

Spec == Init /\ [][Next]_vars
=============================================================================
