----------------------------- MODULE CallService -----------------------------
(***************************************************************************)
(* The service MyMasterServer gives to the peers, each of which sees whole *)
(* messages only: a request is answered before the next one is taken, its  *)
(* messages arrive whole and in order or, once the peer is gone, not at    *)
(* all; a session is opened for a channel some client has set, stays, and  *)
(* is there before a message says so.                                      *)
(***************************************************************************)
EXTENDS CallMessages, Sequences

CONSTANTS
    Clients,
    Sends      \* for each client, the requests its peer may make

VARIABLES
    here,      \* whether the peer is
    wanted,    \* the groups it asked to listen to last
    owed,      \* the messages of its request that have not been delivered
    read,      \* those that have
    open       \* the channels that have a session

vars == <<here, wanted, owed, read, open>>

Init ==
    /\ here = [c \in Clients |-> TRUE]
    /\ wanted = [c \in Clients |-> NoGroups]
    /\ owed = [c \in Clients |-> <<>>]
    /\ read = [c \in Clients |-> <<>>]
    /\ open = {}

\* A request is taken, and its answer owed.
Ask(c) ==
    /\ owed[c] = <<>>
    /\ \E r \in Sends[c] :
          /\ wanted' = [wanted EXCEPT ![c] = IF r.name = "Listening" THEN r.groups ELSE @]
          /\ owed' = [owed EXCEPT ![c] = Answer(r, wanted'[c])]
    /\ UNCHANGED <<here, read, open>>

\* A channel gets its session because some client has set it.
Open(k) ==
    /\ k \notin open
    /\ \E c \in Clients : wanted[c][k] # 0
    /\ open' = open \cup {k}
    /\ UNCHANGED <<here, wanted, owed, read>>

\* A message arrives, and what it confirms is there.
Deliver(c) ==
    /\ here[c]
    /\ owed[c] # <<>>
    /\ Confirms(Head(owed[c])) \subseteq open
    /\ read' = [read EXCEPT ![c] = Append(@, Head(owed[c]))]
    /\ owed' = [owed EXCEPT ![c] = Tail(@)]
    /\ UNCHANGED <<here, wanted, open>>

\* A message to a peer that is gone is dropped.
Drop(c) ==
    /\ ~here[c]
    /\ owed[c] # <<>>
    /\ owed' = [owed EXCEPT ![c] = Tail(@)]
    /\ UNCHANGED <<here, wanted, read, open>>

\* The peer goes.
Leave(c) ==
    /\ here[c]
    /\ here' = [here EXCEPT ![c] = FALSE]
    /\ UNCHANGED <<wanted, owed, read, open>>

Next == \/ \E c \in Clients : Ask(c) \/ Deliver(c) \/ Drop(c) \/ Leave(c)
        \/ \E k \in Channels : Open(k)

Spec == Init /\ [][Next]_vars
=============================================================================
