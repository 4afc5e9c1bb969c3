----------------------------- MODULE ClientKeys -----------------------------
(***************************************************************************)
(* SocketParams_t, the key under which clientmap has a client, and the     *)
(* order std::map keeps its keys in.  ClientLifecycle has a connection in  *)
(* place of its key; what that needs of the order is proved here.          *)
(*                                                                         *)
(* The comment of operator< says that keys with the same descriptor are    *)
(* ordered by address; the code orders them by port, and addresses do not  *)
(* count.                                                                  *)
(***************************************************************************)
EXTENDS Integers, TLAPS

CONSTANT Addresses

Ports == 0 .. 65535
SocketParams_t == [socket_fd : Nat, sin_addr : Addresses, sin_port : Ports]

\* operator<
Less(a, b) ==
    \/ a.socket_fd < b.socket_fd
    \/ a.socket_fd = b.socket_fd /\ a.sin_port < b.sin_port

\* The keys std::map takes for one.
SameKey(a, b) == ~Less(a, b) /\ ~Less(b, a)

\* operator< is a strict weak order, which std::map needs to find what it has:
\* irreflexive, transitive, and with it being the same key.
THEOREM StrictWeakOrder ==
    ASSUME NEW a \in SocketParams_t, NEW b \in SocketParams_t, NEW c \in SocketParams_t
    PROVE  /\ ~Less(a, a)
           /\ Less(a, b) /\ Less(b, c) => Less(a, c)
           /\ SameKey(a, b) /\ SameKey(b, c) => SameKey(a, c)
<1>1. /\ a.socket_fd \in Nat /\ b.socket_fd \in Nat /\ c.socket_fd \in Nat
      /\ a.sin_port \in Nat /\ b.sin_port \in Nat /\ c.sin_port \in Nat
  <2>1. a.sin_port \in Ports /\ b.sin_port \in Ports /\ c.sin_port \in Ports
    BY DEF SocketParams_t
  <2>2. Ports \subseteq Nat
    BY DEF Ports
  <2> QED
    BY <2>1, <2>2 DEF SocketParams_t
<1> QED
  BY <1>1 DEF Less, SameKey

\* Two keys are one for the map exactly if descriptor and port agree, whatever
\* the addresses: a notice finds its client, and live connections, which
\* differ in the descriptor, never share an entry.
THEOREM KeyIsDescriptorAndPort ==
    ASSUME NEW a \in SocketParams_t, NEW b \in SocketParams_t
    PROVE  SameKey(a, b) <=> a.socket_fd = b.socket_fd /\ a.sin_port = b.sin_port
<1>1. /\ a.socket_fd \in Nat /\ b.socket_fd \in Nat
      /\ a.sin_port \in Nat /\ b.sin_port \in Nat
  <2>1. a.sin_port \in Ports /\ b.sin_port \in Ports
    BY DEF SocketParams_t
  <2>2. Ports \subseteq Nat
    BY DEF Ports
  <2> QED
    BY <2>1, <2>2 DEF SocketParams_t
<1> QED
  BY <1>1 DEF Less, SameKey
=============================================================================
