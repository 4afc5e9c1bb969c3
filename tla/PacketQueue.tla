---------------------------- MODULE PacketQueue ----------------------------
(***************************************************************************)
(* What FifoQueue promises the threads on its two sides: a first-in        *)
(* first-out channel that hands every packet over exactly once.  Packets   *)
(* are numbered in the order in which they were put, so the channel is     *)
(* described by three numbers.                                             *)
(***************************************************************************)
EXTENDS Naturals

VARIABLES
    put,   \* how many packets were put so far; packet n is the n-th one put
    got,   \* how many packets were handed to the reader so far
    last   \* the packet handed over last, 0 before the first

absVars == <<put, got, last>>

AbsInit ==
    /\ put = 0
    /\ got = 0
    /\ last = 0

\* A writer puts the next packet.
AbsPut ==
    /\ put' = put + 1
    /\ UNCHANGED <<got, last>>

\* The reader is handed the oldest packet it has not seen.
AbsGet ==
    /\ got < put
    /\ got' = got + 1
    /\ last' = got + 1
    /\ UNCHANGED put

AbsNext == AbsPut \/ AbsGet

AbsSpec == AbsInit /\ [][AbsNext]_absVars
=============================================================================
