----------------------------- MODULE MCRtpVoice -----------------------------
(***************************************************************************)
(* Two parse threads for RtpVoice, with the requests of their peers: both  *)
(* listen on channel 1, one of them on channel 2 as well.                  *)
(***************************************************************************)
EXTENDS RtpVoice

Listen(ks) == SelectSeq(<<Step("check", 1), Step("check", 2)>>, LAMBDA s : s.channel \in ks)
Call(k) == <<Step("test", k)>>

MCRequests ==
    [t \in Threads |-> IF t = 1 THEN {Listen({1, 2}), Call(1)} ELSE {Listen({1}), Call(2)}]
=============================================================================
