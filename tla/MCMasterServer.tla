--------------------------- MODULE MCMasterServer ---------------------------
(***************************************************************************)
(* Two clients for MasterServer, with the requests each of them makes.     *)
(***************************************************************************)
EXTENDS MasterServer

Request(type, name, g, ch) == [type |-> type, name |-> name, groups |-> g, channel |-> ch]
Listening(g) == Request("Request", "Listening", g, 0)
Query == Request("Request", "Query", NoGroups, 0)

Requests1 ==
    { Listening(<<910, 911>>), Query,
      Request("Request", "CallRequest", NoGroups, 1) }

Requests2 ==
    { Request("Request", "Connect", NoGroups, 0), Listening(<<912, 0>>), Query,
      Request("Reply", "Listening", <<0, 911>>, 0),
      Request("Request", "CallStart", NoGroups, 2),
      Request("Request", "CallRelease", NoGroups, 0) }

MCSends == [c \in Clients |-> IF c = 1 THEN Requests1 ELSE Requests2]
=============================================================================
