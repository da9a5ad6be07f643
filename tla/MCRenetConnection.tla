------------------------- MODULE MCRenetConnection -------------------------
(***************************************************************************)
(* Instances of RenetConnection for TLC.                                   *)
(***************************************************************************)
EXTENDS RenetConnection, TLC

CONSTANTS small, large,              \* messages
          ClientMessages, ServerMessages, ClientPackets, ServerPackets,
          ClientTime, ServerTime

\* Two `small` share a packet; `large` takes two slices.
MCSize == small :> 500 @@ large :> 1300

Each(client, server) == [e \in Endpoints |-> IF e = "client" THEN client ELSE server]

MCOutgoing == Each(ClientMessages, ServerMessages)

MCMaxPackets == Each(ClientPackets, ServerPackets)

MCMaxTime == Each(ClientTime, ServerTime)
=============================================================================
