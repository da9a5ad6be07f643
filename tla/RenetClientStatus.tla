-------------------------- MODULE RenetClientStatus --------------------------
(***************************************************************************)
(* The connection status of a RenetClient, as its transport drives it:     *)
(* Connecting, Connected, or the reason it is disconnected for.  A         *)
(* disconnected client stays so; what a connected one does is the subject  *)
(* of module RenetConnection.                                              *)
(***************************************************************************)

\* disconnect_due_to_transport, disconnect, and an error in a packet or a channel
RenetReasons == {"Transport", "DisconnectedByClient", "Error"}

Statuses == {"Connecting", "Connected"} \cup RenetReasons

\* disconnect_with_reason: the first reason stays.
Ended(status, reason) == IF status \in RenetReasons THEN status ELSE reason

\* set_connected and set_connecting
SetStatus(status, connected) ==
  IF status \in RenetReasons THEN status ELSE IF connected THEN "Connected" ELSE "Connecting"
=============================================================================
