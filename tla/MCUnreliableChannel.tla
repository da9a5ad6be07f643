------------------------ MODULE MCUnreliableChannel ------------------------
(***************************************************************************)
(* UnreliableChannel for TLC.                                              *)
(***************************************************************************)
EXTENDS UnreliableChannel, TLC

CONSTANTS short, empty, long, longer

\* `short` and `empty` share a packet; `long` and `longer` take two slices.
MCSize == short :> 1190 @@ empty :> 0 @@ long :> 1201 @@ longer :> 2400
=============================================================================
