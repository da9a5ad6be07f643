----------------------------- MODULE MCSendLoop -----------------------------
(***************************************************************************)
(* SendLoop for TLC, with messages at the boundaries of the packing: two   *)
(* `half` fill a packet, `whole` alone is above SLICE_SIZE once its header *)
(* is added, `sliced` takes three slices.                                  *)
(***************************************************************************)
EXTENDS SendLoop, TLC

CONSTANTS half, whole, sliced

MCSize == half :> 590 @@ whole :> 1200 @@ sliced :> 2401
=============================================================================
