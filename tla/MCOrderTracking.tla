-------------------------- MODULE MCOrderTracking --------------------------
(***************************************************************************)
(* OrderTracking for TLC in the regular regime; the other runs check       *)
(* OrderTracking itself.                                                   *)
(***************************************************************************)
EXTENDS OrderTracking

ASSUME RegularAssumption == Regular
=============================================================================
