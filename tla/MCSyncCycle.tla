---------------------------- MODULE MCSyncCycle ----------------------------
(***************************************************************************)
(* SyncCycle for TLC: who delivers which order.                            *)
(***************************************************************************)
EXTENDS SyncCycle, TLC

CONSTANTS o1, o2, c1, c2

TwoCouriers == (o1 :> c1) @@ (o2 :> c2)
=============================================================================
