---- MODULE MCX2Handover ----
(* X2Handover on the eNBs of its cfg, between which the UE goes and comes back. *)
EXTENDS X2Handover
====
