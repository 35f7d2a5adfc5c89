------------------------------- MODULE MCLteRlcAm -------------------------------
(* A small instance of LteRlcAm for TLC.                                     *)
EXTENDS LteRlcAm
=============================================================================
