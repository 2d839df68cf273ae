----------------------------- MODULE MCSockets -----------------------------
(* Instances of Sockets for TLC. *)
EXTENDS Sockets, TLC

CONSTANTS c1, v1
=============================================================================
