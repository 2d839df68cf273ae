----------------------------- MODULE MCOutgoing -----------------------------
(* Instance of Outgoing for TLC: a reply of an agent and one of the system. *)
EXTENDS Outgoing
=============================================================================
