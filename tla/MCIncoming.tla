----------------------------- MODULE MCIncoming -----------------------------
(* Instances of Incoming for TLC: the second mail answers the first one. *)
EXTENDS Incoming, TLC

CONSTANTS m1, m2, m3

Threads == [m \in Mails |-> IF m = m2 THEN m1 ELSE NoMail]
=============================================================================
