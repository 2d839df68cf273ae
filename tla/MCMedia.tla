------------------------------ MODULE MCMedia ------------------------------
(* Instance of Media for TLC: a visitor, the contact it turns out to be,   *)
(* and an agent, each with one upload.                                     *)
EXTENDS Media

CONSTANTS u1, u2, u3, visitor, contact, agent

WhoUploads == [u \in Uploads |-> CASE u = u1 -> visitor [] u = u2 -> contact [] u = u3 -> agent]
=============================================================================
