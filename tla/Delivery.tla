------------------------------ MODULE Delivery ------------------------------
(***************************************************************************)
(* What the outgoing side of the conversation manager promises, without    *)
(* scanner, processing map, queue or workers: a reply that is stored as    *)
(* 'pending' is attempted, and after an attempt it is settled as 'sent' or *)
(* 'failed'.  A further attempt of the same reply needs a reason of its    *)
(* own: an agent's retry, a status update the database refused, or the     *)
(* death of the process after the transport answered.  Outgoing.tla is     *)
(* shown to implement this module.                                         *)
(***************************************************************************)
EXTENDS Naturals

CONSTANT Messages

VARIABLES
  state,    \* where each reply stands
  sends,    \* how often the transport accepted it
  reasons   \* how many reasons for a further attempt it has been given

avars == <<state, sends, reasons>>

States == {"none", "pending", "attempted", "sent", "failed"}

DInit ==
  /\ state = [m \in Messages |-> "none"]
  /\ sends = [m \in Messages |-> 0]
  /\ reasons = [m \in Messages |-> 0]

(* A reply is stored. *)
Accept(m) ==
  /\ state[m] = "none"
  /\ state' = [state EXCEPT ![m] = "pending"]
  /\ UNCHANGED <<sends, reasons>>

(* One attempt; the transport accepts the reply or not. *)
Attempt(m) ==
  /\ state[m] = "pending"
  /\ state' = [state EXCEPT ![m] = "attempted"]
  /\ \E n \in {0, 1} : sends' = [sends EXCEPT ![m] = @ + n]
  /\ UNCHANGED reasons

(* The outcome of the attempt is stored. *)
Settle(m) ==
  /\ state[m] = "attempted"
  /\ \E s \in {"sent", "failed"} : state' = [state EXCEPT ![m] = s]
  /\ UNCHANGED <<sends, reasons>>

(* The replies of M get one more reason each; each of them is owed an      *)
(* attempt again, or stays as it is.                                       *)
Renew(M) ==
  /\ \A m \in M : state[m] # "none"
  /\ \E again \in SUBSET M :
       state' = [m \in Messages |-> IF m \in again THEN "pending" ELSE state[m]]
  /\ reasons' = [m \in Messages |-> IF m \in M THEN reasons[m] + 1 ELSE reasons[m]]
  /\ UNCHANGED sends

DNext ==
  \/ \E m \in Messages : Accept(m) \/ Attempt(m) \/ Settle(m)
  \/ \E M \in SUBSET Messages : Renew(M)

DSpec == DInit /\ [][DNext]_avars
=============================================================================
