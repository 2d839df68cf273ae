----------------------------- MODULE MCInboxes -----------------------------
(* Instances of Inboxes for TLC. *)
EXTENDS Inboxes, TLC

Form(channel, enabled, keyed, rotated) ==
    [channel |-> channel, enabled |-> enabled, keyed |-> keyed, rotated |-> rotated]

(* E-mail with and without the key; live chat on with a new secret, and off. *)
SomeForms == { Form("email", TRUE, TRUE, FALSE), Form("email", TRUE, FALSE, FALSE),
               Form("livechat", TRUE, FALSE, TRUE), Form("livechat", FALSE, TRUE, FALSE) }
=============================================================================
