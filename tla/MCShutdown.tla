----------------------------- MODULE MCShutdown -----------------------------
EXTENDS Shutdown

(* Who calls whom: rules act on conversations, which trigger rules,        *)
(* webhooks and emails; requests reach everything but the incoming queue,  *)
(* which the inbox channels and the widget fill.                           *)
RealCallees ==
  [x \in Pools \cup Assigner \cup {"request"} |->
     Pools \cap (CASE x = "automation"   -> {"automation", "notifier", "webhook"}
                   [] x = "autoassigner" -> {"automation", "notifier", "webhook"}
                   [] x = "notifier"     -> {}
                   [] x = "webhook"      -> {}
                   [] x = "conversation" -> {"automation", "notifier", "webhook"}
                   [] x = "request"      -> {"automation", "notifier", "webhook", "conversation"})]
=============================================================================
