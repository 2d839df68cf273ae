----------------------------- MODULE MCContacts -----------------------------
(* Instance of Contacts for TLC.  The first request uses the contact's     *)
(* session, or that of an exchange, and may merge the visitor; the second  *)
(* is of a visitor, new or old; the third is of anybody else.              *)
EXTENDS Contacts

CONSTANTS r1, r2, r3, x1, x2, home, away

Nothing == [kind |-> "look", token |-> NoOne, visitorToken |-> NoOne, conv |-> NoOne, ext |-> NoExt, from |-> NoMail]
Chat(tokens, visitorTokens, convs) ==
  {[Nothing EXCEPT !.kind = IF c = NoOne THEN "start" ELSE "send", !.token = t, !.visitorToken = v, !.conv = c] :
     t \in tokens, v \in visitorTokens, c \in convs}
Other(kinds, mails) == {[Nothing EXCEPT !.kind = k, !.from = mail] : k \in kinds, mail \in mails}
Look == [Nothing EXCEPT !.token = Contact, !.visitorToken = Visitor]
MailAnswer(mail) == [Nothing EXCEPT !.kind = "answer", !.conv = Visitor, !.from = mail]
Exchange(x) == [Nothing EXCEPT !.kind = "exchange", !.ext = x, !.from = home]
BothSessions == [Nothing EXCEPT !.kind = "logout", !.token = Contact, !.visitorToken = Visitor]

WhatIsAsked ==
  [r \in Requests |->
     CASE r = r1 -> Chat({Contact, r3}, {Visitor}, {NoOne, Visitor}) \union Chat({Contact}, {r2}, {r2})
                    \union {Look, MailAnswer(home), MailAnswer(away)}
       [] r = r2 -> Chat({Visitor}, {NoOne}, {NoOne, Visitor}) \union {Exchange(x1), Exchange(x2)}
                    \union Other({"visit", "ticket", "verify"}, {home})
       [] r = r3 -> {Exchange(x1), BothSessions} \union Other({"register", "verify"}, {home})
                    \union Other({"block"}, {NoMail}) \union Other({"edit"}, {away})]
=============================================================================
