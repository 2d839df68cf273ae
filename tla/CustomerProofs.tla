--------------------------- MODULE CustomerProofs ---------------------------
(***************************************************************************)
(* Proofs about the customers' side of a conversation, for any requests,   *)
(* actors, receivers and bounds.  Contacts: messages lie in conversations  *)
(* of their sender, sessions act for their person, merges lose nothing and *)
(* who is blocked gets nothing stored.  Conversation: one survey for one   *)
(* conversation, no more unmet events than goroutines that insert them,    *)
(* and verdicts that are due, although they are passed on rows read        *)
(* earlier.                                                                *)
(***************************************************************************)
EXTENDS Conversation, Contacts, FiniteSetTheorems, TLAPS

-----------------------------------------------------------------------------
(* Contacts: the inductive invariant *)

(* Until it has passed these steps a request may still create the user of  *)
(* its name, to whom nothing refers before.                                *)
Creating == {"idle", "visitor", "resolve", "enrich", "set", "upsert", "blocked", "known", "answer", "insert",
             "registered", "register", "verify", "activate"}
Exists(i) == i \in Ids /\ user[i].kind # "none"
Refers(q, i) == i \in {job[q].who, job[q].visitor} \/ i \in job[q].out
FreshOK == \A r \in Requests : at[r] \in Creating =>
             /\ user[r].kind = "none" /\ \A q \in Requests : ~Refers(q, r)
             /\ \A i \in Ids : conv[i] # r /\ session[i].user # r
UserOK == \A i \in Ids : user[i].kind = "none" => user[i].mail = NoMail

(* A conversation has a customer who exists, and its request has created   *)
(* it; a message has both.                                                 *)
Stored(c) == c \in Ids /\ (c \in Requests => at[c] \in {"message", "clean up", "done"})
ConvOK == \A c \in Ids : conv[c] # NoOne => Exists(conv[c]) /\ Stored(c)
Said(m) == m \in Ids /\ (m \in Requests => at[m] = "done")
MsgOK == \A m \in Ids : msg[m] # NoMsg =>
           /\ Said(m) /\ msg[m].conv \in Ids /\ conv[msg[m].conv] # NoOne /\ Exists(msg[m].sender)
           /\ conv[msg[m].conv] = msg[m].sender \/ Stranger(m)

(* Sessions signed for a person are of a contact. *)
Person(i, ext) == i \in Ids /\ user[i].kind = "contact" /\ (user[i].ext = ext \/ i \in wronged)
SessionOK == \A t \in Ids : session[t].ext # NoExt => Person(session[t].user, session[t].ext)

(* Merges in progress are of different rows, and hold all that refers to   *)
(* the visitor.                                                            *)
Merging(r) == at[r] \in {"move", "commit"}
Both(r) == {job[r].who, job[r].visitor}
LockOK == \A r \in Requests : Merging(r) =>
            /\ job[r].who \in Ids /\ user[job[r].who].kind = "contact"
            /\ job[r].visitor \in Ids /\ user[job[r].visitor].kind = "visitor"
            /\ \A q \in Requests \ {r} : Merging(q) => Both(q) \intersect Both(r) = {}
            /\ at[r] = "commit" => \A i \in Ids :
                 /\ conv[i] = job[r].visitor => i \in job[r].convs
                 /\ i \in job[r].convs => Stored(i) /\ conv[i] \in {job[r].visitor, NoOne}
                 /\ msg[i].sender = job[r].visitor => i \in job[r].msgs
                 /\ i \in job[r].msgs => Said(i) /\ msg[i].sender \in {job[r].visitor, NoOne}

(* What each request knows at each of its steps. *)
Welcome(r) == job[r].who \in Ids /\ job[r].who \notin job[r].out
NoMails(r) == \A i \in job[r].out : ~Spelled(i, job[r].from)
AskedOK(r) == /\ job[r].ext # NoExt <=> job[r].kind = "exchange"
              /\ job[r].kind \in {"send", "answer"} => job[r].conv \in Ids
              /\ job[r].kind = "answer" => Settled(job[r].conv)
              /\ job[r].kind \in {"ticket", "answer", "verify"} => job[r].from \in Addresses
              /\ \A i \in job[r].out : ~user[i].on /\ (job[r].kind = "answer" => user[i].lower)
ChatOK(r) == /\ at[r] \in {"auth", "auth visitor", "lock", "move", "commit", "revoke"} =>
                  job[r].kind \in {"look", "start", "send"} /\ job[r].token \in Ids
             /\ at[r] \in {"auth visitor", "lock", "move", "commit", "revoke"} => Welcome(r) /\ job[r].visitorToken \in Ids
             /\ at[r] \in {"lock", "move", "commit"} => job[r].visitor \in Ids
             /\ at[r] \in {"allow", "create", "find", "message"} => Welcome(r)
             /\ at[r] = "find" => job[r].kind = "send"
             /\ at[r] \in {"allow", "create"} => job[r].kind \notin {"send", "answer"}
             /\ at[r] = "message" =>
                  /\ Stored(job[r].conv)
                  /\ (Exists(job[r].who) /\ conv[job[r].conv] # NoOne) => conv[job[r].conv] = job[r].who \/ Stranger(r)
WidgetOK(r) == /\ at[r] = "visitor" => job[r].kind = "visit"
               /\ at[r] \in {"resolve", "enrich", "set", "upsert", "sync", "get", "reuse"} => job[r].kind = "exchange"
               /\ at[r] = "sign" => job[r].kind \in {"visit", "exchange"}
               /\ (at[r] = "sign" /\ job[r].kind = "visit") => Welcome(r)
               /\ at[r] = "set" => job[r].who \in Ids /\ user[job[r].who].kind = "contact" /\ job[r].seen = NoExt
               /\ at[r] \in {"sync", "get", "reuse"} => Person(job[r].who, job[r].ext)
               /\ (at[r] = "sign" /\ job[r].kind = "exchange") => Person(job[r].who, job[r].ext)
               /\ at[r] = "note" => job[r].who \in Ids
MailOK(r) == /\ at[r] \in {"blocked", "known", "insert"} => job[r].kind \in {"ticket", "answer"}
             /\ at[r] \in {"answer", "upgrade", "override"} => job[r].kind = "answer"
             /\ at[r] \in {"verify", "activate"} => job[r].kind = "verify"
             /\ at[r] \in {"known", "insert", "answer", "upgrade", "override"} => NoMails(r)
             /\ at[r] \in {"upgrade", "override"} => Welcome(r)
JobOK(r) == AskedOK(r) /\ ChatOK(r) /\ WidgetOK(r) /\ MailOK(r)

RowsOK == FreshOK /\ UserOK /\ ConvOK /\ MsgOK /\ SessionOK
ContactsIInv == ContactsTypeOK /\ RowsOK /\ LockOK /\ \A r \in Requests : JobOK(r)
---------------------------------------------------------------------------
(* What a step of one request does to what the others have read.           *)
Creates(r, i) == i = r /\ at[r] \in Creating
JobStep(r) ==
  /\ \A q \in Requests \ {r} :
       /\ at'[q] = at[q] /\ job'[q].out \subseteq job[q].out
       /\ job'[q].kind = job[q].kind /\ job'[q].token = job[q].token /\ job'[q].visitorToken = job[q].visitorToken
       /\ job'[q].conv = job[q].conv /\ job'[q].ext = job[q].ext /\ job'[q].who = job[q].who
       /\ job'[q].visitor = job[q].visitor /\ job'[q].seen = job[q].seen /\ job'[q].from = job[q].from
       /\ job'[q].convs = job[q].convs /\ job'[q].msgs = job[q].msgs /\ job'[q].stranger = job[q].stranger
  /\ at[r] # "done" /\ at'[r] # "idle" /\ (at'[r] \in Creating => at[r] \in Creating)
  /\ at[r] \in {"message", "clean up"} => at'[r] \in {"message", "clean up", "done"}
  /\ \A i \in Requests : Refers(r, i)' => Refers(r, i) \/ user[i].kind # "none" \/ (i = r /\ at'[r] \notin Creating)
UserStep(r) ==
  /\ wronged \subseteq wronged'
  /\ \A i \in Ids :
       /\ \/ user'[i].kind = user[i].kind /\ (user[i].kind = "none" => user'[i].mail = user[i].mail)
          \/ Creates(r, i) /\ at'[r] \notin Creating /\ user'[i].kind \in {"visitor", "contact"}
          \/ user[i].kind = "visitor" /\ user'[i].kind = "contact" /\ ~Locked(i)
          \/ at[r] = "commit" /\ i = job[r].visitor /\ user'[i] = NoUser
       /\ user[i].kind = "contact" => user'[i].ext = user[i].ext \/ i \in wronged' \/ user[i].ext = NoExt
       /\ \/ user'[i].mail = user[i].mail /\ user'[i].lower = user[i].lower /\ (user'[i].on => user[i].on)
          \/ Creates(r, i) \/ user'[i] = NoUser \/ \A q \in Requests : i \notin job'[q].out
ChatStep(r) ==
  /\ \A c \in Ids :
       \/ conv'[c] = conv[c] /\ ~(at[r] = "commit" /\ conv[c] = job[r].visitor /\ user'[job[r].visitor].kind = "none")
       \/ /\ c = r /\ at[r] = "create" /\ at'[r] = "message"
          /\ conv'[c] = job[r].who /\ Exists(job[r].who) /\ ~Locked(job[r].who)
       \/ c = r /\ at[r] = "clean up" /\ conv'[c] = NoOne
       \/ at[r] = "commit" /\ at'[r] = "revoke" /\ conv[c] = job[r].visitor /\ conv'[c] = job[r].who
  /\ \A m \in Ids :
       \/ /\ msg'[m] = msg[m] /\ ~(at[r] = "clean up" /\ msg[m].conv = r /\ conv'[r] = NoOne)
          /\ ~(at[r] = "commit" /\ msg[m].sender = job[r].visitor /\ user'[job[r].visitor].kind = "none")
       \/ /\ m = r /\ at[r] = "message" /\ at'[r] = "done" /\ msg'[m] = [conv |-> job[r].conv, sender |-> job[r].who]
          /\ Exists(job[r].who) /\ conv[job[r].conv] # NoOne /\ ~Locked(job[r].who)
          /\ conv' = conv /\ user' = user /\ job'[r].stranger = job[r].stranger
       \/ at[r] = "clean up" /\ msg[m].conv = r /\ msg'[m] = NoMsg
       \/ /\ at[r] = "commit" /\ msg[m].sender = job[r].visitor
          /\ msg'[m].sender = job[r].who /\ msg'[m].conv = msg[m].conv
  /\ (at[r] = "commit" /\ user'[job[r].visitor].kind # "none") => conv' = conv /\ msg' = msg
SessionStep(r) ==
  \A t \in Ids : \/ session'[t] = session[t] \/ session'[t] = NoSession
                 \/ at[r] = "sign" /\ session'[t].user = job[r].who /\ session'[t].ext = job[r].ext
LockStep(r) ==
  Merging(r)' =>
    /\ UNCHANGED <<user, conv, msg>> /\ job'[r].who = job[r].who /\ job'[r].visitor = job[r].visitor
    /\ \/ /\ at[r] = "lock" /\ at'[r] = "move" /\ \A i \in Both(r) : ~Locked(i)
          /\ job[r].who \in Ids /\ user[job[r].who].kind = "contact"
          /\ job[r].visitor \in Ids /\ user[job[r].visitor].kind = "visitor"
       \/ /\ at[r] = "move" /\ job'[r].convs = {c \in Ids : conv[c] = job[r].visitor}
          /\ job'[r].msgs = {m \in Ids : msg[m].sender = job[r].visitor}
ContactsStep(r) == JobStep(r) /\ UserStep(r) /\ ChatStep(r) /\ SessionStep(r) /\ LockStep(r)

---------------------------------------------------------------------------
(* Contacts remain, and whoever is out for a request stays blocked and is  *)
(* found at no other address, or is out for no request any more.           *)
OutStays(r, i) == /\ user'[i].on => user[i].on
                  /\ user[i].lower => user'[i].lower
                  /\ \A a \in Addresses : Spelled(i, a)' => Spelled(i, a)
LEMMA UsersStay ==
  ASSUME ContactsAssumption, RowsOK, LockOK, ContactsTypeOK, NEW r \in Requests, UserStep(r), NEW i \in Ids
  PROVE  /\ user[i].kind = "contact" => user'[i].kind = "contact"
         /\ user[i].kind = "none" => user'[i].kind = "none" \/ Creates(r, i)
         /\ OutStays(r, i) \/ Creates(r, i) \/ \A q \in Requests : i \notin job'[q].out
         /\ \A ext : Person(i, ext) /\ ext # NoExt => Person(i, ext)'
         /\ user'[i].kind = "visitor" => user[i].kind = "visitor" \/ Creates(r, i)
<1>1. NoUser.kind = "none" /\ NoUser.mail = NoMail /\ NoUser.lower /\ ~NoUser.on BY DEF NoUser
<1>2. at[r] = "commit" => user[job[r].visitor].kind = "visitor" BY DEF LockOK, Merging
<1>3. Creates(r, i) => user[i].kind = "none" BY DEF RowsOK, FreshOK, Creates
<1>4. user[i].kind \in {"none", "visitor", "contact"} BY DEF ContactsTypeOK, UserRows
<1>5. user[i].kind = "contact" => user'[i].kind = "contact" BY <1>1, <1>2, <1>3 DEF UserStep
<1>6. \A ext : Person(i, ext) /\ ext # NoExt => Person(i, ext)'
  BY <1>5 DEF UserStep, Person
<1>7. OutStays(r, i) \/ Creates(r, i) \/ \A q \in Requests : i \notin job'[q].out
  <2>1. CASE user'[i].mail = user[i].mail /\ user'[i].lower = user[i].lower /\ (user'[i].on => user[i].on)
    BY <2>1 DEF OutStays, Spelled
  <2>2. CASE user'[i] = NoUser
    <3>1. \A a \in Addresses : a # NoMail BY DEF ContactsAssumption
    <3>2. QED BY <1>1, <2>2, <3>1 DEF OutStays, Spelled
  <2>3. QED BY <2>1, <2>2 DEF UserStep
<1>8. /\ user[i].kind = "none" => user'[i].kind = "none" \/ Creates(r, i)
      /\ user'[i].kind = "visitor" => user[i].kind = "visitor" \/ Creates(r, i)
  BY <1>1, <1>2, <1>3, <1>4 DEF UserStep
<1>9. QED BY <1>5, <1>6, <1>7, <1>8

(* Nothing refers to a user before it is created.                          *)
LEMMA StrangersFirst ==
  ASSUME RowsOK, NEW r \in Requests, NEW q \in Requests, NEW i \in Ids, Creates(r, i)
  PROVE  job[q].who # i /\ job[q].visitor # i /\ i \notin job[q].out /\ user[i].kind = "none"
         /\ \A c \in Ids : conv[c] # i /\ session[c].user # i
BY DEF RowsOK, FreshOK, Refers, Creates

LEMMA NobodyIsNone == NoUser.kind = "none" /\ NoUser.mail = NoMail /\ NoUser.lower /\ ~NoUser.on
BY DEF NoUser

(* A conversation that has been there for long stays.                      *)
LEMMA SettledStays ==
  ASSUME RowsOK, LockOK, ContactsTypeOK, ContactsAssumption, NEW r \in Requests, ContactsStep(r), NEW c \in Ids, Settled(c)
  PROVE  Settled(c)'
<1>1. c \in Requests => at[c] = "done" /\ at'[c] = "done" /\ c # r BY DEF Settled, ContactsStep, JobStep
<1>2. c # r BY <1>1
<1>3. CASE conv'[c] = conv[c] BY <1>1, <1>3 DEF Settled
<1>4. CASE at[r] = "commit" /\ conv'[c] = job[r].who
  <2>1. job[r].who \in Ids BY <1>4 DEF LockOK, Merging
  <2>2. QED BY <1>1, <1>4, <2>1 DEF Settled, ContactsAssumption
<1>5. QED BY <1>2, <1>3, <1>4 DEF ContactsStep, ChatStep

(* What a request knows stays true through the steps of the others.        *)
LEMMA AskedStays ==
  ASSUME RowsOK, LockOK, ContactsTypeOK, ContactsAssumption, NEW r \in Requests, ContactsStep(r),
         NEW q \in Requests, AskedOK(q), job'[q].kind = job[q].kind, job'[q].ext = job[q].ext,
         job'[q].from = job[q].from, job'[q].out \subseteq job[q].out,
         job'[q].conv = job[q].conv \/ job[q].kind \notin {"send", "answer"}
  PROVE  AskedOK(q)'
<1>1. job[q].kind \in {"send", "answer"} => job'[q].conv = job[q].conv /\ job[q].conv \in Ids BY DEF AskedOK
<1>2. job[q].kind = "answer" => Settled(job[q].conv)'
  <2>1. SUFFICES ASSUME job[q].kind = "answer" PROVE Settled(job[q].conv)' OBVIOUS
  <2>2. PICK c \in Ids : c = job[q].conv BY <1>1, <2>1
  <2>3. Settled(c) BY <2>1, <2>2 DEF AskedOK
  <2>4. Settled(c)' BY <2>3, SettledStays
  <2>5. QED BY <1>1, <2>1, <2>2, <2>4 DEF Settled
<1>3. ASSUME NEW i \in job'[q].out PROVE ~user'[i].on /\ (job[q].kind = "answer" => user'[i].lower)
  <2>1. i \in job[q].out /\ ~user[i].on /\ (job[q].kind = "answer" => user[i].lower) /\ i \in Ids
    BY <1>3 DEF AskedOK, ContactsTypeOK, Jobs
  <2>2. ~Creates(r, i) BY <2>1, StrangersFirst
  <2>3. QED BY <1>3, <2>1, <2>2, UsersStay DEF ContactsStep, OutStays
<1>4. QED BY <1>1, <1>2, <1>3 DEF AskedOK

LEMMA ChatStays ==
  ASSUME RowsOK, LockOK, ContactsTypeOK, ContactsAssumption, NEW r \in Requests, ContactsStep(r),
         NEW q \in Requests \ {r}, ChatOK(q)
  PROVE  ChatOK(q)'
<1>1. /\ job'[q].kind = job[q].kind /\ job'[q].token = job[q].token /\ job'[q].visitorToken = job[q].visitorToken
      /\ job'[q].conv = job[q].conv /\ job'[q].who = job[q].who /\ job'[q].visitor = job[q].visitor
      /\ job'[q].out \subseteq job[q].out /\ at'[q] = at[q] /\ job'[q].stranger = job[q].stranger
  BY DEF ContactsStep, JobStep
<1>2. Welcome(q) => Welcome(q)' BY <1>1 DEF Welcome
<1>3. ASSUME at[q] = "message"
      PROVE  (/\ Stored(job[q].conv)
              /\ (Exists(job[q].who) /\ conv[job[q].conv] # NoOne) => conv[job[q].conv] = job[q].who \/ Stranger(q))'
  <2>1. PICK c \in Ids, i \in Ids : c = job[q].conv /\ i = job[q].who BY <1>3 DEF ChatOK, Stored, Welcome
  <2>2. Stored(c) /\ ((Exists(i) /\ conv[c] # NoOne) => conv[c] = i \/ Stranger(q))
    BY <1>3, <2>1 DEF ChatOK
  <2>3. Stored(c)' BY <2>2 DEF Stored, ContactsStep, JobStep
  <2>4. ASSUME user'[i].kind # "none", conv'[c] # NoOne, ~Stranger(q)' PROVE conv'[c] = i
    <3>1. ~Creates(r, i) BY <2>1, StrangersFirst
    <3>2. Exists(i) BY <2>4, <3>1, UsersStay DEF Exists, ContactsStep
    <3>3. ~Stranger(q) BY <1>1, <2>4 DEF Stranger
    <3>4. ~(c = r /\ at[r] = "create") BY <2>2 DEF Stored
    <3>5. CASE at[r] = "commit" /\ at'[r] = "revoke" /\ conv[c] = job[r].visitor /\ conv'[c] = job[r].who
      <4>1. job[r].visitor \in Ids BY <3>5 DEF LockOK, Merging
      <4>2. conv[c] # NoOne BY <3>5, <4>1 DEF ContactsAssumption
      <4>3. i = job[r].visitor BY <2>2, <3>2, <3>3, <3>5, <4>2
      <4>4. user'[job[r].visitor].kind = "none"
        <5>1. job[r].who # job[r].visitor BY <3>5 DEF LockOK, Merging
        <5>2. QED BY <3>5, <5>1 DEF ContactsStep, ChatStep
      <4>5. QED BY <2>4, <4>3, <4>4
    <3>6. QED BY <2>2, <2>4, <3>2, <3>3, <3>4, <3>5 DEF ContactsStep, ChatStep
  <2>5. QED BY <1>1, <2>1, <2>3, <2>4 DEF Stored, Exists
<1>4. QED BY <1>1, <1>2, <1>3 DEF ChatOK

LEMMA WidgetStays ==
  ASSUME RowsOK, LockOK, ContactsTypeOK, ContactsAssumption, NEW r \in Requests, ContactsStep(r),
         NEW q \in Requests \ {r}, WidgetOK(q), AskedOK(q)
  PROVE  WidgetOK(q)'
<1>1. /\ job'[q].kind = job[q].kind /\ job'[q].ext = job[q].ext /\ job'[q].who = job[q].who
      /\ job'[q].seen = job[q].seen /\ job'[q].out \subseteq job[q].out /\ at'[q] = at[q]
  BY DEF ContactsStep, JobStep
<1>2. Welcome(q) => Welcome(q)' BY <1>1 DEF Welcome
<1>3. at[q] \in {"sync", "get", "reuse"} => job[q].kind = "exchange" BY DEF WidgetOK
<1>4. Person(job[q].who, job[q].ext) /\ job[q].kind = "exchange" => Person(job[q].who, job[q].ext)'
  <2>1. SUFFICES ASSUME Person(job[q].who, job[q].ext), job[q].kind = "exchange"
                 PROVE  Person(job[q].who, job[q].ext)'
    OBVIOUS
  <2>2. PICK i \in Ids, ext \in {job[q].ext} : i = job[q].who BY <2>1 DEF Person
  <2>3. ext # NoExt BY <2>1, <2>2 DEF AskedOK
  <2>4. Person(i, ext)' BY <2>1, <2>2, <2>3, UsersStay DEF ContactsStep
  <2>5. QED BY <1>1, <2>2, <2>4
<1>5. at[q] = "set" => user'[job[q].who].kind = "contact" /\ job[q].who \in Ids BY UsersStay DEF WidgetOK, ContactsStep
<1>6. QED BY <1>1, <1>2, <1>3, <1>4, <1>5 DEF WidgetOK

(* Who is out is not found at an address either.                           *)
LEMMA OutRemain ==
  ASSUME RowsOK, LockOK, ContactsTypeOK, ContactsAssumption, NEW r \in Requests, ContactsStep(r), NEW q \in Requests,
         NoMails(q), job[q].from \in Addresses, job'[q].from = job[q].from, job'[q].out \subseteq job[q].out
  PROVE  NoMails(q)'
<1>1. PICK a \in Addresses : a = job[q].from /\ a = job'[q].from OBVIOUS
<1>2. ASSUME NEW i \in job'[q].out PROVE ~Spelled(i, a)'
  <2>1. i \in Ids /\ i \in job[q].out /\ ~Spelled(i, a) BY <1>1, <1>2 DEF NoMails, ContactsTypeOK, Jobs
  <2>2. ~Creates(r, i) BY <2>1, StrangersFirst
  <2>3. OutStays(r, i) BY <1>2, <2>1, <2>2, UsersStay DEF ContactsStep
  <2>4. QED BY <2>1, <2>3 DEF OutStays
<1>3. QED BY <1>1, <1>2 DEF NoMails, Spelled

LEMMA MailStays ==
  ASSUME RowsOK, LockOK, ContactsTypeOK, ContactsAssumption, NEW r \in Requests, ContactsStep(r),
         NEW q \in Requests \ {r}, MailOK(q), AskedOK(q)
  PROVE  MailOK(q)'
<1>1. /\ job'[q].kind = job[q].kind /\ job'[q].who = job[q].who /\ job'[q].out \subseteq job[q].out /\ at'[q] = at[q]
      /\ job'[q].from = job[q].from
  BY DEF ContactsStep, JobStep
<1>2. Welcome(q) => Welcome(q)' BY <1>1 DEF Welcome
<1>3. NoMails(q) /\ job[q].from \in Addresses => NoMails(q)'
  BY <1>1, OutRemain
<1>4. at[q] \in {"known", "insert", "answer", "upgrade", "override"} => job[q].from \in Addresses
  BY DEF MailOK, AskedOK
<1>5. QED BY <1>1, <1>2, <1>3, <1>4 DEF MailOK

---------------------------------------------------------------------------
(* The rows *)
LEMMA FreshStays ==
  ASSUME ContactsAssumption, ContactsTypeOK, RowsOK, LockOK, NEW r \in Requests, ContactsStep(r)
  PROVE  FreshOK'
<1>1. SUFFICES ASSUME NEW f \in Requests, at'[f] \in Creating
               PROVE  /\ user'[f].kind = "none" /\ \A q \in Requests : ~Refers(q, f)'
                      /\ \A i \in Ids : conv'[i] # f /\ session'[i].user # f
  BY DEF FreshOK
<1>2. at[f] \in Creating /\ f \in Ids BY <1>1 DEF ContactsStep, JobStep, Ids
<1>3. user[f].kind = "none" /\ \A q \in Requests : ~Refers(q, f) BY <1>1, <1>2 DEF RowsOK, FreshOK
<1>4. \A i \in Ids : conv[i] # f /\ session[i].user # f BY <1>1, <1>2 DEF RowsOK, FreshOK
<1>5. ~(Creates(r, f) /\ at'[r] \notin Creating) BY <1>1 DEF Creates
<1>6. user'[f].kind = "none" BY <1>2, <1>3, <1>5, NobodyIsNone DEF ContactsStep, UserStep
<1>7. ~Refers(r, f)' BY <1>1, <1>3 DEF ContactsStep, JobStep
<1>8. \A q \in Requests \ {r} : ~Refers(q, f)' BY <1>3 DEF ContactsStep, JobStep, Refers
<1>9. job[r].who # f BY <1>3 DEF Refers
<1>10. f # NoOne BY <1>2 DEF ContactsAssumption
<1>11. \A i \in Ids : conv'[i] # f BY <1>4, <1>9, <1>10 DEF ContactsStep, ChatStep
<1>12. \A i \in Ids : session'[i].user # f BY <1>4, <1>9, <1>10 DEF ContactsStep, SessionStep, NoSession
<1>13. QED BY <1>6, <1>7, <1>8, <1>11, <1>12

(* Nobody has no address.                                                  *)
LEMMA UserStays ==
  ASSUME ContactsAssumption, ContactsTypeOK, RowsOK, LockOK, NEW r \in Requests, ContactsStep(r)
  PROVE  UserOK'
<1>1. NoUser.kind = "none" /\ NoUser.mail = NoMail BY DEF NoUser
<1>2. QED BY <1>1 DEF ContactsStep, UserStep, RowsOK, UserOK

(* A customer with conversations or messages is still there after a step,  *)
(* unless the merge has moved them.                                        *)
LEMMA ConvStays ==
  ASSUME ContactsAssumption, ContactsTypeOK, RowsOK, LockOK, NEW r \in Requests, ContactsStep(r)
  PROVE  ConvOK'
<1>1. SUFFICES ASSUME NEW c \in Ids, conv'[c] # NoOne PROVE Exists(conv[c])' /\ Stored(c)'
  BY DEF ConvOK, Exists
<1>2. Stored(c) => Stored(c)' BY DEF Stored, ContactsStep, JobStep
<1>3. CASE conv'[c] = conv[c] /\ ~(at[r] = "commit" /\ conv[c] = job[r].visitor /\ user'[job[r].visitor].kind = "none")
  <2>1. Exists(conv[c]) /\ Stored(c) BY <1>1, <1>3 DEF RowsOK, ConvOK
  <2>2. ~Creates(r, conv[c]) BY <2>1, StrangersFirst DEF Exists
  <2>3. user'[conv[c]].kind # "none" BY <1>3, <2>1, <2>2, NobodyIsNone DEF Exists, ContactsStep, UserStep
  <2>4. QED BY <1>2, <1>3, <2>1, <2>3 DEF Exists
<1>4. CASE c = r /\ at[r] = "create" /\ at'[r] = "message" /\ conv'[c] = job[r].who /\ Exists(job[r].who)
  <2>1. ~Creates(r, job[r].who) BY <1>4 DEF Creates, Creating
  <2>2. user'[job[r].who].kind # "none" BY <1>4, <2>1, NobodyIsNone DEF Exists, ContactsStep, UserStep
  <2>3. QED BY <1>4, <2>2 DEF Exists, Stored
<1>5. CASE at[r] = "commit" /\ at'[r] = "revoke" /\ conv[c] = job[r].visitor /\ conv'[c] = job[r].who
  <2>1. job[r].visitor \in Ids /\ job[r].who \in Ids /\ user[job[r].who].kind = "contact" BY <1>5 DEF LockOK, Merging
  <2>2. Stored(c) BY <1>5, <2>1 DEF RowsOK, ConvOK, ContactsAssumption
  <2>3. user'[job[r].who].kind = "contact" BY <2>1, UsersStay DEF ContactsStep
  <2>4. QED BY <1>2, <1>5, <2>1, <2>2, <2>3 DEF Exists
<1>6. QED BY <1>1, <1>3, <1>4, <1>5 DEF ContactsStep, ChatStep

(* A session that stands is still of its person; a new one is signed for   *)
(* one.                                                                    *)
LEMMA SessionsStay ==
  ASSUME ContactsAssumption, ContactsTypeOK, RowsOK, LockOK, NEW r \in Requests, ContactsStep(r), WidgetOK(r), AskedOK(r)
  PROVE  SessionOK'
<1>1. SUFFICES ASSUME NEW t \in Ids, session'[t].ext # NoExt PROVE Person(session[t].user, session[t].ext)'
  BY DEF SessionOK
<1>2. session'[t] # NoSession BY <1>1 DEF NoSession
<1>3. CASE session'[t] = session[t]
  <2>1. Person(session[t].user, session[t].ext) BY <1>1, <1>3 DEF RowsOK, SessionOK
  <2>2. PICK i \in Ids, ext \in {session[t].ext} : i = session[t].user BY <2>1 DEF Person
  <2>3. Person(i, ext)' BY <1>1, <1>3, <2>1, <2>2, UsersStay DEF ContactsStep
  <2>4. QED BY <1>3, <2>2, <2>3
<1>4. CASE at[r] = "sign" /\ session'[t].user = job[r].who /\ session'[t].ext = job[r].ext
  <2>1. Person(job[r].who, job[r].ext) BY <1>1, <1>4 DEF WidgetOK, AskedOK
  <2>2. PICK i \in Ids, ext \in {job[r].ext} : i = job[r].who BY <2>1 DEF Person
  <2>3. Person(i, ext)' BY <1>1, <1>4, <2>1, <2>2, UsersStay DEF ContactsStep
  <2>4. QED BY <1>4, <2>2, <2>3
<1>5. QED BY <1>2, <1>3, <1>4 DEF ContactsStep, SessionStep

(* A message stays with the conversation of its sender, and the two move   *)
(* together.                                                               *)
LEMMA MsgStays ==
  ASSUME ContactsAssumption, ContactsTypeOK, RowsOK, LockOK, NEW r \in Requests, ContactsStep(r), ChatOK(r)
  PROVE  MsgOK'
<1>1. SUFFICES ASSUME NEW m \in Ids, msg'[m] # NoMsg
               PROVE  (/\ Said(m) /\ msg[m].conv \in Ids /\ conv[msg[m].conv] # NoOne /\ Exists(msg[m].sender)
                       /\ conv[msg[m].conv] = msg[m].sender \/ Stranger(m))'
  BY DEF MsgOK
<1>2. Said(m) => Said(m)' BY DEF Said, ContactsStep, JobStep
<1> DEFINE ok(c, s) == Said(m) /\ c \in Ids /\ conv[c] # NoOne /\ Exists(s) /\ (conv[c] = s \/ Stranger(m))
<1> HIDE DEF ok
<1>3. \A c, s : (c = msg'[m].conv /\ s = msg'[m].sender /\ ok(c, s)') =>
               (/\ Said(m) /\ msg[m].conv \in Ids /\ conv[msg[m].conv] # NoOne /\ Exists(msg[m].sender)
                /\ conv[msg[m].conv] = msg[m].sender \/ Stranger(m))'
  BY DEF ok
<1>4. Said(m) /\ Stranger(m) => Stranger(m)' BY DEF Said, Stranger, ContactsStep, JobStep
<1>5. CASE /\ msg'[m] = msg[m] /\ ~(at[r] = "clean up" /\ msg[m].conv = r /\ conv'[r] = NoOne)
           /\ ~(at[r] = "commit" /\ msg[m].sender = job[r].visitor /\ user'[job[r].visitor].kind = "none")
  <2>1. ok(msg[m].conv, msg[m].sender) BY <1>1, <1>5 DEF RowsOK, MsgOK, ok
  <2>2. PICK c \in Ids, s \in Ids : c = msg[m].conv /\ s = msg[m].sender BY <2>1 DEF ok, Exists
  <2>3. ok(c, s) BY <2>1, <2>2
  <2>4. ~Creates(r, s) BY <2>2, <2>3, StrangersFirst DEF ok, Exists
  <2>5. user'[s].kind # "none" BY <1>5, <2>2, <2>3, <2>4, NobodyIsNone DEF ok, Exists, ContactsStep, UserStep
  <2>6. ~(c = r /\ at[r] = "create") BY <2>3 DEF ok, RowsOK, ConvOK, Stored
  <2>7. ~(c = r /\ at[r] = "clean up" /\ conv'[c] = NoOne) BY <1>5, <2>2
  <2>8. ASSUME conv'[c] = conv[c] PROVE ok(c, s)' BY <1>2, <1>4, <2>2, <2>3, <2>5, <2>8 DEF ok, Exists
  <2>9. ASSUME at[r] = "commit", at'[r] = "revoke", conv[c] = job[r].visitor, conv'[c] = job[r].who
        PROVE  ok(c, s)'
    <3>1. job[r].visitor \in Ids /\ job[r].who \in Ids /\ job[r].who # job[r].visitor BY <2>9 DEF LockOK, Merging
    <3>2. user'[job[r].visitor].kind = "none" BY <2>9, <3>1 DEF ContactsStep, ChatStep
    <3>3. s # job[r].visitor BY <1>5, <2>2, <2>9, <3>2
    <3>4. Stranger(m) BY <2>3, <2>9, <3>3 DEF ok
    <3>5. conv'[c] # NoOne BY <2>9, <3>1 DEF ContactsAssumption
    <3>6. QED BY <1>2, <1>4, <2>2, <2>3, <2>5, <3>4, <3>5 DEF ok, Exists
  <2>10. ok(c, s)' BY <2>2, <2>6, <2>7, <2>8, <2>9 DEF ContactsStep, ChatStep
  <2>11. QED BY <1>3, <1>5, <2>2, <2>10
<1>6. CASE /\ m = r /\ at[r] = "message" /\ at'[r] = "done" /\ msg'[m] = [conv |-> job[r].conv, sender |-> job[r].who]
           /\ Exists(job[r].who) /\ conv[job[r].conv] # NoOne /\ conv' = conv /\ user' = user /\ job'[r].stranger = job[r].stranger
  <2>1. PICK c \in Ids, s \in Ids : c = job[r].conv /\ s = job[r].who BY <1>6 DEF ChatOK, Stored, Exists
  <2>2. conv[c] # NoOne /\ Exists(s) /\ (conv[c] = s \/ Stranger(m)) BY <1>6, <2>1 DEF ChatOK
  <2>3. ok(c, s)' BY <1>6, <2>1, <2>2 DEF ok, Exists, Said, Stranger
  <2>4. QED BY <1>3, <1>6, <2>1, <2>3
<1>7. CASE at[r] = "commit" /\ msg[m].sender = job[r].visitor /\ msg'[m].sender = job[r].who /\ msg'[m].conv = msg[m].conv
  <2>1. job[r].visitor \in Ids /\ job[r].who \in Ids /\ user[job[r].who].kind = "contact" /\ job[r].who # job[r].visitor
    BY <1>7 DEF LockOK, Merging
  <2>2. msg[m] # NoMsg BY <1>7, <2>1 DEF NoMsg, ContactsAssumption
  <2>3. ok(msg[m].conv, job[r].visitor) BY <1>7, <2>2 DEF RowsOK, MsgOK, ok
  <2>4. PICK c \in Ids, s \in Ids : c = msg[m].conv /\ s = job[r].who BY <2>1, <2>3 DEF ok
  <2>5. user'[s].kind = "contact" BY <2>1, <2>4, UsersStay DEF ContactsStep
  <2>6. c # r \/ at[r] # "clean up" BY <1>7
  <2>7. conv'[c] # NoOne /\ (conv'[c] = s \/ Stranger(m))
    <3>1. ok(c, job[r].visitor) BY <2>3, <2>4
    <3>2. CASE conv[c] = job[r].visitor
      <4>1. conv'[c] = s \/ (conv'[c] = conv[c] /\ user'[job[r].visitor].kind # "none")
        BY <1>7, <2>4, <3>2 DEF ContactsStep, ChatStep
      <4>2. user'[job[r].visitor].kind # "none" => msg' = msg BY <1>7 DEF ContactsStep, ChatStep
      <4>3. conv'[c] = s BY <1>7, <2>1, <4>1, <4>2
      <4>4. QED BY <2>4, <4>3 DEF ContactsAssumption
    <3>3. CASE conv[c] # job[r].visitor
      <4>1. Stranger(m) /\ conv[c] # NoOne BY <3>1, <3>3 DEF ok
      <4>2. QED BY <1>7, <2>4, <3>3, <4>1 DEF ContactsStep, ChatStep
    <3>4. QED BY <3>2, <3>3
  <2>8. ok(c, s)' BY <1>2, <1>4, <2>3, <2>4, <2>5, <2>7 DEF ok, Exists
  <2>9. QED BY <1>3, <1>7, <2>4, <2>8
<1>8. QED BY <1>1, <1>5, <1>6, <1>7 DEF ContactsStep, ChatStep

---------------------------------------------------------------------------
(* The locks of the merges *)
LEMMA LocksStay ==
  ASSUME ContactsAssumption, ContactsTypeOK, RowsOK, LockOK, NEW r \in Requests, ContactsStep(r), ChatOK(r)
  PROVE  LockOK'
<1> USE DEF Merging
<1> DEFINE rows(q) == /\ job[q].who \in Ids /\ user[job[q].who].kind = "contact"
                      /\ job[q].visitor \in Ids /\ user[job[q].visitor].kind = "visitor"
           apart(q) == \A p \in Requests \ {q} : Merging(p) => Both(p) \intersect Both(q) = {}
           holds(q) == at[q] = "commit" => \A i \in Ids :
               /\ conv[i] = job[q].visitor => i \in job[q].convs
               /\ i \in job[q].convs => Stored(i) /\ conv[i] \in {job[q].visitor, NoOne}
               /\ msg[i].sender = job[q].visitor => i \in job[q].msgs
               /\ i \in job[q].msgs => Said(i) /\ msg[i].sender \in {job[q].visitor, NoOne}
<1>1. \A q \in Requests \ {r} : /\ at'[q] = at[q] /\ job'[q].who = job[q].who /\ job'[q].visitor = job[q].visitor
                                /\ job'[q].convs = job[q].convs /\ job'[q].msgs = job[q].msgs
  BY DEF ContactsStep, JobStep
<1>2. \A i \in Ids : (Stored(i) => Stored(i)') /\ (Said(i) => Said(i)')
  BY DEF Stored, Said, ContactsStep, JobStep
<1>3. \A q \in Requests : Merging(q) => rows(q) /\ apart(q) /\ holds(q) BY DEF LockOK
<1>4. LockStep(r) BY DEF ContactsStep
<1>5. ASSUME Merging(r)', NEW q \in Requests \ {r}, Merging(q)' PROVE (Both(q) \intersect Both(r) = {})'
  <2>1. Merging(q) /\ Both(q)' = Both(q) BY <1>1, <1>5 DEF Both
  <2>2. Both(r)' = Both(r) BY <1>4, <1>5 DEF LockStep, Both
  <2>3. CASE at[r] = "lock" /\ \A i \in Both(r) : ~Locked(i) BY <2>1, <2>2, <2>3 DEF Locked, Both
  <2>4. CASE at[r] = "move"
    <3>1. apart(r) BY <2>4, <1>3
    <3>2. Both(q) \intersect Both(r) = {} BY <2>1, <3>1
    <3>3. QED BY <2>1, <2>2, <3>2
  <2>5. QED BY <1>4, <1>5, <2>3, <2>4 DEF LockStep
<1>6. ASSUME NEW q \in Requests, Merging(q)' PROVE apart(q)'
  <2>1. SUFFICES ASSUME NEW p \in Requests \ {q}, Merging(p)' PROVE (Both(p) \intersect Both(q) = {})' OBVIOUS
  <2>2. CASE q = r BY <1>5, <1>6, <2>1, <2>2
  <2>3. CASE p = r BY <1>5, <1>6, <2>1, <2>3
  <2>4. CASE q # r /\ p # r
    <3>1. Merging(q) /\ Merging(p) /\ Both(q)' = Both(q) /\ Both(p)' = Both(p)
      BY <1>1, <1>6, <2>1, <2>4 DEF Both
    <3>2. apart(q) BY <1>3, <3>1
    <3>3. Both(p) \intersect Both(q) = {} BY <2>1, <3>1, <3>2
    <3>4. QED BY <3>1, <3>3
  <2>5. QED BY <2>2, <2>3, <2>4
<1>7. ASSUME Merging(r)' PROVE rows(r)' /\ holds(r)'
  <2>1. UNCHANGED <<user, conv, msg>> /\ job'[r].who = job[r].who /\ job'[r].visitor = job[r].visitor
    BY <1>4, <1>7 DEF LockStep
  <2>2. CASE at[r] = "lock" /\ at'[r] = "move" BY <1>4, <1>7, <2>1, <2>2 DEF LockStep
  <2>3. CASE /\ at[r] = "move" /\ job'[r].convs = {c \in Ids : conv[c] = job[r].visitor}
             /\ job'[r].msgs = {m \in Ids : msg[m].sender = job[r].visitor}
    <3>1. rows(r) BY <1>3, <2>3
    <3>2. rows(r)' BY <2>1, <3>1
    <3>3. job[r].visitor # NoOne BY <3>1 DEF ContactsAssumption
    <3>4. \A i \in Ids : (conv[i] = job[r].visitor => Stored(i)) /\ (msg[i].sender = job[r].visitor => Said(i))
      BY <3>3 DEF RowsOK, ConvOK, MsgOK, NoMsg
    <3>5. holds(r)' BY <1>2, <2>1, <2>3, <3>4
    <3>6. QED BY <3>2, <3>5
  <2>4. QED BY <1>4, <1>7, <2>2, <2>3 DEF LockStep
<1>8. ASSUME NEW q \in Requests \ {r}, Merging(q)' PROVE rows(q)' /\ holds(q)'
  <2>1. Merging(q) /\ rows(q) /\ apart(q) /\ holds(q) BY <1>1, <1>3, <1>8
  <2>2. PICK w \in Ids, v \in Ids : w = job[q].who /\ v = job[q].visitor BY <2>1
  <2>3. user'[w].kind = "contact" BY <2>1, <2>2, UsersStay DEF ContactsStep
  <2>4. Locked(v) BY <2>1, <2>2 DEF Locked
  <2>5. ~(at[r] = "commit" /\ job[r].visitor = v) BY <2>1, <2>2 DEF Both
  <2>6. user'[v].kind = "visitor"
    <3>1. user[v].kind = "visitor" BY <2>1, <2>2
    <3>2. ~Creates(r, v) BY <3>1, StrangersFirst
    <3>3. QED BY <2>4, <2>5, <3>1, <3>2, NobodyIsNone DEF ContactsStep, UserStep
  <2>7. rows(q)' BY <1>1, <2>2, <2>3, <2>6
  <2>8. ~(at[r] = "commit" /\ job[r].who = v) BY <2>1, <2>2 DEF Both
  <2>9. ASSUME at[q] = "commit", NEW i \in Ids
        PROVE  /\ conv'[i] = v => i \in job[q].convs
               /\ i \in job[q].convs => Stored(i)' /\ conv'[i] \in {v, NoOne}
               /\ msg'[i].sender = v => i \in job[q].msgs
               /\ i \in job[q].msgs => Said(i)' /\ msg'[i].sender \in {v, NoOne}
    <3>1. /\ conv[i] = v => i \in job[q].convs
          /\ i \in job[q].convs => Stored(i) /\ conv[i] \in {v, NoOne}
          /\ msg[i].sender = v => i \in job[q].msgs
          /\ i \in job[q].msgs => Said(i) /\ msg[i].sender \in {v, NoOne}
      BY <2>1, <2>2, <2>9
    <3>2. v # NoOne BY DEF ContactsAssumption
    <3>3. at[r] \in {"create", "message"} /\ ~Locked(job[r].who) => job[r].who # v BY <2>4
    <3>4. at[r] = "create" /\ Stored(i) => i # r BY DEF Stored
    <3>5. at[r] = "message" /\ Said(i) => i # r BY DEF Said
    <3>6. at[r] = "commit" => job[r].visitor \in Ids BY DEF LockOK
    <3>7. at[r] = "commit" => job[r].visitor # NoOne BY <3>6 DEF ContactsAssumption
    <3>8. conv'[i] = v => conv[i] = v BY <2>8, <3>2, <3>3 DEF ContactsStep, ChatStep
    <3>9. i \in job[q].convs => conv'[i] \in {v, NoOne}
      BY <2>5, <3>1, <3>4, <3>7 DEF ContactsStep, ChatStep
    <3>10. \/ msg'[i].sender = msg[i].sender \/ msg'[i].sender = NoOne
           \/ i = r /\ at[r] = "message" /\ ~Locked(job[r].who) /\ msg'[i].sender = job[r].who
           \/ at[r] = "commit" /\ msg[i].sender = job[r].visitor /\ msg'[i].sender = job[r].who
      <4>1. NoMsg.sender = NoOne /\ [conv |-> job[r].conv, sender |-> job[r].who].sender = job[r].who BY DEF NoMsg
      <4>2. QED BY <4>1 DEF ContactsStep, ChatStep
    <3>11. msg'[i].sender = v => msg[i].sender = v BY <2>8, <3>10, <3>2, <3>3
    <3>12. i \in job[q].msgs => msg'[i].sender \in {v, NoOne} BY <2>5, <3>10, <3>1, <3>5, <3>7
    <3>13. QED BY <1>2, <3>1, <3>8, <3>9, <3>11, <3>12
  <2>10. holds(q)' BY <1>1, <2>2, <2>9
  <2>11. QED BY <2>7, <2>10
<1>9. QED
  <2>1. SUFFICES ASSUME NEW q \in Requests, Merging(q)' PROVE rows(q)' /\ apart(q)' /\ holds(q)'
    BY DEF LockOK
  <2>2. QED BY <1>6, <1>7, <1>8, <2>1

(* The steps of a request keep the invariant if they leave it what it      *)
(* needs itself.                                                           *)
LEMMA StepKeepsIInv ==
  ASSUME ContactsAssumption, ContactsIInv, ContactsTypeOK', NEW r \in Requests, ContactsStep(r), JobOK(r)'
  PROVE  ContactsIInv'
<1>1. ContactsTypeOK /\ RowsOK /\ LockOK /\ JobOK(r) BY DEF ContactsIInv
<1>2. RowsOK' BY <1>1, FreshStays, UserStays, ConvStays, MsgStays, SessionsStay DEF RowsOK, JobOK
<1>3. LockOK' BY <1>1, LocksStay DEF JobOK
<1>4. ASSUME NEW q \in Requests \ {r} PROVE JobOK(q)'
  <2>1. AskedOK(q) /\ ChatOK(q) /\ WidgetOK(q) /\ MailOK(q) BY DEF ContactsIInv, JobOK
  <2>2. /\ job'[q].kind = job[q].kind /\ job'[q].ext = job[q].ext /\ job'[q].out \subseteq job[q].out
        /\ job'[q].conv = job[q].conv /\ job'[q].from = job[q].from
    BY DEF ContactsStep, JobStep
  <2>3. AskedOK(q)' BY <1>1, <2>1, <2>2, AskedStays
  <2>4. QED BY <1>1, <2>1, <2>3, ChatStays, WidgetStays, MailStays DEF JobOK
<1>5. QED BY <1>2, <1>3, <1>4 DEF ContactsIInv

---------------------------------------------------------------------------
(* The steps, one by one.  What each of them has in common comes first.    *)
Same(r) == /\ job'[r].kind = job[r].kind /\ job'[r].ext = job[r].ext /\ job'[r].from = job[r].from
           /\ job'[r].out \subseteq job[r].out
           /\ job'[r].conv = job[r].conv \/ job[r].kind \notin {"send", "answer"}

Kept(r) == ContactsStep(r) /\ ContactsIInv'

(* What is left to show of a step: that the request itself finds what its  *)
(* next step needs.                                                        *)
LEMMA Advance ==
  ASSUME ContactsAssumption, ContactsIInv, ContactsTypeOK', NEW r \in Requests, ContactsStep(r), Same(r),
         (ChatOK(r) /\ WidgetOK(r) /\ MailOK(r))'
  PROVE  Kept(r)
<1>1. ContactsTypeOK /\ RowsOK /\ LockOK /\ AskedOK(r) BY DEF ContactsIInv, JobOK
<1>2. AskedOK(r)' BY <1>1, AskedStays DEF Same
<1>3. JobOK(r)' BY <1>2 DEF JobOK
<1>4. QED BY <1>3, StepKeepsIInv DEF Kept

Meets(r, p, j) == \A i \in Requests : i \in {j.who, j.visitor} \/ i \in j.out =>
                     Refers(r, i) \/ user[i].kind # "none" \/ (i = r /\ p \notin Creating)

(* A request that goes on, with what it has read.                          *)
LEMMA JobMoves ==
  ASSUME ContactsIInv, NEW r \in Requests, NEW p \in Places, NEW j \in Jobs, Go(r, p), Keep(r, j),
         at[r] # "done", p # "idle", p \in Creating => at[r] \in Creating,
         at[r] \in {"message", "clean up"} => p \in {"message", "clean up", "done"},
         Meets(r, p, j)
  PROVE  /\ JobStep(r) /\ at' \in [Requests -> Places] /\ job' \in [Requests -> Jobs]
         /\ at'[r] = p /\ job'[r] = j /\ \A q \in Requests \ {r} : job'[q] = job[q] /\ at'[q] = at[q]
<1>1. at \in [Requests -> Places] /\ job \in [Requests -> Jobs] BY DEF ContactsIInv, ContactsTypeOK
<1>2. at' \in [Requests -> Places] /\ job' \in [Requests -> Jobs] BY <1>1 DEF Go, Keep
<1>3. at'[r] = p /\ job'[r] = j BY <1>1 DEF Go, Keep
<1>4. \A q \in Requests \ {r} : job'[q] = job[q] /\ at'[q] = at[q] BY <1>1 DEF Go, Keep
<1>5. \A i \in Requests : Refers(r, i)' => Refers(r, i) \/ user[i].kind # "none" \/ (i = r /\ at'[r] \notin Creating)
  BY <1>3 DEF Refers, Meets
<1>6. JobStep(r) BY <1>3, <1>4, <1>5 DEF JobStep
<1>7. QED BY <1>2, <1>3, <1>4, <1>6

(* What a request has read has its type, and so has a step that changes    *)
(* none of it.                                                             *)
LEMMA JobStays ==
  ASSUME ContactsIInv, NEW r \in Requests, UNCHANGED job
  PROVE  Keep(r, job[r]) /\ job[r] \in Jobs
BY DEF ContactsIInv, ContactsTypeOK, Keep

(* A statement fails or not.                                               *)
LEMMA TroublesStay ==
  ASSUME ContactsAssumption, ContactsIInv, Smooth \/ Trouble
  PROVE  troubles' \in 0..MaxTroubles
<1>1. troubles \in 0..MaxTroubles /\ MaxTroubles \in Nat BY DEF ContactsIInv, ContactsTypeOK, ContactsAssumption
<1>2. CASE Smooth BY <1>1, <1>2 DEF Smooth
<1>3. CASE Trouble BY <1>1, <1>3 DEF Trouble
<1>4. QED BY <1>2, <1>3

(* A step that leaves users, conversations and messages alone.             *)
LEMMA RowsStay ==
  ASSUME ContactsAssumption, ContactsIInv, NEW r \in Requests, UNCHANGED <<user, chat>>, wronged \subseteq wronged'
  PROVE  UserStep(r) /\ ChatStep(r)
<1>1. at[r] = "commit" => user[job[r].visitor].kind # "none" BY DEF ContactsIInv, LockOK, Merging
<1>2. \A m \in Ids : msg[m].conv = r => conv[r] # NoOne
  <2>1. r \in Ids /\ r # NoOne BY DEF ContactsAssumption, Ids
  <2>2. QED BY <2>1 DEF ContactsIInv, RowsOK, MsgOK, NoMsg
<1>3. UserStep(r) BY DEF UserStep
<1>4. ChatStep(r) BY <1>1, <1>2 DEF ChatStep, chat
<1>5. QED BY <1>3, <1>4

RedisStep(r) == SessionStep(r) /\ session' \in [Ids -> Sessions] /\ reverse' \in [Ids -> IdsOrNone]
LEMMA RedisStays ==
  ASSUME ContactsIInv, NEW r, UNCHANGED redis \/ (UNCHANGED reverse /\ \E token : Forget(token))
  PROVE  RedisStep(r)
<1>1. session \in [Ids -> Sessions] /\ reverse \in [Ids -> IdsOrNone] BY DEF ContactsIInv, ContactsTypeOK
<1>2. CASE UNCHANGED redis BY <1>1, <1>2 DEF RedisStep, SessionStep, redis
<1>3. CASE UNCHANGED reverse /\ \E token : Forget(token)
  <2>1. PICK token : session' = [session EXCEPT ![token] = NoSession] BY <1>3 DEF Forget
  <2>2. NoSession \in Sessions BY DEF NoSession, Sessions, IdsOrNone, Exts
  <2>3. session' \in [Ids -> Sessions] /\ \A t \in Ids : session'[t] = session[t] \/ session'[t] = NoSession
    BY <1>1, <2>1, <2>2
  <2>4. QED BY <1>1, <1>3, <2>3 DEF RedisStep, SessionStep
<1>4. QED BY <1>2, <1>3

(* A step that leaves the rows of the database alone. *)
LEMMA Reads ==
  ASSUME ContactsAssumption, ContactsIInv, NEW r \in Requests, NEW p \in Places, NEW j \in Jobs, Go(r, p), Keep(r, j),
         at[r] # "done", p # "idle", p \in Creating => at[r] \in Creating,
         at[r] \in {"message", "clean up"} => p \in {"message", "clean up", "done"},
         Meets(r, p, j),
         UNCHANGED <<user, pending, chat, wronged>>, RedisStep(r), Smooth \/ Trouble, p \notin {"move", "commit"}
  PROVE  ContactsTypeOK' /\ ContactsStep(r) /\ at'[r] = p /\ job'[r] = j
<1>1. /\ JobStep(r) /\ at' \in [Requests -> Places] /\ job' \in [Requests -> Jobs]
      /\ at'[r] = p /\ job'[r] = j
  BY JobMoves
<1>2. troubles' \in 0..MaxTroubles
  BY TroublesStay
<1>3. ContactsTypeOK' BY <1>1, <1>2 DEF ContactsIInv, ContactsTypeOK, RedisStep, chat
<1>4. UserStep(r) /\ ChatStep(r) BY RowsStay
<1>5. SessionStep(r) BY DEF RedisStep
<1>6. LockStep(r) BY <1>1 DEF LockStep, Merging
<1>7. QED BY <1>1, <1>3, <1>4, <1>5, <1>6 DEF ContactsStep

(* A step that neither reads nor writes.                                   *)
LEMMA Moves ==
  ASSUME ContactsAssumption, ContactsIInv, NEW r \in Requests, NEW p \in Places, Go(r, p), UNCHANGED job,
         at[r] # "done", p # "idle", p \in Creating => at[r] \in Creating,
         at[r] \in {"message", "clean up"} => p \in {"message", "clean up", "done"},
         UNCHANGED <<user, pending, chat, wronged>>, RedisStep(r), Smooth \/ Trouble, p \notin {"move", "commit"}
  PROVE  /\ ContactsTypeOK' /\ ContactsStep(r) /\ at'[r] = p /\ Same(r) /\ Welcome(r) = Welcome(r)'
         /\ job' = job /\ (ChatOK(r) /\ WidgetOK(r) /\ MailOK(r))' => Kept(r)
<1>1. Keep(r, job[r]) /\ job[r] \in Jobs BY JobStays
<1>2. Meets(r, p, job[r]) BY DEF Meets, Refers
<1>3. ContactsTypeOK' /\ ContactsStep(r) /\ at'[r] = p BY <1>1, <1>2, Reads
<1>4. Same(r) /\ Welcome(r)' = Welcome(r) BY DEF Same, Welcome
<1>5. QED BY <1>3, <1>4, Advance

(* A request that ends needs nothing more.                                 *)
LEMMA Ends ==
  ASSUME ContactsAssumption, ContactsIInv, NEW r \in Requests, Go(r, "done"), UNCHANGED job, at[r] # "done",
         UNCHANGED <<user, pending, chat, wronged>>, RedisStep(r), Smooth \/ Trouble
  PROVE  Kept(r)
<1>1. "done" \in Places /\ "done" \notin Creating BY DEF Places, Creating
<1>2. at'[r] = "done" /\ ((ChatOK(r) /\ WidgetOK(r) /\ MailOK(r))' => Kept(r)) BY <1>1, Moves
<1>3. QED BY <1>2 DEF ChatOK, WidgetOK, MailOK

(* What follows a merge, or the lack of one. *)
LEMMA HandlerNext ==
  ASSUME NEW r \in Requests, at'[r] = Handler(r), Welcome(r), job[r].kind \in {"look", "start", "send"},
         job'[r].kind = job[r].kind, job'[r].who = job[r].who, job'[r].out = job[r].out
  PROVE  (ChatOK(r) /\ WidgetOK(r) /\ MailOK(r))' /\ Handler(r) \in {"allow", "find", "done"}
<1>1. Welcome(r)' BY DEF Welcome
<1>2. Handler(r) \in {"allow", "find", "done"} /\ (Handler(r) = "find" => job[r].kind = "send")
      /\ (Handler(r) = "allow" => job[r].kind = "start")
  BY DEF Handler
<1>3. QED BY <1>1, <1>2 DEF ChatOK, WidgetOK, MailOK

Becomes(r, j, i) == /\ j.who = i /\ j.kind = job[r].kind /\ j.ext = job[r].ext /\ j.out = job[r].out
                    /\ j.conv = job[r].conv /\ j.visitor = job[r].visitor /\ j.token = job[r].token
                    /\ j.visitorToken = job[r].visitorToken /\ j.from = job[r].from /\ j.stranger = job[r].stranger
(* A request that has found its user.                                      *)
LEMMA WhoKnown ==
  ASSUME ContactsIInv, NEW r \in Requests, NEW i \in IdsOrNone
  PROVE  \E j \in Jobs : j = [job[r] EXCEPT !.who = i] /\ Becomes(r, j, i)
<1>1. job[r] \in Jobs BY DEF ContactsIInv, ContactsTypeOK
<1>2. PICK j : j = [job[r] EXCEPT !.who = i] OBVIOUS
<1>3. j \in Jobs BY <1>1, <1>2 DEF Jobs
<1>4. Becomes(r, j, i) BY <1>1, <1>2 DEF Jobs, Becomes
<1>5. QED BY <1>2, <1>3, <1>4

(* The actions of a request, in the order of the module Contacts.          *)
LEMMA BeginKeeps ==
  ASSUME ContactsAssumption, ContactsIInv, NEW r \in Requests, Begin(r)
  PROVE  Kept(r)
<1>1. PICK ask \in Asks[r] :
        /\ ask.kind = "answer" => Settled(ask.conv)
        /\ Go(r, FirstStep(ask.kind))
        /\ Keep(r, [NoJob EXCEPT !.kind = ask.kind, !.token = ask.token, !.visitorToken = ask.visitorToken,
                                 !.conv = ask.conv, !.ext = ask.ext, !.from = ask.from,
                                 !.out = {i \in Ids : /\ user[i].kind # "none" /\ ~user[i].on
                                                      /\ ask.kind = "answer" => user[i].lower}])
  BY DEF Begin
<1>2. /\ ask \in AnyAsk /\ (ask.kind = "exchange" <=> ask.ext # NoExt)
      /\ ask.kind \in {"look", "start", "send"} => ask.token \in Ids
      /\ ask.kind \in {"send", "answer"} => ask.conv \in Ids
      /\ ask.kind \in {"ticket", "answer", "verify"} => ask.from \in Addresses
  BY DEF ContactsAssumption
<1>3. PICK p \in Places : p = FirstStep(ask.kind) BY <1>2 DEF FirstStep, Places, AnyAsk, Kinds
<1>4. PICK blocked \in SUBSET Ids : blocked = {i \in Ids : /\ user[i].kind # "none" /\ ~user[i].on
                                                           /\ ask.kind = "answer" => user[i].lower}
  OBVIOUS
<1>5. PICK j : j = [NoJob EXCEPT !.kind = ask.kind, !.token = ask.token, !.visitorToken = ask.visitorToken,
                                 !.conv = ask.conv, !.ext = ask.ext, !.from = ask.from, !.out = blocked]
  OBVIOUS
<1>6. /\ j.kind = ask.kind /\ j.token = ask.token /\ j.visitorToken = ask.visitorToken /\ j.conv = ask.conv
      /\ j.ext = ask.ext /\ j.from = ask.from /\ j.out = blocked /\ j.who = NoOne /\ j.visitor = NoOne
  BY <1>5 DEF NoJob
<1>7. j \in Jobs
  <2>1. NoJob \in Jobs BY DEF NoJob, Jobs, IdsOrNone, Exts, Mails
  <2>2. ask.kind \in Kinds /\ ask.token \in IdsOrNone /\ ask.visitorToken \in IdsOrNone /\ ask.conv \in IdsOrNone
        /\ ask.ext \in Exts /\ ask.from \in Mails
    BY <1>2 DEF AnyAsk, Exts
  <2>3. QED BY <1>4, <1>5, <2>1, <2>2 DEF Jobs
<1>8. at[r] = "idle" /\ Smooth /\ UNCHANGED <<user, pending, redis, chat, wronged>> BY DEF Begin, people
<1>9. Go(r, p) /\ Keep(r, j) BY <1>1, <1>3, <1>4, <1>5
<1>10. p \notin {"idle", "move", "commit"} BY <1>2, <1>3 DEF FirstStep, AnyAsk, Kinds
<1>11. Meets(r, p, j)
  <2>1. NoOne \notin Requests BY DEF ContactsAssumption, Ids
  <2>2. QED BY <1>4, <1>6, <2>1 DEF Meets
<1>12. RedisStep(r) BY <1>8, RedisStays
<1>13. ContactsTypeOK' /\ ContactsStep(r) /\ at'[r] = p /\ job'[r] = j
  <2>1. at[r] \in Creating /\ at[r] \notin {"done", "message", "clean up"} BY <1>8 DEF Creating
  <2>2. QED BY <1>7, <1>8, <1>9, <1>10, <1>11, <1>12, <2>1, Reads
<1>14. AskedOK(r)'
  <2>1. user' = user /\ conv' = conv BY <1>8 DEF chat
  <2>2. ask.kind = "answer" => ask.conv # r BY <1>1, <1>8 DEF Settled
  <2>3. ask.kind = "answer" => at'[ask.conv] = at[ask.conv] \/ ask.conv \notin Requests
    BY <1>13, <2>2 DEF ContactsStep, JobStep
  <2>4. ask.kind = "answer" => Settled(ask.conv)' BY <1>1, <2>1, <2>3 DEF Settled
  <2>5. ask.kind = "answer" => Settled(job[r].conv)'
    <3>1. PICK c : c = ask.conv OBVIOUS
    <3>2. QED BY <1>6, <1>13, <2>4, <3>1 DEF Settled
  <2>6. \A i \in blocked : ~user[i].on /\ (ask.kind = "answer" => user[i].lower) BY <1>4
  <2>7. QED BY <1>2, <1>6, <1>13, <2>1, <2>5, <2>6 DEF AskedOK
<1>15. (ChatOK(r) /\ WidgetOK(r) /\ MailOK(r))'
  <2>1. at'[r] \in {"auth"} => job'[r].kind \in {"look", "start", "send"} /\ job'[r].token \in Ids
    BY <1>2, <1>3, <1>6, <1>13 DEF FirstStep, AnyAsk, Kinds
  <2>2. at'[r] \in {"auth", "visitor", "resolve", "blocked", "registered", "verify", "logout", "block", "edit"}
    BY <1>2, <1>3, <1>13 DEF FirstStep, AnyAsk, Kinds
  <2>3. /\ at'[r] = "visitor" => job'[r].kind = "visit"
        /\ at'[r] = "resolve" => job'[r].kind = "exchange"
        /\ at'[r] = "blocked" => job'[r].kind \in {"ticket", "answer"}
        /\ at'[r] = "verify" => job'[r].kind = "verify"
    BY <1>2, <1>3, <1>6, <1>13 DEF FirstStep, AnyAsk, Kinds
  <2>4. QED BY <2>1, <2>2, <2>3 DEF ChatOK, WidgetOK, MailOK
<1>16. QED BY <1>13, <1>14, <1>15, StepKeepsIInv DEF JobOK, Kept

LEMMA AuthKeeps ==
  ASSUME ContactsAssumption, ContactsIInv, NEW r \in Requests, Auth(r)
  PROVE  Kept(r)
<1> DEFINE token == job[r].token
<1>1. at[r] = "auth" /\ UNCHANGED <<user, pending, reverse, chat, wronged>> BY DEF Auth, people
<1>2. job[r].kind \in {"look", "start", "send"} /\ token \in Ids BY <1>1 DEF ContactsIInv, JobOK, ChatOK
<1>3. CASE ~Live(token) /\ Go(r, "done") /\ Smooth /\ UNCHANGED <<session, job>>
  <2>1. RedisStep(r) BY <1>1, <1>3, RedisStays DEF redis
  <2>2. QED BY <1>1, <1>3, <2>1, Ends
<1>4. CASE Reject(token, Valid(token)) /\ Go(r, "done") /\ UNCHANGED job
  <2>1. RedisStep(r) BY <1>1, <1>4, RedisStays DEF redis, Reject
  <2>2. QED BY <1>1, <1>4, <2>1, Ends DEF Reject
<1>5. CASE /\ Live(token) /\ Valid(token) /\ KeepWho(r, session[token].user) /\ Smooth
           /\ Go(r, IF job[r].visitorToken # NoOne /\ session[token].ext # NoExt THEN "auth visitor" ELSE Handler(r))
           /\ UNCHANGED session
  <2>1. RedisStep(r) BY <1>1, <1>5, RedisStays DEF redis
  <2>2. PICK i \in Ids : i = session[token].user
    BY <1>2, <1>5 DEF Live, ContactsIInv, ContactsTypeOK, Sessions, IdsOrNone
  <2>3. user[i].kind # "none" /\ user[i].on BY <1>5, <2>2 DEF Valid
  <2>4. PICK j \in Jobs : j = [job[r] EXCEPT !.who = i] /\ Becomes(r, j, i) BY WhoKnown DEF IdsOrNone
  <2>5. /\ j.who = i /\ j.kind = job[r].kind /\ j.out = job[r].out /\ j.visitorToken = job[r].visitorToken
        /\ j.token = job[r].token
    BY <2>4 DEF Becomes
  <2>6. PICK p \in Places : /\ p = IF job[r].visitorToken # NoOne /\ session[token].ext # NoExt THEN "auth visitor" ELSE Handler(r)
                            /\ p \in {"auth visitor", "done", "allow", "find"}
                            /\ p = "find" => job[r].kind = "send"
                            /\ p = "allow" => job[r].kind = "start"
    BY DEF Places, Handler
  <2>7. Go(r, p) /\ Keep(r, j) BY <1>5, <2>2, <2>4, <2>6 DEF KeepWho
  <2>8. Meets(r, p, j) BY <2>3, <2>4 DEF Meets, Refers, Becomes
  <2>9. ContactsTypeOK' /\ ContactsStep(r) /\ at'[r] = p /\ job'[r] = j
    BY <1>1, <1>5, <2>1, <2>6, <2>7, <2>8, Reads DEF Creating
  <2>10. i \notin job[r].out BY <2>3 DEF ContactsIInv, JobOK, AskedOK
  <2>11. Welcome(r)' BY <2>5, <2>9, <2>10 DEF Welcome
  <2>12. p = "auth visitor" => job[r].visitorToken \in Ids
    <3>1. job[r].visitorToken \in IdsOrNone BY DEF ContactsIInv, ContactsTypeOK, Jobs
    <3>2. p = "auth visitor" => job[r].visitorToken # NoOne BY <2>6 DEF Handler
    <3>3. QED BY <3>1, <3>2 DEF IdsOrNone
  <2>13. (ChatOK(r) /\ WidgetOK(r) /\ MailOK(r))'
    BY <1>2, <2>5, <2>6, <2>9, <2>11, <2>12 DEF ChatOK, WidgetOK, MailOK
  <2>14. Same(r) BY <2>4, <2>9 DEF Same, Becomes
  <2>15. QED BY <2>9, <2>13, <2>14, Advance
<1>6. QED BY <1>3, <1>4, <1>5 DEF Auth

LEMMA AuthVisitorKeeps ==
  ASSUME ContactsAssumption, ContactsIInv, NEW r \in Requests, AuthVisitor(r)
  PROVE  Kept(r)
<1> DEFINE token == job[r].visitorToken
           mergeable == Live(token) /\ session[token].ext = NoExt /\ session[token].user # Who(r)
           good == Valid(token) /\ user[session[token].user].kind = "visitor"
<1>1. at[r] = "auth visitor" /\ UNCHANGED <<user, pending, reverse, chat, wronged>> BY DEF AuthVisitor, people
<1>2. job[r].kind \in {"look", "start", "send"} /\ token \in Ids /\ job[r].token \in Ids /\ Welcome(r)
  BY <1>1 DEF ContactsIInv, JobOK, ChatOK
<1>3. Handler(r) \in Places /\ Handler(r) \in {"allow", "find", "done"} BY DEF Handler, Places
<1>4. CASE Go(r, Handler(r)) /\ (Smooth \/ Trouble) /\ UNCHANGED <<session, job>>
  <2>1. RedisStep(r) BY <1>1, <1>4, RedisStays DEF redis
  <2>2. at'[r] = Handler(r) /\ job' = job /\ ((ChatOK(r) /\ WidgetOK(r) /\ MailOK(r))' => Kept(r))
    BY <1>1, <1>3, <1>4, <2>1, Moves DEF Creating
  <2>3. QED BY <1>2, <2>2, HandlerNext
<1>5. CASE Reject(token, good) /\ Go(r, "done") /\ UNCHANGED job
  <2>1. RedisStep(r) BY <1>1, <1>5, RedisStays DEF redis, Reject
  <2>2. QED BY <1>1, <1>5, <2>1, Ends DEF Reject
<1>6. CASE /\ mergeable /\ good /\ Keep(r, [job[r] EXCEPT !.visitor = session[token].user]) /\ Go(r, "lock") /\ Smooth
           /\ UNCHANGED session
  <2>1. RedisStep(r) BY <1>1, <1>6, RedisStays DEF redis
  <2>2. PICK i \in Ids : i = session[token].user
    BY <1>2, <1>6 DEF Live, ContactsIInv, ContactsTypeOK, Sessions, IdsOrNone
  <2>3. user[i].kind = "visitor" BY <1>6, <2>2
  <2>4. job[r] \in Jobs BY DEF ContactsIInv, ContactsTypeOK
  <2>5. PICK j : j = [job[r] EXCEPT !.visitor = i] OBVIOUS
  <2>6. j \in Jobs BY <2>4, <2>5 DEF Jobs, IdsOrNone
  <2>7. /\ j.who = job[r].who /\ j.kind = job[r].kind /\ j.ext = job[r].ext /\ j.out = job[r].out /\ j.conv = job[r].conv
        /\ j.visitor = i /\ j.from = job[r].from /\ j.visitorToken = job[r].visitorToken /\ j.token = job[r].token
    BY <2>4, <2>5 DEF Jobs
  <2>8. Meets(r, "lock", j) BY <2>3, <2>7 DEF Meets, Refers
  <2>9. ContactsTypeOK' /\ ContactsStep(r) /\ at'[r] = "lock" /\ job'[r] = j
    <3>1. "lock" \in Places /\ "lock" \notin Creating BY DEF Places, Creating
    <3>2. Keep(r, j) BY <1>6, <2>2, <2>5
    <3>3. QED BY <1>1, <1>6, <2>1, <2>6, <2>8, <3>1, <3>2, Reads
  <2>10. Welcome(r)' BY <1>2, <2>7, <2>9 DEF Welcome
  <2>11. (ChatOK(r) /\ WidgetOK(r) /\ MailOK(r))' BY <1>2, <2>7, <2>9, <2>10 DEF ChatOK, WidgetOK, MailOK
  <2>12. Same(r) BY <2>7, <2>9 DEF Same
  <2>13. QED BY <2>9, <2>11, <2>12, Advance
<1>7. QED BY <1>4, <1>5, <1>6 DEF AuthVisitor

LEMMA MergeLockKeeps ==
  ASSUME ContactsAssumption, ContactsIInv, NEW r \in Requests, MergeLock(r)
  PROVE  Kept(r)
<1>1. at[r] = "lock" /\ ~Locked(Who(r)) /\ ~Locked(job[r].visitor) /\ UNCHANGED <<user, pending, redis, chat, job, wronged>>
  BY DEF MergeLock, people
<1>2. /\ job[r].kind \in {"look", "start", "send"} /\ job[r].visitorToken \in Ids /\ job[r].token \in Ids
      /\ Welcome(r) /\ job[r].visitor \in Ids
  BY <1>1 DEF ContactsIInv, JobOK, ChatOK
<1>3. RedisStep(r) BY <1>1, RedisStays
<1>4. CASE Go(r, Handler(r)) /\ (Smooth \/ Trouble)
  <2>1. Handler(r) \in Places /\ Handler(r) \in {"allow", "find", "done"} BY DEF Handler, Places
  <2>2. at'[r] = Handler(r) /\ job' = job /\ ((ChatOK(r) /\ WidgetOK(r) /\ MailOK(r))' => Kept(r))
    BY <1>1, <1>3, <1>4, <2>1, Moves DEF Creating
  <2>3. QED BY <1>2, <2>2, HandlerNext
<1>5. CASE user[job[r].visitor].kind = "visitor" /\ user[Who(r)].kind = "contact" /\ Go(r, "move") /\ Smooth
  <2>1. Keep(r, job[r]) /\ job[r] \in Jobs BY <1>1, JobStays
  <2>2. Meets(r, "move", job[r]) BY DEF Meets, Refers
  <2>3. "move" \in Places /\ "move" \notin Creating \union {"idle"} BY DEF Places, Creating
  <2>4. /\ JobStep(r) /\ at' \in [Requests -> Places] /\ job' \in [Requests -> Jobs]
        /\ at'[r] = "move" /\ job' = job
    BY <1>1, <1>5, <2>1, <2>2, <2>3, JobMoves
  <2>5. troubles' \in 0..MaxTroubles BY <1>5, TroublesStay
  <2>6. ContactsTypeOK' BY <1>1, <1>3, <2>4, <2>5 DEF ContactsIInv, ContactsTypeOK, RedisStep, chat
  <2>7. UserStep(r) /\ ChatStep(r) BY <1>1, RowsStay
  <2>8. \A i \in Both(r) : ~Locked(i) BY <1>1 DEF Both, Who
  <2>9. LockStep(r) BY <1>1, <1>2, <1>5, <2>4, <2>8 DEF LockStep, chat, Who, Welcome
  <2>10. ContactsStep(r) BY <1>3, <2>4, <2>7, <2>9 DEF ContactsStep, RedisStep
  <2>11. Same(r) /\ Welcome(r)' BY <1>2, <2>4 DEF Same, Welcome
  <2>12. (ChatOK(r) /\ WidgetOK(r) /\ MailOK(r))' BY <1>2, <2>4, <2>11 DEF ChatOK, WidgetOK, MailOK
  <2>13. QED BY <2>6, <2>10, <2>11, <2>12, Advance
<1>6. QED BY <1>4, <1>5 DEF MergeLock

LEMMA MergeMoveKeeps ==
  ASSUME ContactsAssumption, ContactsIInv, NEW r \in Requests, MergeMove(r)
  PROVE  Kept(r)
<1>1. at[r] = "move" /\ UNCHANGED <<user, pending, redis, chat, wronged>> /\ Go(r, "commit") /\ Smooth
  BY DEF MergeMove, people
<1>2. /\ job[r].kind \in {"look", "start", "send"} /\ job[r].visitorToken \in Ids /\ job[r].token \in Ids
      /\ Welcome(r) /\ job[r].visitor \in Ids
  BY <1>1 DEF ContactsIInv, JobOK, ChatOK
<1>3. RedisStep(r) BY <1>1, RedisStays
<1>4. PICK cs \in SUBSET Ids, ms \in SUBSET Ids :
        /\ cs = {c \in Ids : conv[c] = job[r].visitor} /\ ms = {m \in Ids : msg[m].sender = job[r].visitor}
  OBVIOUS
<1>5. PICK j : j = [job[r] EXCEPT !.convs = cs, !.msgs = ms] OBVIOUS
<1>6. job[r] \in Jobs BY DEF ContactsIInv, ContactsTypeOK
<1>7. j \in Jobs BY <1>5, <1>6 DEF Jobs
<1>8. /\ j.who = job[r].who /\ j.kind = job[r].kind /\ j.ext = job[r].ext /\ j.out = job[r].out /\ j.conv = job[r].conv
      /\ j.visitor = job[r].visitor /\ j.from = job[r].from /\ j.visitorToken = job[r].visitorToken /\ j.token = job[r].token
      /\ j.convs = cs /\ j.msgs = ms
  BY <1>5, <1>6 DEF Jobs
<1>9. Keep(r, j) BY <1>4, <1>5 DEF MergeMove
<1>10. Meets(r, "commit", j) BY <1>8 DEF Meets, Refers
<1>11. "commit" \in Places /\ "commit" \notin Creating \union {"idle"} BY DEF Places, Creating
<1>12. /\ JobStep(r) /\ at' \in [Requests -> Places] /\ job' \in [Requests -> Jobs]
       /\ at'[r] = "commit" /\ job'[r] = j
  BY <1>1, <1>7, <1>9, <1>10, <1>11, JobMoves
<1>13. troubles' \in 0..MaxTroubles BY <1>1, TroublesStay
<1>14. ContactsTypeOK' BY <1>1, <1>3, <1>12, <1>13 DEF ContactsIInv, ContactsTypeOK, RedisStep, chat
<1>15. UserStep(r) /\ ChatStep(r) BY <1>1, RowsStay
<1>16. LockStep(r) BY <1>1, <1>4, <1>8, <1>12 DEF LockStep, chat
<1>17. ContactsStep(r) BY <1>3, <1>12, <1>15, <1>16 DEF ContactsStep, RedisStep
<1>18. Same(r) /\ Welcome(r)' BY <1>2, <1>8, <1>12 DEF Same, Welcome
<1>19. (ChatOK(r) /\ WidgetOK(r) /\ MailOK(r))' BY <1>2, <1>8, <1>12, <1>18 DEF ChatOK, WidgetOK, MailOK
<1>20. QED BY <1>14, <1>17, <1>18, <1>19, Advance

LEMMA RevokeKeeps ==
  ASSUME ContactsAssumption, ContactsIInv, NEW r \in Requests, Revoke(r)
  PROVE  Kept(r)
<1>1. at[r] = "revoke" /\ UNCHANGED <<user, pending, reverse, chat, job, wronged>> BY DEF Revoke, people
<1>2. job[r].kind \in {"look", "start", "send"} /\ Welcome(r) BY <1>1 DEF ContactsIInv, JobOK, ChatOK
<1>3. CASE Forget(job[r].visitorToken) /\ Go(r, Handler(r)) /\ Smooth
  <2>1. RedisStep(r) BY <1>1, <1>3, RedisStays
  <2>2. Handler(r) \in Places /\ Handler(r) \in {"allow", "find", "done"} BY DEF Handler, Places
  <2>3. at'[r] = Handler(r) /\ job' = job /\ ((ChatOK(r) /\ WidgetOK(r) /\ MailOK(r))' => Kept(r))
    BY <1>1, <1>3, <2>1, <2>2, Moves DEF Creating
  <2>4. QED BY <1>2, <2>3, HandlerNext
<1>4. CASE UNCHANGED session /\ Go(r, "done") /\ Trouble
  <2>1. RedisStep(r) BY <1>1, <1>4, RedisStays DEF redis
  <2>2. QED BY <1>1, <1>4, <2>1, Ends
<1>5. QED BY <1>3, <1>4 DEF Revoke

LEMMA ReadFailsKeeps ==
  ASSUME ContactsAssumption, ContactsIInv, NEW r \in Requests, ReadFails(r)
  PROVE  Kept(r)
BY RedisStays, Ends DEF ReadFails, people

LEMMA AllowKeeps ==
  ASSUME ContactsAssumption, ContactsIInv, NEW r \in Requests, Allow(r)
  PROVE  Kept(r)
<1>1. at[r] = "allow" /\ UNCHANGED <<user, pending, redis, chat, job, wronged>> /\ Smooth BY DEF Allow, people
<1>2. RedisStep(r) BY <1>1, RedisStays
<1>3. CASE Go(r, "done") BY <1>1, <1>2, <1>3, Ends
<1>4. CASE Go(r, "create")
  <2>1. "create" \in Places /\ "create" \notin Creating BY DEF Places, Creating
  <2>2. at'[r] = "create" /\ Welcome(r)' = Welcome(r) /\ ((ChatOK(r) /\ WidgetOK(r) /\ MailOK(r))' => Kept(r))
    BY <1>1, <1>2, <1>4, <2>1, Moves
  <2>3. Welcome(r) /\ job'[r].kind \notin {"send", "answer"} BY <1>1 DEF ContactsIInv, JobOK, ChatOK
  <2>4. QED BY <2>2, <2>3 DEF ChatOK, WidgetOK, MailOK
<1>5. QED BY <1>3, <1>4 DEF Allow

LEMMA FindKeeps ==
  ASSUME ContactsAssumption, ContactsIInv, NEW r \in Requests, Find(r)
  PROVE  Kept(r)
<1>1. at[r] = "find" /\ UNCHANGED <<user, pending, redis, chat, job, wronged>> /\ Smooth BY DEF Find, people
<1>2. RedisStep(r) BY <1>1, RedisStays
<1>3. CASE Go(r, "done") BY <1>1, <1>2, <1>3, Ends
<1>4. CASE Go(r, "message") /\ conv[job[r].conv] = Who(r)
  <2>1. "message" \in Places /\ "message" \notin Creating BY DEF Places, Creating
  <2>2. /\ at'[r] = "message" /\ Welcome(r)' = Welcome(r) /\ ContactsStep(r)
        /\ (ChatOK(r) /\ WidgetOK(r) /\ MailOK(r))' => Kept(r)
    BY <1>1, <1>2, <1>4, <2>1, Moves
  <2>3. Welcome(r) /\ job[r].conv \in Ids BY <1>1 DEF ContactsIInv, JobOK, ChatOK, AskedOK
  <2>4. conv[job[r].conv] # NoOne BY <1>4, <2>3 DEF Who, Welcome, ContactsAssumption
  <2>5. Stored(job[r].conv) BY <2>3, <2>4 DEF ContactsIInv, RowsOK, ConvOK
  <2>6. job[r].conv # r BY <1>1, <2>5 DEF Stored
  <2>7. Stored(job[r].conv)' BY <1>1, <2>2, <2>5, <2>6 DEF Stored, ContactsStep, JobStep
  <2>8. (conv[job[r].conv] = job[r].who)' BY <1>1, <1>4 DEF chat, Who
  <2>9. QED BY <2>2, <2>3, <2>7, <2>8 DEF ChatOK, WidgetOK, MailOK
<1>5. QED BY <1>3, <1>4 DEF Find

(* The merge moves all that refers to the visitor, and leaves the rest.    *)
LEMMA MergeMovesAll ==
  ASSUME ContactsAssumption, ContactsIInv, NEW r \in Requests, MergeCommit(r), at'[r] = "revoke"
  PROVE  /\ job[r].visitor \in Ids /\ job[r].who \in Ids /\ job[r].who # job[r].visitor
         /\ user[job[r].visitor].kind = "visitor" /\ user[job[r].who].kind = "contact"
         /\ user' = [user EXCEPT ![job[r].visitor] = NoUser]
         /\ conv' = [c \in Ids |-> IF conv[c] = job[r].visitor THEN job[r].who ELSE conv[c]]
         /\ msg' = [m \in Ids |-> IF msg[m].sender = job[r].visitor THEN [msg[m] EXCEPT !.sender = job[r].who] ELSE msg[m]]
<1>1. PICK v \in Ids, w \in Ids : v = job[r].visitor /\ w = job[r].who
  BY DEF MergeCommit, ContactsIInv, LockOK, Merging
<1>2. at[r] = "commit" /\ user[v].kind = "visitor" /\ user[w].kind = "contact" /\ w # v
  BY <1>1 DEF MergeCommit, ContactsIInv, LockOK, Merging
<1>3. /\ user' = [user EXCEPT ![v] = NoUser]
      /\ conv' = [c \in Ids |-> IF MovedConv(r, c) = v THEN NoOne ELSE MovedConv(r, c)]
      /\ msg' = [m \in Ids |-> IF MovedMsg(r, m).sender = v \/ (MovedMsg(r, m) # NoMsg /\ conv'[MovedMsg(r, m).conv] = NoOne)
                                  THEN NoMsg ELSE MovedMsg(r, m)]
  <2>1. ~Go(r, Handler(r))
    <3>1. at \in [Requests -> Places] BY DEF ContactsIInv, ContactsTypeOK
    <3>2. QED BY <3>1 DEF Go, Handler
  <2>2. QED BY <1>1, <2>1 DEF MergeCommit
<1>4. \A i \in Ids : /\ conv[i] = v => i \in job[r].convs
                     /\ i \in job[r].convs => conv[i] \in {v, NoOne}
                     /\ msg[i].sender = v => i \in job[r].msgs
                     /\ i \in job[r].msgs => msg[i].sender \in {v, NoOne}
  BY <1>1, <1>2 DEF ContactsIInv, LockOK, Merging
<1>5. v # NoOne /\ w # NoOne BY DEF ContactsAssumption
<1>6. conv' = [c \in Ids |-> IF conv[c] = v THEN w ELSE conv[c]]
  <2>1. \A c \in Ids : (IF MovedConv(r, c) = v THEN NoOne ELSE MovedConv(r, c)) = IF conv[c] = v THEN w ELSE conv[c]
    BY <1>1, <1>2, <1>4, <1>5 DEF MovedConv, Who
  <2>2. QED BY <1>3, <2>1
<1>7. ASSUME NEW m \in Ids PROVE msg'[m] = IF msg[m].sender = v THEN [msg[m] EXCEPT !.sender = w] ELSE msg[m]
  <2>1. msg[m] \in MsgRows BY DEF ContactsIInv, ContactsTypeOK
  <2>2. msg[m] # NoMsg => msg[m].conv \in Ids /\ conv[msg[m].conv] # NoOne /\ msg[m].sender # NoOne
    BY DEF ContactsIInv, RowsOK, MsgOK, Exists, ContactsAssumption
  <2>3. msg[m] # NoMsg => conv'[msg[m].conv] # NoOne BY <1>5, <1>6, <2>2
  <2>4. PICK moved :
          /\ moved = IF m \in job[r].msgs /\ msg[m] # NoMsg THEN [msg[m] EXCEPT !.sender = w] ELSE msg[m]
          /\ msg'[m] = IF moved.sender = v \/ (moved # NoMsg /\ conv'[moved.conv] = NoOne) THEN NoMsg ELSE moved
    <3>1. MovedMsg(r, m) = IF m \in job[r].msgs /\ msg[m] # NoMsg THEN [msg[m] EXCEPT !.sender = w] ELSE msg[m]
      BY <1>1 DEF MovedMsg, Who
    <3>2. QED BY <1>3, <3>1
  <2>5. CASE msg[m].sender = v
    <3>1. msg[m] # NoMsg /\ m \in job[r].msgs BY <1>4, <1>5, <2>5 DEF NoMsg
    <3>2. moved = [msg[m] EXCEPT !.sender = w] /\ moved.sender = w /\ moved.conv = msg[m].conv
      BY <2>1, <2>4, <3>1 DEF MsgRows
    <3>3. QED BY <1>2, <2>3, <2>4, <2>5, <3>1, <3>2
  <2>6. CASE msg[m].sender # v
    <3>1. moved = msg[m] BY <1>4, <2>2, <2>4, <2>6
    <3>2. QED BY <2>3, <2>4, <2>6, <3>1
  <2>7. QED BY <2>5, <2>6
<1>8. msg' = [m \in Ids |-> IF msg[m].sender = v THEN [msg[m] EXCEPT !.sender = w] ELSE msg[m]]
  <2>1. \A m \in Ids : (IF MovedMsg(r, m).sender = v \/ (MovedMsg(r, m) # NoMsg /\ conv'[MovedMsg(r, m).conv] = NoOne)
                           THEN NoMsg ELSE MovedMsg(r, m)) = msg'[m]
    BY <1>3
  <2>2. QED BY <1>3, <1>7, <2>1
<1>9. QED BY <1>1, <1>2, <1>3, <1>6, <1>8

LEMMA MergeCommitKeeps ==
  ASSUME ContactsAssumption, ContactsIInv, NEW r \in Requests, MergeCommit(r)
  PROVE  Kept(r)
<1>1. at[r] = "commit" /\ UNCHANGED <<pending, redis, job, wronged>> /\ (Smooth \/ Trouble) BY DEF MergeCommit
<1>2. /\ job[r].kind \in {"look", "start", "send"} /\ job[r].visitorToken \in Ids /\ job[r].token \in Ids /\ Welcome(r)
  BY <1>1 DEF ContactsIInv, JobOK, ChatOK
<1>3. RedisStep(r) BY <1>1, RedisStays
<1>4. CASE Go(r, Handler(r)) /\ UNCHANGED <<user, chat>>
  <2>1. Handler(r) \in Places /\ Handler(r) \in {"allow", "find", "done"} BY DEF Handler, Places
  <2>2. at'[r] = Handler(r) /\ job' = job /\ ((ChatOK(r) /\ WidgetOK(r) /\ MailOK(r))' => Kept(r))
    BY <1>1, <1>3, <1>4, <2>1, Moves DEF Creating
  <2>3. QED BY <1>2, <2>2, HandlerNext
<1>5. CASE Go(r, "revoke")
  <2>1. Keep(r, job[r]) /\ job[r] \in Jobs BY <1>1, JobStays
  <2>2. Meets(r, "revoke", job[r]) BY DEF Meets, Refers
  <2>3. "revoke" \in Places /\ "revoke" \notin Creating \union {"idle"} BY DEF Places, Creating
  <2>4. /\ JobStep(r) /\ at' \in [Requests -> Places] /\ job' \in [Requests -> Jobs] /\ at'[r] = "revoke" /\ job' = job
    BY <1>1, <1>5, <2>1, <2>2, <2>3, JobMoves
  <2>5. PICK v \in Ids, w \in Ids :
          /\ v = job[r].visitor /\ w = job[r].who /\ w # v /\ user[v].kind = "visitor" /\ user[w].kind = "contact"
          /\ user' = [user EXCEPT ![v] = NoUser]
          /\ conv' = [c \in Ids |-> IF conv[c] = v THEN w ELSE conv[c]]
          /\ msg' = [m \in Ids |-> IF msg[m].sender = v THEN [msg[m] EXCEPT !.sender = w] ELSE msg[m]]
    BY <2>4, MergeMovesAll
  <2>6. /\ user \in [Ids -> UserRows] /\ conv \in [Ids -> IdsOrNone] /\ msg \in [Ids -> MsgRows]
        /\ v # NoOne /\ w # NoOne
    BY DEF ContactsIInv, ContactsTypeOK, ContactsAssumption
  <2>7. ContactsTypeOK'
    <3>1. NoUser \in UserRows BY DEF NoUser, UserRows, Exts, Mails
    <3>2. user' \in [Ids -> UserRows] /\ conv' \in [Ids -> IdsOrNone] BY <2>5, <2>6, <3>1 DEF IdsOrNone
    <3>3. \A m \in Ids : [msg[m] EXCEPT !.sender = w] \in MsgRows BY <2>6 DEF MsgRows, IdsOrNone
    <3>4. msg' \in [Ids -> MsgRows] BY <2>5, <2>6, <3>3
    <3>5. troubles' \in 0..MaxTroubles BY <1>1, TroublesStay
    <3>6. QED BY <1>1, <1>3, <2>4, <3>2, <3>4, <3>5 DEF ContactsIInv, ContactsTypeOK, RedisStep
  <2>8. UserStep(r)
    <3>1. \A i \in Ids : i # v => user'[i] = user[i] BY <2>5, <2>6
    <3>2. user'[v] = NoUser BY <2>5, <2>6
    <3>3. QED BY <1>1, <2>5, <3>1, <3>2 DEF UserStep
  <2>9. ChatStep(r)
    <3>1. user'[v].kind = "none" BY <2>5, <2>6 DEF NoUser
    <3>2. \A c \in Ids : conv'[c] = IF conv[c] = v THEN w ELSE conv[c] BY <2>5
    <3>3. \A m \in Ids : msg[m].sender # v => msg'[m] = msg[m] BY <2>5
    <3>4. \A m \in Ids : msg[m].sender = v => msg'[m].sender = w /\ msg'[m].conv = msg[m].conv BY <2>5, <2>6 DEF MsgRows
    <3>5. QED BY <1>1, <2>4, <2>5, <3>1, <3>2, <3>3, <3>4 DEF ChatStep
  <2>10. LockStep(r) BY <2>4 DEF LockStep, Merging
  <2>11. ContactsStep(r) BY <1>3, <2>4, <2>8, <2>9, <2>10 DEF ContactsStep, RedisStep
  <2>12. Same(r) /\ Welcome(r)' BY <1>2, <2>4 DEF Same, Welcome
  <2>13. (ChatOK(r) /\ WidgetOK(r) /\ MailOK(r))' BY <1>2, <2>4, <2>12 DEF ChatOK, WidgetOK, MailOK
  <2>14. QED BY <2>7, <2>11, <2>12, <2>13, Advance
<1>6. QED BY <1>4, <1>5 DEF MergeCommit

(* A step that writes to the database. *)
DatabaseStep(r) == /\ UserStep(r) /\ ChatStep(r) /\ wronged' \subseteq Ids /\ pending' \subseteq Addresses
                   /\ user' \in [Ids -> UserRows] /\ conv' \in [Ids -> IdsOrNone] /\ msg' \in [Ids -> MsgRows]
LEMMA Commits ==
  ASSUME ContactsAssumption, ContactsIInv, NEW r \in Requests, JobStep(r), at' \in [Requests -> Places],
         job' \in [Requests -> Jobs], at'[r] \notin {"move", "commit"}, DatabaseStep(r), RedisStep(r), Smooth \/ Trouble
  PROVE  ContactsTypeOK' /\ ContactsStep(r)
<1>1. troubles' \in 0..MaxTroubles BY TroublesStay
<1>2. ContactsTypeOK' BY <1>1 DEF ContactsTypeOK, RedisStep, DatabaseStep
<1>3. LockStep(r) BY DEF LockStep, Merging
<1>4. QED BY <1>2, <1>3 DEF ContactsStep, RedisStep, DatabaseStep

LEMMA Writes ==
  ASSUME ContactsAssumption, ContactsIInv, NEW r \in Requests, NEW p \in Places, NEW j \in Jobs, Go(r, p), Keep(r, j),
         at[r] # "done", p # "idle", p \in Creating => at[r] \in Creating,
         at[r] \in {"message", "clean up"} => p \in {"message", "clean up", "done"},
         Meets(r, p, j), DatabaseStep(r), RedisStep(r), Smooth \/ Trouble, p \notin {"move", "commit"}
  PROVE  ContactsTypeOK' /\ ContactsStep(r) /\ at'[r] = p /\ job'[r] = j
<1>1. /\ JobStep(r) /\ at' \in [Requests -> Places] /\ job' \in [Requests -> Jobs]
      /\ at'[r] = p /\ job'[r] = j
  BY JobMoves
<1>2. QED BY <1>1, Commits

(* A request that goes on, and somebody who is out for nobody any more.    *)
GoneOn(r, p, j, i) ==
  /\ JobStep(r) /\ at' \in [Requests -> Places] /\ job' \in [Requests -> Jobs] /\ at'[r] = p
  /\ job'[r].out \subseteq j.out /\ job'[r].kind = j.kind /\ job'[r].ext = j.ext /\ job'[r].from = j.from
  /\ job'[r].conv = j.conv /\ job'[r].who = j.who /\ \A q \in Requests : i \notin job'[q].out

LEMMA JobClears ==
  ASSUME ContactsIInv, NEW r \in Requests, NEW p \in Places, NEW j \in Jobs, NEW i \in Ids, Go(r, p),
         job' = Cleared([job EXCEPT ![r] = j], i),
         at[r] # "done", p # "idle", p \in Creating => at[r] \in Creating,
         at[r] \in {"message", "clean up"} => p \in {"message", "clean up", "done"},
         Meets(r, p, j)
  PROVE  GoneOn(r, p, j, i)
<1>1. at \in [Requests -> Places] /\ job \in [Requests -> Jobs] BY DEF ContactsIInv, ContactsTypeOK
<1>2. at' \in [Requests -> Places] /\ at'[r] = p /\ \A q \in Requests \ {r} : at'[q] = at[q] BY <1>1 DEF Go
<1> DEFINE jobs == [job EXCEPT ![r] = j]
<1>3. jobs \in [Requests -> Jobs] /\ jobs[r] = j /\ \A q \in Requests \ {r} : jobs[q] = job[q] BY <1>1
<1>4. job' = [q \in Requests |-> [jobs[q] EXCEPT !.out = jobs[q].out \ {i}]] BY DEF Cleared
<1> DEFINE same(k, l) == /\ k.kind = l.kind /\ k.token = l.token /\ k.visitorToken = l.visitorToken
                         /\ k.conv = l.conv /\ k.ext = l.ext /\ k.who = l.who /\ k.visitor = l.visitor
                         /\ k.seen = l.seen /\ k.from = l.from /\ k.convs = l.convs /\ k.msgs = l.msgs
                         /\ k.stranger = l.stranger
<1> HIDE DEF jobs
<1>5. ASSUME NEW q \in Requests
      PROVE  job'[q] \in Jobs /\ job'[q].out = jobs[q].out \ {i} /\ same(job'[q], jobs[q])
  <2>1. PICK k \in Jobs : k = jobs[q] BY <1>3
  <2>2. PICK out \in SUBSET Ids : out = k.out \ {i} BY <2>1 DEF Jobs
  <2>3. job'[q] = [k EXCEPT !.out = out] BY <1>4, <2>1, <2>2
  <2>4. job'[q] \in Jobs /\ job'[q].out = out BY <2>1, <2>2, <2>3 DEF Jobs
  <2>5. same(job'[q], k) BY <2>1, <2>2, <2>3 DEF Jobs
  <2> HIDE DEF same
  <2>6. QED BY <2>1, <2>2, <2>4, <2>5
<1>6. job'[r].who = j.who /\ job'[r].visitor = j.visitor /\ job'[r].out \subseteq j.out /\ same(job'[r], j)
  BY <1>3, <1>5
<1>7. job' \in [Requests -> Jobs] BY <1>4, <1>5
<1>8. \A x \in Requests : Refers(r, x)' => Refers(r, x) \/ user[x].kind # "none" \/ (x = r /\ at'[r] \notin Creating)
  BY <1>2, <1>6 DEF Refers, Meets
<1>9. \A q \in Requests \ {r} :
       /\ at'[q] = at[q] /\ job'[q].out \subseteq job[q].out
       /\ job'[q].kind = job[q].kind /\ job'[q].token = job[q].token /\ job'[q].visitorToken = job[q].visitorToken
       /\ job'[q].conv = job[q].conv /\ job'[q].ext = job[q].ext /\ job'[q].who = job[q].who
       /\ job'[q].visitor = job[q].visitor /\ job'[q].seen = job[q].seen /\ job'[q].from = job[q].from
       /\ job'[q].convs = job[q].convs /\ job'[q].msgs = job[q].msgs /\ job'[q].stranger = job[q].stranger
  <2>1. TAKE q \in Requests \ {r}
  <2>2. jobs[q] = job[q] BY <1>3
  <2>3. job'[q].out \subseteq job[q].out BY <1>5, <2>2
  <2>4. at'[q] = at[q] BY <1>2
  <2>5. same(job'[q], jobs[q]) BY <1>5
  <2>6. same(job'[q], job[q])
    <3> HIDE DEF same
    <3>1. QED BY <2>2, <2>5
  <2>7. QED BY <2>3, <2>4, <2>6
<1>10. JobStep(r) BY <1>2, <1>8, <1>9 DEF JobStep
<1>11. \A q \in Requests : i \notin job'[q].out BY <1>5
<1>12. QED BY <1>2, <1>7, <1>10, <1>11, <1>6 DEF GoneOn

(* A step that writes users only.                                          *)
LEMMA UserWrites ==
  ASSUME ContactsAssumption, ContactsIInv, NEW r, UserStep(r), wronged' \subseteq Ids, UNCHANGED chat, pending' \subseteq pending,
         user' \in [Ids -> UserRows], at[r] \notin {"commit", "clean up"}
  PROVE  DatabaseStep(r)
<1>1. conv \in [Ids -> IdsOrNone] /\ msg \in [Ids -> MsgRows] /\ pending \subseteq Addresses
  BY DEF ContactsIInv, ContactsTypeOK
<1>2. conv' = conv /\ msg' = msg BY DEF chat
<1>3. ChatStep(r) BY <1>2 DEF ChatStep
<1>4. QED BY <1>1, <1>2, <1>3 DEF DatabaseStep

(* A step that creates the user of the request.                            *)
LEMMA UserCreated ==
  ASSUME ContactsAssumption, ContactsIInv, NEW r \in Requests, NEW u \in UserRows, user' = [user EXCEPT ![r] = u],
         u.kind \in {"visitor", "contact"}, pending' \subseteq pending,
         NEW p \in Places, Go(r, p), at[r] \in Creating, p \notin Creating, UNCHANGED <<chat, wronged>>
  PROVE  DatabaseStep(r) /\ user'[r] = u
<1>1. /\ at \in [Requests -> Places] /\ user \in [Ids -> UserRows] /\ wronged \subseteq Ids
  BY DEF ContactsIInv, ContactsTypeOK
<1>2. at'[r] = p /\ r \in Ids BY <1>1 DEF Go, Ids
<1>3. user' \in [Ids -> UserRows] /\ user'[r] = u /\ \A i \in Ids : i # r => user'[i] = user[i] BY <1>1, <1>2
<1>4. user[r].kind = "none" BY DEF ContactsIInv, RowsOK, FreshOK
<1>5. UserStep(r) BY <1>2, <1>3, <1>4 DEF UserStep, Creates
<1>6. at[r] \notin {"commit", "clean up"} BY DEF Creating
<1>7. QED BY <1>1, <1>3, <1>5, <1>6, UserWrites

LEMMA CreateKeeps ==
  ASSUME ContactsAssumption, ContactsIInv, NEW r \in Requests, Create(r)
  PROVE  Kept(r)
<1>1. at[r] = "create" /\ ~Locked(Who(r)) /\ UNCHANGED <<user, pending, redis, msg, wronged>> /\ (Smooth \/ Trouble)
  BY DEF Create, people
<1>2. RedisStep(r) BY <1>1, RedisStays
<1>3. CASE Go(r, "done") /\ UNCHANGED <<conv, job>> BY <1>1, <1>2, <1>3, Ends DEF chat
<1>4. CASE user[Who(r)].kind # "none" /\ conv' = [conv EXCEPT ![r] = Who(r)] /\ Keep(r, [job[r] EXCEPT !.conv = r]) /\ Go(r, "message")
  <2>1. Welcome(r) /\ Who(r) = job[r].who BY <1>1 DEF ContactsIInv, JobOK, ChatOK, Who
  <2>2. r \in Ids /\ r # NoOne BY DEF ContactsAssumption, Ids
  <2>3. conv[r] = NoOne BY <1>1, <2>2 DEF ContactsIInv, RowsOK, ConvOK, Stored
  <2>4. PICK j : j = [job[r] EXCEPT !.conv = r] OBVIOUS
  <2>5. job[r] \in Jobs BY DEF ContactsIInv, ContactsTypeOK
  <2>6. j \in Jobs BY <2>2, <2>4, <2>5 DEF Jobs, IdsOrNone
  <2>7. /\ j.who = job[r].who /\ j.kind = job[r].kind /\ j.ext = job[r].ext /\ j.out = job[r].out /\ j.conv = r
        /\ j.visitor = job[r].visitor /\ j.from = job[r].from
    BY <2>4, <2>5 DEF Jobs
  <2>8. Meets(r, "message", j) BY <2>7 DEF Meets, Refers
  <2>9. "message" \in Places /\ "message" \notin Creating \union {"idle", "done", "move", "commit"}
    BY DEF Places, Creating
  <2>10. at'[r] = "message" BY <1>4 DEF Go, ContactsIInv, ContactsTypeOK
  <2>11. /\ user \in [Ids -> UserRows] /\ conv \in [Ids -> IdsOrNone] /\ msg \in [Ids -> MsgRows] /\ wronged \subseteq Ids
         /\ pending \subseteq Addresses
    BY DEF ContactsIInv, ContactsTypeOK
  <2>12. conv'[r] = job[r].who /\ \A c \in Ids : c # r => conv'[c] = conv[c] BY <1>4, <2>1, <2>2, <2>11
  <2>13. conv' \in [Ids -> IdsOrNone] BY <1>4, <2>1, <2>11 DEF Welcome, IdsOrNone
  <2>14. UserStep(r) BY <1>1 DEF UserStep
  <2>15. Exists(job[r].who) BY <1>4, <2>1 DEF Exists, Welcome
  <2>16. ChatStep(r) BY <1>1, <2>1, <2>10, <2>12, <2>15 DEF ChatStep
  <2>17. DatabaseStep(r) BY <1>1, <2>11, <2>13, <2>14, <2>16 DEF DatabaseStep
  <2>18. ContactsTypeOK' /\ ContactsStep(r) /\ job'[r] = j
    <3>1. Keep(r, j) BY <1>4, <2>4
    <3>2. QED BY <1>1, <1>2, <1>4, <2>6, <2>8, <2>9, <2>17, <3>1, Writes
  <2>19. (Welcome(r) /\ Stored(job[r].conv) /\ conv[job[r].conv] = job[r].who)'
    BY <2>1, <2>2, <2>7, <2>10, <2>12, <2>18 DEF Welcome, Stored
  <2>20. (ChatOK(r) /\ WidgetOK(r) /\ MailOK(r))' BY <2>10, <2>19 DEF ChatOK, WidgetOK, MailOK
  <2>21. job[r].kind \notin {"send", "answer"}
    BY <1>1 DEF ContactsIInv, JobOK, ChatOK
  <2>22. QED BY <2>7, <2>18, <2>20, <2>21, Advance DEF Same
<1>5. QED BY <1>3, <1>4 DEF Create

LEMMA MessageKeeps ==
  ASSUME ContactsAssumption, ContactsIInv, NEW r \in Requests, Message(r)
  PROVE  Kept(r)
<1>1. at[r] = "message" /\ ~Locked(Who(r)) /\ UNCHANGED <<user, pending, redis, conv, job, wronged>> /\ (Smooth \/ Trouble)
  BY DEF Message, people
<1>2. RedisStep(r) BY <1>1, RedisStays
<1>3. CASE (Go(r, "done") \/ Go(r, "clean up")) /\ UNCHANGED msg
  <2>1. CASE Go(r, "done") BY <1>1, <1>2, <1>3, <2>1, Ends DEF chat
  <2>2. CASE Go(r, "clean up")
    <3>1. "clean up" \in Places /\ "clean up" \notin Creating BY DEF Places, Creating
    <3>2. at'[r] = "clean up" /\ ((ChatOK(r) /\ WidgetOK(r) /\ MailOK(r))' => Kept(r))
      BY <1>1, <1>2, <1>3, <2>2, <3>1, Moves DEF chat
    <3>3. QED BY <3>2 DEF ChatOK, WidgetOK, MailOK
  <2>3. QED BY <1>3, <2>1, <2>2
<1>4. CASE /\ user[Who(r)].kind # "none" /\ conv[job[r].conv] # NoOne /\ Go(r, "done")
           /\ msg' = [msg EXCEPT ![r] = [conv |-> job[r].conv, sender |-> Who(r)]]
  <2>1. Welcome(r) /\ Who(r) = job[r].who /\ Stored(job[r].conv) BY <1>1 DEF ContactsIInv, JobOK, ChatOK, Who
  <2>2. r \in Ids BY DEF Ids
  <2>3. Exists(job[r].who) BY <1>4, <2>1 DEF Exists, Welcome
  <2>4. Keep(r, job[r]) /\ job[r] \in Jobs BY <1>1, JobStays
  <2>5. Meets(r, "done", job[r]) BY DEF Meets, Refers
  <2>6. "done" \in Places /\ "done" \notin Creating \union {"idle", "move", "commit"} BY DEF Places, Creating
  <2>7. at'[r] = "done" BY <1>4 DEF Go, ContactsIInv, ContactsTypeOK
  <2>8. /\ user \in [Ids -> UserRows] /\ conv \in [Ids -> IdsOrNone] /\ msg \in [Ids -> MsgRows] /\ wronged \subseteq Ids
         /\ pending \subseteq Addresses
    BY DEF ContactsIInv, ContactsTypeOK
  <2>9. msg'[r] = [conv |-> job[r].conv, sender |-> job[r].who] /\ \A m \in Ids : m # r => msg'[m] = msg[m]
    BY <1>4, <2>1, <2>2, <2>8
  <2>10. [conv |-> job[r].conv, sender |-> job[r].who] \in MsgRows BY <2>1 DEF MsgRows, Welcome, Stored, IdsOrNone
  <2>11. msg' \in [Ids -> MsgRows] BY <1>4, <2>1, <2>8, <2>10
  <2>12. UserStep(r) BY <1>1 DEF UserStep
  <2>13. ChatStep(r) BY <1>1, <1>4, <2>1, <2>3, <2>7, <2>9 DEF ChatStep
  <2>14. DatabaseStep(r) BY <1>1, <2>8, <2>11, <2>12, <2>13 DEF DatabaseStep
  <2>15. ContactsTypeOK' /\ ContactsStep(r) BY <1>1, <1>2, <1>4, <2>4, <2>5, <2>6, <2>14, Writes
  <2>16. (ChatOK(r) /\ WidgetOK(r) /\ MailOK(r))' BY <2>7 DEF ChatOK, WidgetOK, MailOK
  <2>17. QED BY <1>1, <2>15, <2>16, Advance DEF Same
<1>5. QED BY <1>3, <1>4 DEF Message

LEMMA CleanUpKeeps ==
  ASSUME ContactsAssumption, ContactsIInv, NEW r \in Requests, CleanUp(r)
  PROVE  Kept(r)
<1>1. at[r] = "clean up" /\ Go(r, "done") /\ UNCHANGED <<user, pending, redis, job, wronged>> /\ (Smooth \/ Trouble)
  BY DEF CleanUp, people
<1>2. RedisStep(r) BY <1>1, RedisStays
<1>3. CASE UNCHANGED chat BY <1>1, <1>2, <1>3, Ends
<1>4. CASE conv' = [conv EXCEPT ![r] = NoOne] /\ msg' = [m \in Ids |-> IF msg[m].conv = r THEN NoMsg ELSE msg[m]]
  <2>1. r \in Ids BY DEF Ids
  <2>2. Keep(r, job[r]) /\ job[r] \in Jobs BY <1>1, JobStays
  <2>3. Meets(r, "done", job[r]) BY DEF Meets, Refers
  <2>4. "done" \in Places /\ "done" \notin Creating \union {"idle", "move", "commit"} BY DEF Places, Creating
  <2>5. at'[r] = "done" BY <1>1 DEF Go, ContactsIInv, ContactsTypeOK
  <2>6. /\ user \in [Ids -> UserRows] /\ conv \in [Ids -> IdsOrNone] /\ msg \in [Ids -> MsgRows] /\ wronged \subseteq Ids
         /\ pending \subseteq Addresses
    BY DEF ContactsIInv, ContactsTypeOK
  <2>7. conv'[r] = NoOne /\ \A c \in Ids : c # r => conv'[c] = conv[c] BY <1>4, <2>1, <2>6
  <2>8. \A m \in Ids : msg'[m] = IF msg[m].conv = r THEN NoMsg ELSE msg[m] BY <1>4
  <2>9. NoMsg \in MsgRows BY DEF NoMsg, MsgRows, IdsOrNone
  <2>10. conv' \in [Ids -> IdsOrNone] /\ msg' \in [Ids -> MsgRows] BY <1>4, <2>6, <2>9 DEF IdsOrNone
  <2>11. UserStep(r) BY <1>1 DEF UserStep
  <2>12. ChatStep(r) BY <1>1, <2>7, <2>8 DEF ChatStep
  <2>13. DatabaseStep(r) BY <1>1, <2>6, <2>10, <2>11, <2>12 DEF DatabaseStep
  <2>14. ContactsTypeOK' /\ ContactsStep(r) BY <1>1, <1>2, <2>2, <2>3, <2>4, <2>13, Writes
  <2>15. (ChatOK(r) /\ WidgetOK(r) /\ MailOK(r))' BY <2>5 DEF ChatOK, WidgetOK, MailOK
  <2>16. QED BY <1>1, <2>14, <2>15, Advance DEF Same
<1>5. QED BY <1>3, <1>4 DEF CleanUp

LEMMA NewVisitorIsOne ==
  ASSUME NEW mail \in Mails
  PROVE  /\ NewVisitor(mail) \in UserRows /\ NewVisitor(mail).kind = "visitor" /\ NewVisitor(mail).ext = NoExt
         /\ NewVisitor(mail).mail = mail /\ NewVisitor(mail).lower /\ NewVisitor(mail).on
BY DEF NewVisitor, NoUser, UserRows, Exts

LEMMA NewContactIsOne ==
  ASSUME NEW mail \in Mails, NEW ext \in Exts
  PROVE  /\ NewContact(mail, ext) \in UserRows /\ NewContact(mail, ext).kind = "contact" /\ NewContact(mail, ext).ext = ext
         /\ NewContact(mail, ext).mail = mail /\ NewContact(mail, ext).lower /\ NewContact(mail, ext).on
BY DEF NewContact, NewVisitor, NoUser, UserRows, Exts

LEMMA CreateVisitorKeeps ==
  ASSUME ContactsAssumption, ContactsIInv, NEW r \in Requests, CreateVisitor(r)
  PROVE  Kept(r)
<1>1. at[r] = "visitor" /\ UNCHANGED <<pending, redis, chat, wronged>> /\ (Smooth \/ Trouble) BY DEF CreateVisitor
<1>2. RedisStep(r) BY <1>1, RedisStays
<1>3. CASE UNCHANGED <<user, job>> /\ Go(r, "done") BY <1>1, <1>2, <1>3, Ends
<1>4. CASE user' = [user EXCEPT ![r] = NewVisitor(job[r].from)] /\ Keep(r, [job[r] EXCEPT !.who = r, !.version = 1]) /\ Go(r, "sign")
  <2>1. job[r].from \in Mails BY DEF ContactsIInv, ContactsTypeOK, Jobs
  <2>2. PICK u \in UserRows : u = NewVisitor(job[r].from) /\ u.kind = "visitor" BY <2>1, NewVisitorIsOne
  <2>3. "sign" \in Places /\ "sign" \notin Creating \union {"idle", "move", "commit"} /\ at[r] \in Creating
        /\ at[r] \notin {"done", "message", "clean up"}
    BY <1>1 DEF Places, Creating
  <2>4. DatabaseStep(r) BY <1>1, <1>4, <2>2, <2>3, UserCreated
  <2>5. PICK j : j = [job[r] EXCEPT !.who = r, !.version = 1] OBVIOUS
  <2>6. job[r] \in Jobs /\ r \in Ids BY DEF ContactsIInv, ContactsTypeOK, Ids
  <2>7. j \in Jobs BY <2>5, <2>6 DEF Jobs, IdsOrNone
  <2>8. /\ j.who = r /\ j.kind = job[r].kind /\ j.ext = job[r].ext /\ j.out = job[r].out /\ j.conv = job[r].conv
        /\ j.visitor = job[r].visitor /\ j.from = job[r].from
    BY <2>5, <2>6 DEF Jobs
  <2>9. Meets(r, "sign", j) BY <2>3, <2>8 DEF Meets, Refers
  <2>10. ContactsTypeOK' /\ ContactsStep(r) /\ at'[r] = "sign" /\ job'[r] = j
    <3>1. Keep(r, j) BY <1>4, <2>5
    <3>2. QED BY <1>1, <1>2, <1>4, <2>3, <2>4, <2>7, <2>9, <3>1, Writes
  <2>11. r \notin job[r].out /\ job[r].kind = "visit"
    BY <1>1, <2>3 DEF ContactsIInv, RowsOK, FreshOK, Refers, JobOK, WidgetOK
  <2>12. (ChatOK(r) /\ WidgetOK(r) /\ MailOK(r))'
    BY <2>6, <2>8, <2>10, <2>11 DEF ChatOK, WidgetOK, MailOK, Welcome
  <2>13. QED BY <2>8, <2>10, <2>12, Advance DEF Same
<1>5. QED BY <1>3, <1>4 DEF CreateVisitor

LEMMA SignKeeps ==
  ASSUME ContactsAssumption, ContactsIInv, NEW r \in Requests, Sign(r)
  PROVE  Kept(r)
<1>1. at[r] = "sign" /\ UNCHANGED <<user, pending, reverse, chat, job, wronged>> /\ (Smooth \/ Trouble)
  BY DEF Sign, people
<1>2. session \in [Ids -> Sessions] /\ reverse \in [Ids -> IdsOrNone] /\ job[r] \in Jobs /\ r \in Ids
  BY DEF ContactsIInv, ContactsTypeOK, Ids
<1>3. CASE UNCHANGED session /\ Go(r, "done")
  <2>1. RedisStep(r) BY <1>1, <1>3, RedisStays DEF redis
  <2>2. QED BY <1>1, <1>3, <2>1, Ends
<1>4. CASE /\ session' = [session EXCEPT ![r] = [user |-> Who(r), version |-> job[r].version, ext |-> job[r].ext]]
           /\ Go(r, IF job[r].kind = "visit" THEN "allow" ELSE "note")
  <2>1. PICK s \in Sessions : s = [user |-> Who(r), version |-> job[r].version, ext |-> job[r].ext]
    BY <1>2 DEF Sessions, Jobs, Who
  <2>2. s.user = job[r].who /\ s.ext = job[r].ext BY <2>1 DEF Who
  <2>3. session' \in [Ids -> Sessions] /\ session'[r] = s /\ \A t \in Ids : t # r => session'[t] = session[t]
    BY <1>2, <1>4, <2>1
  <2>4. RedisStep(r) BY <1>1, <1>2, <2>2, <2>3 DEF RedisStep, SessionStep
  <2>5. PICK p \in Places : /\ p = IF job[r].kind = "visit" THEN "allow" ELSE "note"
                            /\ p \notin Creating \union {"idle", "move", "commit"}
    BY DEF Places, Creating
  <2>6. /\ at'[r] = p /\ Welcome(r)' = Welcome(r) /\ ((ChatOK(r) /\ WidgetOK(r) /\ MailOK(r))' => Kept(r))
    BY <1>1, <1>4, <2>4, <2>5, Moves
  <2>7. job[r].kind = "visit" => Welcome(r) BY <1>1 DEF ContactsIInv, JobOK, WidgetOK
  <2>8. job[r].kind # "visit" => job[r].who \in Ids BY <1>1 DEF ContactsIInv, JobOK, WidgetOK, Person
  <2>9. QED BY <1>1, <2>5, <2>6, <2>7, <2>8 DEF ChatOK, WidgetOK, MailOK
<1>5. QED BY <1>3, <1>4 DEF Sign

LEMMA NoteKeeps ==
  ASSUME ContactsAssumption, ContactsIInv, NEW r \in Requests, Note(r)
  PROVE  Kept(r)
<1>1. at[r] = "note" /\ Go(r, "done") /\ UNCHANGED <<user, pending, session, chat, job, wronged>> /\ (Smooth \/ Trouble)
  BY DEF Note, people
<1>2. session \in [Ids -> Sessions] /\ reverse \in [Ids -> IdsOrNone] /\ r \in IdsOrNone
  BY DEF ContactsIInv, ContactsTypeOK, Ids, IdsOrNone
<1>3. reverse' \in [Ids -> IdsOrNone] BY <1>2 DEF Note
<1>4. RedisStep(r) BY <1>1, <1>2, <1>3 DEF RedisStep, SessionStep
<1>5. QED BY <1>1, <1>4, Ends

LEMMA LogoutKeeps ==
  ASSUME ContactsAssumption, ContactsIInv, NEW r \in Requests, Logout(r)
  PROVE  Kept(r)
<1>1. at[r] = "logout" /\ Go(r, "done") /\ UNCHANGED <<user, pending, reverse, chat, job, wronged>> /\ (Smooth \/ Trouble)
  BY DEF Logout, people
<1>2. session \in [Ids -> Sessions] /\ reverse \in [Ids -> IdsOrNone] BY DEF ContactsIInv, ContactsTypeOK
<1>3. NoSession \in Sessions BY DEF NoSession, Sessions, IdsOrNone, Exts
<1>4. PICK ended : session' = [i \in Ids |-> IF i \in ended THEN NoSession ELSE session[i]] BY DEF Logout
<1>5. RedisStep(r) BY <1>1, <1>2, <1>3, <1>4 DEF RedisStep, SessionStep
<1>6. QED BY <1>1, <1>5, Ends

LEMMA ResolveKeeps ==
  ASSUME ContactsAssumption, ContactsIInv, NEW r \in Requests, Resolve(r)
  PROVE  Kept(r)
<1>1. at[r] = "resolve" /\ UNCHANGED <<user, pending, redis, chat, wronged>> /\ Smooth BY DEF Resolve, people
<1>2. RedisStep(r) BY <1>1, RedisStays
<1>3. job[r].kind = "exchange" BY <1>1 DEF ContactsIInv, JobOK, WidgetOK
<1>4. ASSUME NEW i \in Contacts, user[i].ext = job[r].ext, KeepWho(r, i), NEW p \in {"sync", "get", "done"}, Go(r, p)
      PROVE  Kept(r)
  <2>1. i \in Ids /\ user[i].kind = "contact" BY DEF Contacts
  <2>2. PICK j \in Jobs : j = [job[r] EXCEPT !.who = i] /\ Becomes(r, j, i) BY <2>1, WhoKnown DEF IdsOrNone
  <2>3. Meets(r, p, j) BY <2>1, <2>2 DEF Meets, Refers, Becomes
  <2>4. p \in Places /\ p \notin Creating \union {"idle", "move", "commit"} BY DEF Places, Creating
  <2>5. ContactsTypeOK' /\ ContactsStep(r) /\ at'[r] = p /\ job'[r] = j
    BY <1>1, <1>2, <1>4, <2>2, <2>3, <2>4, Reads DEF KeepWho
  <2>6. Person(i, job[r].ext)' BY <1>1, <1>4, <2>1, <2>2, <2>5 DEF Person, Becomes
  <2>7. (ChatOK(r) /\ WidgetOK(r) /\ MailOK(r))'
    BY <1>3, <2>2, <2>5, <2>6 DEF ChatOK, WidgetOK, MailOK, Becomes, Person
  <2>8. QED BY <2>2, <2>5, <2>7, Advance DEF Same, Becomes
<1>5. CASE Go(r, "enrich") /\ UNCHANGED job
  <2>1. "enrich" \in Places /\ at[r] \in Creating BY <1>1 DEF Places, Creating
  <2>2. at'[r] = "enrich" /\ job' = job /\ ((ChatOK(r) /\ WidgetOK(r) /\ MailOK(r))' => Kept(r))
    BY <1>1, <1>2, <1>5, <2>1, Moves
  <2>3. QED BY <1>3, <2>2 DEF ChatOK, WidgetOK, MailOK
<1>6. QED BY <1>4, <1>5 DEF Resolve

(* Whose address is written is out for nobody.                             *)
LEMMA AddressWritten ==
  ASSUME ContactsAssumption, ContactsIInv, NEW r \in Requests, NEW i \in Ids, NEW mail \in Mails, NEW lower \in BOOLEAN,
         user[i].kind # "none", \A q \in Requests : i \notin job'[q].out,
         user' = user \/ user' = [user EXCEPT ![i] = [user[i] EXCEPT !.mail = mail, !.lower = lower]],
         pending' \subseteq pending, UNCHANGED <<chat, wronged>>, at[r] \notin {"commit", "clean up"}
  PROVE  DatabaseStep(r) /\ \A x \in Ids : user'[x].kind = user[x].kind /\ user'[x].ext = user[x].ext
<1>1. user \in [Ids -> UserRows] /\ wronged \subseteq Ids BY DEF ContactsIInv, ContactsTypeOK
<1>2. PICK entry \in UserRows : /\ entry = [user[i] EXCEPT !.mail = mail, !.lower = lower]
                                /\ entry.kind = user[i].kind /\ entry.ext = user[i].ext
  <2>1. PICK old \in UserRows : old = user[i] BY <1>1
  <2>2. PICK new : new = [old EXCEPT !.mail = mail, !.lower = lower] OBVIOUS
  <2>3. new \in UserRows BY <2>2 DEF UserRows
  <2>4. new.kind = old.kind /\ new.ext = old.ext BY <2>2 DEF UserRows
  <2>5. QED BY <2>1, <2>2, <2>3, <2>4
<1>3. CASE user' = user
  <2>1. UserStep(r) BY <1>3 DEF UserStep
  <2>2. QED BY <1>1, <1>3, <2>1, UserWrites
<1>4. CASE user' = [user EXCEPT ![i] = entry]
  <2>1. user' \in [Ids -> UserRows] /\ user'[i] = entry /\ \A x \in Ids : x # i => user'[x] = user[x] BY <1>1, <1>4
  <2>2. UserStep(r)
    <3>1. /\ user'[i].kind = user[i].kind /\ user'[i].ext = user[i].ext /\ user[i].kind # "none"
          /\ \A q \in Requests : i \notin job'[q].out
      BY <1>2, <2>1
    <3>2. \A x \in Ids : x # i => user'[x] = user[x] BY <2>1
    <3>3. wronged' = wronged OBVIOUS
    <3>4. QED BY <3>1, <3>2, <3>3 DEF UserStep
  <2>3. DatabaseStep(r) BY <1>1, <2>1, <2>2, UserWrites
  <2>4. QED BY <1>2, <2>1, <2>3
<1>5. QED BY <1>2, <1>3, <1>4

LEMMA SyncKeeps ==
  ASSUME ContactsAssumption, ContactsIInv, NEW r \in Requests, Sync(r)
  PROVE  Kept(r)
<1>1. at[r] = "sync" /\ Go(r, "get") /\ UNCHANGED <<pending, redis, chat, wronged>> /\ (Smooth \/ Trouble) BY DEF Sync
<1>2. RedisStep(r) BY <1>1, RedisStays
<1>3. Person(job[r].who, job[r].ext) /\ job[r].kind = "exchange" BY <1>1 DEF ContactsIInv, JobOK, WidgetOK
<1>4. "get" \in Places /\ "get" \notin Creating \union {"idle", "move", "commit"} BY DEF Places, Creating
<1>5. CASE UNCHANGED <<user, job>>
  <2>1. at'[r] = "get" /\ job' = job /\ ((ChatOK(r) /\ WidgetOK(r) /\ MailOK(r))' => Kept(r))
    BY <1>1, <1>2, <1>4, <1>5, Moves
  <2>2. Person(job[r].who, job[r].ext)' BY <1>1, <1>3, <1>5 DEF Person
  <2>3. QED BY <1>3, <2>1, <2>2 DEF ChatOK, WidgetOK, MailOK
<1>6. CASE user' = Addressed(Who(r), job[r].from) /\ job' = Cleared(job, Who(r))
  <2>1. PICK w \in Ids : w = Who(r) /\ w = job[r].who BY <1>3 DEF Person, Who
  <2>2. PICK j \in Jobs : j = job[r] /\ j.from \in Mails BY DEF ContactsIInv, ContactsTypeOK, Jobs
  <2>3. Meets(r, "get", j) BY <2>2 DEF Meets, Refers
  <2>4. job' = Cleared([job EXCEPT ![r] = j], w) 
    <3>1. job = [job EXCEPT ![r] = j] BY <2>2 DEF ContactsIInv, ContactsTypeOK
    <3>2. QED BY <1>6, <2>1, <3>1
  <2>5. /\ JobStep(r) /\ at' \in [Requests -> Places] /\ job' \in [Requests -> Jobs] /\ at'[r] = "get"
        /\ job'[r].out \subseteq j.out /\ job'[r].kind = j.kind /\ job'[r].ext = j.ext
        /\ job'[r].from = j.from /\ job'[r].conv = j.conv /\ job'[r].who = j.who
        /\ \A q \in Requests : w \notin job'[q].out
    <3>1. /\ at[r] # "done" /\ "get" # "idle" /\ ("get" \in Creating => at[r] \in Creating)
        /\ at[r] \in {"message", "clean up"} => "get" \in {"message", "clean up", "done"}
      BY <1>1, <1>4
    <3>2. GoneOn(r, "get", j, w) BY <1>1, <1>4, <2>3, <2>4, <3>1, JobClears
    <3>3. QED BY <3>2 DEF GoneOn
  <2>6. DatabaseStep(r) /\ \A x \in Ids : user'[x].kind = user[x].kind /\ user'[x].ext = user[x].ext
    <3>1. user[w].kind # "none" BY <1>3, <2>1 DEF Person
    <3>2. user' = user \/ user' = [user EXCEPT ![w] = [user[w] EXCEPT !.mail = job[r].from, !.lower = TRUE]]
      BY <1>6, <2>1 DEF Addressed
    <3>3. QED BY <1>1, <2>2, <2>5, <3>1, <3>2, AddressWritten
  <2>7. ContactsTypeOK' /\ ContactsStep(r) BY <1>1, <1>2, <1>4, <2>5, <2>6, Commits
  <2>8. Person(job[r].who, job[r].ext)' BY <1>1, <1>3, <2>2, <2>5, <2>6 DEF Person
  <2>9. (ChatOK(r) /\ WidgetOK(r) /\ MailOK(r))' BY <1>3, <2>2, <2>5, <2>8 DEF ChatOK, WidgetOK, MailOK
  <2>10. QED BY <2>2, <2>5, <2>7, <2>9, Advance DEF Same
<1>7. QED BY <1>5, <1>6 DEF Sync

LEMMA EnrichKeeps ==
  ASSUME ContactsAssumption, ContactsIInv, NEW r \in Requests, Enrich(r)
  PROVE  Kept(r)
<1>1. at[r] = "enrich" /\ UNCHANGED <<user, pending, redis, chat, wronged>> /\ Smooth BY DEF Enrich, people
<1>2. RedisStep(r) BY <1>1, RedisStays
<1>3. job[r].kind = "exchange" BY <1>1 DEF ContactsIInv, JobOK, WidgetOK
<1>4. ASSUME NEW i \in Contacts, Keep(r, [job[r] EXCEPT !.who = i, !.seen = NoExt]), Go(r, "set")
      PROVE  Kept(r)
  <2>1. i \in Ids /\ user[i].kind = "contact" BY DEF Contacts
  <2>2. PICK j : j = [job[r] EXCEPT !.who = i, !.seen = NoExt] OBVIOUS
  <2>3. job[r] \in Jobs BY DEF ContactsIInv, ContactsTypeOK
  <2>4. j \in Jobs BY <2>1, <2>2, <2>3 DEF Jobs, IdsOrNone, Exts
  <2>5. Becomes(r, j, i) /\ j.seen = NoExt BY <2>2, <2>3 DEF Jobs, Becomes
  <2>6. Meets(r, "set", j) BY <2>1, <2>5 DEF Meets, Refers, Becomes
  <2>7. "set" \in Places /\ at[r] \in Creating BY <1>1 DEF Places, Creating
  <2>8. ContactsTypeOK' /\ ContactsStep(r) /\ at'[r] = "set" /\ job'[r] = j
    <3>1. Keep(r, j) BY <1>4, <2>2
    <3>2. QED BY <1>1, <1>2, <1>4, <2>4, <2>6, <2>7, <3>1, Reads
  <2>9. (ChatOK(r) /\ WidgetOK(r) /\ MailOK(r))'
    BY <1>1, <1>3, <2>1, <2>5, <2>8 DEF ChatOK, WidgetOK, MailOK, Becomes
  <2>10. QED BY <2>5, <2>8, <2>9, Advance DEF Same, Becomes
<1>5. CASE Go(r, "upsert") /\ UNCHANGED job
  <2>1. "upsert" \in Places /\ at[r] \in Creating BY <1>1 DEF Places, Creating
  <2>2. at'[r] = "upsert" /\ job' = job /\ ((ChatOK(r) /\ WidgetOK(r) /\ MailOK(r))' => Kept(r))
    BY <1>1, <1>2, <1>5, <2>1, Moves
  <2>3. QED BY <1>3, <2>2 DEF ChatOK, WidgetOK, MailOK
<1>6. QED BY <1>4, <1>5 DEF Enrich

LEMMA SetExternalUserIDKeeps ==
  ASSUME ContactsAssumption, ContactsIInv, NEW r \in Requests, SetExternalUserID(r)
  PROVE  Kept(r)
<1>1. at[r] = "set" /\ UNCHANGED <<pending, redis, chat, job>> /\ (Smooth \/ Trouble) /\ at[r] \in Creating
  BY DEF SetExternalUserID, Creating
<1>2. RedisStep(r) BY <1>1, RedisStays
<1>3. /\ job[r].who \in Ids /\ user[job[r].who].kind = "contact" /\ job[r].seen = NoExt /\ job[r].kind = "exchange"
  BY <1>1 DEF ContactsIInv, JobOK, WidgetOK
<1>4. CASE Go(r, "upsert") /\ UNCHANGED <<user, wronged>>
  <2>1. "upsert" \in Places BY DEF Places
  <2>2. at'[r] = "upsert" /\ job' = job /\ ((ChatOK(r) /\ WidgetOK(r) /\ MailOK(r))' => Kept(r))
    BY <1>1, <1>2, <1>4, <2>1, Moves
  <2>3. QED BY <1>3, <2>2 DEF ChatOK, WidgetOK, MailOK
<1>5. CASE /\ user' = [user EXCEPT ![Who(r)].ext = job[r].ext] /\ Go(r, "get")
           /\ wronged' = IF job[r].seen = NoExt /\ user[Who(r)].ext # NoExt THEN wronged \union {Who(r)} ELSE wronged
  <2>1. PICK w \in Ids : w = job[r].who /\ w = Who(r) BY <1>3 DEF Who
  <2>2. user \in [Ids -> UserRows] /\ wronged \subseteq Ids /\ job[r] \in Jobs BY DEF ContactsIInv, ContactsTypeOK
  <2>3. job[r].ext \in Exts BY <2>2 DEF Jobs
  <2>4. [user[w] EXCEPT !.ext = job[r].ext] \in UserRows BY <2>2, <2>3 DEF UserRows
  <2>5. user' \in [Ids -> UserRows] BY <1>5, <2>1, <2>2, <2>4
  <2>6. /\ user'[w].ext = job[r].ext /\ user'[w].kind = user[w].kind /\ user'[w].mail = user[w].mail
        /\ user'[w].lower = user[w].lower /\ user'[w].on = user[w].on
        /\ \A i \in Ids : i # w => user'[i] = user[i]
    BY <1>5, <2>1, <2>2 DEF UserRows
  <2>7. wronged \subseteq wronged' /\ wronged' \subseteq Ids /\ (user[w].ext # NoExt => w \in wronged')
    BY <1>3, <1>5, <2>1, <2>2
  <2>8. UserStep(r) BY <2>6, <2>7 DEF UserStep
  <2>9. DatabaseStep(r) BY <1>1, <2>5, <2>7, <2>8, UserWrites
  <2>10. Keep(r, job[r]) BY <1>1, JobStays
  <2>11. Meets(r, "get", job[r]) BY DEF Meets, Refers
  <2>12. "get" \in Places /\ "get" \notin Creating \union {"idle", "move", "commit"} BY DEF Places, Creating
  <2>13. ContactsTypeOK' /\ ContactsStep(r) /\ at'[r] = "get" /\ job' = job
    BY <1>1, <1>2, <1>5, <2>2, <2>9, <2>10, <2>11, <2>12, Writes
  <2>14. Person(w, job[r].ext)' BY <1>3, <2>1, <2>6, <2>13 DEF Person
  <2>15. Person(job[r].who, job[r].ext)' BY <2>1, <2>13, <2>14
  <2>16. (ChatOK(r) /\ WidgetOK(r) /\ MailOK(r))' BY <1>3, <2>13, <2>15 DEF ChatOK, WidgetOK, MailOK
  <2>17. QED BY <2>13, <2>16, Advance DEF Same
<1>6. QED BY <1>4, <1>5 DEF SetExternalUserID

LEMMA UpsertKeeps ==
  ASSUME ContactsAssumption, ContactsIInv, NEW r \in Requests, Upsert(r)
  PROVE  Kept(r)
<1>1. at[r] = "upsert" /\ UNCHANGED <<pending, redis, chat, wronged>> /\ (Smooth \/ Trouble) /\ at[r] \in Creating
  BY DEF Upsert, Creating
<1>2. RedisStep(r) BY <1>1, RedisStays
<1>3. job[r].kind = "exchange" /\ job[r].ext \in Exts /\ job[r].from \in Mails
  BY <1>1 DEF ContactsIInv, ContactsTypeOK, Jobs, JobOK, WidgetOK
<1>4. CASE UNCHANGED <<user, job>> /\ Go(r, "done") BY <1>1, <1>2, <1>4, Ends
<1>5. "get" \in Places /\ "get" \notin Creating \union {"idle", "move", "commit"} BY DEF Places, Creating
<1>6. ASSUME NEW i \in Ids, KeepWho(r, i), Go(r, "get"), DatabaseStep(r), i # r => user[i].kind # "none", Person(i, job[r].ext)'
      PROVE  Kept(r)
  <2>1. PICK j \in Jobs : j = [job[r] EXCEPT !.who = i] /\ Becomes(r, j, i) BY WhoKnown DEF IdsOrNone
  <2>2. Meets(r, "get", j) BY <1>5, <1>6, <2>1 DEF Meets, Refers, Becomes
  <2>3. ContactsTypeOK' /\ ContactsStep(r) /\ at'[r] = "get" /\ job'[r] = j
    BY <1>1, <1>2, <1>5, <1>6, <2>1, <2>2, Writes DEF KeepWho
  <2>4. Person(job[r].who, job[r].ext)'
    <3>1. job'[r].who = i /\ job'[r].ext = job[r].ext BY <2>1, <2>3 DEF Becomes
    <3>2. QED BY <1>6, <3>1 DEF Person
  <2>5. (ChatOK(r) /\ WidgetOK(r) /\ MailOK(r))' BY <1>3, <2>1, <2>3, <2>4 DEF ChatOK, WidgetOK, MailOK, Becomes
  <2>6. QED BY <2>1, <2>3, <2>5, Advance DEF Same, Becomes
<1>7. ASSUME NEW i \in Contacts, user[i].ext = job[r].ext, Go(r, "get"), user' = Addressed(i, job[r].from),
             job' = Cleared([job EXCEPT ![r] = [job[r] EXCEPT !.who = i]], i)
      PROVE  Kept(r)
  <2>1. i \in Ids /\ user[i].kind = "contact" BY DEF Contacts
  <2>2. PICK j \in Jobs : j = [job[r] EXCEPT !.who = i] /\ Becomes(r, j, i) BY <2>1, WhoKnown DEF IdsOrNone
  <2>3. Meets(r, "get", j) BY <2>1, <2>2 DEF Meets, Refers, Becomes
  <2>4. job' = Cleared([job EXCEPT ![r] = j], i) BY <1>7, <2>2
  <2>5. /\ JobStep(r) /\ at' \in [Requests -> Places] /\ job' \in [Requests -> Jobs] /\ at'[r] = "get"
        /\ job'[r].out \subseteq j.out /\ job'[r].kind = j.kind /\ job'[r].ext = j.ext /\ job'[r].from = j.from
        /\ job'[r].conv = j.conv /\ job'[r].who = j.who /\ \A q \in Requests : i \notin job'[q].out
    <3>1. GoneOn(r, "get", j, i) BY <1>1, <1>5, <1>7, <2>1, <2>3, <2>4, JobClears
    <3>2. QED BY <3>1 DEF GoneOn
  <2>6. DatabaseStep(r) /\ \A x \in Ids : user'[x].kind = user[x].kind /\ user'[x].ext = user[x].ext
    <3>1. user' = user \/ user' = [user EXCEPT ![i] = [user[i] EXCEPT !.mail = job[r].from, !.lower = TRUE]]
      BY <1>7 DEF Addressed
    <3>2. QED BY <1>1, <1>3, <2>1, <2>5, <3>1, AddressWritten
  <2>7. ContactsTypeOK' /\ ContactsStep(r) BY <1>1, <1>2, <1>5, <2>5, <2>6, Commits
  <2>8. job'[r].ext = user[i].ext /\ job'[r].who = i BY <1>7, <2>2, <2>5 DEF Becomes
  <2>9. Person(job[r].who, job[r].ext)' BY <2>1, <2>6, <2>8 DEF Person
  <2>10. (ChatOK(r) /\ WidgetOK(r) /\ MailOK(r))'
    BY <1>3, <2>2, <2>5, <2>9 DEF ChatOK, WidgetOK, MailOK, Becomes
  <2>11. QED BY <2>2, <2>5, <2>7, <2>10, Advance DEF Same, Becomes
<1>8. CASE user' = [user EXCEPT ![r] = NewContact(job[r].from, job[r].ext)] /\ KeepWho(r, r) /\ Go(r, "get")
  <2>1. PICK u \in UserRows : u = NewContact(job[r].from, job[r].ext) /\ u.kind = "contact" /\ u.ext = job[r].ext
    BY <1>3, NewContactIsOne
  <2>2. DatabaseStep(r) /\ user'[r] = u BY <1>1, <1>5, <1>8, <2>1, UserCreated
  <2>3. r \in Ids BY DEF Ids
  <2>4. job'[r].ext = job[r].ext BY <1>8 DEF KeepWho, Keep, ContactsIInv, ContactsTypeOK, Jobs
  <2>5. Person(r, job[r].ext)' BY <2>1, <2>2, <2>3, <2>4 DEF Person
  <2>6. QED BY <1>6, <1>8, <2>2, <2>3, <2>5
<1>9. QED BY <1>4, <1>7, <1>8 DEF Upsert

LEMMA GetKeeps ==
  ASSUME ContactsAssumption, ContactsIInv, NEW r \in Requests, Get(r)
  PROVE  Kept(r)
<1>1. at[r] = "get" /\ UNCHANGED <<user, pending, redis, chat, wronged>> /\ Smooth BY DEF Get, people
<1>2. RedisStep(r) BY <1>1, RedisStays
<1>3. CASE Go(r, "done") /\ UNCHANGED job BY <1>1, <1>2, <1>3, Ends
<1>4. CASE Keep(r, [job[r] EXCEPT !.version = user[Who(r)].version]) /\ Go(r, "reuse")
  <2>1. job[r] \in Jobs /\ user \in [Ids -> UserRows] BY DEF ContactsIInv, ContactsTypeOK
  <2>2. Person(job[r].who, job[r].ext) /\ job[r].kind = "exchange" BY <1>1 DEF ContactsIInv, JobOK, WidgetOK
  <2>3. user[Who(r)].version \in Nat BY <2>1, <2>2 DEF Person, Who, UserRows
  <2>4. PICK j : j = [job[r] EXCEPT !.version = user[Who(r)].version] OBVIOUS
  <2>5. j \in Jobs BY <2>1, <2>3, <2>4 DEF Jobs
  <2>6. Becomes(r, j, job[r].who) BY <2>1, <2>4 DEF Jobs, Becomes
  <2>7. Meets(r, "reuse", j) BY <2>6 DEF Meets, Refers, Becomes
  <2>8. "reuse" \in Places /\ "reuse" \notin Creating \union {"idle", "move", "commit"} BY DEF Places, Creating
  <2>9. ContactsTypeOK' /\ ContactsStep(r) /\ at'[r] = "reuse" /\ job'[r] = j
    <3>1. Keep(r, j) BY <1>4, <2>4
    <3>2. QED BY <1>1, <1>2, <1>4, <2>5, <2>7, <2>8, <3>1, Reads
  <2>10. Person(job[r].who, job[r].ext)' BY <1>1, <2>2, <2>6, <2>9 DEF Person, Becomes
  <2>11. (ChatOK(r) /\ WidgetOK(r) /\ MailOK(r))' BY <2>2, <2>6, <2>9, <2>10 DEF ChatOK, WidgetOK, MailOK, Becomes
  <2>12. QED BY <2>6, <2>9, <2>11, Advance DEF Same, Becomes
<1>5. QED BY <1>3, <1>4 DEF Get

LEMMA ReuseKeeps ==
  ASSUME ContactsAssumption, ContactsIInv, NEW r \in Requests, Reuse(r)
  PROVE  Kept(r)
<1>1. at[r] = "reuse" /\ UNCHANGED <<user, pending, redis, chat, job, wronged>> /\ (Smooth \/ Trouble)
  BY DEF Reuse, people
<1>2. RedisStep(r) BY <1>1, RedisStays
<1>3. CASE Go(r, "done") BY <1>1, <1>2, <1>3, Ends
<1>4. CASE Go(r, "sign")
  <2>1. "sign" \in Places /\ "sign" \notin Creating BY DEF Places, Creating
  <2>2. at'[r] = "sign" /\ job' = job /\ ((ChatOK(r) /\ WidgetOK(r) /\ MailOK(r))' => Kept(r))
    BY <1>1, <1>2, <1>4, <2>1, Moves
  <2>3. Person(job[r].who, job[r].ext) /\ job[r].kind = "exchange" BY <1>1 DEF ContactsIInv, JobOK, WidgetOK
  <2>4. Person(job[r].who, job[r].ext)' BY <1>1, <2>3 DEF Person
  <2>5. QED BY <2>2, <2>3, <2>4 DEF ChatOK, WidgetOK, MailOK
<1>5. QED BY <1>3, <1>4 DEF Reuse

LEMMA RegisteredKeeps ==
  ASSUME ContactsAssumption, ContactsIInv, NEW r \in Requests, Registered(r)
  PROVE  Kept(r)
<1>1. at[r] = "registered" /\ UNCHANGED <<user, pending, redis, chat, job, wronged>> /\ Smooth BY DEF Registered, people
<1>2. RedisStep(r) BY <1>1, RedisStays
<1>3. CASE Go(r, "done") BY <1>1, <1>2, <1>3, Ends
<1>4. CASE Go(r, "register")
  <2>1. "register" \in Places /\ at[r] \in Creating BY <1>1 DEF Places, Creating
  <2>2. at'[r] = "register" /\ ((ChatOK(r) /\ WidgetOK(r) /\ MailOK(r))' => Kept(r))
    BY <1>1, <1>2, <1>4, <2>1, Moves
  <2>3. QED BY <2>2 DEF ChatOK, WidgetOK, MailOK
<1>5. QED BY <1>3, <1>4 DEF Registered

LEMMA JoinKeeps ==
  ASSUME ContactsAssumption, ContactsIInv, NEW r \in Requests, Joins(r), Go(r, "done"), at[r] \in {"register", "activate"},
         UNCHANGED <<redis, chat, job, wronged>>, Smooth \/ Trouble
  PROVE  Kept(r)
<1>1. RedisStep(r) BY RedisStays
<1>2. job[r].from \in Mails BY DEF ContactsIInv, ContactsTypeOK, Jobs
<1>3. PICK c \in UserRows : c = NewContact(job[r].from, NoExt) /\ c.kind = "contact" BY <1>2, NewContactIsOne DEF Exts
<1>4. PICK u \in UserRows : u = [c EXCEPT !.portal = TRUE] /\ u.kind = "contact"
  <2>1. PICK new : new = [c EXCEPT !.portal = TRUE] OBVIOUS
  <2>2. new \in UserRows BY <2>1 DEF UserRows
  <2>3. new.kind = "contact" BY <1>3, <2>1 DEF UserRows
  <2>4. QED BY <2>1, <2>2, <2>3
<1>5. /\ "done" \in Places /\ "done" \notin Creating \union {"idle", "move", "commit"} /\ at[r] \in Creating
      /\ at[r] # "done"
  BY DEF Places, Creating
<1>6. user' = [user EXCEPT ![r] = u] /\ pending' \subseteq pending BY <1>3, <1>4 DEF Joins
<1>7. DatabaseStep(r) BY <1>4, <1>5, <1>6, UserCreated
<1>8. Keep(r, job[r]) /\ job[r] \in Jobs BY JobStays
<1>9. Meets(r, "done", job[r]) BY DEF Meets, Refers
<1>10. ContactsTypeOK' /\ ContactsStep(r) /\ at'[r] = "done" BY <1>1, <1>5, <1>7, <1>8, <1>9, Writes
<1>11. (ChatOK(r) /\ WidgetOK(r) /\ MailOK(r))' BY <1>10 DEF ChatOK, WidgetOK, MailOK
<1>12. QED BY <1>10, <1>11, Advance DEF Same

LEMMA RegisterKeeps ==
  ASSUME ContactsAssumption, ContactsIInv, NEW r \in Requests, Register(r)
  PROVE  Kept(r)
<1>1. at[r] = "register" /\ Go(r, "done") /\ UNCHANGED <<redis, chat, job, wronged>> /\ (Smooth \/ Trouble)
  BY DEF Register
<1>2. RedisStep(r) BY <1>1, RedisStays
<1>3. CASE UNCHANGED people BY <1>1, <1>2, <1>3, Ends DEF people
<1>4. CASE Joins(r) BY <1>1, <1>4, JoinKeeps
<1>5. QED BY <1>3, <1>4 DEF Register

LEMMA VerifyKeeps ==
  ASSUME ContactsAssumption, ContactsIInv, NEW r \in Requests, Verify(r)
  PROVE  Kept(r)
<1>1. at[r] = "verify" /\ UNCHANGED <<user, pending, redis, chat, wronged>> /\ (Smooth \/ Trouble) BY DEF Verify, people
<1>2. RedisStep(r) BY <1>1, RedisStays
<1>3. job[r].kind = "verify" /\ job[r].from \in Addresses BY <1>1 DEF ContactsIInv, JobOK, MailOK, AskedOK
<1>4. CASE Go(r, "done") /\ UNCHANGED job BY <1>1, <1>2, <1>4, Ends
<1>5. "activate" \in Places /\ at[r] \in Creating /\ "activate" \notin {"idle", "move", "commit"}
  BY <1>1 DEF Places, Creating
<1>6. CASE Go(r, "activate") /\ UNCHANGED job
  <2>1. at'[r] = "activate" /\ job' = job /\ ((ChatOK(r) /\ WidgetOK(r) /\ MailOK(r))' => Kept(r))
    BY <1>1, <1>2, <1>5, <1>6, Moves
  <2>2. QED BY <1>3, <2>1 DEF ChatOK, WidgetOK, MailOK
<1>7. ASSUME NEW i \in PortalUsers(job[r].from), Go(r, "activate"), KeepWho(r, i) PROVE Kept(r)
  <2>1. i \in Ids /\ user[i].mail = job[r].from BY DEF PortalUsers
  <2>2. user[i].kind # "none" BY <1>3, <2>1 DEF ContactsIInv, RowsOK, UserOK, ContactsAssumption
  <2>3. PICK j \in Jobs : j = [job[r] EXCEPT !.who = i] /\ Becomes(r, j, i) BY <2>1, WhoKnown DEF IdsOrNone
  <2>4. Meets(r, "activate", j) BY <2>2, <2>3 DEF Meets, Refers, Becomes
  <2>5. ContactsTypeOK' /\ ContactsStep(r) /\ at'[r] = "activate" /\ job'[r] = j
    BY <1>1, <1>2, <1>5, <1>7, <2>3, <2>4, Reads DEF KeepWho
  <2>6. (ChatOK(r) /\ WidgetOK(r) /\ MailOK(r))' BY <1>3, <2>3, <2>5 DEF ChatOK, WidgetOK, MailOK, Becomes
  <2>7. QED BY <2>3, <2>5, <2>6, Advance DEF Same, Becomes
<1>8. QED BY <1>4, <1>6, <1>7 DEF Verify

LEMMA ActivateKeeps ==
  ASSUME ContactsAssumption, ContactsIInv, NEW r \in Requests, Activate(r)
  PROVE  Kept(r)
<1>1. /\ at[r] = "activate" /\ ~Locked(Who(r)) /\ Go(r, "done") /\ UNCHANGED <<redis, chat, job, wronged>>
      /\ (Smooth \/ Trouble)
  BY DEF Activate
<1>2. RedisStep(r) BY <1>1, RedisStays
<1>3. CASE UNCHANGED people BY <1>1, <1>2, <1>3, Ends DEF people
<1>4. CASE Joins(r) BY <1>1, <1>4, JoinKeeps
<1>5. ASSUME NEW u \in Ids, u = Who(r), user[u].mail = job[r].from, user[u].on,
             user' = [user EXCEPT ![u] = [user[u] EXCEPT !.kind = "contact", !.version = user[u].version + 1,
                                                          !.portal = TRUE]],
             pending' = pending \ {job[r].from}
      PROVE  Kept(r)
  <2>1. user \in [Ids -> UserRows] /\ wronged \subseteq Ids BY DEF ContactsIInv, ContactsTypeOK
  <2>2. user[u].kind \in {"visitor", "contact"}
    <3>1. job[r].from \in Addresses BY <1>1 DEF ContactsIInv, JobOK, MailOK, AskedOK
    <3>2. user[u].kind # "none" BY <1>5, <3>1 DEF ContactsIInv, RowsOK, UserOK, ContactsAssumption
    <3>3. QED BY <2>1, <3>2 DEF UserRows
  <2>3. PICK n \in Nat : n = user[u].version + 1 BY <2>1 DEF UserRows
  <2>4. PICK entry \in UserRows :
          /\ entry = [user[u] EXCEPT !.kind = "contact", !.version = n, !.portal = TRUE]
          /\ entry.kind = "contact" /\ entry.mail = user[u].mail /\ entry.lower = user[u].lower /\ entry.on = user[u].on
          /\ entry.ext = user[u].ext
    <3>1. PICK old \in UserRows : old = user[u] BY <2>1
    <3>2. PICK new : new = [old EXCEPT !.kind = "contact", !.version = n, !.portal = TRUE] OBVIOUS
    <3>3. new \in UserRows BY <3>2 DEF UserRows
    <3>4. new.kind = "contact" /\ new.mail = old.mail /\ new.lower = old.lower /\ new.on = old.on /\ new.ext = old.ext
      BY <3>2 DEF UserRows
    <3>5. QED BY <3>1, <3>2, <3>3, <3>4
  <2>5. user' \in [Ids -> UserRows] /\ user'[u] = entry /\ \A x \in Ids : x # u => user'[x] = user[x]
    BY <1>5, <2>1, <2>3, <2>4
  <2>6. UserStep(r) BY <1>1, <1>5, <2>2, <2>4, <2>5 DEF UserStep
  <2>7. DatabaseStep(r) BY <1>1, <1>5, <2>1, <2>5, <2>6, UserWrites
  <2>8. Keep(r, job[r]) /\ job[r] \in Jobs BY <1>1, JobStays
  <2>9. Meets(r, "done", job[r]) BY DEF Meets, Refers
  <2>10. "done" \in Places /\ "done" \notin Creating \union {"idle", "move", "commit"} BY DEF Places, Creating
  <2>11. ContactsTypeOK' /\ ContactsStep(r) /\ at'[r] = "done" BY <1>1, <1>2, <2>7, <2>8, <2>9, <2>10, Writes
  <2>12. (ChatOK(r) /\ WidgetOK(r) /\ MailOK(r))' BY <2>11 DEF ChatOK, WidgetOK, MailOK
  <2>13. QED BY <1>1, <2>11, <2>12, Advance DEF Same
<1>6. job[r].who \in IdsOrNone BY DEF ContactsIInv, ContactsTypeOK, Jobs
<1>7. QED BY <1>3, <1>4, <1>5, <1>6 DEF Activate, Who, IdsOrNone

LEMMA IsEmailBlockedKeeps ==
  ASSUME ContactsAssumption, ContactsIInv, NEW r \in Requests, IsEmailBlocked(r)
  PROVE  Kept(r)
<1>1. at[r] = "blocked" /\ UNCHANGED <<user, pending, redis, chat, job, wronged>> /\ Smooth /\ at[r] \in Creating
  BY DEF IsEmailBlocked, Creating, people
<1>2. RedisStep(r) BY <1>1, RedisStays
<1>3. job[r].kind \in {"ticket", "answer"} /\ (\A i \in job[r].out : i \in Ids /\ ~user[i].on)
  BY <1>1 DEF ContactsIInv, ContactsTypeOK, Jobs, JobOK, MailOK, AskedOK
<1>4. CASE Go(r, "done") BY <1>1, <1>2, <1>4, Ends
<1>5. ASSUME NEW p \in {"known", "answer"}, Go(r, p), p = "answer" => job[r].kind = "answer", ~AddressBlocked(job[r].from)
      PROVE  Kept(r)
  <2>1. NoMails(r) BY <1>3, <1>5 DEF NoMails, AddressBlocked
  <2>2. p \in Places /\ p \notin {"idle", "move", "commit"} BY DEF Places
  <2>3. at'[r] = p /\ job' = job /\ ((ChatOK(r) /\ WidgetOK(r) /\ MailOK(r))' => Kept(r))
    BY <1>1, <1>2, <1>5, <2>2, Moves
  <2>4. NoMails(r)' BY <1>1, <2>1 DEF NoMails, Spelled
  <2>5. QED BY <1>3, <1>5, <2>3, <2>4 DEF ChatOK, WidgetOK, MailOK
<1>6. CASE AddressBlocked(job[r].from) BY <1>4, <1>6 DEF IsEmailBlocked
<1>7. CASE ~AddressBlocked(job[r].from) /\ job[r].kind = "ticket"
  <2>1. Go(r, "known") BY <1>7 DEF IsEmailBlocked
  <2>2. QED BY <1>5, <1>7, <2>1
<1>8. CASE ~AddressBlocked(job[r].from) /\ job[r].kind # "ticket"
  <2>1. Go(r, "answer") BY <1>8 DEF IsEmailBlocked
  <2>2. QED BY <1>3, <1>5, <1>8, <2>1
<1>9. QED BY <1>6, <1>7, <1>8

(* A ticket, or a mail, is a contact's whom nobody has blocked. *)
LEMMA ContactTaken ==
  ASSUME ContactsAssumption, ContactsIInv, NEW r \in Requests, NEW i \in Ids, KeepWho(r, i), Go(r, Then(r)),
         at[r] \in {"known", "insert"}, i # r => user[i].kind = "contact" /\ Spelled(i, job[r].from),
         DatabaseStep(r), RedisStep(r), Smooth \/ Trouble
  PROVE  Kept(r)
<1>1. job[r].kind \in {"ticket", "answer"} /\ NoMails(r) /\ at[r] \in Creating
  BY DEF ContactsIInv, JobOK, MailOK, Creating
<1>2. PICK j \in Jobs : j = [job[r] EXCEPT !.who = i] /\ Becomes(r, j, i) BY WhoKnown DEF IdsOrNone
<1>3. PICK p \in Places : /\ p = Then(r) /\ (p = "create" => job[r].kind = "ticket") /\ (p = "override" => job[r].kind = "answer")
                          /\ p \in {"create", "override"}
  BY <1>1 DEF Then, Places
<1>4. p \notin Creating \union {"idle", "move", "commit"} BY <1>3 DEF Creating
<1>5. Meets(r, p, j) BY <1>2, <1>4 DEF Meets, Refers, Becomes
<1>6. ContactsTypeOK' /\ ContactsStep(r) /\ at'[r] = p /\ job'[r] = j
  <2>1. Keep(r, j) /\ Go(r, p) BY <1>2, <1>3 DEF KeepWho
  <2>2. QED BY <1>1, <1>2, <1>4, <1>5, <2>1, Writes
<1>7. i \notin job[r].out
  <2>1. CASE i = r BY <1>1, <2>1 DEF ContactsIInv, RowsOK, FreshOK, Refers
  <2>2. CASE Spelled(i, job[r].from) BY <1>1, <2>2 DEF NoMails
  <2>3. QED BY <2>1, <2>2
<1>8. Welcome(r)' BY <1>2, <1>6, <1>7 DEF Welcome, Becomes
<1>9. NoMails(r)'
  <2>1. job[r].from \in Addresses BY <1>1 DEF ContactsIInv, JobOK, AskedOK
  <2>2. job'[r].out = job[r].out /\ job'[r].from = job[r].from BY <1>2, <1>6 DEF Becomes
  <2>3. QED BY <1>1, <1>6, <2>1, <2>2, OutRemain DEF ContactsIInv
<1>10. (ChatOK(r) /\ WidgetOK(r) /\ MailOK(r))'
  BY <1>2, <1>3, <1>6, <1>8, <1>9 DEF ChatOK, WidgetOK, MailOK, Becomes
<1>11. QED BY <1>2, <1>6, <1>10, Advance DEF Same, Becomes

LEMMA KnownKeeps ==
  ASSUME ContactsAssumption, ContactsIInv, NEW r \in Requests, Known(r)
  PROVE  Kept(r)
<1>1. at[r] = "known" /\ UNCHANGED <<user, pending, redis, chat, wronged>> /\ Smooth /\ at[r] \in Creating
  BY DEF Known, Creating, people
<1>2. RedisStep(r) BY <1>1, RedisStays
<1>3. ASSUME NEW i \in Contacts, Spelled(i, job[r].from), KeepWho(r, i), Go(r, Then(r)) PROVE Kept(r)
  <2>1. i \in Ids /\ user[i].kind = "contact" BY DEF Contacts
  <2>2. UserStep(r) BY <1>1 DEF UserStep
  <2>3. DatabaseStep(r) BY <1>1, <2>2, UserWrites DEF ContactsIInv, ContactsTypeOK
  <2>4. QED BY <1>1, <1>2, <1>3, <2>1, <2>3, ContactTaken
<1>4. CASE Go(r, "insert") /\ UNCHANGED job
  <2>1. "insert" \in Places BY DEF Places
  <2>2. at'[r] = "insert" /\ job' = job /\ ((ChatOK(r) /\ WidgetOK(r) /\ MailOK(r))' => Kept(r))
    BY <1>1, <1>2, <1>4, <2>1, Moves
  <2>3. job[r].kind \in {"ticket", "answer"} /\ NoMails(r) BY <1>1 DEF ContactsIInv, JobOK, MailOK
  <2>4. NoMails(r)' BY <1>1, <2>2, <2>3 DEF NoMails, Spelled
  <2>5. QED BY <2>2, <2>3, <2>4 DEF ChatOK, WidgetOK, MailOK
<1>5. QED BY <1>3, <1>4 DEF Known

LEMMA InsertContactKeeps ==
  ASSUME ContactsAssumption, ContactsIInv, NEW r \in Requests, InsertContact(r)
  PROVE  Kept(r)
<1>1. at[r] = "insert" /\ UNCHANGED <<pending, redis, chat, wronged>> /\ (Smooth \/ Trouble) /\ at[r] \in Creating
  BY DEF InsertContact, Creating
<1>2. RedisStep(r) BY <1>1, RedisStays
<1>3. CASE UNCHANGED <<user, job>> /\ Go(r, "done") BY <1>1, <1>2, <1>3, Ends
<1>4. ASSUME NEW i \in Contacts, Spelled(i, job[r].from), KeepWho(r, i), Go(r, Then(r)), UNCHANGED user PROVE Kept(r)
  <2>1. i \in Ids /\ user[i].kind = "contact" BY DEF Contacts
  <2>2. UserStep(r) BY <1>1, <1>4 DEF UserStep
  <2>3. DatabaseStep(r) BY <1>1, <1>4, <2>2, UserWrites DEF ContactsIInv, ContactsTypeOK
  <2>4. QED BY <1>1, <1>2, <1>4, <2>1, <2>3, ContactTaken
<1>5. CASE user' = [user EXCEPT ![r] = NewContact(job[r].from, NoExt)] /\ KeepWho(r, r) /\ Go(r, Then(r))
  <2>1. job[r].from \in Mails BY DEF ContactsIInv, ContactsTypeOK, Jobs
  <2>2. PICK u \in UserRows : u = NewContact(job[r].from, NoExt) /\ u.kind = "contact" BY <2>1, NewContactIsOne DEF Exts
  <2>3. Then(r) \in Places /\ Then(r) \notin Creating BY DEF Then, Places, Creating
  <2>4. DatabaseStep(r) BY <1>1, <1>5, <2>2, <2>3, UserCreated
  <2>5. QED BY <1>1, <1>2, <1>5, <2>4, ContactTaken DEF Ids
<1>6. QED BY <1>3, <1>4, <1>5 DEF InsertContact

(* Whoever answers from the own address has been looked up, blocked or not. *)
LEMMA OwnIsWelcome ==
  ASSUME ContactsIInv, NEW r \in Requests, job[r].kind = "answer", NoMails(r), NEW u \in Ids, user[u].mail = job[r].from
  PROVE  u \notin job[r].out
BY DEF ContactsIInv, JobOK, AskedOK, NoMails, Spelled

LEMMA AnswerKeeps ==
  ASSUME ContactsAssumption, ContactsIInv, NEW r \in Requests, Answer(r)
  PROVE  Kept(r)
<1>1. at[r] = "answer" /\ UNCHANGED <<user, pending, redis, chat, wronged>> /\ Smooth /\ at[r] \in Creating
  BY DEF Answer, Creating, people
<1>2. RedisStep(r) BY <1>1, RedisStays
<1>3. job[r].kind = "answer" /\ NoMails(r) BY <1>1 DEF ContactsIInv, JobOK, MailOK
<1>4. PICK u \in Ids : u = conv[job[r].conv] /\ user[u].kind # "none"
  BY <1>3 DEF ContactsIInv, JobOK, AskedOK, Settled, RowsOK, ConvOK, Exists
<1>5. NoMails(r)' <=> \A i \in job'[r].out : ~(user[i].mail = job'[r].from /\ user[i].lower)
  BY <1>1 DEF NoMails, Spelled
<1>6. ASSUME NEW p \in {"override", "upgrade"}, user[u].mail = job[r].from, KeepWho(r, u), Go(r, p) PROVE Kept(r)
  <2>1. PICK j \in Jobs : j = [job[r] EXCEPT !.who = u] /\ Becomes(r, j, u) BY WhoKnown DEF IdsOrNone
  <2>2. p \in Places /\ p \notin Creating \union {"idle", "move", "commit"} BY DEF Places, Creating
  <2>3. Meets(r, p, j) BY <1>4, <2>1 DEF Meets, Refers, Becomes
  <2>4. ContactsTypeOK' /\ ContactsStep(r) /\ at'[r] = p /\ job'[r] = j
    BY <1>1, <1>2, <1>6, <2>1, <2>2, <2>3, Reads DEF KeepWho
  <2>5. Welcome(r)' BY <1>3, <1>6, <2>1, <2>4, OwnIsWelcome DEF Welcome, Becomes
  <2>6. NoMails(r)' BY <1>3, <1>5, <2>1, <2>4 DEF NoMails, Becomes, Spelled
  <2>7. (ChatOK(r) /\ WidgetOK(r) /\ MailOK(r))' BY <1>3, <2>1, <2>4, <2>5, <2>6 DEF ChatOK, WidgetOK, MailOK, Becomes
  <2>8. QED BY <2>1, <2>4, <2>7, Advance DEF Same, Becomes
<1>7. CASE Go(r, "known") /\ UNCHANGED job
  <2>1. "known" \in Places BY DEF Places
  <2>2. at'[r] = "known" /\ job' = job /\ ((ChatOK(r) /\ WidgetOK(r) /\ MailOK(r))' => Kept(r))
    BY <1>1, <1>2, <1>7, <2>1, Moves
  <2>3. NoMails(r)' BY <1>3, <1>5, <2>2 DEF NoMails, Spelled
  <2>4. QED BY <1>3, <2>2, <2>3 DEF ChatOK, WidgetOK, MailOK
<1>8. QED BY <1>4, <1>6, <1>7 DEF Answer

LEMMA UpgradeKeeps ==
  ASSUME ContactsAssumption, ContactsIInv, NEW r \in Requests, UpgradeVisitorToContact(r)
  PROVE  Kept(r)
<1>1. at[r] = "upgrade" /\ ~Locked(Who(r)) /\ UNCHANGED <<pending, redis, chat, job, wronged>> /\ (Smooth \/ Trouble)
  BY DEF UpgradeVisitorToContact
<1>2. RedisStep(r) BY <1>1, RedisStays
<1>3. CASE UNCHANGED user /\ Go(r, "done") BY <1>1, <1>2, <1>3, Ends
<1>4. job[r].kind = "answer" /\ NoMails(r) /\ Welcome(r) /\ job[r].from \in Addresses
  BY <1>1 DEF ContactsIInv, JobOK, MailOK, AskedOK
<1>5. ASSUME DatabaseStep(r), Go(r, "override") PROVE Kept(r)
  <2>1. Keep(r, job[r]) /\ job[r] \in Jobs BY <1>1, JobStays
  <2>2. Meets(r, "override", job[r]) BY DEF Meets, Refers
  <2>3. "override" \in Places /\ "override" \notin Creating \union {"idle", "move", "commit"} BY DEF Places, Creating
  <2>4. ContactsTypeOK' /\ ContactsStep(r) /\ at'[r] = "override" BY <1>1, <1>2, <1>5, <2>1, <2>2, <2>3, Writes
  <2>5. Welcome(r)' BY <1>1, <1>4 DEF Welcome
  <2>6. NoMails(r)' BY <1>1, <1>4, <2>4, OutRemain DEF ContactsIInv
  <2>7. (ChatOK(r) /\ WidgetOK(r) /\ MailOK(r))' BY <1>1, <1>4, <2>4, <2>5, <2>6 DEF ChatOK, WidgetOK, MailOK
  <2>8. QED BY <1>1, <2>4, <2>7, Advance DEF Same
<1>6. user \in [Ids -> UserRows] /\ wronged \subseteq Ids BY DEF ContactsIInv, ContactsTypeOK
<1>7. CASE UNCHANGED user /\ Go(r, "override")
  <2>1. UserStep(r) BY <1>1, <1>7 DEF UserStep
  <2>2. DatabaseStep(r) BY <1>1, <1>6, <1>7, <2>1, UserWrites
  <2>3. QED BY <1>5, <1>7, <2>2
<1>8. CASE user[Who(r)].kind = "visitor" /\ user' = [user EXCEPT ![Who(r)].kind = "contact"] /\ Go(r, "override")
  <2>1. PICK w \in Ids : w = Who(r) /\ w = job[r].who BY <1>4 DEF Who, Welcome
  <2>2. user[w].kind = "visitor" /\ ~Locked(w) BY <1>1, <1>8, <2>1
  <2>3. /\ user'[w].kind = "contact" /\ user'[w].mail = user[w].mail /\ user'[w].lower = user[w].lower
        /\ user'[w].on = user[w].on /\ user'[w].ext = user[w].ext /\ \A i \in Ids : i # w => user'[i] = user[i]
    BY <1>6, <1>8, <2>1 DEF UserRows
  <2>4. [user[w] EXCEPT !.kind = "contact"] \in UserRows BY <1>6 DEF UserRows
  <2>5. user' \in [Ids -> UserRows] BY <1>6, <1>8, <2>1, <2>4
  <2>6. UserStep(r) BY <1>1, <2>2, <2>3 DEF UserStep
  <2>7. DatabaseStep(r) BY <1>1, <1>6, <2>5, <2>6, UserWrites
  <2>8. QED BY <1>5, <1>8, <2>7
<1>9. QED BY <1>3, <1>7, <1>8 DEF UpgradeVisitorToContact

LEMMA OverrideKeeps ==
  ASSUME ContactsAssumption, ContactsIInv, NEW r \in Requests, Override(r)
  PROVE  Kept(r)
<1>1. /\ at[r] = "override" /\ UNCHANGED <<user, pending, redis, chat, wronged>> /\ Go(r, "message")
      /\ (Smooth \/ Trouble)
  BY DEF Override, people
<1>2. RedisStep(r) BY <1>1, RedisStays
<1>3. job[r].kind = "answer" /\ NoMails(r) /\ Welcome(r) BY <1>1 DEF ContactsIInv, JobOK, MailOK
<1>4. PICK u \in Ids : u = conv[job[r].conv] /\ user[u].kind # "none"
  BY <1>3 DEF ContactsIInv, JobOK, AskedOK, Settled, RowsOK, ConvOK, Exists
<1>5. "message" \in Places /\ "message" \notin Creating \union {"idle", "move", "commit"} BY DEF Places, Creating
<1>6. job[r].conv \in Ids /\ Settled(job[r].conv) BY <1>3 DEF ContactsIInv, JobOK, AskedOK
<1>7. ASSUME NEW j \in Jobs, Keep(r, j), j.who \in Ids, j.who \notin job[r].out, user[j.who].kind # "none" \/ j.who = job[r].who,
             j.kind = job[r].kind, j.ext = job[r].ext, j.from = job[r].from, j.out = job[r].out, j.conv = job[r].conv,
             j.visitor = job[r].visitor, j.stranger \/ j.who = u
      PROVE  Kept(r)
  <2>1. Meets(r, "message", j) BY <1>7 DEF Meets, Refers
  <2>2. ContactsTypeOK' /\ ContactsStep(r) /\ at'[r] = "message" /\ job'[r] = j
    BY <1>1, <1>2, <1>5, <1>7, <2>1, Reads
  <2>3. Welcome(r)' BY <1>7, <2>2 DEF Welcome
  <2>4. Stored(job[r].conv)'
    <3>1. PICK c \in Ids : c = job[r].conv BY <1>6
    <3>2. Settled(c)' BY <1>6, <2>2, <3>1, SettledStays DEF ContactsIInv
    <3>3. job'[r].conv = c BY <1>7, <2>2, <3>1
    <3>4. QED BY <3>2, <3>3 DEF Settled, Stored
  <2>5. conv'[job'[r].conv] = job'[r].who \/ Stranger(r)' BY <1>1, <1>4, <1>7, <2>2 DEF chat, Stranger
  <2>6. (ChatOK(r) /\ WidgetOK(r) /\ MailOK(r))' BY <2>2, <2>3, <2>4, <2>5 DEF ChatOK, WidgetOK, MailOK
  <2>7. QED BY <1>7, <2>2, <2>6, Advance DEF Same
<1>8. CASE user[u].mail = job[r].from /\ KeepWho(r, u)
  <2>1. PICK j \in Jobs : j = [job[r] EXCEPT !.who = u] /\ Becomes(r, j, u) BY WhoKnown DEF IdsOrNone
  <2>2. Keep(r, j) BY <1>8, <2>1 DEF KeepWho
  <2>3. u \notin job[r].out BY <1>3, <1>8, OwnIsWelcome
  <2>4. QED BY <1>4, <1>7, <2>1, <2>2, <2>3 DEF Becomes
<1>9. CASE Keep(r, [job[r] EXCEPT !.stranger = TRUE])
  <2>1. job[r] \in Jobs BY DEF ContactsIInv, ContactsTypeOK
  <2>2. PICK j \in Jobs :
          /\ j = [job[r] EXCEPT !.stranger = TRUE] /\ j.stranger /\ j.who = job[r].who /\ j.kind = job[r].kind
          /\ j.ext = job[r].ext /\ j.from = job[r].from /\ j.out = job[r].out /\ j.conv = job[r].conv
          /\ j.visitor = job[r].visitor
    <3>1. PICK old \in Jobs : old = job[r] BY <2>1
    <3>2. PICK new : new = [old EXCEPT !.stranger = TRUE] OBVIOUS
    <3>3. new \in Jobs BY <3>2 DEF Jobs
    <3>4. /\ new.stranger /\ new.who = old.who /\ new.kind = old.kind /\ new.ext = old.ext /\ new.from = old.from
          /\ new.out = old.out /\ new.conv = old.conv /\ new.visitor = old.visitor
      BY <3>2 DEF Jobs
    <3>5. QED BY <3>1, <3>2, <3>3, <3>4
  <2>3. QED BY <1>3, <1>7, <1>9, <2>2 DEF Welcome
<1>10. QED BY <1>4, <1>8, <1>9 DEF Override

LEMMA ToggleKeeps ==
  ASSUME ContactsAssumption, ContactsIInv, NEW r \in Requests, Toggle(r)
  PROVE  Kept(r)
<1>1. at[r] = "block" /\ Go(r, "done") /\ UNCHANGED <<pending, redis, chat, wronged>> /\ Smooth BY DEF Toggle
<1>2. RedisStep(r) BY <1>1, RedisStays
<1>3. PICK i \in Ids :
        /\ user[i].kind # "none"
        /\ user' = [user EXCEPT ![i] = [user[i] EXCEPT !.on = ~user[i].on, !.version = user[i].version + 1]]
        /\ job' = IF user[i].on THEN job ELSE Cleared(job, i)
  BY DEF Toggle
<1>4. PICK j \in Jobs : j = job[r] BY DEF ContactsIInv, ContactsTypeOK
<1>5. user \in [Ids -> UserRows] /\ wronged \subseteq Ids BY DEF ContactsIInv, ContactsTypeOK
<1>6. PICK b \in BOOLEAN, n \in Nat : b = ~user[i].on /\ n = user[i].version + 1
  <2>1. user[i].version \in Nat /\ user[i].on \in BOOLEAN BY <1>5 DEF UserRows
  <2>2. PICK n \in Nat : n = user[i].version + 1 BY <2>1
  <2>3. PICK b \in BOOLEAN : b = ~user[i].on OBVIOUS
  <2>4. QED BY <2>2, <2>3
<1>7. PICK entry \in UserRows :
        /\ entry = [user[i] EXCEPT !.on = b, !.version = n]
        /\ entry.kind = user[i].kind /\ entry.mail = user[i].mail /\ entry.lower = user[i].lower /\ entry.ext = user[i].ext
        /\ entry.on = b
  <2>1. PICK old \in UserRows : old = user[i] BY <1>5
  <2>2. PICK new : new = [old EXCEPT !.on = b, !.version = n] OBVIOUS
  <2>3. new \in UserRows BY <2>2 DEF UserRows
  <2>4. new.kind = old.kind /\ new.mail = old.mail /\ new.lower = old.lower /\ new.ext = old.ext /\ new.on = b
    BY <2>2 DEF UserRows
  <2>5. QED BY <2>1, <2>2, <2>3, <2>4
<1>8. user' \in [Ids -> UserRows] /\ user'[i] = entry /\ \A x \in Ids : x # i => user'[x] = user[x]
  BY <1>3, <1>5, <1>6, <1>7
<1>9. "done" \in Places /\ "done" \notin Creating \union {"idle", "move", "commit"} BY DEF Places, Creating
<1>10. Meets(r, "done", j) BY <1>4 DEF Meets, Refers
<1>11. /\ JobStep(r) /\ at' \in [Requests -> Places] /\ job' \in [Requests -> Jobs] /\ at'[r] = "done" /\ Same(r)
       /\ ~user[i].on => \A q \in Requests : i \notin job'[q].out
  <2>1. CASE user[i].on
    <3>1. Keep(r, j) BY <1>4, <1>3, <2>1, JobStays
    <3>2. QED BY <1>4, <1>1, <1>9, <1>10, <2>1, <3>1, JobMoves DEF Same
  <2>2. CASE ~user[i].on
    <3>1. job = [job EXCEPT ![r] = j] BY <1>4 DEF ContactsIInv, ContactsTypeOK
    <3>2. job' = Cleared([job EXCEPT ![r] = j], i) BY <1>3, <2>2, <3>1
    <3>3. /\ JobStep(r) /\ at' \in [Requests -> Places] /\ job' \in [Requests -> Jobs] /\ at'[r] = "done"
          /\ job'[r].out \subseteq j.out /\ job'[r].kind = j.kind /\ job'[r].ext = j.ext /\ job'[r].from = j.from
          /\ job'[r].conv = j.conv /\ \A q \in Requests : i \notin job'[q].out
      <4>1. /\ at[r] # "done" /\ "done" # "idle" /\ ("done" \in Creating => at[r] \in Creating)
        /\ at[r] \in {"message", "clean up"} => "done" \in {"message", "clean up", "done"}
        BY <1>1, <1>9
      <4>2. GoneOn(r, "done", j, i) BY <1>1, <1>9, <1>10, <3>2, <4>1, JobClears
      <4>3. QED BY <4>2 DEF GoneOn
    <3>4. QED BY <1>4, <3>3 DEF Same
  <2>3. QED BY <2>1, <2>2
<1>12. UserStep(r) 
  <2>1. CASE user[i].on
    <3>1. ~user'[i].on BY <1>6, <1>7, <1>8, <2>1
    <3>2. QED BY <1>1, <1>7, <1>8, <3>1 DEF UserStep
  <2>2. CASE ~user[i].on
    <3>1. \A q \in Requests : i \notin job'[q].out BY <1>11, <2>2
    <3>2. QED BY <1>1, <1>3, <1>7, <1>8, <3>1 DEF UserStep
  <2>3. QED BY <2>1, <2>2
<1>13. DatabaseStep(r) BY <1>1, <1>5, <1>8, <1>12, UserWrites
<1>14. ContactsTypeOK' /\ ContactsStep(r) BY <1>1, <1>2, <1>9, <1>11, <1>13, Commits
<1>15. (ChatOK(r) /\ WidgetOK(r) /\ MailOK(r))' BY <1>11 DEF ChatOK, WidgetOK, MailOK
<1>16. QED BY <1>11, <1>14, <1>15, Advance

LEMMA EditKeeps ==
  ASSUME ContactsAssumption, ContactsIInv, NEW r \in Requests, Edit(r)
  PROVE  Kept(r)
<1>1. at[r] = "edit" /\ Go(r, "done") /\ UNCHANGED <<pending, redis, chat, wronged>> /\ Smooth BY DEF Edit
<1>2. RedisStep(r) BY <1>1, RedisStays
<1>3. PICK i \in Ids, lower \in BOOLEAN :
        /\ user[i].kind # "none" /\ job' = Cleared(job, i)
        /\ user' = [user EXCEPT ![i] = [user[i] EXCEPT !.mail = job[r].from, !.lower = lower]]
  BY DEF Edit
<1>4. PICK j \in Jobs : /\ j = job[r] /\ job[r].from \in Mails
                       /\ job' = Cleared([job EXCEPT ![r] = j], i)
  <2>1. PICK j \in Jobs : j = job[r] /\ j.from \in Mails BY DEF ContactsIInv, ContactsTypeOK, Jobs
  <2>2. job = [job EXCEPT ![r] = j] BY <2>1 DEF ContactsIInv, ContactsTypeOK
  <2>3. QED BY <1>3, <2>1, <2>2
<1>5. "done" \in Places /\ "done" \notin Creating \union {"idle", "move", "commit"} BY DEF Places, Creating
<1>6. Meets(r, "done", j) BY <1>4 DEF Meets, Refers
<1>7. /\ JobStep(r) /\ at' \in [Requests -> Places] /\ job' \in [Requests -> Jobs] /\ at'[r] = "done" /\ Same(r)
      /\ \A q \in Requests : i \notin job'[q].out
  <2>1. job' = Cleared([job EXCEPT ![r] = j], i) BY <1>4
  <2>2. /\ JobStep(r) /\ at' \in [Requests -> Places] /\ job' \in [Requests -> Jobs] /\ at'[r] = "done"
        /\ job'[r].out \subseteq j.out /\ job'[r].kind = j.kind /\ job'[r].ext = j.ext /\ job'[r].from = j.from
        /\ job'[r].conv = j.conv /\ \A q \in Requests : i \notin job'[q].out
    <3>1. /\ at[r] # "done" /\ "done" # "idle" /\ ("done" \in Creating => at[r] \in Creating)
        /\ at[r] \in {"message", "clean up"} => "done" \in {"message", "clean up", "done"}
      BY <1>1, <1>5
    <3>2. GoneOn(r, "done", j, i) BY <1>1, <1>5, <1>6, <2>1, <3>1, JobClears
    <3>3. QED BY <3>2 DEF GoneOn
  <2>3. QED BY <1>4, <2>2 DEF Same
<1>8. DatabaseStep(r) BY <1>1, <1>3, <1>4, <1>7, AddressWritten
<1>9. ContactsTypeOK' /\ ContactsStep(r) BY <1>1, <1>2, <1>5, <1>7, <1>8, Commits
<1>10. (ChatOK(r) /\ WidgetOK(r) /\ MailOK(r))' BY <1>7 DEF ChatOK, WidgetOK, MailOK
<1>11. QED BY <1>7, <1>9, <1>10, Advance

---------------------------------------------------------------------------
LEMMA ContactsStart == ContactsAssumption /\ ContactsInit => ContactsIInv
<1>1. SUFFICES ASSUME ContactsAssumption, ContactsInit PROVE ContactsIInv OBVIOUS
<1>2. PICK writers \in {{Visitor}, {Visitor, Contact}}, mail \in {Home, NoMail}, ext \in Persons \union {NoExt},
            lower \in BOOLEAN : InitWith(writers, mail, [NewContact(Home, ext) EXCEPT !.lower = lower])
  BY <1>1 DEF ContactsInit
<1>3. PICK contact \in UserRows, visitor \in UserRows :
        /\ contact = [NewContact(Home, ext) EXCEPT !.lower = lower] /\ visitor = NewVisitor(mail)
        /\ contact.kind = "contact" /\ visitor.kind = "visitor" /\ visitor.ext = NoExt
  <2>1. Home \in Mails /\ mail \in Mails BY <1>1, <1>2 DEF ContactsAssumption, Mails
  <2>2. PICK c \in UserRows : c = NewContact(Home, ext) /\ c.kind = "contact" /\ c.ext = ext
    BY <1>2, <2>1, NewContactIsOne DEF Exts
  <2>3. PICK v \in UserRows : v = NewVisitor(mail) /\ v.kind = "visitor" /\ v.ext = NoExt BY <2>1, NewVisitorIsOne
  <2>4. [c EXCEPT !.lower = lower] \in UserRows /\ [c EXCEPT !.lower = lower].kind = "contact"
    BY <1>2, <2>2 DEF UserRows
  <2>5. QED BY <2>2, <2>3, <2>4
<1>4. InitWith(writers, mail, contact) BY <1>3, <1>2
<1>5. PICK known : known = IF contact.ext = NoExt THEN writers \ {Contact} ELSE writers OBVIOUS
<1>6. known \subseteq writers BY <1>5
<1>7. /\ user = [i \in Ids |-> CASE i \notin writers -> NoUser [] i = Visitor -> visitor [] OTHER -> contact]
      /\ session = [i \in Ids |-> IF i \in known THEN [user |-> i, version |-> 1, ext |-> user[i].ext] ELSE NoSession]
      /\ reverse = [i \in Ids |-> IF i \in known \ {Visitor} THEN i ELSE NoOne]
      /\ conv = [i \in Ids |-> IF i \in writers THEN i ELSE NoOne]
      /\ msg = [i \in Ids |-> IF i \in writers THEN [conv |-> i, sender |-> i] ELSE NoMsg]
  BY <1>3, <1>4, <1>5 DEF InitWith
<1>8. at = [r \in Requests |-> "idle"] /\ job = [r \in Requests |-> NoJob] /\ wronged = {} /\ troubles = 0 /\ pending = Pending
  BY <1>4 DEF InitWith
<1>9. writers \subseteq Ids /\ writers \intersect Requests = {} /\ NoOne \notin Ids /\ Visitor # Contact /\ MaxTroubles \in Nat
  BY <1>1, <1>2 DEF ContactsAssumption, Ids
<1>10. NoUser \in UserRows /\ NoUser.kind = "none" /\ NoUser.mail = NoMail
  BY DEF NoUser, UserRows, Exts, Mails
<1>11. \A i \in Ids : /\ i \notin writers => user[i] = NoUser
                      /\ i \in writers /\ i = Contact => user[i] = contact
                      /\ i \in writers /\ i # Contact => user[i] = visitor
  BY <1>2, <1>9, <1>7
<1>12. user \in [Ids -> UserRows]
  <2>1. \A i \in Ids : user[i] \in UserRows BY <1>3, <1>10, <1>11
  <2>2. user = [i \in Ids |-> user[i]] BY <1>7
  <2>3. QED BY <2>1, <2>2
<1>13. ContactsTypeOK
  <2>1. session \in [Ids -> Sessions]
    <3>1. NoSession \in Sessions BY DEF NoSession, Sessions, IdsOrNone, Exts
    <3>2. \A i \in Ids : [user |-> i, version |-> 1, ext |-> user[i].ext] \in Sessions
      BY <1>12 DEF Sessions, IdsOrNone, UserRows
    <3>3. QED BY <1>7, <3>1, <3>2
  <2>2. conv \in [Ids -> IdsOrNone] /\ msg \in [Ids -> MsgRows] BY <1>7 DEF IdsOrNone, MsgRows, NoMsg
  <2>3. reverse \in [Ids -> IdsOrNone] BY <1>7 DEF IdsOrNone
  <2>4. NoJob \in Jobs BY DEF NoJob, Jobs, IdsOrNone, Exts, Mails
  <2>5. at \in [Requests -> Places] /\ job \in [Requests -> Jobs] BY <1>8, <2>4 DEF Places
  <2>6. pending \subseteq Addresses BY <1>1, <1>8 DEF ContactsAssumption
  <2>7. QED BY <1>7, <1>8, <1>9, <1>12, <2>1, <2>2, <2>5, <2>3, <2>6 DEF ContactsTypeOK
<1>14. RowsOK
  <2>1. \A i \in Ids : i \in writers => user[i].kind # "none" BY <1>3, <1>11
  <2>2. FreshOK
    <3>1. SUFFICES ASSUME NEW r \in Requests
                   PROVE  /\ user[r].kind = "none" /\ \A q \in Requests : ~Refers(q, r)
                          /\ \A i \in Ids : conv[i] # r /\ session[i].user # r
      BY DEF FreshOK
    <3>2. r \in Ids /\ r \notin writers /\ r # NoOne BY <1>9 DEF Ids
    <3>3. user[r].kind = "none" BY <1>10, <1>11, <3>2
    <3>4. \A q \in Requests : ~Refers(q, r) BY <1>8, <3>2 DEF Refers, NoJob
    <3>5. \A i \in Ids : conv[i] # r BY <1>7, <3>2
    <3>6. \A i \in Ids : session[i].user # r BY <1>7, <1>6, <3>2 DEF NoSession
    <3>7. QED BY <3>3, <3>4, <3>5, <3>6
  <2>3. UserOK BY <1>3, <1>10, <1>11 DEF UserOK
  <2>4. ConvOK BY <1>7, <1>9, <2>1 DEF ConvOK, Exists, Stored
  <2>5. MsgOK
    <3>1. SUFFICES ASSUME NEW m \in Ids, msg[m] # NoMsg
                   PROVE  /\ Said(m) /\ msg[m].conv \in Ids /\ conv[msg[m].conv] # NoOne /\ Exists(msg[m].sender)
                          /\ conv[msg[m].conv] = msg[m].sender \/ Stranger(m)
      BY DEF MsgOK
    <3>2. m \in writers /\ msg[m].conv = m /\ msg[m].sender = m BY <1>7, <3>1
    <3>3. m \notin Requests /\ conv[m] = m /\ m # NoOne /\ Exists(m) BY <1>7, <1>9, <2>1, <3>2 DEF Exists
    <3>4. QED BY <3>2, <3>3 DEF Said
  <2>6. SessionOK
    <3>1. SUFFICES ASSUME NEW t \in Ids, session[t].ext # NoExt PROVE Person(session[t].user, session[t].ext)
      BY DEF SessionOK
    <3>2. t \in writers /\ session[t].user = t /\ session[t].ext = user[t].ext BY <1>7, <1>6, <3>1 DEF NoSession
    <3>3. t = Contact BY <1>3, <1>11, <3>1, <3>2
    <3>4. user[t].kind = "contact" BY <1>3, <1>11, <3>2, <3>3
    <3>5. QED BY <3>2, <3>4 DEF Person
  <2>7. QED BY <2>2, <2>3, <2>4, <2>5, <2>6 DEF RowsOK
<1>15. LockOK BY <1>8 DEF LockOK, Merging
<1>16. ASSUME NEW r \in Requests PROVE JobOK(r)
  <2>1. at[r] = "idle" /\ job[r].kind = "none" /\ job[r].ext = NoExt /\ job[r].out = {} BY <1>8 DEF NoJob
  <2>2. QED BY <2>1 DEF JobOK, AskedOK, ChatOK, WidgetOK, MailOK
<1>17. QED BY <1>13, <1>14, <1>15, <1>16 DEF ContactsIInv

LEMMA ContactsStutter == ContactsIInv /\ UNCHANGED contactsVars => ContactsIInv'
<1>1. SUFFICES ASSUME ContactsIInv, UNCHANGED contactsVars PROVE ContactsIInv' OBVIOUS
<1>2. UNCHANGED <<user, pending, session, reverse, conv, msg, at, job, wronged, troubles>>
  BY <1>1 DEF contactsVars, people, redis, chat
<1>3. ContactsTypeOK' BY <1>1, <1>2 DEF ContactsIInv, ContactsTypeOK
<1>4. RowsOK'
  BY <1>1, <1>2 DEF ContactsIInv, RowsOK, FreshOK, Refers, UserOK, ConvOK, Exists, Stored, MsgOK, Said, Stranger,
     SessionOK, Person
<1>5. LockOK' BY <1>1, <1>2 DEF ContactsIInv, LockOK, Merging, Both, Stored, Said
<1>6. ASSUME NEW r \in Requests PROVE JobOK(r)'
  <2>1. AskedOK(r) /\ ChatOK(r) /\ WidgetOK(r) /\ MailOK(r) BY <1>1 DEF ContactsIInv, JobOK
  <2>2. AskedOK(r)' BY <1>2, <2>1 DEF AskedOK, Settled
  <2>3. ChatOK(r)' BY <1>2, <2>1 DEF ChatOK, Welcome, Stored, Exists, Stranger
  <2>4. WidgetOK(r)' BY <1>2, <2>1 DEF WidgetOK, Welcome, Person
  <2>5. MailOK(r)' BY <1>2, <2>1 DEF MailOK, Welcome, NoMails, Spelled
  <2>6. QED BY <2>2, <2>3, <2>4, <2>5 DEF JobOK
<1>7. QED BY <1>3, <1>4, <1>5, <1>6 DEF ContactsIInv

LEMMA StepsAreKept ==
  ASSUME ContactsAssumption, ContactsIInv, NEW r \in Requests, Step(r)
  PROVE  Kept(r)
BY BeginKeeps, AuthKeeps, AuthVisitorKeeps, MergeLockKeeps, MergeMoveKeeps, MergeCommitKeeps, RevokeKeeps,
   ReadFailsKeeps, AllowKeeps, CreateKeeps, FindKeeps, MessageKeeps, CleanUpKeeps, CreateVisitorKeeps, SignKeeps,
   NoteKeeps, ResolveKeeps, SyncKeeps, EnrichKeeps, SetExternalUserIDKeeps, UpsertKeeps, GetKeeps, ReuseKeeps,
   IsEmailBlockedKeeps, KnownKeeps, InsertContactKeeps, AnswerKeeps, UpgradeKeeps, OverrideKeeps,
   RegisteredKeeps, RegisterKeeps, VerifyKeeps, ActivateKeeps, LogoutKeeps, ToggleKeeps, EditKeeps DEF Step

(* The inductive invariant of visitors and contacts holds in every         *)
(* behaviour: what each request has read is still good where it relies on  *)
(* it, and the rows refer to rows that are there.                          *)
THEOREM ContactsInvariance == ContactsSpec => []ContactsIInv
<1>1. ContactsAssumption BY ContactsAssumption
<1>2. ContactsInit => ContactsIInv BY <1>1, ContactsStart
<1>3. ContactsIInv /\ [ContactsNext]_contactsVars => ContactsIInv'
  BY <1>1, StepsAreKept, ContactsStutter DEF ContactsNext, Kept
<1>4. QED BY <1>2, <1>3, PTL DEF ContactsSpec

(* The rows, the sessions and what the requests have read have their types. *)
THEOREM ContactsTypeCorrect == ContactsSpec => []ContactsTypeOK
<1>1. ContactsIInv => ContactsTypeOK BY DEF ContactsIInv
<1>2. QED BY <1>1, ContactsInvariance, PTL

(* Every message of a customer lies in a conversation of its sender, who   *)
(* exists, but for a stranger's mail that was threaded into another's      *)
(* conversation (Find, Create, Override and the merge's moves under its    *)
(* locks, whatever addresses are edited or verified meanwhile).            *)
THEOREM MessagesOfTheirSender == ContactsSpec => []SenderOwns
<1>1. ContactsIInv => SenderOwns BY DEF ContactsIInv, RowsOK, MsgOK, Exists, SenderOwns
<1>2. QED BY <1>1, ContactsInvariance, PTL

(* A session signed for a person acts for that person's contact            *)
(* (resolveUserFromClaims, SetExternalUserID).                             *)
THEOREM SessionsOfTheirPerson == ContactsSpec => []PersonsApart
<1>1. ContactsIInv => PersonsApart BY DEF ContactsIInv, RowsOK, SessionOK, Person, PersonsApart
<1>2. QED BY <1>1, ContactsInvariance, PTL

(* No step loses what somebody has written, whatever is written while a    *)
(* merge moves it: a conversation goes only when its own request takes it  *)
(* back (DeleteConversation), a message only with such a conversation.     *)
THEOREM MergesLoseNothing == ContactsSpec => NothingVanishes
<1> DEFINE Lost == /\ \A c \in Ids : (conv[c] # NoOne /\ conv'[c] = NoOne) => TakesBack(c)
                   /\ \A m \in Ids : (msg[m] # NoMsg /\ msg'[m] = NoMsg) => TakesBack(msg[m].conv)
<1>1. ContactsAssumption BY ContactsAssumption
<1>2. ASSUME ContactsIInv, NEW r \in Requests, Step(r) PROVE Lost
  <2>1. ChatStep(r) BY <1>1, <1>2, StepsAreKept DEF Kept, ContactsStep
  <2>2. LockOK /\ ChatOK(r) BY <1>2 DEF ContactsIInv, JobOK
  <2>3. at[r] = "create" => job[r].who # NoOne BY <1>1, <2>2 DEF ChatOK, Welcome, ContactsAssumption
  <2>4. at[r] = "message" => job[r].who # NoOne BY <1>1, <2>2 DEF ChatOK, Welcome, ContactsAssumption
  <2>5. at[r] = "commit" => job[r].who # NoOne BY <1>1, <2>2 DEF LockOK, Merging, ContactsAssumption
  <2>6. \A c \in Ids : (conv[c] # NoOne /\ conv'[c] = NoOne) => TakesBack(c)
    BY <2>1, <2>3, <2>5 DEF ChatStep, TakesBack
  <2>7. ASSUME NEW m \in Ids, msg[m] # NoMsg, msg'[m] = NoMsg PROVE at[r] = "clean up" /\ msg[m].conv = r
    <3>1. msg'[m].sender = NoOne /\ [conv |-> job[r].conv, sender |-> job[r].who].sender = job[r].who BY <2>7 DEF NoMsg
    <3>2. QED BY <2>1, <2>4, <2>5, <2>7, <3>1 DEF ChatStep
  <2>8. QED BY <2>6, <2>7 DEF TakesBack
<1>3. ContactsIInv /\ [ContactsNext]_contactsVars => [Lost]_contactsVars BY <1>2 DEF ContactsNext
<1>4. QED BY <1>3, ContactsInvariance, PTL DEF ContactsSpec, NothingVanishes

(* Who was blocked when a request began, and still is, gets nothing stored *)
(* by it; by a mail only if the address is stored as it is compared, in    *)
(* lower case, and as long as nobody writes that address meanwhile         *)
(* (widgetAuth, IsEmailBlocked).                                           *)
THEOREM BlockedStoreNothing == ContactsSpec => BlockedIsSilent
<1> DEFINE Silent == \A r \in Requests : (msg[r] = NoMsg /\ msg'[r] # NoMsg) => msg'[r].sender \notin job[r].out
<1>1. ContactsAssumption BY ContactsAssumption
<1>2. ASSUME ContactsIInv, NEW r \in Requests, Step(r) PROVE Silent
  <2>1. ChatStep(r) BY <1>1, <1>2, StepsAreKept DEF Kept, ContactsStep
  <2>2. SUFFICES ASSUME NEW m \in Requests, msg[m] = NoMsg, msg'[m] # NoMsg PROVE msg'[m].sender \notin job[m].out
    OBVIOUS
  <2>3. at[r] = "commit" => job[r].visitor # NoOne BY <1>1, <1>2 DEF ContactsIInv, LockOK, Merging, ContactsAssumption
  <2>4. msg[m].sender = NoOne /\ m \in Ids BY <2>2 DEF NoMsg, Ids
  <2>5. m = r /\ at[r] = "message" /\ msg'[m] = [conv |-> job[r].conv, sender |-> job[r].who]
    BY <2>1, <2>2, <2>3, <2>4 DEF ChatStep
  <2>6. job[r].who \notin job[r].out BY <1>2, <2>5 DEF ContactsIInv, JobOK, ChatOK, Welcome
  <2>7. QED BY <2>5, <2>6
<1>3. ContactsIInv /\ [ContactsNext]_contactsVars => [Silent]_contactsVars
  <2>1. UNCHANGED contactsVars => UNCHANGED msg BY DEF contactsVars, chat
  <2>2. QED BY <1>2, <2>1 DEF ContactsNext
<1>4. QED BY <1>3, ContactsInvariance, PTL DEF ContactsSpec, BlockedIsSilent

-----------------------------------------------------------------------------
(* Conversation *)

(* The answer of an event is not in the future. *)
MetInPast == \A i \in DOMAIN events : events[i].met <= now

(* What the evaluator read about an event still decides its verdict: an    *)
(* answer stays as it is, and one that was missing after the deadline      *)
(* comes too late.                                                         *)
BatchOK ==
  \A b \in batch :
    /\ b.met = 0 => /\ now > events[b.id].deadline
                    /\ events[b.id].met = 0 \/ events[b.id].met > events[b.id].deadline
    /\ b.met # 0 => events[b.id].met = b.met

IInv == TypeOK /\ MetInPast /\ BatchOK /\ VerdictsAreDue /\ SurveyOnce /\ UnmetBounded

USE DEF row, surveyVars, slaVars, recVars, repVars, rest, Goto, Finish, Place

-----------------------------------------------------------------------------
(* Finite sets *)

LEMMA UnmetFinite ==
  ASSUME TypeOK
  PROVE  IsFiniteSet(Unmet) /\ Cardinality(Unmet) \in Nat
<1>1. Len(events) \in Nat /\ DOMAIN events = 1..Len(events)
  BY DEF TypeOK
<1>2. IsFiniteSet(1..Len(events))
  BY <1>1, FS_Interval
<1> QED
  BY <1>1, <1>2, FS_Subset, FS_CardinalityType DEF Unmet

LEMMA InsertingFinite ==
  /\ IsFiniteSet(Inserting) /\ Cardinality(Inserting) \in Nat
  /\ Cardinality(Inserting) <= Cardinality(Receivers) /\ Cardinality(Receivers) \in Nat
BY RequestsAssumption, FS_Subset, FS_CardinalityType DEF Inserting

LEMMA SurveyingFinite == IsFiniteSet(Surveying) /\ Cardinality(Surveying) \in Nat
BY RequestsAssumption, FS_Subset, FS_CardinalityType DEF Surveying

-----------------------------------------------------------------------------
(* Types of what the variables hold *)

ActorState == [at : {"idle", "read", "update", "record", "create", "mail"},
               by : {"agent", "rule"}, want : Statuses, until : 0..MaxTime]

LEMMA Bounds == MaxTime \in Nat /\ MaxWork \in Nat /\ MaxFaults \in Nat /\ ResponseTime \in Nat
BY TimesAssumption, BoundsAssumption

LEMMA IdleType == Idle \in ActorState
BY Bounds DEF Idle, ActorState, Statuses

LEMMA EventTypes ==
  ASSUME TypeOK, NEW i \in DOMAIN events
  PROVE  /\ events[i] \in Event /\ events[i].met \in Nat /\ events[i].deadline \in Nat
         /\ events[i].verdict \in {"pending", "met", "breached"}
<1>1. events[i] \in Event
  BY DEF TypeOK
<1> QED
  BY <1>1 DEF Event

LEMMA ActorMoves ==
  ASSUME TypeOK, NEW a \in Actors
  PROVE  /\ actor \in [Actors -> ActorState]
         /\ Finish(a) => actor' \in [Actors -> ActorState]
         /\ Goto(a, "update") \/ Goto(a, "record") \/ Goto(a, "create") \/ Goto(a, "mail")
              => actor' \in [Actors -> ActorState]
<1>1. actor \in [Actors -> ActorState]
  BY DEF TypeOK, ActorState
<1>2. ASSUME NEW p \in {"update", "record", "create", "mail"}, Goto(a, p)
      PROVE  actor' \in [Actors -> ActorState]
  <2>1. [actor[a] EXCEPT !.at = p] \in ActorState
    BY <1>1 DEF ActorState
  <2>2. actor' = [actor EXCEPT ![a] = [actor[a] EXCEPT !.at = p]]
    BY <1>1, <1>2
  <2> QED
    BY <1>1, <2>1, <2>2
<1> QED
  BY <1>1, <1>2, IdleType

(* A step that leaves the events, receivers and sender alone. *)
LEMMA ActorTypeOK ==
  ASSUME TypeOK, actor' \in [Actors -> ActorState],
         UNCHANGED <<now, events, batch, receiver, due, sent>>,
         status' \in Statuses, snoozedUntil' \in 0..MaxTime,
         survey' \in {"none", "open", "answered"}, mails' \in Nat, replies' \in Nat,
         work' \in 0..MaxWork, faults' \in 0..MaxFaults
  PROVE  TypeOK'
BY DEF TypeOK, ActorState

-----------------------------------------------------------------------------
(* Each part of the invariant, under steps that leave its variables alone  *)
(* or let them shrink.                                                     *)

LEMMA EventsKept ==
  ASSUME IInv, UNCHANGED events, batch' \subseteq batch, now' \in Nat, now' >= now
  PROVE  MetInPast' /\ BatchOK' /\ VerdictsAreDue'
<1>1. /\ events \in Seq(Event) /\ now \in Nat
      /\ \A i \in DOMAIN events : events[i].met \in Nat /\ events[i].deadline \in Nat
      /\ \A b \in batch : b.id \in DOMAIN events /\ b.met \in Nat
  BY EventTypes DEF IInv, TypeOK
<1>2. MetInPast'
  BY <1>1 DEF IInv, MetInPast
<1>3. BatchOK'
  BY <1>1 DEF IInv, BatchOK
<1>4. VerdictsAreDue'
  BY <1>1 DEF IInv, VerdictsAreDue
<1> QED
  BY <1>2, <1>3, <1>4

LEMMA UnmetKept ==
  ASSUME IInv, UNCHANGED events, Inserting' \subseteq Inserting
  PROVE  UnmetBounded'
<1>1. Unmet' = Unmet
  BY DEF Unmet
<1>2. Cardinality(Inserting') <= Cardinality(Inserting) /\ Cardinality(Inserting') \in Nat
  BY InsertingFinite, FS_Subset, FS_CardinalityType
<1> QED
  BY <1>1, <1>2, UnmetFinite, InsertingFinite DEF IInv, UnmetBounded

LEMMA SurveyKept ==
  ASSUME IInv, UNCHANGED mails, survey # "none" => survey' # "none", Surveying' \subseteq Surveying
  PROVE  SurveyOnce'
<1>1. Cardinality(Surveying') <= Cardinality(Surveying) /\ Cardinality(Surveying') \in Nat
  BY SurveyingFinite, FS_Subset, FS_CardinalityType
<1> QED
  BY <1>1, SurveyingFinite DEF IInv, TypeOK, SurveyOnce

LEMMA InitIInv == Init => IInv
<1> SUFFICES ASSUME Init PROVE IInv
  OBVIOUS
<1>1. TypeOK
  <2>1. actor \in [Actors -> ActorState]
    BY IdleType DEF Init
  <2>2. events \in Seq(Event) /\ batch \subseteq [id : DOMAIN events, met : Nat]
    BY DEF Init
  <2>3. /\ now \in 1..MaxTime /\ snoozedUntil \in 0..MaxTime
        /\ work \in 0..MaxWork /\ faults \in 0..MaxFaults
    BY Bounds, TimesAssumption DEF Init
  <2>4. /\ receiver \in [Receivers -> {"idle", "reopen", "look", "insert"}]
        /\ due \in [Receivers -> Nat]
    BY DEF Init
  <2> QED
    BY <2>1, <2>2, <2>3, <2>4 DEF Init, TypeOK, ActorState, Statuses
<1>2. Surveying = {} /\ Inserting = {} /\ Unmet = {}
  BY DEF Init, Surveying, Inserting, Unmet, Idle
<1>3. Cardinality(Surveying) = 0 /\ Cardinality(Inserting) = 0 /\ Cardinality(Unmet) = 0
  BY <1>2, FS_EmptySet
<1> QED
  BY <1>1, <1>3, InsertingFinite
  DEF Init, IInv, MetInPast, BatchOK, VerdictsAreDue, SurveyOnce, UnmetBounded

-----------------------------------------------------------------------------
(* The actors *)

LEMMA ActIInv == ASSUME IInv, NEW a \in Actors, Act(a) PROVE IInv'
<1>1. UNCHANGED <<events, batch, receiver, now>>
  BY DEF Act, Ask, SendSurvey, ReadStatus, Afterwards, UpdateStatus, RecordChange, CreateSurvey,
         QueueSurvey, ActorFails
<1>2. MetInPast' /\ BatchOK' /\ VerdictsAreDue'
  BY <1>1, EventsKept DEF IInv, TypeOK
<1>3. UnmetBounded'
  BY <1>1, UnmetKept DEF Inserting
<1>4. TypeOK'
  <2>1. /\ status \in Statuses /\ snoozedUntil \in 0..MaxTime /\ mails \in Nat /\ replies \in Nat
        /\ survey \in {"none", "open", "answered"}
        /\ work \in 0..MaxWork /\ faults \in 0..MaxFaults /\ now \in 1..MaxTime
        /\ actor[a] \in ActorState
    BY ActorMoves DEF IInv, TypeOK
  <2>2. CASE Ask(a)
    <3>1. PICK by \in {"agent", "rule"}, want \in Choices, d \in Snoozes :
            /\ want = "Snoozed" => now + d <= MaxTime
            /\ actor' = [actor EXCEPT ![a] = [at |-> "read", by |-> by, want |-> want,
                                             until |-> IF want = "Snoozed" THEN now + d ELSE 0]]
      BY <2>2 DEF Ask
    <3>2. (IF want = "Snoozed" THEN now + d ELSE 0) \in 0..MaxTime
      BY <2>1, <3>1, TimesAssumption, Bounds
    <3>3. actor' \in [Actors -> ActorState]
      BY <3>1, <3>2, ActorMoves, BoundsAssumption DEF IInv, ActorState
    <3> QED
      BY <2>1, <2>2, <3>3, ActorTypeOK, Bounds DEF Ask, IInv, TypeOK
  <2>3. CASE SendSurvey(a)
    <3>1. [Idle EXCEPT !.at = "create", !.by = "rule"] \in ActorState
      BY IdleType DEF ActorState
    <3>2. actor' \in [Actors -> ActorState]
      BY <2>3, <3>1, ActorMoves DEF SendSurvey, IInv
    <3> QED
      BY <2>1, <2>3, <3>2, ActorTypeOK, Bounds DEF SendSurvey, IInv
  <2>4. CASE ReadStatus(a) \/ RecordChange(a)
    BY <2>1, <2>4, ActorMoves, ActorTypeOK DEF ReadStatus, RecordChange, Afterwards, IInv
  <2>5. CASE UpdateStatus(a)
    <3>1. actor[a].want \in Statuses /\ actor[a].until \in 0..MaxTime
      BY <2>1 DEF ActorState
    <3> QED
      BY <2>1, <2>5, <3>1, ActorMoves, ActorTypeOK DEF UpdateStatus, IInv
  <2>6. CASE CreateSurvey(a)
    BY <2>1, <2>6, ActorMoves, ActorTypeOK DEF CreateSurvey, IInv
  <2>7. CASE QueueSurvey(a)
    <3>1. actor' \in [Actors -> ActorState]
      BY <2>7, ActorMoves DEF QueueSurvey, IInv
    <3>2. mails' \in Nat /\ replies' \in Nat
      BY <2>1, <2>7 DEF QueueSurvey
    <3> QED
      BY <2>1, <2>7, <3>1, <3>2, ActorTypeOK DEF QueueSurvey, IInv
  <2>8. CASE ActorFails(a)
    <3>1. actor' \in [Actors -> ActorState]
      BY <2>8, ActorMoves DEF ActorFails, IInv
    <3>2. faults' \in 0..MaxFaults
      BY <2>1, <2>8, Bounds DEF ActorFails
    <3> QED
      BY <2>1, <2>8, <3>1, <3>2, ActorTypeOK DEF ActorFails, IInv
  <2> QED
    BY <2>2, <2>3, <2>4, <2>5, <2>6, <2>7, <2>8 DEF Act
<1>5. SurveyOnce'
  <2>1. CASE ~(CreateSurvey(a) /\ survey = "none") /\ ~QueueSurvey(a)
    <3>1. UNCHANGED <<mails>> /\ (survey # "none" => survey' # "none")
      BY <2>1 DEF Act, Ask, SendSurvey, ReadStatus, Afterwards, UpdateStatus, RecordChange,
                  CreateSurvey, ActorFails
    <3>2. \A b \in Actors : actor'[b].at = "mail" => actor[b].at = "mail"
      <4>1. actor \in [Actors -> ActorState]
        BY ActorMoves DEF IInv
      <4>2. actor'[a].at # "mail" /\ \A b \in Actors : b # a => actor'[b] = actor[b]
        <5>1. CASE Ask(a) \/ SendSurvey(a)
          <6>1. PICK x : actor' = [actor EXCEPT ![a] = x] /\ x.at # "mail"
            <7>1. CASE Ask(a)
              BY <7>1 DEF Ask
            <7>2. CASE SendSurvey(a)
              <8>1. [Idle EXCEPT !.at = "create", !.by = "rule"].at # "mail"
                BY DEF Idle
              <8> QED
                BY <7>2, <8>1 DEF SendSurvey
            <7> QED
              BY <5>1, <7>1, <7>2
          <6> QED
            BY <4>1, <6>1
        <5>2. CASE ReadStatus(a) \/ UpdateStatus(a) \/ RecordChange(a)
          <6>1. Finish(a) \/ Goto(a, "create") \/ Goto(a, "update") \/ Goto(a, "record")
            BY <5>2 DEF ReadStatus, UpdateStatus, RecordChange, Afterwards
          <6>2. ASSUME NEW p \in {"create", "update", "record"}, Goto(a, p)
                PROVE  /\ actor'[a].at # "mail"
                       /\ \A b \in Actors : b # a => actor'[b] = actor[b]
            <7>1. actor[a] \in ActorState
              BY <4>1
            <7>2. actor'[a] = [actor[a] EXCEPT !.at = p]
              BY <4>1, <6>2
            <7> QED
              BY <4>1, <6>2, <7>1, <7>2 DEF ActorState
          <6> QED
            BY <4>1, <6>1, <6>2 DEF Idle
        <5>3. CASE CreateSurvey(a) \/ ActorFails(a)
          BY <2>1, <4>1, <5>3 DEF CreateSurvey, ActorFails, Idle
        <5> QED
          BY <2>1, <5>1, <5>2, <5>3 DEF Act
      <4> QED
        BY <4>2
    <3> QED
      BY <3>1, <3>2, SurveyKept DEF Surveying
  <2>2. CASE CreateSurvey(a) /\ survey = "none"
    <3>1. Cardinality(Surveying) = 0 /\ mails = 0
      BY <2>2, SurveyingFinite DEF IInv, TypeOK, SurveyOnce
    <3>2. Surveying = {}
      BY <3>1, SurveyingFinite, FS_EmptySet
    <3>3. Surveying' = {a}
      BY <2>2, <3>2 DEF CreateSurvey, Surveying, IInv, TypeOK
    <3>4. Cardinality(Surveying') = 1
      BY <3>3, FS_Singleton
    <3> QED
      BY <2>2, <3>1, <3>4 DEF CreateSurvey, SurveyOnce
  <2>3. CASE QueueSurvey(a)
    <3>1. Surveying' = Surveying \ {a} /\ a \in Surveying
      BY <2>3 DEF QueueSurvey, Surveying, IInv, TypeOK, Idle
    <3>2. Cardinality(Surveying') = Cardinality(Surveying) - 1
      BY <3>1, SurveyingFinite, FS_RemoveElement
    <3> QED
      BY <2>3, <3>2, SurveyingFinite DEF QueueSurvey, IInv, TypeOK, SurveyOnce
  <2> QED
    BY <2>1, <2>2, <2>3
<1> QED
  BY <1>2, <1>3, <1>4, <1>5 DEF IInv

-----------------------------------------------------------------------------
(* The receivers *)

LEMMA ReceiveIInv == ASSUME IInv, NEW r \in Receivers, Receive(r) PROVE IInv'
<1>1. UNCHANGED <<actor, mails, survey, now, batch>>
  BY DEF Receive, Arrive, Reopen, ReopenFails, Look, InsertEvent, ReceiverFails
<1>2. SurveyOnce'
  BY <1>1, SurveyKept DEF Surveying
<1>3. CASE ~Look(r) /\ ~InsertEvent(r)
  <2>1. UNCHANGED events
    BY <1>3 DEF Receive, Arrive, Reopen, ReopenFails, ReceiverFails
  <2>2. TypeOK'
    <3>1. /\ receiver' \in [Receivers -> {"idle", "reopen", "look", "insert"}]
          /\ due' \in [Receivers -> Nat] /\ UNCHANGED <<replies, sent>>
          /\ status' \in Statuses /\ snoozedUntil' \in 0..MaxTime
          /\ work' \in 0..MaxWork /\ faults' \in 0..MaxFaults
      <4>1. /\ receiver \in [Receivers -> {"idle", "reopen", "look", "insert"}]
            /\ due \in [Receivers -> Nat]
            /\ status \in Statuses /\ snoozedUntil \in 0..MaxTime
            /\ work \in 0..MaxWork /\ faults \in 0..MaxFaults
        BY DEF IInv, TypeOK
      <4>2. CASE Arrive(r)
        BY <4>1, <4>2, Bounds DEF Arrive
      <4>3. CASE Reopen(r)
        BY <4>1, <4>3, Bounds DEF Reopen, Statuses
      <4>4. CASE ReopenFails(r) \/ ReceiverFails(r)
        BY <4>1, <4>4, Bounds DEF ReopenFails, ReceiverFails
      <4> QED
        BY <1>3, <4>2, <4>3, <4>4 DEF Receive
    <3> QED
      BY <1>1, <2>1, <3>1 DEF IInv, TypeOK
  <2>3. Inserting' \subseteq Inserting
    BY <1>3 DEF Receive, Arrive, Reopen, ReopenFails, ReceiverFails, IInv, TypeOK, Inserting
  <2> QED
    <3>1. now' \in Nat /\ now' >= now /\ batch' \subseteq batch
      BY <1>1 DEF IInv, TypeOK
    <3> QED
      BY <1>2, <2>1, <2>2, <2>3, <3>1, EventsKept, UnmetKept DEF IInv
<1>4. CASE Look(r)
  <2>1. TypeOK'
    <3>1. now + ResponseTime \in Nat
      BY Bounds DEF IInv, TypeOK
    <3>2. /\ receiver' \in [Receivers -> {"idle", "reopen", "look", "insert"}]
          /\ due' \in [Receivers -> Nat]
      BY <1>4, <3>1 DEF Look, IInv, TypeOK
    <3> QED
      BY <1>1, <1>4, <3>2 DEF Look, IInv, TypeOK
  <2>2. UnmetBounded'
    <3>1. CASE Unmet # {}
      BY <1>4, <3>1, UnmetKept DEF Look, Inserting, IInv, TypeOK
    <3>2. CASE Unmet = {}
      <4>1. Unmet' = {}
        BY <1>4, <3>2 DEF Look, Unmet
      <4>2. Inserting' \subseteq Receivers
        BY DEF Inserting
      <4>3. Cardinality(Inserting') <= Cardinality(Receivers) /\ Cardinality(Inserting') \in Nat
        BY <4>2, RequestsAssumption, FS_Subset, FS_CardinalityType
      <4> QED
        BY <4>1, <4>3, FS_EmptySet, InsertingFinite DEF UnmetBounded
    <3> QED
      BY <3>1, <3>2
  <2>3. MetInPast' /\ BatchOK' /\ VerdictsAreDue'
    BY <1>4, EventsKept DEF Look, IInv, TypeOK
  <2> QED
    BY <1>2, <2>1, <2>2, <2>3 DEF IInv
<1>5. CASE InsertEvent(r)
  <2> DEFINE new == [deadline |-> due[r], met |-> 0, verdict |-> "pending"]
  <2>1. /\ events \in Seq(Event) /\ new \in Event /\ events' = Append(events, new)
        /\ new.met = 0 /\ new.verdict = "pending"
    BY <1>5 DEF InsertEvent, IInv, TypeOK, Event
  <2>2. /\ DOMAIN events' = DOMAIN events \cup {Len(events) + 1}
        /\ Len(events) + 1 \notin DOMAIN events
        /\ \A i \in DOMAIN events : events'[i] = events[i]
        /\ events'[Len(events) + 1] = new
    BY <2>1
  <2> HIDE DEF new
  <2>3. TypeOK'
    BY <1>5, <2>1, <2>2 DEF InsertEvent, IInv, TypeOK
  <2>4. MetInPast' /\ VerdictsAreDue'
    BY <1>1, <2>1, <2>2 DEF IInv, TypeOK, MetInPast, VerdictsAreDue
  <2>5. BatchOK'
    BY <1>1, <2>2 DEF IInv, TypeOK, BatchOK
  <2>6. UnmetBounded'
    <3>1. Unmet' = Unmet \cup {Len(events) + 1} /\ Len(events) + 1 \notin Unmet
      BY <2>1, <2>2 DEF Unmet
    <3>2. Cardinality(Unmet') = Cardinality(Unmet) + 1
      BY <3>1, UnmetFinite, FS_AddElement DEF IInv
    <3>3. Inserting' = Inserting \ {r} /\ r \in Inserting
      BY <1>5 DEF InsertEvent, Inserting, IInv, TypeOK
    <3>4. Cardinality(Inserting') = Cardinality(Inserting) - 1
      BY <3>3, InsertingFinite, FS_RemoveElement
    <3> QED
      BY <3>2, <3>4, UnmetFinite, InsertingFinite DEF IInv, UnmetBounded
  <2> QED
    BY <1>2, <2>3, <2>4, <2>5, <2>6 DEF IInv
<1> QED
  BY <1>3, <1>4, <1>5

-----------------------------------------------------------------------------
(* Senders, evaluator, clock *)

LEMMA MeetIInv == ASSUME IInv, Meet PROVE IInv'
<1>1. UNCHANGED <<actor, mails, survey, now, batch, receiver>>
  BY DEF Meet
<1>2. SurveyOnce'
  BY <1>1, SurveyKept DEF Surveying
<1>3. CASE UNCHANGED events
  <2>1. TypeOK'
    BY <1>1, <1>3 DEF Meet, IInv, TypeOK
  <2>2. UnmetBounded'
    BY <1>1, <1>3, UnmetKept DEF Inserting
  <2> QED
    BY <1>1, <1>2, <1>3, <2>1, <2>2, EventsKept DEF IInv, TypeOK
<1>4. ASSUME NEW i \in Unmet, events' = [events EXCEPT ![i].met = now]
      PROVE  IInv'
  <2>1. /\ events \in Seq(Event) /\ i \in DOMAIN events /\ events[i].met = 0
        /\ now \in Nat /\ now # 0
    BY DEF IInv, TypeOK, Unmet
  <2>2. /\ events[i] \in Event /\ events'[i] = [events[i] EXCEPT !.met = now]
        /\ DOMAIN events' = DOMAIN events
        /\ \A j \in DOMAIN events : j # i => events'[j] = events[j]
    BY <1>4, <2>1
  <2>3. /\ events'[i] \in Event /\ events'[i].met = now
        /\ events'[i].deadline = events[i].deadline /\ events'[i].verdict = events[i].verdict
    BY <2>1, <2>2 DEF Event
  <2>4. events' \in Seq(Event)
    BY <2>1, <2>3, <1>4
  <2>5. TypeOK'
    BY <1>1, <2>2, <2>4, Meet DEF Meet, IInv, TypeOK
  <2>6. MetInPast' /\ VerdictsAreDue'
    <3>1. events[i].deadline \in Nat
      BY <2>1, EventTypes DEF IInv
    <3>2. events[i].verdict # "met"
      BY <2>1 DEF IInv, VerdictsAreDue
    <3>3. events[i].verdict = "breached" => now > events[i].deadline
      BY <2>1 DEF IInv, VerdictsAreDue
    <3>4. MetInPast'
      <4>1. \A j \in DOMAIN events : events[j].met <= now
        BY DEF IInv, MetInPast
      <4>2. \A j \in DOMAIN events : events'[j].met <= now
        <5>1. \A j \in DOMAIN events : j # i => events'[j].met <= now
          BY <2>2, <4>1
        <5>2. now <= now
          BY <2>1
        <5> QED
          BY <2>3, <5>1, <5>2
      <4>3. now' = now
        BY <1>1
      <4> QED
        BY <2>2, <4>2, <4>3 DEF MetInPast
    <3>5. VerdictsAreDue'
      <4>1. \A j \in DOMAIN events : j # i =>
              /\ events'[j].verdict = "met" => events'[j].met \in 1..events'[j].deadline
              /\ events'[j].verdict = "breached" => /\ now > events'[j].deadline
                                                   /\ events'[j].met \notin 1..events'[j].deadline
        BY <2>2 DEF IInv, VerdictsAreDue
      <4>2. /\ events'[i].verdict # "met"
            /\ events'[i].verdict = "breached" => /\ now > events'[i].deadline
                                                 /\ events'[i].met \notin 1..events'[i].deadline
        BY <2>1, <2>3, <3>1, <3>2, <3>3
      <4> QED
        BY <1>1, <2>2, <4>1, <4>2 DEF VerdictsAreDue
    <3> QED
      BY <3>4, <3>5
  <2>7. BatchOK'
    <3> SUFFICES ASSUME NEW b \in batch
                 PROVE  /\ b.met = 0 => /\ now > events'[b.id].deadline
                                        /\ \/ events'[b.id].met = 0
                                           \/ events'[b.id].met > events'[b.id].deadline
                        /\ b.met # 0 => events'[b.id].met = b.met
      BY <1>1 DEF BatchOK
    <3>1. b.id \in DOMAIN events
      BY DEF IInv, TypeOK
    <3>2. /\ b.met = 0 => /\ now > events[b.id].deadline
                          /\ events[b.id].met = 0 \/ events[b.id].met > events[b.id].deadline
          /\ b.met # 0 => events[b.id].met = b.met
      BY DEF IInv, BatchOK
    <3> QED
      BY <2>1, <2>2, <2>3, <3>1, <3>2
  <2>8. UnmetBounded'
    <3>1. Unmet' = Unmet \ {i}
      BY <2>1, <2>2, <2>3 DEF Unmet
    <3>2. Cardinality(Unmet') = Cardinality(Unmet) - 1
      BY <3>1, UnmetFinite, FS_RemoveElement DEF IInv
    <3>3. Inserting' = Inserting
      BY <1>1 DEF Inserting
    <3> QED
      BY <3>2, <3>3, UnmetFinite, InsertingFinite DEF IInv, UnmetBounded
  <2> QED
    BY <1>2, <2>5, <2>6, <2>7, <2>8 DEF IInv
<1> QED
  BY <1>3, <1>4 DEF Meet

LEMMA JudgeIInv == ASSUME IInv, Judge PROVE IInv'
<1>1. PICK b \in batch :
        /\ batch' = batch \ {b}
        /\ events' = [events EXCEPT ![b.id].verdict =
                         IF IsBreached(events[b.id], b.met) THEN "breached" ELSE "met"]
  BY DEF Judge
<1> DEFINE i == b.id
           verdict == IF IsBreached(events[i], b.met) THEN "breached" ELSE "met"
<1>2. UNCHANGED <<actor, mails, survey, now, receiver>>
  BY DEF Judge
<1>3. events \in Seq(Event) /\ i \in DOMAIN events /\ b.met \in Nat /\ now \in Nat
  BY DEF IInv, TypeOK
<1>4. /\ events[i] \in Event /\ events[i].met \in Nat /\ events[i].deadline \in Nat
      /\ events[i].met <= now
  BY <1>3, EventTypes DEF IInv, MetInPast
<1>5. /\ b.met = 0 => /\ now > events[i].deadline
                      /\ events[i].met = 0 \/ events[i].met > events[i].deadline
      /\ b.met # 0 => events[i].met = b.met
  BY DEF IInv, BatchOK
<1>6. /\ verdict \in {"met", "breached"}
      /\ verdict = "met" => events[i].met \in 1..events[i].deadline
      /\ verdict = "breached" => /\ now > events[i].deadline
                                 /\ events[i].met \notin 1..events[i].deadline
  BY <1>3, <1>4, <1>5 DEF IsBreached
<1>7. events' = [events EXCEPT ![i].verdict = verdict]
  BY <1>1
<1> HIDE DEF i, verdict
<1>8. /\ events'[i] = [events[i] EXCEPT !.verdict = verdict]
      /\ DOMAIN events' = DOMAIN events
      /\ \A j \in DOMAIN events : j # i => events'[j] = events[j]
  BY <1>3, <1>7
<1>9. /\ events'[i] \in Event /\ events'[i].met = events[i].met
      /\ events'[i].deadline = events[i].deadline /\ events'[i].verdict = verdict
  BY <1>4, <1>6, <1>8 DEF Event
<1>10. events' \in Seq(Event)
  BY <1>3, <1>7, <1>9
<1>11. TypeOK'
  BY <1>1, <1>2, <1>8, <1>10 DEF Judge, IInv, TypeOK
<1>12. MetInPast' /\ VerdictsAreDue'
  BY <1>2, <1>3, <1>4, <1>6, <1>8, <1>9 DEF IInv, MetInPast, VerdictsAreDue
<1>13. \A j \in DOMAIN events :
         events'[j].met = events[j].met /\ events'[j].deadline = events[j].deadline
  BY <1>8, <1>9
<1>14. BatchOK'
  <2>1. \A d \in batch : d.id \in DOMAIN events
    BY DEF IInv, TypeOK
  <2> QED
    BY <1>1, <1>2, <1>13, <2>1 DEF IInv, BatchOK
<1>15. UnmetBounded'
  <2>1. Unmet' = Unmet /\ Inserting' = Inserting
    BY <1>2, <1>8, <1>13 DEF Unmet, Inserting
  <2> QED
    BY <2>1 DEF IInv, UnmetBounded
<1>16. SurveyOnce'
  BY <1>2, SurveyKept DEF Surveying
<1> QED
  BY <1>11, <1>12, <1>14, <1>15, <1>16 DEF IInv

LEMMA QueryIInv == ASSUME IInv, Query PROVE IInv'
<1>1. UNCHANGED <<actor, mails, survey, now, receiver, events>>
  BY DEF Query
<1>2. batch' = {[id |-> i, met |-> events[i].met] :
                  i \in {j \in DOMAIN events : Actionable(events[j])}}
  BY DEF Query
<1>3. events \in Seq(Event) /\ now \in Nat
  BY DEF IInv, TypeOK
<1>4. \A i \in DOMAIN events : events[i].met \in Nat /\ events[i].deadline \in Nat
  BY EventTypes DEF IInv
<1>5. \A b \in batch' : \E i \in DOMAIN events :
        b = [id |-> i, met |-> events[i].met] /\ Actionable(events[i])
  BY <1>2
<1>6. TypeOK'
  <2>1. batch' \subseteq [id : DOMAIN events, met : Nat]
    BY <1>4, <1>5
  <2> QED
    BY <1>1, <2>1 DEF Query, IInv, TypeOK
<1>7. BatchOK'
  BY <1>1, <1>3, <1>4, <1>5 DEF BatchOK, Actionable
<1>8. MetInPast' /\ VerdictsAreDue' /\ UnmetBounded' /\ SurveyOnce'
  BY <1>1 DEF IInv, MetInPast, VerdictsAreDue, UnmetBounded, Unmet, Inserting, SurveyOnce, Surveying
<1> QED
  BY <1>6, <1>7, <1>8 DEF IInv

(* All other steps leave the events alone and end what they end. *)
LEMMA OtherIInv ==
  ASSUME IInv,
         Reply \/ Send \/ MeetFails \/ JudgeFails \/ Unsnooze \/ Respond \/ Tick \/ Restart
  PROVE  IInv'
<1> USE DEF Reply, Send, MeetFails, JudgeFails, Unsnooze, Respond, Tick, Restart
<1>1. UNCHANGED <<events, mails>> /\ batch' \subseteq batch
  OBVIOUS
<1>2. now' \in Nat /\ now' >= now
  BY DEF IInv, TypeOK
<1>3. Inserting' \subseteq Inserting
  BY DEF Inserting, IInv, TypeOK
<1>4. Surveying' \subseteq Surveying
  BY DEF Surveying, IInv, TypeOK, Idle
<1>5. survey # "none" => survey' # "none"
  OBVIOUS
<1>6. TypeOK'
  <2>1. batch' \subseteq [id : DOMAIN events', met : Nat]
    BY <1>1 DEF IInv, TypeOK
  <2>2. actor' \in [Actors -> ActorState]
    BY IdleType DEF IInv, TypeOK, ActorState
  <2>3. /\ receiver' \in [Receivers -> {"idle", "reopen", "look", "insert"}]
        /\ due' \in [Receivers -> Nat]
    BY DEF IInv, TypeOK
  <2>4. now' \in 1..MaxTime /\ work' \in 0..MaxWork /\ faults' \in 0..MaxFaults
    <3>1. now \in 1..MaxTime /\ work \in 0..MaxWork /\ faults \in 0..MaxFaults
      BY DEF IInv, TypeOK
    <3>2. /\ now' \in {now, now + 1} /\ (now' # now => now < MaxTime)
          /\ work' \in {work, work + 1} /\ (work' # work => work < MaxWork)
          /\ faults' \in {faults, faults + 1} /\ (faults' # faults => faults < MaxFaults)
      OBVIOUS
    <3>3. now' \in 1..MaxTime
      BY <3>1, <3>2, Bounds
    <3>4. work' \in 0..MaxWork
      BY <3>1, <3>2, Bounds
    <3>5. faults' \in 0..MaxFaults
      BY <3>1, <3>2, Bounds
    <3> QED
      BY <3>3, <3>4, <3>5
  <2>5. replies' \in Nat /\ sent' \in BOOLEAN
    <3>1. replies \in Nat /\ sent \in BOOLEAN
      BY DEF IInv, TypeOK
    <3>2. replies' \in Nat
      BY <3>1
    <3>3. sent' = sent \/ sent' = TRUE \/ sent' = FALSE
      OBVIOUS
    <3> QED
      BY <3>1, <3>2, <3>3
  <2>6. status' \in Statuses /\ snoozedUntil' \in 0..MaxTime
    BY Bounds DEF IInv, TypeOK, Statuses
  <2>7. survey' \in {"none", "open", "answered"}
    BY DEF IInv, TypeOK
  <2> QED
    BY <1>1, <2>1, <2>2, <2>3, <2>4, <2>5, <2>6, <2>7 DEF IInv, TypeOK, ActorState
<1> QED
  BY <1>1, <1>2, <1>3, <1>4, <1>5, <1>6, EventsKept, UnmetKept, SurveyKept DEF IInv

-----------------------------------------------------------------------------
(* The inductive invariant: an actor, receiver, sender and evaluator may   *)
(* be anywhere, the rows and what was read of them agree.                  *)
THEOREM Invariance == Spec => []IInv
<1>1. IInv /\ [Next]_vars => IInv'
  <2> SUFFICES ASSUME IInv, [Next]_vars PROVE IInv'
    OBVIOUS
  <2>1. CASE UNCHANGED vars
    BY <2>1 DEF vars, IInv, TypeOK, MetInPast, BatchOK, VerdictsAreDue, SurveyOnce, Surveying,
                UnmetBounded, Unmet, Inserting
  <2> QED
    BY <2>1, ActIInv, ReceiveIInv, MeetIInv, JudgeIInv, QueryIInv, OtherIInv
    DEF Next, Sender, Evaluate
<1> QED
  BY <1>1, InitIInv, PTL DEF Spec

(* The variables of actors, receivers, rows and evaluator keep their types. *)
THEOREM TypeCorrect == Spec => []TypeOK
BY Invariance, PTL DEF IInv

(* The contact is sent one survey at most (SendCSATReply), for any number  *)
(* of agents and rules.                                                    *)
THEOREM OneSurvey == Spec => []SurveyOnce
BY Invariance, PTL DEF IInv

(* insert-next-response-sla-event leaves no more unmet events than there   *)
(* are goroutines handling messages of the contact.                        *)
THEOREM FewUnmetEvents == Spec => []UnmetBounded
BY Invariance, PTL DEF IInv

(* evaluatePendingSLAEvents passes no wrong verdict, although it judges by *)
(* rows it read before a reply was written.                                *)
THEOREM VerdictsOfEventsAreTrue == Spec => []VerdictsAreDue
BY Invariance, PTL DEF IInv
=============================================================================
