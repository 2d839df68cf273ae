------------------------------ MODULE Contacts ------------------------------
(***************************************************************************)
(* Visitors and contacts, their widget sessions, conversations and         *)
(* messages: the HTTP side of the chat widget (cmd/chat.go,                *)
(* cmd/widget_middleware.go, cmd/widget_logout.go), public tickets,        *)
(* registration at the customer portal, the blocking of contacts, and the  *)
(* e-mail answers that make a visitor a contact, over internal/user.       *)
(* Every request is a process of its own; between two of its statements    *)
(* the rows it has read may change.                                        *)
(*                                                                         *)
(* Users, sessions, conversations and messages are named after the request *)
(* that creates them, and a visitor and a contact are there from the       *)
(* start.  An e-mail address is the mailbox it names and whether the row   *)
(* has it in lower case: what is looked up is lowered before, but agents   *)
(* store the spelling they type, and some comparisons fold the case.       *)
(***************************************************************************)
EXTENDS Integers, FiniteSets

CONSTANTS Requests,
          Asks,             \* what a request may ask for: a set of asks each
          Visitor, Contact, \* who is there from the start
          NoOne,            \* no user, session or conversation
          Persons,          \* external user ids
          NoExt,
          Addresses,        \* mailboxes
          Home,             \* the contact's, and the visitor's who has one
          NoMail,
          Pending,          \* registrations that wait to be verified
          MaxTroubles       \* bound: failing statements

Ids == Requests \union {Visitor, Contact}
IdsOrNone == Ids \union {NoOne}
Kinds == {"visit", "look", "start", "send", "exchange", "ticket", "answer", "register", "verify", "logout", "block",
          "edit"}
Mails == Addresses \union {NoMail}
AnyAsk == [kind : Kinds, token : IdsOrNone, visitorToken : IdsOrNone, conv : IdsOrNone, ext : Persons \union {NoExt},
           from : Mails]

ASSUME ContactsAssumption ==
  /\ Visitor # Contact /\ {Visitor, Contact} \intersect Requests = {} /\ NoOne \notin Ids
  /\ NoExt \notin Persons /\ MaxTroubles \in Nat
  /\ Home \in Addresses /\ NoMail \notin Addresses /\ Pending \subseteq Addresses
  /\ \A r \in Requests : \A ask \in Asks[r] :
       /\ ask \in AnyAsk /\ (ask.kind = "exchange" <=> ask.ext # NoExt)
       /\ ask.kind \in {"look", "start", "send"} => ask.token \in Ids
       /\ ask.kind \in {"send", "answer"} => ask.conv \in Ids
       /\ ask.kind \in {"exchange", "ticket", "answer", "register", "verify", "edit"} => ask.from \in Addresses

VARIABLES user,     \* rows of users
          pending,  \* rows of customer_portal_registrations: their address
          session,  \* Redis: widget_session:<token>
          reverse,  \* Redis: widget_user:<contact>, the token handed out last
          conv,     \* rows of conversations: their contact
          msg,      \* rows of messages: their conversation and sender
          at,       \* the next step of each request
          job,      \* what it was asked, and what it has read
          wronged,  \* history: contacts whose external id two requests have set
          troubles

redis == <<session, reverse>>
chat == <<conv, msg>>
people == <<user, pending>>
contactsVars == <<people, redis, chat, at, job, wronged, troubles>>

NoUser == [kind |-> "none", mail |-> NoMail, lower |-> TRUE, ext |-> NoExt, on |-> FALSE, version |-> 0,
           portal |-> FALSE]
NewVisitor(mail) == [NoUser EXCEPT !.kind = "visitor", !.mail = mail, !.on = TRUE, !.version = 1]
NewContact(mail, ext) == [NewVisitor(mail) EXCEPT !.kind = "contact", !.ext = ext]
NoSession == [user |-> NoOne, version |-> 0, ext |-> NoExt]
NoMsg == [conv |-> NoOne, sender |-> NoOne]
NoJob == [kind |-> "none", token |-> NoOne, visitorToken |-> NoOne, conv |-> NoOne, ext |-> NoExt,
          from |-> NoMail, who |-> NoOne, visitor |-> NoOne, version |-> 0, seen |-> NoExt,
          convs |-> {}, msgs |-> {}, out |-> {}, stranger |-> FALSE]

(* A visitor who has written, and perhaps a contact who has; the widget    *)
(* knows the contact if it has an external id.                             *)
InitWith(writers, mail, contact) ==
  LET known == IF contact.ext = NoExt THEN writers \ {Contact} ELSE writers IN
  /\ user = [i \in Ids |-> CASE i \notin writers -> NoUser [] i = Visitor -> NewVisitor(mail) [] OTHER -> contact]
  /\ pending = Pending
  /\ session = [i \in Ids |-> IF i \in known THEN [user |-> i, version |-> 1, ext |-> user[i].ext] ELSE NoSession]
  /\ reverse = [i \in Ids |-> IF i \in known \ {Visitor} THEN i ELSE NoOne]
  /\ conv = [i \in Ids |-> IF i \in writers THEN i ELSE NoOne]
  /\ msg = [i \in Ids |-> IF i \in writers THEN [conv |-> i, sender |-> i] ELSE NoMsg]
  /\ at = [r \in Requests |-> "idle"] /\ job = [r \in Requests |-> NoJob]
  /\ wronged = {} /\ troubles = 0

ContactsInit ==
  \E writers \in {{Visitor}, {Visitor, Contact}}, mail \in {Home, NoMail}, ext \in Persons \union {NoExt},
     lower \in BOOLEAN : InitWith(writers, mail, [NewContact(Home, ext) EXCEPT !.lower = lower])

Trouble == troubles < MaxTroubles /\ troubles' = troubles + 1
Smooth == UNCHANGED troubles
Go(r, place) == at' = [at EXCEPT ![r] = place]
Keep(r, known) == job' = [job EXCEPT ![r] = known]
KeepWho(r, i) == Keep(r, [job[r] EXCEPT !.who = i])
Who(r) == job[r].who
Contacts == {i \in Ids : user[i].kind = "contact"}
(* email = $1, where $1 is in lower case. *)
Spelled(i, mail) == user[i].mail = mail /\ user[i].lower
(* The unique index on the addresses of contacts without external id. *)
Taken(i, mail, lower) == \E x \in Contacts \ {i} : user[x].ext = NoExt /\ user[x].mail = mail /\ user[x].lower = lower
Cleared(jobs, i) == [q \in Requests |-> [jobs[q] EXCEPT !.out = jobs[q].out \ {i}]]

(* Mutant: the merge locks no rows. *)
LockedNever(i) == FALSE
(* Rows that a merge has locked: no row that refers to them is inserted,   *)
(* and they are not updated, before it ends.                               *)
Locked(i) == \E q \in Requests : at[q] \in {"move", "commit"} /\ i \in {job[q].who, job[q].visitor}

FirstStep(kind) == CASE kind = "visit" -> "visitor"
                     [] kind \in {"look", "start", "send"} -> "auth"
                     [] kind = "exchange" -> "resolve"
                     [] kind \in {"ticket", "answer"} -> "blocked"
                     [] kind = "register" -> "registered"
                     [] OTHER -> kind

(* The conversation is there to stay: its first message is stored. *)
Settled(c) == conv[c] # NoOne /\ (c \in Requests => at[c] = "done")

(* Only who has given an address gets mails to answer, about what has been *)
(* said; they may be answered from another address.  Who is out: blocked   *)
(* when the request begins.  Mails of who is kept in mixed case are not    *)
(* recognised as those of somebody blocked (imap.go lowers their sender).  *)
Begin(r) ==
  /\ at[r] = "idle"
  /\ \E ask \in Asks[r] :
       /\ ask.kind = "answer" => Settled(ask.conv) /\ user[conv[ask.conv]].mail # NoMail
       /\ Go(r, FirstStep(ask.kind))
       /\ Keep(r, [NoJob EXCEPT !.kind = ask.kind, !.token = ask.token, !.visitorToken = ask.visitorToken,
                                !.conv = ask.conv, !.ext = ask.ext, !.from = ask.from,
                                !.out = {i \in Ids : /\ user[i].kind # "none" /\ ~user[i].on
                                                     /\ ask.kind = "answer" => user[i].lower}])
  /\ Smooth /\ UNCHANGED <<people, redis, chat, wronged>>

---------------------------------------------------------------------------
(* widgetAuth: the session, its user, and the merge of a visitor           *)

Forget(token) == session' = [session EXCEPT ![token] = NoSession]
Live(token) == session[token].user # NoOne
Valid(token) == LET s == session[token] IN
                user[s.user].kind # "none" /\ user[s.user].on /\ user[s.user].version = s.version
Handler(r) == CASE job[r].kind = "start" -> "allow" [] job[r].kind = "send" -> "find" [] OTHER -> "done"

(* The session of an outdated or blocked user is deleted, if Redis answers; *)
(* so is that of a user who could not be read.                             *)
Reject(token, good) == \/ ~good /\ Forget(token) /\ Smooth
                       \/ ~good /\ UNCHANGED session /\ Trouble
                       \/ good /\ Forget(token) /\ Trouble

Auth(r) ==
  /\ at[r] = "auth"
  /\ LET token == job[r].token IN
     \/ /\ ~Live(token) /\ Go(r, "done") /\ Smooth /\ UNCHANGED <<session, job>>
     \/ Live(token) /\ Reject(token, Valid(token)) /\ Go(r, "done") /\ UNCHANGED job
     \/ /\ Live(token) /\ Valid(token) /\ KeepWho(r, session[token].user) /\ Smooth
        /\ Go(r, IF job[r].visitorToken # NoOne /\ session[token].ext # NoExt THEN "auth visitor" ELSE Handler(r))
        /\ UNCHANGED session
  /\ UNCHANGED <<people, reverse, chat, wronged>>

AuthVisitor(r) ==
  /\ at[r] = "auth visitor"
  /\ LET token == job[r].visitorToken
         mergeable == Live(token) /\ session[token].ext = NoExt /\ session[token].user # Who(r)
         good == Valid(token) /\ user[session[token].user].kind = "visitor" IN
     \/ ~mergeable /\ Go(r, Handler(r)) /\ Smooth /\ UNCHANGED <<session, job>>
     \/ Go(r, Handler(r)) /\ Trouble /\ UNCHANGED <<session, job>>
     \/ mergeable /\ Reject(token, good) /\ Go(r, "done") /\ UNCHANGED job
     \/ /\ mergeable /\ good /\ Keep(r, [job[r] EXCEPT !.visitor = session[token].user]) /\ Go(r, "lock") /\ Smooth
        /\ UNCHANGED session
  /\ UNCHANGED <<people, reverse, chat, wronged>>

(* MergeVisitorToContact: both rows are locked, then their types tested. A *)
(* merge that fails is logged, and the request goes on.                    *)
MergeLock(r) ==
  /\ at[r] = "lock" /\ ~Locked(Who(r)) /\ ~Locked(job[r].visitor)
  /\ \/ user[job[r].visitor].kind = "visitor" /\ user[Who(r)].kind = "contact" /\ Go(r, "move") /\ Smooth
     \/ ~(user[job[r].visitor].kind = "visitor" /\ user[Who(r)].kind = "contact") /\ Go(r, Handler(r)) /\ Smooth
     \/ Go(r, Handler(r)) /\ Trouble
  /\ UNCHANGED <<people, redis, chat, job, wronged>>

MergeMove(r) ==
  /\ at[r] = "move" /\ Go(r, "commit")
  /\ Keep(r, [job[r] EXCEPT !.convs = {c \in Ids : conv[c] = job[r].visitor},
                            !.msgs = {m \in Ids : msg[m].sender = job[r].visitor}])
  /\ Smooth /\ UNCHANGED <<people, redis, chat, wronged>>

(* What the visitor had is the contact's now. *)
MovedConv(r, c) == IF c \in job[r].convs /\ conv[c] # NoOne THEN Who(r) ELSE conv[c]
MovedMsg(r, m) == IF m \in job[r].msgs /\ msg[m] # NoMsg THEN [msg[m] EXCEPT !.sender = Who(r)] ELSE msg[m]

(* The visitor's row goes, and with it what still refers to it (ON DELETE  *)
(* CASCADE).                                                               *)
MergeCommit(r) ==
  /\ at[r] = "commit"
  /\ \/ LET gone == job[r].visitor IN
        /\ conv' = [c \in Ids |-> IF MovedConv(r, c) = gone THEN NoOne ELSE MovedConv(r, c)]
        /\ msg' = [m \in Ids |-> LET moved == MovedMsg(r, m) IN
                      IF moved.sender = gone \/ (moved # NoMsg /\ conv'[moved.conv] = NoOne) THEN NoMsg ELSE moved]
        /\ user' = [user EXCEPT ![gone] = NoUser]
        /\ Go(r, "revoke") /\ Smooth
     \/ Go(r, Handler(r)) /\ Trouble /\ UNCHANGED <<user, chat>>
  /\ UNCHANGED <<pending, redis, job, wronged>>

Revoke(r) ==
  /\ at[r] = "revoke"
  /\ \/ Forget(job[r].visitorToken) /\ Go(r, Handler(r)) /\ Smooth
     \/ UNCHANGED session /\ Go(r, "done") /\ Trouble
  /\ UNCHANGED <<people, reverse, chat, job, wronged>>

(* What cannot be read ends the request. *)
ReadFails(r) ==
  /\ at[r] \in {"auth", "find", "resolve", "enrich", "get", "blocked", "known", "registered", "answer"}
  /\ Go(r, "done") /\ Trouble /\ UNCHANGED <<people, redis, chat, job, wronged>>

---------------------------------------------------------------------------
(* Conversations and messages *)

(* The settings of the inbox, or the contact's limit, may refuse. *)
Allow(r) == /\ at[r] = "allow" /\ (Go(r, "create") \/ Go(r, "done"))
            /\ Smooth /\ UNCHANGED <<people, redis, chat, job, wronged>>

Create(r) ==
  /\ at[r] = "create" /\ ~Locked(Who(r))
  /\ \/ user[Who(r)].kind # "none" /\ conv' = [conv EXCEPT ![r] = Who(r)]
        /\ Keep(r, [job[r] EXCEPT !.conv = r]) /\ Go(r, "message") /\ Smooth
     \/ user[Who(r)].kind = "none" /\ Go(r, "done") /\ Smooth /\ UNCHANGED <<conv, job>>
     \/ Go(r, "done") /\ Trouble /\ UNCHANGED <<conv, job>>
  /\ UNCHANGED <<people, redis, msg, wronged>>

(* Mutant: any conversation may be written in. *)
FindAny(r) ==
  /\ at[r] = "find" /\ Go(r, IF conv[job[r].conv] # NoOne THEN "message" ELSE "done")
  /\ Smooth /\ UNCHANGED <<people, redis, chat, job, wronged>>

(* Of somebody else's conversation the handler goes on without a sender,   *)
(* and so stores nothing.                                                  *)
Find(r) ==
  /\ at[r] = "find" /\ Go(r, IF conv[job[r].conv] = Who(r) THEN "message" ELSE "done")
  /\ Smooth /\ UNCHANGED <<people, redis, chat, job, wronged>>

(* Sender and conversation must be there when the message is inserted. *)
Message(r) ==
  /\ at[r] = "message" /\ ~Locked(Who(r))
  /\ LET there == user[Who(r)].kind # "none" /\ conv[job[r].conv] # NoOne
         failed == IF job[r].kind \in {"send", "answer"} THEN "done" ELSE "clean up" IN
     \/ there /\ msg' = [msg EXCEPT ![r] = [conv |-> job[r].conv, sender |-> Who(r)]] /\ Go(r, "done") /\ Smooth
     \/ ~there /\ Go(r, failed) /\ Smooth /\ UNCHANGED msg
     \/ there /\ Go(r, failed) /\ Trouble /\ UNCHANGED msg
  /\ UNCHANGED <<people, redis, conv, job, wronged>>

(* DeleteConversation takes whatever was said in it. *)
CleanUp(r) ==
  /\ at[r] = "clean up" /\ Go(r, "done")
  /\ \/ /\ conv' = [conv EXCEPT ![r] = NoOne] /\ Smooth
        /\ msg' = [m \in Ids |-> IF msg[m].conv = r THEN NoMsg ELSE msg[m]]
     \/ UNCHANGED chat /\ Trouble
  /\ UNCHANGED <<people, redis, job, wronged>>

---------------------------------------------------------------------------
(* Who somebody is *)

(* createVisitorContact: nobody asks whether the address is blocked.       *)
CreateVisitor(r) ==
  /\ at[r] = "visitor"
  /\ \/ user' = [user EXCEPT ![r] = NewVisitor(job[r].from)] /\ Keep(r, [job[r] EXCEPT !.who = r, !.version = 1])
        /\ Go(r, "sign") /\ Smooth
     \/ UNCHANGED <<user, job>> /\ Go(r, "done") /\ Trouble
  /\ UNCHANGED <<pending, redis, chat, wronged>>

(* generateSessionToken; for a contact the token is then noted for reuse.  *)
Sign(r) ==
  /\ at[r] = "sign"
  /\ \/ /\ session' = [session EXCEPT ![r] = [user |-> Who(r), version |-> job[r].version, ext |-> job[r].ext]]
        /\ Go(r, IF job[r].kind = "visit" THEN "allow" ELSE "note") /\ Smooth
     \/ UNCHANGED session /\ Go(r, "done") /\ Trouble
  /\ UNCHANGED <<people, reverse, chat, job, wronged>>

Note(r) == /\ at[r] = "note" /\ Go(r, "done")
           /\ \/ reverse' = [reverse EXCEPT ![Who(r)] = r] /\ Smooth
              \/ UNCHANGED reverse /\ Trouble
           /\ UNCHANGED <<people, session, chat, job, wronged>>

(* handleAuthExchange: resolveUserFromClaims.  A name or an address that   *)
(* has changed is written to the row.                                      *)
Resolve(r) ==
  /\ at[r] = "resolve"
  /\ \/ \E i \in Contacts : /\ user[i].ext = job[r].ext /\ KeepWho(r, i)
                           /\ \/ user[i].on /\ Go(r, "sync")
                              \/ user[i].on /\ Spelled(i, job[r].from) /\ Go(r, "get")
                              \/ ~user[i].on /\ Go(r, "done")
     \/ (\A i \in Contacts : user[i].ext # job[r].ext) /\ Go(r, "enrich") /\ UNCHANGED job
  /\ Smooth /\ UNCHANGED <<people, redis, chat, wronged>>

(* Who is in the portal keeps the address there. *)
Addressed(i, mail) == IF user[i].portal THEN user
                      ELSE [user EXCEPT ![i] = [user[i] EXCEPT !.mail = mail, !.lower = TRUE]]

(* UpdateContactBasicInfo: that it fails is logged. *)
Sync(r) ==
  /\ at[r] = "sync" /\ ~Locked(Who(r)) /\ Go(r, "get")
  /\ \/ user' = Addressed(Who(r), job[r].from) /\ job' = Cleared(job, Who(r)) /\ Smooth
     \/ UNCHANGED <<user, job>> /\ Trouble
  /\ UNCHANGED <<pending, redis, chat, wronged>>

(* Mutant: any contact of the address is enriched. *)
EnrichAny(r) ==
  /\ at[r] = "enrich"
  /\ \/ \E i \in Contacts : /\ Spelled(i, job[r].from) /\ Go(r, "set")
                            /\ Keep(r, [job[r] EXCEPT !.who = i, !.seen = user[i].ext])
     \/ (\A i \in Contacts : ~Spelled(i, job[r].from)) /\ Go(r, "upsert") /\ UNCHANGED job
  /\ Smooth /\ UNCHANGED <<people, redis, chat, wronged>>

(* CreateContact for an external id: a contact of this address that has    *)
(* none gets it.                                                           *)
Enrich(r) ==
  /\ at[r] = "enrich"
  /\ \/ \E i \in Contacts : /\ user[i].ext = NoExt /\ Spelled(i, job[r].from) /\ Go(r, "set")
                            /\ Keep(r, [job[r] EXCEPT !.who = i, !.seen = NoExt])
     \/ (\A i \in Contacts : user[i].ext # NoExt \/ ~Spelled(i, job[r].from)) /\ Go(r, "upsert") /\ UNCHANGED job
  /\ Smooth /\ UNCHANGED <<people, redis, chat, wronged>>

(* The update asks for the id only, and fails if another contact has the   *)
(* external id.                                                            *)
SetExternalUserID(r) ==
  /\ at[r] = "set" /\ ~Locked(Who(r))
  /\ LET taken == \E i \in Contacts \ {Who(r)} : user[i].ext = job[r].ext IN
     \/ /\ ~taken /\ user' = [user EXCEPT ![Who(r)].ext = job[r].ext] /\ Go(r, "get") /\ Smooth
        /\ wronged' = IF job[r].seen = NoExt /\ user[Who(r)].ext # NoExt
                            THEN wronged \union {Who(r)} ELSE wronged
     \/ taken /\ Go(r, "upsert") /\ Smooth /\ UNCHANGED <<user, wronged>>
     \/ Go(r, "upsert") /\ Trouble /\ UNCHANGED <<user, wronged>>
  /\ UNCHANGED <<pending, redis, chat, job>>

Upsert(r) ==
  /\ at[r] = "upsert"
  /\ \/ \E i \in Contacts : /\ user[i].ext = job[r].ext /\ ~Locked(i) /\ Go(r, "get") /\ Smooth
                            /\ user' = Addressed(i, job[r].from)
                            /\ job' = Cleared([job EXCEPT ![r] = [job[r] EXCEPT !.who = i]], i)
     \/ /\ \A i \in Contacts : user[i].ext # job[r].ext
        /\ user' = [user EXCEPT ![r] = NewContact(job[r].from, job[r].ext)]
        /\ KeepWho(r, r) /\ Go(r, "get") /\ Smooth
     \/ UNCHANGED <<user, job>> /\ Go(r, "done") /\ Trouble
  /\ UNCHANGED <<pending, redis, chat, wronged>>

Get(r) ==
  /\ at[r] = "get"
  /\ IF user[Who(r)].on THEN Keep(r, [job[r] EXCEPT !.version = user[Who(r)].version]) /\ Go(r, "reuse")
                        ELSE Go(r, "done") /\ UNCHANGED job
  /\ Smooth /\ UNCHANGED <<people, redis, chat, wronged>>

Reuse(r) ==
  /\ at[r] = "reuse"
  /\ LET token == reverse[Who(r)]
         good == token # NoOne /\ session[token].user # NoOne /\ session[token].version = job[r].version IN
     \/ Go(r, IF good THEN "done" ELSE "sign") /\ Smooth
     \/ Go(r, "sign") /\ Trouble
  /\ UNCHANGED <<people, redis, chat, job, wronged>>

(* Mutant: nobody asks whether the address is blocked. *)
BlockedNever(r) ==
  /\ at[r] = "blocked" /\ Go(r, IF job[r].kind = "ticket" THEN "known" ELSE "answer")
  /\ Smooth /\ UNCHANGED <<people, redis, chat, job, wronged>>

AddressBlocked(mail) == \E i \in Ids : Spelled(i, mail) /\ ~user[i].on

(* handleCreatePublicTicket, and the reading of a mail: IsEmailBlocked,    *)
(* then CreateContact without an external id.                              *)
IsEmailBlocked(r) ==
  /\ at[r] = "blocked" /\ Go(r, CASE AddressBlocked(job[r].from) -> "done"
                                [] ~AddressBlocked(job[r].from) /\ job[r].kind = "ticket" -> "known"
                                [] OTHER -> "answer")
  /\ Smooth /\ UNCHANGED <<people, redis, chat, job, wronged>>

Then(r) == IF job[r].kind = "ticket" THEN "create" ELSE "override"

Known(r) ==
  /\ at[r] = "known"
  /\ \/ \E i \in Contacts : user[i].ext # NoExt /\ Spelled(i, job[r].from) /\ KeepWho(r, i) /\ Go(r, Then(r))
     \/ (\A i \in Contacts : user[i].ext = NoExt \/ ~Spelled(i, job[r].from)) /\ Go(r, "insert") /\ UNCHANGED job
  /\ Smooth /\ UNCHANGED <<people, redis, chat, wronged>>

InsertContact(r) ==
  /\ at[r] = "insert"
  /\ \/ \E i \in Contacts : /\ user[i].ext = NoExt /\ Spelled(i, job[r].from) /\ ~Locked(i) /\ KeepWho(r, i)
                            /\ Go(r, Then(r)) /\ Smooth /\ UNCHANGED user
     \/ /\ ~Taken(r, job[r].from, TRUE)
        /\ user' = [user EXCEPT ![r] = NewContact(job[r].from, NoExt)]
        /\ KeepWho(r, r) /\ Go(r, Then(r)) /\ Smooth
     \/ UNCHANGED <<user, job>> /\ Go(r, "done") /\ Trouble
  /\ UNCHANGED <<pending, redis, chat, wronged>>

(* resolveByPlusAddress: a mail of the visitor's address that answers one  *)
(* of the conversation makes the visitor a contact, if there is none of    *)
(* that address and the answer is not too late.  What comes from another   *)
(* address is the contact's who has that one.                              *)
Answer(r) ==
  /\ at[r] = "answer"
  /\ LET u == conv[job[r].conv]
         own == user[u].mail = job[r].from
         known == \E i \in Contacts : Spelled(i, job[r].from) IN
     \/ own /\ user[u].kind = "contact" /\ KeepWho(r, u) /\ Go(r, "override")
     \/ own /\ user[u].kind = "visitor" /\ ~known /\ KeepWho(r, u) /\ Go(r, "upgrade")
     \/ (~own \/ user[u].kind = "visitor") /\ Go(r, "known") /\ UNCHANGED job
  /\ Smooth /\ UNCHANGED <<people, redis, chat, wronged>>

UpgradeVisitorToContact(r) ==
  /\ at[r] = "upgrade" /\ ~Locked(Who(r))
  /\ LET taken == Taken(Who(r), user[Who(r)].mail, user[Who(r)].lower)
         visitor == user[Who(r)].kind = "visitor" IN
     \/ visitor /\ ~taken /\ user' = [user EXCEPT ![Who(r)].kind = "contact"] /\ Go(r, "override") /\ Smooth
     \/ visitor /\ taken /\ UNCHANGED user /\ Go(r, "done") /\ Smooth
     \/ ~visitor /\ UNCHANGED user /\ Go(r, "override") /\ Smooth
     \/ UNCHANGED user /\ Go(r, "done") /\ Trouble
  /\ UNCHANGED <<pending, redis, chat, job, wronged>>

(* The message is the contact's of the conversation, whoever that is by    *)
(* now, if it comes from that contact's address, in whatever case; else,   *)
(* and if that cannot be read, a stranger's.                               *)
Override(r) ==
  /\ at[r] = "override" /\ Go(r, "message")
  /\ LET u == conv[job[r].conv] IN
     \/ user[u].mail = job[r].from /\ KeepWho(r, u) /\ Smooth
     \/ /\ Keep(r, [job[r] EXCEPT !.stranger = TRUE])
        /\ \/ user[u].mail # job[r].from /\ Smooth
           \/ Trouble
  /\ UNCHANGED <<people, redis, chat, wronged>>

(* RegisterCustomerPortal takes over nobody's contact. *)
Registered(r) ==
  /\ at[r] = "registered" /\ Go(r, IF \A i \in Ids : user[i].mail # job[r].from THEN "register" ELSE "done")
  /\ Smooth /\ UNCHANGED <<people, redis, chat, job, wronged>>

(* InsertPortalUser, unless the unique index forbids it. *)
Joins(r) == /\ ~Taken(r, job[r].from, TRUE)
            /\ user' = [user EXCEPT ![r] = [NewContact(job[r].from, NoExt) EXCEPT !.portal = TRUE]]
            /\ pending' = pending \ {job[r].from}
(* The row of the registration is locked. *)
Held(mail) == \E q \in Requests : at[q] = "activate" /\ job[q].from = mail

Register(r) ==
  /\ at[r] = "register" /\ ~Held(job[r].from) /\ Go(r, "done")
  /\ \/ Joins(r) /\ Smooth
     \/ Taken(r, job[r].from, TRUE) /\ UNCHANGED people /\ Smooth
     \/ UNCHANGED people /\ Trouble
  /\ UNCHANGED <<redis, chat, job, wronged>>

(* VerifyCustomerPortalRegistration: who has the address, in whatever      *)
(* case, contacts and those without external id first, is locked and       *)
(* activated.                                                              *)
PortalUsers(mail) == LET owners == {i \in Ids : user[i].mail = mail}
                         plain == {i \in owners \intersect Contacts : user[i].ext = NoExt} IN
                     IF plain # {} THEN plain
                     ELSE IF owners \intersect Contacts # {} THEN owners \intersect Contacts ELSE owners

Verify(r) ==
  /\ at[r] = "verify" /\ ~Held(job[r].from)
  /\ LET owners == PortalUsers(job[r].from) IN
     \/ job[r].from \notin pending /\ Go(r, "done") /\ Smooth /\ UNCHANGED job
     \/ job[r].from \in pending /\ Go(r, "activate") /\ Smooth /\ (\E i \in owners : KeepWho(r, i))
     \/ job[r].from \in pending /\ Go(r, "activate") /\ Smooth /\ owners = {} /\ UNCHANGED job
     \/ Go(r, "done") /\ Trouble /\ UNCHANGED job
  /\ UNCHANGED <<people, redis, chat, wronged>>

(* What has changed before the lock is read again; a row that is gone or   *)
(* has another address counts as none.                                     *)
Activate(r) ==
  /\ at[r] = "activate" /\ ~Locked(Who(r)) /\ Go(r, "done")
  /\ LET u == Who(r)
         there == u # NoOne /\ user[u].mail = job[r].from
         taken == user[u].kind = "visitor" /\ Taken(u, user[u].mail, user[u].lower) IN
     \/ /\ there /\ user[u].on /\ ~user[u].portal /\ ~taken /\ Smooth
        /\ user' = [user EXCEPT ![u] = [user[u] EXCEPT !.kind = "contact", !.version = user[u].version + 1,
                                                        !.portal = TRUE]]
        /\ pending' = pending \ {job[r].from}
     \/ there /\ (~user[u].on \/ user[u].portal \/ taken) /\ UNCHANGED people /\ Smooth
     \/ ~there /\ Joins(r) /\ Smooth
     \/ ~there /\ Taken(r, job[r].from, TRUE) /\ UNCHANGED people /\ Smooth
     \/ UNCHANGED people /\ Trouble
  /\ UNCHANGED <<redis, chat, job, wronged>>

---------------------------------------------------------------------------
(* The sessions end (handleWidgetLogout), or an agent blocks or unblocks   *)
(* the contact (handleBlockContact) or edits the address                   *)
(* (handleUpdateContact).  Who is no longer blocked, or has another        *)
(* address, is not out any more.                                           *)

Logout(r) ==
  /\ at[r] = "logout" /\ Go(r, "done")
  /\ LET tokens == {job[r].token, job[r].visitorToken} \ {NoOne} IN
     \E kept \in SUBSET tokens :
       /\ session' = [i \in Ids |-> IF i \in tokens \ kept THEN NoSession ELSE session[i]]
       /\ IF kept = {} THEN Smooth ELSE Trouble
  /\ UNCHANGED <<people, reverse, chat, job, wronged>>

Toggle(r) ==
  /\ at[r] = "block" /\ Go(r, "done")
  /\ \E i \in Ids : /\ user[i].kind # "none" /\ ~Locked(i)
                    /\ user' = [user EXCEPT ![i] = [user[i] EXCEPT !.on = ~user[i].on, !.version = user[i].version + 1]]
                    /\ job' = IF user[i].on THEN job ELSE Cleared(job, i)
  /\ Smooth /\ UNCHANGED <<pending, redis, chat, wronged>>

(* The address is stored as it is typed, and not lowered. *)
Edit(r) ==
  /\ at[r] = "edit" /\ Go(r, "done")
  /\ \E i \in Ids, lower \in BOOLEAN :
       /\ user[i].kind # "none" /\ ~user[i].portal /\ ~Locked(i)
       /\ ~(i \in Contacts /\ user[i].ext = NoExt /\ Taken(i, job[r].from, lower))
       /\ user' = [user EXCEPT ![i] = [user[i] EXCEPT !.mail = job[r].from, !.lower = lower]]
       /\ job' = Cleared(job, i)
  /\ Smooth /\ UNCHANGED <<pending, redis, chat, wronged>>

Step(r) == \/ Begin(r) \/ Auth(r) \/ AuthVisitor(r) \/ MergeLock(r) \/ MergeMove(r) \/ MergeCommit(r) \/ Revoke(r)
           \/ ReadFails(r)
           \/ Allow(r) \/ Create(r) \/ Find(r) \/ Message(r) \/ CleanUp(r)
           \/ CreateVisitor(r) \/ Sign(r) \/ Note(r) \/ Resolve(r) \/ Sync(r) \/ Enrich(r) \/ SetExternalUserID(r)
           \/ Upsert(r) \/ Get(r) \/ Reuse(r) \/ IsEmailBlocked(r) \/ Known(r) \/ InsertContact(r)
           \/ Answer(r) \/ UpgradeVisitorToContact(r) \/ Override(r)
           \/ Registered(r) \/ Register(r) \/ Verify(r) \/ Activate(r) \/ Logout(r) \/ Toggle(r) \/ Edit(r)

ContactsNext == \E r \in Requests : Step(r)
ContactsSpec == ContactsInit /\ [][ContactsNext]_contactsVars

---------------------------------------------------------------------------
Places == {"idle", "auth", "auth visitor", "lock", "move", "commit", "revoke", "allow", "create", "find", "message",
           "clean up", "visitor", "sign", "note", "resolve", "sync", "enrich", "set", "upsert", "get", "reuse",
           "blocked", "known", "insert", "answer", "upgrade", "override", "registered", "register",
           "verify", "activate", "logout", "block", "edit", "done"}
Exts == Persons \union {NoExt}
UserRows == [kind : {"none", "visitor", "contact"}, mail : Mails, lower : BOOLEAN, ext : Exts, on : BOOLEAN,
             version : Nat, portal : BOOLEAN]
Sessions == [user : IdsOrNone, version : Nat, ext : Exts]
MsgRows == [conv : IdsOrNone, sender : IdsOrNone]
Jobs == [kind : Kinds \union {"none"}, token : IdsOrNone, visitorToken : IdsOrNone, conv : IdsOrNone, ext : Exts,
         from : Mails, who : IdsOrNone, visitor : IdsOrNone, version : Nat, seen : Exts,
         convs : SUBSET Ids, msgs : SUBSET Ids, out : SUBSET Ids,
         stranger : BOOLEAN]
ContactsTypeOK ==
  /\ user \in [Ids -> UserRows] /\ session \in [Ids -> Sessions] /\ reverse \in [Ids -> IdsOrNone]
  /\ conv \in [Ids -> IdsOrNone] /\ msg \in [Ids -> MsgRows]
  /\ at \in [Requests -> Places] /\ job \in [Requests -> Jobs]
  /\ pending \subseteq Addresses /\ wronged \subseteq Ids /\ troubles \in 0..MaxTroubles

(* The merge of a visitor loses nothing of what the visitor or the contact *)
(* has written, whatever is being written meanwhile: a conversation        *)
(* disappears only when the request that created it takes it back, and a   *)
(* message only with such a conversation.                                  *)
TakesBack(c) == c \in Requests /\ at[c] = "clean up"
NothingVanishes ==
  [][/\ \A c \in Ids : (conv[c] # NoOne /\ conv'[c] = NoOne) => TakesBack(c)
     /\ \A m \in Ids : (msg[m] # NoMsg /\ msg'[m] = NoMsg) => TakesBack(msg[m].conv)]_contactsVars

(* Every message of a customer lies in a conversation of its sender, and   *)
(* the sender exists, through merges, upgrades, clean-ups, changed         *)
(* addresses and sessions that outlive their user.  Only a stranger's mail *)
(* is threaded into another customer's conversation: it came from an       *)
(* address that the conversation's contact did not have when it was        *)
(* stored, or that contact could not be read.                              *)
Stranger(m) == m \in Requests /\ job[m].stranger
SenderOwns == \A m \in Ids : msg[m] # NoMsg =>
                 /\ conv[msg[m].conv] = msg[m].sender \/ Stranger(m)
                 /\ user[msg[m].sender].kind # "none"

(* A session that was signed for a person acts for the contact of that     *)
(* person: contacts of one address are not taken for one another, unless   *)
(* two exchanges gave their external ids to the same contact at once, of   *)
(* which the second overwrites the first (SetExternalUserID).              *)
PersonsApart == \A t \in Ids : session[t].ext # NoExt =>
                   user[session[t].user].ext = session[t].ext \/ session[t].user \in wronged

(* A customer who was blocked before a request began, and still is, gets   *)
(* nothing stored by it, by chat, ticket or mail, with whatever session    *)
(* and whatever addresses others have.  Mails are kept out only if the     *)
(* customer's address is stored in lower case, and of a customer whose     *)
(* address is written during the request nothing is said.                  *)
BlockedIsSilent ==
  [][\A r \in Requests : (msg[r] = NoMsg /\ msg'[r] # NoMsg) => msg'[r].sender \notin job[r].out]_contactsVars
=============================================================================
