------------------------------ MODULE Incoming ------------------------------
(***************************************************************************)
(* Incoming mail: one reader per IMAP mailbox walks bounded windows of     *)
(* sequence numbers (internal/inbox/channel/email/imap.go) and puts what   *)
(* the database does not know on the incoming queue; workers take it off,  *)
(* thread it into a conversation and insert it                             *)
(* (internal/conversation/message.go).  One mail may lie in several        *)
(* mailboxes; mails arrive, grow too old for the search and are removed    *)
(* while they are read; a poll and a mailbox have budgets; statements      *)
(* fail; an inbox is reloaded and the process dies.                        *)
(***************************************************************************)
EXTENDS Integers, Sequences, FiniteSets

CONSTANTS Readers, Workers,
          Mails, NoMail,
          Parent,       \* what each mail replies to, NoMail when to nothing known
          Ignored,      \* auto-replies, loops, oversized mails, mails of blocked senders
          Malformed,    \* mails whose bodies are refused whenever they are fetched
          Limit, HeadLimit, \* maxIMAPMessagesPerPoll, maxIMAPHeadMessagesPoll
          PollBudget,   \* bodies a poll may fetch: maxIMAPBytesPerPoll, every mail having size one
          Ingress,      \* bodies within the rolling hour or day: reserveIMAPIngress
          QueueCap,     \* capacity of the incoming queue
          MaxTroubles   \* bound: failures, reloads, crashes and mails removed from a mailbox

ASSUME BoundsAssumption == /\ Limit \in Nat \ {0} /\ HeadLimit \in Nat \ {0} /\ QueueCap \in Nat \ {0}
                           /\ PollBudget \in Nat \ {0} /\ Ingress \in Nat \ {0} /\ MaxTroubles \in Nat
ASSUME MailsAssumption == /\ NoMail \notin Mails /\ Ignored \subseteq Mails /\ Malformed \subseteq Mails
                          /\ Parent \in [Mails -> Mails \union {NoMail}]
                          /\ IsFiniteSet(Mails)
ASSUME WorkersAssumption == IsFiniteSet(Workers)

VARIABLES mailbox,        \* the mails of each mailbox, oldest first
          aged,           \* of each mailbox: mails removed, or there since before scan_inbox_since
          spent,          \* of each mailbox: bodies fetched in the rolling hour or day
          reader,         \* of each mailbox: where it is and what it holds
          queue,          \* incomingMessageQueue
          worker,         \* of each worker: where it is and what it holds
          messages,       \* rows of conversation_messages: the mail, its conversation, which copy of it
          conversations,  \* conversations there are
          abandoned,      \* history: conversations a failed clean-up or the end of the process left
          troubles        \* failures, reloads, crashes and removals so far

vars == <<mailbox, aged, spent, reader, queue, worker, messages, conversations, abandoned, troubles>>
dbVars == <<messages, conversations, abandoned>>

Smaller(a, b) == IF a <= b THEN a ELSE b
IsLeast(x, S) == x \in S /\ \A y \in S : x <= y

(* `page` maps the sequence numbers still to be looked at to their mails,  *)
(* `cursor` is where older mails are looked for when the poll is over.     *)
Pages == UNION {[numbers -> Mails] : numbers \in SUBSET (1..Cardinality(Mails))}
Reader == [at : {"idle", "check", "enqueue"}, page : Pages, cursor : Nat, left : 0..PollBudget]
Rest(cursor) == [at |-> "idle", page |-> << >>, cursor |-> cursor, left |-> 0]
Worker == [at : {"idle", "check", "thread", "create", "insert", "rollback"}, mail : Mails \union {NoMail},
           conv : Nat, new : BOOLEAN]
Free == [at |-> "idle", mail |-> NoMail, conv |-> 0, new |-> FALSE]

Init == /\ mailbox = [r \in Readers |-> << >>]
        /\ aged = [r \in Readers |-> {}] /\ spent = [r \in Readers |-> 0]
        /\ reader = [r \in Readers |-> Rest(0)]
        /\ queue = << >>
        /\ worker = [w \in Workers |-> Free]
        /\ messages = {} /\ conversations = {}
        /\ abandoned = {} /\ troubles = 0

Copies(m) == {row \in messages : row.mail = m}
Stored(m) == Copies(m) # {}

Strikes == troubles < MaxTroubles /\ troubles' = troubles + 1

Lies(r, m) == \E i \in DOMAIN mailbox[r] : mailbox[r][i] = m

(* The mail server delivers to a mailbox, and mails are removed there, for *)
(* good.                                                                   *)
Deliver(r, m) == /\ ~Lies(r, m) /\ m \notin aged[r]
                 /\ mailbox' = [mailbox EXCEPT ![r] = Append(@, m)]
                 /\ UNCHANGED <<aged, spent, reader, queue, worker, dbVars, troubles>>
Remove(r, i) == /\ Strikes
                /\ mailbox' = [mailbox EXCEPT ![r] = SubSeq(@, 1, i - 1) \o SubSeq(@, i + 1, Len(@))]
                /\ aged' = [aged EXCEPT ![r] = @ \union {mailbox[r][i]}]
                /\ UNCHANGED <<spent, reader, queue, worker, dbVars>>

(* Time passes: a mail is older than what is searched for (which matters   *)
(* until it is stored), or a body leaves the rolling hour or day.          *)
Age(r, m) == /\ Lies(r, m) /\ m \notin aged[r] /\ ~Stored(m)
             /\ aged' = [aged EXCEPT ![r] = @ \union {m}]
             /\ UNCHANGED <<mailbox, spent, reader, queue, worker, dbVars, troubles>>
Expire(r) == /\ spent[r] > 0
             /\ spent' = [spent EXCEPT ![r] = @ - 1]
             /\ UNCHANGED <<mailbox, aged, reader, queue, worker, dbVars, troubles>>
-----------------------------------------------------------------------------
(* boundedIMAPSearchWindow: the newest mails, and older ones below the     *)
(* cursor, which walks down and starts again below the newest.             *)
Window(num, cursor) ==
    LET limit == Smaller(Limit, num)
        head == Smaller(HeadLimit, limit)
        start == num - head + 1
        room == limit - head
        top == IF cursor = 0 \/ cursor > start - 1 THEN start - 1 ELSE cursor
        low == IF top >= room THEN top - room + 1 ELSE 1
    IN IF room > 0 /\ start > 1
       THEN [set |-> (start..num) \union (low..top), next |-> IF low > 1 THEN low - 1 ELSE start - 1]
       ELSE [set |-> start..num, next |-> 0]

(* processMailbox: select, search the window for mails that are not too    *)
(* old, fetch their headers.  What these show to be ignored is passed over. *)
Poll(r) ==
    /\ reader[r].at = "idle" /\ mailbox[r] # << >>
    /\ LET w == Window(Len(mailbox[r]), reader[r].cursor)
           page == {i \in w.set : mailbox[r][i] \notin Ignored \union aged[r]}
       IN reader' = [reader EXCEPT ![r] =
             IF page = {} THEN Rest(w.next)
             ELSE [at |-> "check", page |-> [i \in page |-> mailbox[r][i]], cursor |-> w.next,
                   left |-> PollBudget]]
    /\ UNCHANGED <<mailbox, aged, spent, queue, worker, dbVars, troubles>>

(* Connecting, searching or fetching the headers fails: the cursor stays. *)
PollFails(r) == /\ reader[r].at = "idle" /\ Strikes
                /\ UNCHANGED <<mailbox, aged, spent, reader, queue, worker, dbVars>>

After(r, n) == DOMAIN reader[r].page \ {n}
GoOn(r, n, left) == [reader[r] EXCEPT !.at = "check", !.left = left,
                                      !.page = [i \in After(r, n) |-> reader[r].page[i]]]

(* Mutant: the next poll starts from the newest mails again. *)
PassOverFromTop(r, n, left) ==
    reader' = [reader EXCEPT ![r] = IF After(r, n) = {} THEN Rest(0) ELSE GoOn(r, n, left)]

(* The next mail of the page; after the last one the poll is over.    *)
PassOver(r, n, left) ==
    reader' = [reader EXCEPT ![r] = IF After(r, n) = {} THEN Rest(@.cursor) ELSE GoOn(r, n, left)]

(* processEnvelope up to MessageExists, and the checks behind it. *)
Check(r, n) ==
    /\ reader[r].at = "check"
    /\ IF Stored(reader[r].page[n]) THEN PassOver(r, n, reader[r].left)
                                    ELSE reader' = [reader EXCEPT ![r].at = "enqueue"]
    /\ UNCHANGED <<mailbox, aged, spent, queue, worker, dbVars, troubles>>

(* One of these statements fails: the page goes on. *)
MailFails(r, n) == /\ reader[r].at = "check" /\ Strikes
                   /\ PassOver(r, n, reader[r].left)
                   /\ UNCHANGED <<mailbox, aged, spent, queue, worker, dbVars>>

(* The budget of the poll is used up: the next one starts here. *)
Exhausted(r, n) == /\ reader[r].at = "enqueue" /\ reader[r].left = 0
                   /\ reader' = [reader EXCEPT ![r] = Rest(n)]
                   /\ UNCHANGED <<mailbox, aged, spent, queue, worker, dbVars, troubles>>

(* The rolling budget is used up: the mail waits, the page goes on. *)
OverIngress(r, n) == /\ reader[r].at = "enqueue" /\ reader[r].left > 0 /\ spent[r] >= Ingress
                     /\ PassOver(r, n, reader[r].left)
                     /\ UNCHANGED <<mailbox, aged, spent, queue, worker, dbVars, troubles>>

(* Both budgets are charged, whatever becomes of the body. *)
Charge(r, n) == /\ reader[r].at = "enqueue" /\ reader[r].left > 0 /\ spent[r] < Ingress
                /\ spent' = [spent EXCEPT ![r] = @ + 1]
                /\ PassOver(r, n, reader[r].left - 1)

(* A mail that finds the queue full is dropped. *)
EnqueueIncoming(m) == queue' = IF Len(queue) < QueueCap THEN Append(queue, m) ELSE queue

(* The body is fetched, unless the mail is gone, and the mail queued,      *)
(* unless the body is refused.  The page goes on in any case.              *)
FetchBody(r, n) ==
    /\ Charge(r, n)
    /\ LET m == reader[r].page[n]
       IN IF Lies(r, m) /\ m \notin Malformed THEN EnqueueIncoming(m) ELSE UNCHANGED queue
    /\ UNCHANGED <<mailbox, aged, worker, dbVars, troubles>>
BodyFails(r, n) == /\ Charge(r, n) /\ Strikes
                   /\ UNCHANGED <<mailbox, aged, queue, worker, dbVars>>

(* The mail the reader is at is the first one left of its page. *)
Number(r, n) == IsLeast(n, DOMAIN reader[r].page)

-----------------------------------------------------------------------------
Set(w, to) == worker' = [worker EXCEPT ![w] = to]

Take(w) == /\ worker[w].at = "idle" /\ queue # << >>
           /\ Set(w, [Free EXCEPT !.at = "check", !.mail = Head(queue)])
           /\ queue' = Tail(queue)
           /\ UNCHANGED <<mailbox, aged, spent, reader, dbVars, troubles>>

(* Mutant: what the reader found out is believed. *)
CheckOnce(w) == /\ worker[w].at = "check"
                /\ Set(w, [worker[w] EXCEPT !.at = "thread"])
                /\ UNCHANGED <<mailbox, aged, spent, reader, queue, dbVars, troubles>>

(* messageExistsBySourceID: the mail has been stored meanwhile. *)
CheckAgain(w) == /\ worker[w].at = "check"
                 /\ Set(w, IF Stored(worker[w].mail) THEN Free ELSE [worker[w] EXCEPT !.at = "thread"])
                 /\ UNCHANGED <<mailbox, aged, spent, reader, queue, dbVars, troubles>>

(* Mutant: a conversation that was found is treated like one just created. *)
ThreadAsNew(w) ==
    /\ worker[w].at = "thread"
    /\ LET found == {row.conv : row \in Copies(Parent[worker[w].mail])}
       IN IF found = {} THEN Set(w, [worker[w] EXCEPT !.at = "create"])
          ELSE \E c \in found : Set(w, [worker[w] EXCEPT !.at = "insert", !.conv = c, !.new = TRUE])
    /\ UNCHANGED <<mailbox, aged, spent, reader, queue, dbVars, troubles>>

(* findOrCreateConversation: the conversation of any mail it refers to ... *)
Thread(w) ==
    /\ worker[w].at = "thread"
    /\ LET found == {row.conv : row \in Copies(Parent[worker[w].mail])}
       IN IF found = {} THEN Set(w, [worker[w] EXCEPT !.at = "create"])
          ELSE \E c \in found : Set(w, [worker[w] EXCEPT !.at = "insert", !.conv = c])
    /\ UNCHANGED <<mailbox, aged, spent, reader, queue, dbVars, troubles>>

(* ... or a new one.  Ids nothing refers to any more are used again here. *)
Unused == {id \in 1..(Cardinality(conversations) + Cardinality(Workers)) :
             id \notin conversations /\ \A w \in Workers : worker[w].conv # id}

Create(w) == /\ worker[w].at = "create"
             /\ \E id \in Unused :
                  /\ IsLeast(id, Unused)
                  /\ conversations' = conversations \union {id}
                  /\ Set(w, [worker[w] EXCEPT !.at = "insert", !.conv = id, !.new = TRUE])
             /\ UNCHANGED <<mailbox, aged, spent, reader, queue, messages, abandoned, troubles>>

(* A statement fails before the message is inserted: the mail is dropped,  *)
(* and found again by a later poll.                                        *)
Drop(w) == /\ worker[w].at \in {"check", "thread", "create"} /\ Strikes
           /\ Set(w, Free)
           /\ UNCHANGED <<mailbox, aged, spent, reader, queue, dbVars>>

Row(m, c) == [mail |-> m, conv |-> c, copy |-> Cardinality(Copies(m)) + 1]
Insert(w) == /\ worker[w].at = "insert" /\ worker[w].conv \in conversations
             /\ messages' = messages \union {Row(worker[w].mail, worker[w].conv)}
             /\ Set(w, Free)
             /\ UNCHANGED <<mailbox, aged, spent, reader, queue, conversations, abandoned, troubles>>

(* The upload of an attachment or the insertion fails; a conversation made *)
(* for this mail is deleted again, ...                                     *)
InsertFails(w) == /\ worker[w].at = "insert" /\ Strikes
                  /\ Set(w, IF worker[w].new THEN [worker[w] EXCEPT !.at = "rollback"] ELSE Free)
                  /\ UNCHANGED <<mailbox, aged, spent, reader, queue, dbVars>>

(* Mutant: what was created stays. *)
RollbackForgotten(w) == /\ worker[w].at = "rollback"
                        /\ Set(w, Free)
                        /\ UNCHANGED <<mailbox, aged, spent, reader, queue, dbVars, troubles>>

Rollback(w) == /\ worker[w].at = "rollback"
               /\ conversations' = conversations \ {worker[w].conv}
               /\ messages' = {row \in messages : row.conv # worker[w].conv}
               /\ Set(w, Free)
               /\ UNCHANGED <<mailbox, aged, spent, reader, queue, abandoned, troubles>>

(* ... or not even that works. *)
RollbackFails(w) == /\ worker[w].at = "rollback"
                    /\ abandoned' = abandoned \union {worker[w].conv}
                    /\ Set(w, Free)
                    /\ UNCHANGED <<mailbox, aged, spent, reader, queue, messages, conversations, troubles>>
-----------------------------------------------------------------------------
(* The inbox is reloaded: a new instance, which knows no cursor and has    *)
(* charged nothing.                                                        *)
Reload(r) == /\ Strikes
             /\ reader' = [reader EXCEPT ![r] = Rest(0)]
             /\ spent' = [spent EXCEPT ![r] = 0]
             /\ UNCHANGED <<mailbox, aged, queue, worker, dbVars>>

(* The process dies and is started again: the queue was in its memory. *)
Crash == /\ Strikes
         /\ reader' = [r \in Readers |-> Rest(0)] /\ spent' = [r \in Readers |-> 0]
         /\ queue' = << >>
         /\ worker' = [w \in Workers |-> Free]
         /\ abandoned' = abandoned \union {worker[w].conv : w \in {v \in Workers : worker[v].new}}
         /\ UNCHANGED <<mailbox, aged, messages, conversations>>

Read(r) == Poll(r) \/ \E n \in DOMAIN reader[r].page :
              Number(r, n) /\ (Check(r, n) \/ Exhausted(r, n) \/ OverIngress(r, n) \/ FetchBody(r, n))
Work(w) == \/ Take(w) \/ CheckAgain(w) \/ Thread(w) \/ Create(w) \/ Insert(w) \/ Rollback(w)
Trouble == \/ \E r \in Readers :
                \/ PollFails(r) \/ Reload(r)
                \/ \E n \in DOMAIN reader[r].page : Number(r, n) /\ (MailFails(r, n) \/ BodyFails(r, n))
           \/ \E w \in Workers : Drop(w) \/ InsertFails(w) \/ RollbackFails(w)
           \/ Crash
Server == \E r \in Readers : \/ \E m \in Mails : Deliver(r, m)
                              \/ \E i \in DOMAIN mailbox[r] : Remove(r, i)
Time == \E r \in Readers : Expire(r) \/ \E m \in Mails : Age(r, m)

Next == Server \/ Time \/ Trouble \/ (\E r \in Readers : Read(r)) \/ (\E w \in Workers : Work(w))
Spec == Init /\ [][Next]_vars

(* Tickers and workers go on; trouble and deliveries need not happen.  As  *)
(* time passes budgets recover and refused mails grow too old.             *)
FairSpec == /\ Spec
            /\ \A r \in Readers : WF_vars(Read(r)) /\ WF_vars(Expire(r)) /\ \A m \in Malformed : WF_vars(Age(r, m))
            /\ \A w \in Workers : WF_vars(Work(w))
-----------------------------------------------------------------------------
(* The variables have their types. *)
TypeOK == /\ mailbox \in [Readers -> Seq(Mails)] /\ aged \in [Readers -> SUBSET Mails]
          /\ spent \in [Readers -> 0..Ingress]
          /\ reader \in [Readers -> Reader]
          /\ queue \in Seq(Mails) /\ Len(queue) <= QueueCap
          /\ worker \in [Workers -> Worker]
          /\ messages \subseteq [mail : Mails, conv : Nat, copy : Nat]
          /\ conversations \subseteq Nat \ {0}
          /\ abandoned \subseteq Nat /\ troubles \in 0..MaxTroubles

Past(m) == {w \in Workers : worker[w].mail = m /\ worker[w].at \in {"thread", "create", "insert"}}

(* A mail that lies in several mailboxes, or is queued again before it is  *)
(* stored, is inserted at most once per worker: only workers that looked   *)
(* for it before the first one inserted it add a copy.  One worker never   *)
(* stores a mail twice.                                                    *)
CopiesBounded == \A m \in Mails : Cardinality(Copies(m)) + Cardinality(Past(m)) <= Cardinality(Workers)

(* What is stored stays: deleting the conversation of a failed mail never  *)
(* takes another mail with it.                                             *)
NothingLost == [][messages \subseteq messages']_vars

(* A conversation without a message is held by the worker that is to fill *)
(* or to delete it, or a failed deletion or the end of the process left it. *)
EmptyExplained == \A c \in conversations : \/ \E row \in messages : row.conv = c
                                           \/ \E w \in Workers : worker[w].conv = c
                                           \/ c \in abandoned

(* Every mail is stored in the end, unless it is to be ignored, its body   *)
(* is refused, it is removed, or it has grown too old to be searched for:  *)
(* full queues, used-up budgets, failures and restarts delay it, and so do *)
(* refused mails, which are charged at every poll until they are too old.  *)
Found(r, m) == Lies(r, m) /\ m \notin aged[r]
MailArrives == \A r \in Readers, m \in Mails \ (Ignored \union Malformed) :
    Found(r, m) ~> (Stored(m) \/ ~Found(r, m))
=============================================================================
