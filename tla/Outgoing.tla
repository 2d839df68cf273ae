------------------------------ MODULE Outgoing ------------------------------
(***************************************************************************)
(* The outgoing message pipeline of internal/conversation/message.go:      *)
(* replies are rows of conversation_messages with status 'pending'; a      *)
(* scanner goroutine selects them on a ticker, records their ids in the    *)
(* map outgoingProcessingMessages and pushes them on a bounded channel;    *)
(* worker goroutines take them from the channel, hand them to the inbox    *)
(* and write 'sent' or 'failed' back.  An agent may retry a failed reply.  *)
(* The process may be stopped (main.go's shutdown sequence) or die at any  *)
(* point; only the rows survive.                                           *)
(***************************************************************************)
EXTENDS Naturals, Sequences, Functions

CONSTANTS
  Messages,    \* ids of outgoing replies
  Human,       \* those written by an agent rather than by the system user
  Workers,     \* MessageSenderWorker goroutines (message.outgoing_queue_workers)
  Requests,    \* retry requests of agents that run concurrently
  QueueCap,    \* message.outgoing_queue_size
  NoMsg,       \* no message
  MaxReasons,  \* bound: retries, lost status writes and crashes per message
  MaxStops     \* bound: shutdowns and crashes of the process

ASSUME OutgoingAssumption ==
  /\ Human \subseteq Messages
  /\ QueueCap \in Nat \ {0}
  /\ NoMsg \notin Messages
  /\ MaxReasons \in Nat
  /\ MaxStops \in Nat

VARIABLES
  status,      \* conversation_messages.status ("none": no such row yet)
  processing,  \* keys of the sync.Map outgoingProcessingMessages
  queue,       \* the channel outgoingMessageQueue
  scan,        \* where the scanner goroutine is
  skip,        \* ids the scanner read from the map before its query
  batch,       \* rows of its query it has not pushed yet
  cur,         \* the row it is pushing
  wpc, wmsg,   \* where each worker is, and the message it holds
  rmsg,        \* the message each retry request has checked
  proc,        \* "up", "signalled" (ctx cancelled), "closing", "down"
  stops,       \* shutdowns and crashes so far
  replied,     \* replies stamped on their conversation (last_reply_at, SLA)
  unstamped,   \* history: stamps lost to an error or to the process's death
  sends,       \* history: times the transport took the message
  reasons      \* history: retries, lost status writes, deaths after a send

scanner == <<scan, skip, batch, cur>>
workers == <<wpc, wmsg>>
process == <<proc, stops>>
stamps  == <<replied, unstamped>>
history == <<sends, reasons>>
vars == <<status, stamps, processing, queue, scanner, workers, rmsg, process, history>>

Statuses == {"none", "pending", "sent", "failed"}
ScanAt   == {"select", "query", "store", "push", "stopped"}
WorkerAt == {"select", "send", "accepted", "refused", "stamp", "release", "exited"}

(* A worker past the transport's answer and before its status update. *)
Answered == {"accepted", "refused"}

TypeOK ==
  /\ status \in [Messages -> Statuses]
  /\ processing \in SUBSET Messages
  /\ queue \in Seq(Messages) /\ Len(queue) <= QueueCap
  /\ scan \in ScanAt
  /\ skip \in SUBSET Messages
  /\ batch \in SUBSET Messages
  /\ cur \in Messages \cup {NoMsg}
  /\ wpc \in [Workers -> WorkerAt]
  /\ wmsg \in [Workers -> Messages \cup {NoMsg}]
  /\ rmsg \in [Requests -> Messages \cup {NoMsg}]
  /\ proc \in {"up", "signalled", "closing", "down"}
  /\ stops \in Nat
  /\ replied \in SUBSET Messages
  /\ unstamped \in SUBSET Messages
  /\ sends \in [Messages -> Nat]
  /\ reasons \in [Messages -> Nat]

Init ==
  /\ status = [m \in Messages |-> "none"]
  /\ processing = {}
  /\ queue = <<>>
  /\ scan = "select"
  /\ skip = {}
  /\ batch = {}
  /\ cur = NoMsg
  /\ wpc = [w \in Workers |-> "select"]
  /\ wmsg = [w \in Workers |-> NoMsg]
  /\ rmsg = [r \in Requests |-> NoMsg]
  /\ proc = "up"
  /\ stops = 0
  /\ replied = {}
  /\ unstamped = {}
  /\ sends = [m \in Messages |-> 0]
  /\ reasons = [m \in Messages |-> 0]

Alive == proc # "down"
Signalled == proc \in {"signalled", "closing"}

(* The transport answered for m and the answer is not stored yet. *)
Unsettled(m) == \E w \in Workers : wpc[w] \in Answered /\ wmsg[w] = m

AddReason(M) ==
  reasons' = [m \in Messages |-> IF m \in M THEN reasons[m] + 1 ELSE reasons[m]]

-----------------------------------------------------------------------------
(* Requests of agents *)

(* QueueReply: InsertMessage stores the reply as pending. *)
QueueReply(m) ==
  /\ Alive
  /\ status[m] = "none"
  /\ status' = [status EXCEPT ![m] = "pending"]
  /\ UNCHANGED <<stamps, processing, queue, scanner, workers, rmsg, process, history>>

(* handleRetryMessage reads the row and refuses unless it is failed ... *)
RetryCheck(r, m) ==
  /\ Alive
  /\ rmsg[r] = NoMsg
  /\ status[m] = "failed"
  /\ rmsg' = [rmsg EXCEPT ![r] = m]
  /\ UNCHANGED <<status, stamps, processing, queue, scanner, workers, process, history>>

(* ... and MarkMessageAsPending then overwrites the status, whatever it is *)
(* by now.                                                                 *)
RetryMark(r) ==
  /\ Alive
  /\ rmsg[r] # NoMsg
  /\ reasons[rmsg[r]] < MaxReasons
  /\ status' = [status EXCEPT ![rmsg[r]] = "pending"]
  /\ AddReason({rmsg[r]})
  /\ rmsg' = [rmsg EXCEPT ![r] = NoMsg]
  /\ UNCHANGED <<stamps, processing, queue, scanner, workers, process, sends>>

(* The database refuses the update: the agent gets an error. *)
RetryFails(r) ==
  /\ Alive
  /\ rmsg[r] # NoMsg
  /\ rmsg' = [rmsg EXCEPT ![r] = NoMsg]
  /\ UNCHANGED <<status, stamps, processing, queue, scanner, workers, process, history>>

-----------------------------------------------------------------------------
(* The scanner: the loop of Run *)

(* The ticker's case: the ids in the map are read first.  The select may   *)
(* choose this case although the context is cancelled.                     *)
ScanTick ==
  /\ Alive
  /\ scan = "select"
  /\ skip' = processing
  /\ scan' = "query"
  /\ UNCHANGED <<status, stamps, processing, queue, batch, cur, workers, rmsg, process,
                 history>>

(* Mutant: the query forgets the ids in flight. *)
ScanQueryForgetsSkip ==
  /\ Alive
  /\ scan = "query"
  /\ batch' = {m \in Messages : status[m] = "pending"}
  /\ scan' = IF batch' = {} THEN "select" ELSE "store"
  /\ skip' = {}
  /\ UNCHANGED <<status, stamps, processing, queue, cur, workers, rmsg, process, history>>

(* get-outgoing-pending-messages. *)
ScanQuery ==
  /\ Alive
  /\ scan = "query"
  /\ batch' = {m \in Messages : status[m] = "pending" /\ m \notin skip}
  /\ scan' = IF batch' = {} THEN "select" ELSE "store"
  /\ skip' = {}
  /\ UNCHANGED <<status, stamps, processing, queue, cur, workers, rmsg, process, history>>

ScanQueryFails ==
  /\ Alive
  /\ scan = "query"
  /\ scan' = "select"
  /\ skip' = {}
  /\ UNCHANGED <<status, stamps, processing, queue, batch, cur, workers, rmsg, process,
                 history>>

(* Mutant: the id is not recorded in the map. *)
ScanStoreForgetsMap(m) ==
  /\ Alive
  /\ scan = "store"
  /\ m \in batch
  /\ batch' = batch \ {m}
  /\ cur' = m
  /\ scan' = "push"
  /\ UNCHANGED <<status, stamps, processing, queue, skip, workers, rmsg, process, history>>

(* Put the id of the next row in the processing map. *)
ScanStore(m) ==
  /\ Alive
  /\ scan = "store"
  /\ m \in batch
  /\ batch' = batch \ {m}
  /\ cur' = m
  /\ processing' = processing \cup {m}
  /\ scan' = "push"
  /\ UNCHANGED <<status, stamps, queue, skip, workers, rmsg, process, history>>

(* Push it, once the channel has room. *)
ScanPush ==
  /\ proc \in {"up", "signalled"}
  /\ scan = "push"
  /\ Len(queue) < QueueCap
  /\ queue' = Append(queue, cur)
  /\ cur' = NoMsg
  /\ scan' = IF batch = {} THEN "select" ELSE "store"
  /\ UNCHANGED <<status, stamps, processing, skip, batch, workers, rmsg, process, history>>

ScanStop ==
  /\ Signalled
  /\ scan = "select"
  /\ scan' = "stopped"
  /\ UNCHANGED <<status, stamps, processing, queue, skip, batch, cur, workers, rmsg,
                 process, history>>

-----------------------------------------------------------------------------
(* The workers: MessageSenderWorker and sendOutgoingMessage *)

(* A closed channel still yields what is buffered. *)
Receive(w) ==
  /\ Alive
  /\ wpc[w] = "select"
  /\ queue # <<>>
  /\ queue' = Tail(queue)
  /\ wmsg' = [wmsg EXCEPT ![w] = Head(queue)]
  /\ wpc' = [wpc EXCEPT ![w] = "send"]
  /\ UNCHANGED <<status, stamps, processing, scanner, rmsg, process, history>>

(* The context is cancelled; or the channel is closed and drained, which   *)
(* is after the cancellation.                                              *)
WorkerExit(w) ==
  /\ Signalled
  /\ wpc[w] = "select"
  /\ wpc' = [wpc EXCEPT ![w] = "exited"]
  /\ UNCHANGED <<status, stamps, processing, queue, scanner, wmsg, rmsg, process, history>>

(* inb.Send returns nil. *)
SendAccepted(w) ==
  /\ Alive
  /\ wpc[w] = "send"
  /\ wpc' = [wpc EXCEPT ![w] = "accepted"]
  /\ sends' = [sends EXCEPT ![wmsg[w]] = @ + 1]
  /\ UNCHANGED <<status, stamps, processing, queue, scanner, wmsg, rmsg, process, reasons>>

(* A live chat visitor who is not connected counts as sent: the widget     *)
(* reads the row later.                                                    *)
SendNotConnected(w) ==
  /\ Alive
  /\ wpc[w] = "send"
  /\ wpc' = [wpc EXCEPT ![w] = "accepted"]
  /\ UNCHANGED <<status, stamps, processing, queue, scanner, wmsg, rmsg, process, history>>

(* No inbox, a template or attachment error, or Send fails; a transport    *)
(* may report a failure after it took the message.                         *)
SendRefused(w) ==
  /\ Alive
  /\ wpc[w] = "send"
  /\ wpc' = [wpc EXCEPT ![w] = "refused"]
  /\ \E taken \in {0, 1} : sends' = [sends EXCEPT ![wmsg[w]] = @ + taken]
  /\ UNCHANGED <<status, stamps, processing, queue, scanner, wmsg, rmsg, process, reasons>>

(* Mutant: once the context is cancelled the record is skipped. *)
NextAfterAnswerInShutdown(w) ==
  IF wpc[w] = "accepted" /\ wmsg[w] \in Human /\ ~Signalled THEN "stamp" ELSE "release"

(* An accepted human reply is then recorded on its conversation. *)
NextAfterAnswer(w) ==
  IF wpc[w] = "accepted" /\ wmsg[w] \in Human THEN "stamp" ELSE "release"

(* UpdateMessageStatus: sent or failed, by the transport's answer. *)
StoreAnswer(w) ==
  /\ Alive
  /\ wpc[w] \in Answered
  /\ status' = [status EXCEPT ![wmsg[w]] =
                  IF wpc[w] = "accepted" THEN "sent" ELSE "failed"]
  /\ wpc' = [wpc EXCEPT ![w] = NextAfterAnswer(w)]
  /\ UNCHANGED <<stamps, processing, queue, scanner, wmsg, rmsg, process, history>>

(* The update fails; sendOutgoingMessage ignores the error. *)
StoreAnswerFails(w) ==
  /\ Alive
  /\ wpc[w] \in Answered
  /\ reasons[wmsg[w]] < MaxReasons
  /\ AddReason({wmsg[w]})
  /\ wpc' = [wpc EXCEPT ![w] = NextAfterAnswer(w)]
  /\ UNCHANGED <<status, stamps, processing, queue, scanner, wmsg, rmsg, process, sends>>

(* The reply timestamps, the next-response SLA event and the automation    *)
(* rules for an outgoing message, as one stamp ...                         *)
StampReply(w) ==
  /\ Alive
  /\ wpc[w] = "stamp"
  /\ replied' = replied \cup {wmsg[w]}
  /\ wpc' = [wpc EXCEPT ![w] = "release"]
  /\ UNCHANGED <<status, unstamped, processing, queue, scanner, wmsg, rmsg, process,
                 history>>

(* ... which is given up when the system user or the conversation cannot   *)
(* be read or the update fails.                                            *)
StampFails(w) ==
  /\ Alive
  /\ wpc[w] = "stamp"
  /\ unstamped' = unstamped \cup {wmsg[w]}
  /\ wpc' = [wpc EXCEPT ![w] = "release"]
  /\ UNCHANGED <<status, replied, processing, queue, scanner, wmsg, rmsg, process,
                 history>>

(* Mutant: the id is deleted from the map only when the update succeeded,  *)
(* that is, not for a failed reply.                                        *)
ReleaseKeepsFailed(w) ==
  /\ Alive
  /\ wpc[w] = "release"
  /\ processing' = IF status[wmsg[w]] = "sent" THEN processing \ {wmsg[w]} ELSE processing
  /\ wmsg' = [wmsg EXCEPT ![w] = NoMsg]
  /\ wpc' = [wpc EXCEPT ![w] = "select"]
  /\ UNCHANGED <<status, stamps, queue, scanner, rmsg, process, history>>

(* The deferred Delete of the id. *)
Release(w) ==
  /\ Alive
  /\ wpc[w] = "release"
  /\ processing' = processing \ {wmsg[w]}
  /\ wmsg' = [wmsg EXCEPT ![w] = NoMsg]
  /\ wpc' = [wpc EXCEPT ![w] = "select"]
  /\ UNCHANGED <<status, stamps, queue, scanner, rmsg, process, history>>

-----------------------------------------------------------------------------
(* The process *)

(* Everything but the rows is gone.  A row is left pending under every     *)
(* answer that was not stored.                                             *)
Die ==
  /\ proc' = "down"
  /\ processing' = {}
  /\ queue' = <<>>
  /\ scan' = "select"
  /\ skip' = {}
  /\ batch' = {}
  /\ cur' = NoMsg
  /\ wpc' = [w \in Workers |-> "select"]
  /\ wmsg' = [w \in Workers |-> NoMsg]
  /\ rmsg' = [r \in Requests |-> NoMsg]
  /\ AddReason({m \in Messages : Unsettled(m)})
  /\ unstamped' = unstamped \cup {wmsg[w] : w \in {v \in Workers : wpc[v] = "stamp"}}
  /\ UNCHANGED <<status, replied, sends>>

Crash ==
  /\ Alive
  /\ stops < MaxStops
  /\ \A m \in Messages : Unsettled(m) => reasons[m] < MaxReasons
  /\ stops' = stops + 1
  /\ Die

(* SIGINT or SIGTERM cancels the context. *)
Signal ==
  /\ proc = "up"
  /\ stops < MaxStops
  /\ stops' = stops + 1
  /\ proc' = "signalled"
  /\ UNCHANGED <<status, stamps, processing, queue, scanner, workers, rmsg, history>>

(* main gets past the Close calls before it (Shutdown says which may       *)
(* block), and Manager.Close closes the channels and waits for the         *)
(* workers ...                                                             *)
CloseQueues ==
  /\ proc = "signalled"
  /\ proc' = "closing"
  /\ UNCHANGED <<status, stamps, processing, queue, scanner, workers, rmsg, stops, history>>

(* ... the scanner is not among those waited for: pushing on the closed    *)
(* channel, it panics.                                                     *)
ScanPanics ==
  /\ proc = "closing"
  /\ scan = "push"
  /\ \A m \in Messages : Unsettled(m) => reasons[m] < MaxReasons
  /\ Die
  /\ UNCHANGED stops

(* main returns. *)
Exit ==
  /\ proc = "closing"
  /\ \A w \in Workers : wpc[w] = "exited"
  /\ Die
  /\ UNCHANGED stops

(* The container is started again (docker-compose: unless-stopped). *)
Restart ==
  /\ proc = "down"
  /\ proc' = "up"
  /\ UNCHANGED <<status, stamps, processing, queue, scanner, workers, rmsg, stops, history>>

-----------------------------------------------------------------------------
Scanner ==
  \/ ScanTick \/ ScanQuery \/ ScanPush \/ ScanStop
  \/ \E m \in Messages : ScanStore(m)

Worker(w) ==
  \/ Receive(w) \/ WorkerExit(w)
  \/ SendAccepted(w) \/ SendNotConnected(w) \/ SendRefused(w)
  \/ StoreAnswer(w) \/ StoreAnswerFails(w)
  \/ StampReply(w) \/ StampFails(w) \/ Release(w)

Request(r) == (\E m \in Messages : RetryCheck(r, m)) \/ RetryMark(r) \/ RetryFails(r)

Next ==
  \/ \E m \in Messages : QueueReply(m)
  \/ \E r \in Requests : Request(r)
  \/ Scanner \/ ScanQueryFails \/ ScanPanics
  \/ \E w \in Workers : Worker(w)
  \/ Crash \/ Signal \/ CloseQueues \/ Exit \/ Restart

Spec == Init /\ [][Next]_vars

(* The Go runtime runs every goroutine that can go on, a channel operation *)
(* that stays possible is performed, transports answer (they have          *)
(* timeouts), the database answers again and again, and a process that     *)
(* ended is started again.  Nothing is assumed of main once it was         *)
(* signalled: the Close calls before and after that of the conversation    *)
(* manager may block for ever (Shutdown, AutomationCloses).                *)
Fairness ==
  /\ WF_vars(ScanTick) /\ WF_vars(ScanPush)
  /\ SF_vars(ScanQuery)
  /\ \A m \in Messages : WF_vars(ScanStore(m))
  /\ \A w \in Workers :
       /\ WF_vars(Receive(w))
       /\ WF_vars(SendAccepted(w) \/ SendNotConnected(w) \/ SendRefused(w))
       /\ WF_vars(StoreAnswer(w))
       /\ WF_vars(StampReply(w))
       /\ WF_vars(Release(w))
       /\ WF_vars(WorkerExit(w))
  /\ WF_vars(ScanPanics) /\ WF_vars(Restart)

FairSpec == Spec /\ Fairness

-----------------------------------------------------------------------------
InQueue == Range(queue)
Held    == {wmsg[w] : w \in Workers} \ {NoMsg}
Pushing == {cur} \ {NoMsg}

(* No reply is handed to the transport by two goroutines at once: a reply  *)
(* is at most once among the scanner's rows, the channel and the workers,  *)
(* although rows in flight keep the status 'pending' the scanner selects.  *)
OneHolder ==
  /\ \A v, w \in Workers : wmsg[v] = wmsg[w] /\ wmsg[v] # NoMsg => v = w
  /\ IsInjective(queue)
  /\ InQueue \cap Held = {}
  /\ Pushing \cap (InQueue \cup Held) = {}
  /\ batch \cap (InQueue \cup Held \cup Pushing) = {}

(* The map records exactly the replies in flight: an id left behind would  *)
(* hide its reply from every later scan, an id missing would let a scan    *)
(* send it twice.                                                          *)
MapIsInFlight == processing = InQueue \cup Held \cup Pushing

(* A reply in flight stays pending in the database until the outcome of    *)
(* its own attempt is stored: no retry, other worker or restart settles it *)
(* meanwhile, and nothing that is 'sent' or 'failed' waits to be sent.     *)
InFlightIsPending ==
  /\ \A m \in batch \cup Pushing \cup InQueue : status[m] = "pending"
  /\ \A w \in Workers :
       wpc[w] \in {"send"} \cup Answered => status[wmsg[w]] = "pending"

(* Together: a reply on its way has one holder, is in the map, and is      *)
(* pending in the database (message.go:85-98, 148).                        *)
Custody == OneHolder /\ MapIsInFlight /\ InFlightIsPending

(* Every delivery after the first is explained by a retry, by a status     *)
(* update the database refused or by a death between the transport's       *)
(* answer and that update: scans, queueing, graceful shutdowns and         *)
(* restarts alone duplicate nothing.                                       *)
DuplicatesExplained == \A m \in Messages : sends[m] <= 1 + reasons[m]

(* A human reply that counts as sent is recorded on its conversation, or   *)
(* its worker is about to, or an error or the end of the process came in   *)
(* between: a shutdown does not skip the record.                           *)
SentIsStamped ==
  \A m \in Human : status[m] = "sent" =>
    \/ m \in replied \cup unstamped
    \/ \E w \in Workers : wmsg[w] = m /\ wpc[w] = "stamp"

(* A stop that hangs: main was signalled and never reaches its end. *)
StopHangs == <>[]Signalled

(* No reply is lost: what is pending is eventually settled, through        *)
(* failed queries, full queues, panics, crashes and every shutdown that    *)
(* comes to an end (message.go:76-112; main.go:343-366).  While a stop     *)
(* hangs scanner and workers have gone, and the reply waits in its row.    *)
EventuallySettled ==
  \/ StopHangs
  \/ \A m \in Messages :
       (status[m] = "pending") ~> (status[m] \in {"sent", "failed"})

(* A reply leaves 'pending' only by the hand of the worker that has the    *)
(* transport's answer for it.                                              *)
SettledByHolder ==
  [][\A m \in Messages :
       status[m] = "pending" /\ status'[m] # "pending" =>
         \E w \in Workers : wmsg[w] = m /\ wpc[w] \in Answered
                            /\ wpc'[w] \in {"stamp", "release"}]_vars

(* The inductive invariant behind the properties above. *)

(* The scanner's variables say the same as its place in the loop, and an   *)
(* id cannot enter the map between its read of the map and its query.      *)
ScannerOK ==
  /\ scan = "query" => processing \subseteq skip
  /\ scan \notin {"store", "push"} => batch = {}
  /\ cur # NoMsg <=> scan = "push"

(* A worker holds a message between receiving it and releasing it. *)
WorkersOK == \A w \in Workers : wmsg[w] = NoMsg <=> wpc[w] \in {"select", "exited"}

(* Only stored replies are answered or retried. *)
OnlyStored ==
  /\ \A w \in Workers : wmsg[w] # NoMsg => status[wmsg[w]] # "none"
  /\ \A r \in Requests : rmsg[r] # NoMsg => status[rmsg[r]] # "none"

(* A reply that waits for its answer has one delivery in reserve. *)
Reserve ==
  \A m \in Messages :
    status[m] \in {"none", "pending"} /\ ~Unsettled(m) => sends[m] <= reasons[m]

IInv ==
  /\ TypeOK /\ OneHolder /\ MapIsInFlight /\ InFlightIsPending
  /\ ScannerOK /\ WorkersOK /\ OnlyStored
  /\ Reserve /\ DuplicatesExplained

-----------------------------------------------------------------------------
(* The pipeline implements Delivery: a reply is attempted while a worker   *)
(* has an answer that is not stored.                                       *)
D == INSTANCE Delivery WITH
       state <- [m \in Messages |-> IF Unsettled(m) THEN "attempted" ELSE status[m]]

Implements == D!DSpec
=============================================================================
