------------------------------ MODULE LiveChat ------------------------------
(***************************************************************************)
(* The visitors' websockets: one contact's connections (handleWidgetWS in  *)
(* cmd/widget_ws.go) and the instances of one live chat inbox              *)
(* (internal/inbox/channel/livechat), each with a map of the connections   *)
(* that joined it.  A reload closes the instance and installs another one; *)
(* a connection keeps the instance it joined.  The end of the program      *)
(* closes the instance where it is, while hijacked connections live on.    *)
(***************************************************************************)
EXTENDS Integers, FiniteSets

CONSTANTS Visitors,     \* connections of the contact
          Senders,      \* goroutines that send to it
          MaxInstances, \* bound: instances built
          MaxConnections, \* MaxConnectionsPerUser
          ChanCap,      \* capacity of a client's channel
          None

ASSUME ChatAssumption == /\ MaxInstances \in Nat \ {0}
                         /\ MaxConnections \in Nat \ {0} /\ ChanCap \in Nat \ {0}
                         /\ None \notin Visitors

VARIABLES installed,    \* the instance the inbox manager holds, 0 during a reload
          built,        \* instances built so far
          clients,      \* of each instance: the connections in its map
          visitor,      \* where the goroutine of a connection is, and its instance
          chan,         \* messages in the connection's channel
          chanClosed,   \* the channel is closed and marked so
          forwarder,    \* the goroutine that writes the channel to the connection
          sender,       \* of each sender: where it is, whose map it reads, what is left
          chatPanic,    \* a goroutine has sent on a closed channel
          down,         \* the HTTP server and the inboxes are closed
          cut           \* history: connections whose channels that has closed

(* The instances, in the order they are built. *)
Instances == 1..MaxInstances

chatVars == <<installed, built, clients, visitor, chan, chanClosed, forwarder, sender, chatPanic, down, cut>>

Stranger == [at |-> "none", inst |-> 0]
Silent == [at |-> "idle", inst |-> 0, todo |-> {}, now |-> None]

ChatInit == /\ installed = 1 /\ built = 1
            /\ clients = [i \in Instances |-> {}]
            /\ visitor = [v \in Visitors |-> Stranger]
            /\ chan = [v \in Visitors |-> 0]
            /\ chanClosed = [v \in Visitors |-> FALSE]
            /\ forwarder = [v \in Visitors |-> "none"]
            /\ sender = [s \in Senders |-> Silent]
            /\ chatPanic = FALSE /\ down = FALSE /\ cut = {}

(* clientsMutex of an instance: senders hold it for reading. *)
Unread(i) == \A s \in Senders : sender[s].at \in {"idle", "got"} \/ sender[s].inst # i
Moves(v, place) == visitor' = [visitor EXCEPT ![v].at = place]
-----------------------------------------------------------------------------
Connect(v) == /\ visitor[v].at = "none" /\ ~down
              /\ Moves(v, "open")
              /\ UNCHANGED <<installed, built, clients, chan, chanClosed, forwarder, sender, chatPanic, down, cut>>

(* handleInboxJoin: the session is validated, the instance looked up, ... *)
Join(v) == /\ visitor[v].at = "open"
           /\ visitor' = [visitor EXCEPT ![v] = IF installed = 0 THEN [@ EXCEPT !.at = "done"]
                                                ELSE [at |-> "join", inst |-> installed]]
           /\ UNCHANGED <<installed, built, clients, chan, chanClosed, forwarder, sender, chatPanic, down, cut>>

(* ... the connection added to it, unless there are too many, ... *)
AddVisitor(v) ==
    LET i == visitor[v].inst
    IN /\ visitor[v].at = "join" /\ Unread(i)
       /\ IF Cardinality(clients[i]) < MaxConnections
          THEN clients' = [clients EXCEPT ![i] = @ \union {v}] /\ Moves(v, "greet")
          ELSE UNCHANGED clients /\ Moves(v, "done")
       /\ UNCHANGED <<installed, built, chan, chanClosed, forwarder, sender, chatPanic, down, cut>>

(* ... and the answer written, which may fail; then the forwarder starts. *)
Greet(v) == /\ visitor[v].at = "greet"
            /\ \/ Moves(v, "joined") /\ forwarder' = [forwarder EXCEPT ![v] = "running"]
               \/ Moves(v, "remove") /\ UNCHANGED forwarder
            /\ UNCHANGED <<installed, built, clients, chan, chanClosed, sender, chatPanic, down, cut>>

(* The connection ends: its peer leaves, a limit is exceeded, or the       *)
(* session is found revoked.                                               *)
Depart(v) == /\ visitor[v].at \in {"open", "joined"}
             /\ Moves(v, IF visitor[v].at = "open" THEN "done" ELSE "remove")
             /\ UNCHANGED <<installed, built, clients, chan, chanClosed, forwarder, sender, chatPanic, down, cut>>

RemoveVisitor(v) ==
    LET i == visitor[v].inst
    IN /\ visitor[v].at = "remove" /\ Unread(i)
       /\ clients' = [clients EXCEPT ![i] = @ \ {v}]
       /\ Moves(v, "close")
       /\ UNCHANGED <<installed, built, chan, chanClosed, forwarder, sender, chatPanic, down, cut>>

CloseChannel(v) == /\ visitor[v].at = "close"
                   /\ chanClosed' = [chanClosed EXCEPT ![v] = TRUE]
                   /\ Moves(v, "done")
                   /\ UNCHANGED <<installed, built, clients, chan, forwarder, sender, chatPanic, down, cut>>

(* The forwarder writes, fails to, or finds the channel closed and empty. *)
Forward(v) == /\ forwarder[v] = "running"
              /\ \/ /\ chan[v] > 0
                    /\ chan' = [chan EXCEPT ![v] = @ - 1]
                    /\ \/ visitor[v].at = "joined" /\ UNCHANGED forwarder
                       \/ forwarder' = [forwarder EXCEPT ![v] = "done"]
                 \/ /\ chanClosed[v] /\ chan[v] = 0
                    /\ forwarder' = [forwarder EXCEPT ![v] = "done"]
                    /\ UNCHANGED chan
              /\ UNCHANGED <<installed, built, clients, visitor, chanClosed, sender, chatPanic, down, cut>>
-----------------------------------------------------------------------------
(* LiveChat.Close: every channel of the map is closed, and the map emptied. *)
Empty == /\ installed # 0 /\ Unread(installed)
         /\ chanClosed' = [v \in Visitors |-> chanClosed[v] \/ v \in clients[installed]]
         /\ clients' = [clients EXCEPT ![installed] = {}]

(* Mutant: the closed instance is not deleted from the manager's map. *)
CloseUndeleted == /\ Empty /\ ~down /\ built < MaxInstances
                  /\ UNCHANGED <<installed, built, visitor, chan, forwarder, sender, chatPanic, down, cut>>

(* A reload closes the instance and deletes it.  Then another one is       *)
(* installed, or none when the inbox is disabled.                          *)
CloseInstance == /\ Empty /\ ~down /\ built < MaxInstances
                 /\ installed' = 0
                 /\ UNCHANGED <<built, visitor, chan, forwarder, sender, chatPanic, down, cut>>
InstallInstance == /\ installed = 0
                   /\ built' = built + 1 /\ installed' = built'
                   /\ UNCHANGED <<clients, visitor, chan, chanClosed, forwarder, sender, chatPanic, down, cut>>

(* Manager.Close, when the HTTP server has waited for its requests: the    *)
(* instance is closed and stays where it is.                               *)
ManagerClose == /\ Empty /\ ~down
                /\ down' = TRUE /\ cut' = cut \union clients[installed]
                /\ UNCHANGED <<installed, built, visitor, chan, forwarder, sender, chatPanic>>
-----------------------------------------------------------------------------
(* A reply, a message, an update or typing for the contact: the instance   *)
(* is looked up, ...                                                       *)
SenderGets(s) == /\ sender[s].at = "idle" /\ installed # 0
                 /\ sender' = [sender EXCEPT ![s] = [Silent EXCEPT !.at = "got", !.inst = installed]]
                 /\ UNCHANGED <<installed, built, clients, visitor, chan, chanClosed, forwarder, chatPanic, down, cut>>

(* ... its map read under the lock, ... *)
SenderLocks(s) ==
    /\ sender[s].at = "got"
    /\ sender' = [sender EXCEPT ![s] = IF clients[sender[s].inst] = {} THEN Silent
                                       ELSE [@ EXCEPT !.at = "look", !.todo = clients[sender[s].inst]]]
    /\ UNCHANGED <<installed, built, clients, visitor, chan, chanClosed, forwarder, chatPanic, down, cut>>

(* ... and each open channel is sent to. *)
Passed(s, v) == IF sender[s].todo = {v} THEN Silent
                ELSE [sender[s] EXCEPT !.at = "look", !.todo = sender[s].todo \ {v}, !.now = None]
SenderLooks(s) ==
    /\ sender[s].at = "look"
    /\ \E v \in sender[s].todo :
         sender' = [sender EXCEPT ![s] = IF chanClosed[v] THEN Passed(s, v)
                                         ELSE [@ EXCEPT !.at = "push", !.now = v]]
    /\ UNCHANGED <<installed, built, clients, visitor, chan, chanClosed, forwarder, chatPanic, down, cut>>
SenderPushes(s) ==
    LET v == sender[s].now
    IN /\ sender[s].at = "push"
       /\ chatPanic' = (chatPanic \/ chanClosed[v])
       /\ chan' = [chan EXCEPT ![v] = IF chanClosed[v] \/ @ = ChanCap THEN @ ELSE @ + 1]
       /\ sender' = [sender EXCEPT ![s] = Passed(s, v)]
       /\ UNCHANGED <<installed, built, clients, visitor, chanClosed, forwarder, down, cut>>

Widget(v) == AddVisitor(v) \/ Greet(v) \/ RemoveVisitor(v) \/ CloseChannel(v)
SendOn(s) == SenderLocks(s) \/ SenderLooks(s) \/ SenderPushes(s)
-----------------------------------------------------------------------------
ChatTypeOK == /\ built \in Instances /\ installed \in Instances \union {0}
              /\ clients \in [Instances -> SUBSET Visitors]
              /\ visitor \in [Visitors -> [at : {"none", "open", "join", "greet", "joined", "typing", "remove", "close", "done"},
                                           inst : Instances \union {0}]]
              /\ chan \in [Visitors -> 0..ChanCap] /\ chanClosed \in [Visitors -> BOOLEAN]
              /\ forwarder \in [Visitors -> {"none", "running", "done"}]
              /\ sender \in [Senders -> [at : {"idle", "got", "look", "push"}, inst : Instances \union {0},
                                         todo : SUBSET Visitors, now : Visitors \union {None}]]
              /\ chatPanic \in BOOLEAN /\ down \in BOOLEAN /\ cut \subseteq Visitors
=============================================================================
