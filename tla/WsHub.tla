------------------------------- MODULE WsHub -------------------------------
(***************************************************************************)
(* The agents' websockets (internal/ws): the hub's registry and its four   *)
(* subscription maps, and of every connection the goroutine that reads     *)
(* (Listen), the one that writes (Serve) and the channel between whoever   *)
(* has something to say and the writer.                                    *)
(***************************************************************************)
EXTENDS Integers, FiniteSets

CONSTANTS Clients,      \* connections
          Pushers,      \* goroutines that broadcast
          Convs, NoConv,
          NoClient,
          SendCap       \* capacity of Client.Send

ASSUME HubAssumption == SendCap \in Nat \ {0} /\ NoConv \notin Convs /\ NoClient \notin Clients

VARIABLES registered,     \* Hub.clients
          clientListSubs, convSubsList,   \* list subscriptions, by client and by conversation
          clientOpenSub, convSubsOpen,    \* the open conversation, by client and by conversation
          conn,           \* the network connection
          listener,       \* where Listen is and what it holds
          writer,         \* where Serve is
          send,           \* messages in Client.Send
          sendClosed,     \* Client.Closed, and Client.Send is closed
          holds,          \* whose sendMu a broadcast holds for reading
          targets,        \* clients a broadcast has still to push to
          hubPanic        \* a goroutine has sent on a closed channel

subsVars == <<clientListSubs, convSubsList, clientOpenSub, convSubsOpen>>
sendVars == <<send, sendClosed, holds, targets, hubPanic>>
hubVars == <<registered, subsVars, conn, listener, writer, sendVars>>

Place(at, next) == [at |-> at, want |-> {}, next |-> next]
Asleep == Place("none", "reading")
Reading == Place("reading", "reading")
Leaving(next) == Place("remove", next)

HubInit == /\ registered = {}
           /\ clientListSubs = [c \in Clients |-> {}] /\ convSubsList = [k \in Convs |-> {}]
           /\ clientOpenSub = [c \in Clients |-> NoConv] /\ convSubsOpen = [k \in Convs |-> {}]
           /\ conn = [c \in Clients |-> "none"]
           /\ listener = [c \in Clients |-> Asleep]
           /\ writer = [c \in Clients |-> "none"]
           /\ send = [c \in Clients |-> 0]
           /\ sendClosed = [c \in Clients |-> FALSE]
           /\ holds = [p \in Pushers |-> NoClient]
           /\ targets = [p \in Pushers |-> {}]
           /\ hubPanic = FALSE

Hears(c, to) == listener' = [listener EXCEPT ![c] = to]
-----------------------------------------------------------------------------
(* handleWS: the connection is registered, and its goroutines start. *)
AddClient(c) == /\ conn[c] = "none"
                /\ conn' = [conn EXCEPT ![c] = "open"]
                /\ registered' = registered \union {c}
                /\ Hears(c, Reading)
                /\ writer' = [writer EXCEPT ![c] = "serving"]
                /\ UNCHANGED <<subsVars, sendVars>>

(* The peer goes away or stays silent, or KickUser closes the connection,  *)
(* registered or just removed.                                             *)
Disconnect(c) == /\ conn[c] = "open"
                 /\ conn' = [conn EXCEPT ![c] = "shut"]
                 /\ UNCHANGED <<registered, subsVars, listener, writer, sendVars>>

(* A message is read; for a subscription, what FilterAuthorizedListUUIDs   *)
(* leaves of it.                                                           *)
ReadMessage(c) ==
    /\ listener[c].at = "reading" /\ conn[c] = "open"
    /\ \/ \E s \in SUBSET Convs : Hears(c, [Reading EXCEPT !.at = "list", !.want = s])
       \/ \E k \in Convs : Hears(c, [Reading EXCEPT !.at = "open", !.want = {k}])
       \/ Hears(c, [Reading EXCEPT !.at = "pong"])
       \/ \E next \in {"reading", "done"} : Hears(c, [Reading EXCEPT !.at = "error", !.next = next])
       \/ Hears(c, Leaving("done"))
    /\ UNCHANGED <<registered, subsVars, conn, writer, sendVars>>

(* Typing, which is passed on to the visitors. *)
ReadTyping(c) == /\ listener[c].at = "reading" /\ conn[c] = "open"
                 /\ Hears(c, [Reading EXCEPT !.at = "typing"])
                 /\ UNCHANGED <<registered, subsVars, conn, writer, sendVars>>
TypingHandled(c) == /\ listener[c].at = "typing"
                    /\ Hears(c, Reading)
                    /\ UNCHANGED <<registered, subsVars, conn, writer, sendVars>>

SubscribeListReplace(c) ==
    /\ listener[c].at = "list"
    /\ clientListSubs' = [clientListSubs EXCEPT ![c] = listener[c].want]
    /\ convSubsList' = [k \in Convs |-> IF k \in listener[c].want THEN convSubsList[k] \union {c}
                                        ELSE convSubsList[k] \ (IF k \in clientListSubs[c] THEN {c} ELSE {})]
    /\ Hears(c, Reading)
    /\ UNCHANGED <<registered, clientOpenSub, convSubsOpen, conn, writer, sendVars>>

SubscribeOpenConv(c) ==
    /\ listener[c].at = "open"
    /\ \E k \in listener[c].want :
         /\ clientOpenSub' = [clientOpenSub EXCEPT ![c] = k]
         /\ convSubsOpen' = [j \in Convs |-> IF j = k THEN convSubsOpen[j] \union {c}
                               ELSE convSubsOpen[j] \ (IF j = clientOpenSub[c] THEN {c} ELSE {})]
    /\ Hears(c, Reading)
    /\ UNCHANGED <<registered, clientListSubs, convSubsList, conn, writer, sendVars>>

(* Mutant: the end of the connection is not noticed. *)
ReadFailsSilently(c) == /\ listener[c].at = "reading" /\ conn[c] = "shut"
                        /\ Hears(c, [Reading EXCEPT !.at = "done"])
                        /\ UNCHANGED <<registered, subsVars, conn, writer, sendVars>>

(* The connection is closed, whoever closed it. *)
ReadFails(c) == /\ listener[c].at = "reading" /\ conn[c] = "shut"
                /\ Hears(c, Leaving("done"))
                /\ UNCHANGED <<registered, subsVars, conn, writer, sendVars>>

(* RemoveClient with ClearClientSubs: at the end, and when an error could  *)
(* not be sent, after which Listen reads on.                               *)
RemoveClient(c) ==
    /\ listener[c].at = "remove"
    /\ registered' = registered \ {c}
    /\ convSubsList' = [k \in Convs |-> convSubsList[k] \ (IF k \in clientListSubs[c] THEN {c} ELSE {})]
    /\ convSubsOpen' = [k \in Convs |-> convSubsOpen[k] \ (IF k = clientOpenSub[c] THEN {c} ELSE {})]
    /\ clientListSubs' = [clientListSubs EXCEPT ![c] = {}]
    /\ clientOpenSub' = [clientOpenSub EXCEPT ![c] = NoConv]
    /\ Hears(c, [listener[c] EXCEPT !.at = "close"])
    /\ UNCHANGED <<conn, writer, sendVars>>

(* Mutant: the channel is closed under nobody's eyes. *)
CloseUnlocked(c) == /\ listener[c].at = "close"
                    /\ sendClosed' = [sendClosed EXCEPT ![c] = TRUE]
                    /\ Hears(c, [Reading EXCEPT !.at = listener[c].next])
                    /\ UNCHANGED <<registered, subsVars, conn, writer, send, holds, targets, hubPanic>>

(* close: once, when nobody holds the send lock. *)
Close(c) == /\ listener[c].at = "close" /\ (sendClosed[c] \/ \A p \in Pushers : holds[p] # c)
            /\ sendClosed' = [sendClosed EXCEPT ![c] = TRUE]
            /\ Hears(c, [Reading EXCEPT !.at = listener[c].next])
            /\ UNCHANGED <<registered, subsVars, conn, writer, send, holds, targets, hubPanic>>
-----------------------------------------------------------------------------
(* enqueue, in two steps: the flag is tested under the send lock ... *)
Grab(p, c) == /\ holds[p] = NoClient /\ ~sendClosed[c]
              /\ holds' = [holds EXCEPT ![p] = c]
Full(c) == send[c] = SendCap
(* ... and the message is sent, or dropped when there is no room. *)
Put(p, c) == /\ holds[p] = c
             /\ hubPanic' = (hubPanic \/ sendClosed[c])
             /\ send' = [send EXCEPT ![c] = IF sendClosed[c] \/ Full(c) THEN @ ELSE @ + 1]
             /\ holds' = [holds EXCEPT ![p] = NoClient]

(* Listen answers: a pong, or an error, which must not get lost.  No other *)
(* goroutine closes the channel: the two steps are one.                    *)
Answer(c) ==
    LET lost == sendClosed[c] \/ Full(c)
    IN /\ listener[c].at \in {"pong", "error"}
       /\ send' = [send EXCEPT ![c] = IF lost THEN @ ELSE @ + 1]
       /\ Hears(c, IF listener[c].at = "error" /\ (lost \/ listener[c].next = "done")
                   THEN Leaving(listener[c].next) ELSE Reading)
       /\ UNCHANGED <<registered, subsVars, conn, writer, sendClosed, holds, targets, hubPanic>>

(* A broadcast to the subscribers of a conversation, or to everybody: the  *)
(* clients are read once, and pushed to one after the other.               *)
Subscribers(k) == convSubsList[k] \union convSubsOpen[k]
Broadcast(p) == /\ targets[p] = {} /\ holds[p] = NoClient
                /\ \E s \in {Subscribers(k) : k \in Convs} \union {registered} :
                     targets' = [targets EXCEPT ![p] = s]
                /\ UNCHANGED <<registered, subsVars, conn, listener, writer, send, sendClosed, holds, hubPanic>>
PushSkipped(p, c) == /\ c \in targets[p] /\ holds[p] = NoClient /\ sendClosed[c]
                     /\ targets' = [targets EXCEPT ![p] = @ \ {c}]
                     /\ UNCHANGED <<registered, subsVars, conn, listener, writer, send, sendClosed, holds, hubPanic>>
PushGrab(p, c) == /\ c \in targets[p] /\ Grab(p, c)
                  /\ UNCHANGED <<registered, subsVars, conn, listener, writer, send, sendClosed, targets, hubPanic>>
PushPut(p, c) == /\ c \in targets[p] /\ Put(p, c)
                 /\ targets' = [targets EXCEPT ![p] = @ \ {c}]
                 /\ UNCHANGED <<registered, subsVars, conn, listener, writer, sendClosed>>
-----------------------------------------------------------------------------
(* Mutant: the connection stays open. *)
LeaveOpen(c) == /\ writer' = [writer EXCEPT ![c] = "done"]
                /\ UNCHANGED conn

(* Serve leaves its loop, and closes the connection behind it: the session *)
(* has expired or was revoked, or a ping could not be written; ...         *)
Leave(c) == /\ writer' = [writer EXCEPT ![c] = "done"]
            /\ conn' = [conn EXCEPT ![c] = "shut"]
ServeEnds(c) == /\ writer[c] = "serving" /\ Leave(c)
                /\ UNCHANGED <<registered, subsVars, listener, sendVars>>

(* ... or the channel is closed and empty; else a message is written,      *)
(* which fails on a closed connection.                                     *)
Write(c) == /\ writer[c] = "serving"
            /\ \/ /\ send[c] > 0
                  /\ send' = [send EXCEPT ![c] = @ - 1]
                  /\ IF conn[c] = "open" THEN UNCHANGED <<writer, conn>> ELSE Leave(c)
               \/ sendClosed[c] /\ send[c] = 0 /\ Leave(c) /\ UNCHANGED send
            /\ UNCHANGED <<registered, subsVars, listener, sendClosed, holds, targets, hubPanic>>

Listen(c) == \/ SubscribeListReplace(c) \/ SubscribeOpenConv(c) \/ ReadFails(c) \/ RemoveClient(c)
             \/ Close(c) \/ Answer(c)
Push(p) == \E c \in Clients : PushSkipped(p, c) \/ PushGrab(p, c) \/ PushPut(p, c)
-----------------------------------------------------------------------------
HubTypeOK == /\ registered \subseteq Clients
             /\ clientListSubs \in [Clients -> SUBSET Convs] /\ convSubsList \in [Convs -> SUBSET Clients]
             /\ clientOpenSub \in [Clients -> Convs \union {NoConv}] /\ convSubsOpen \in [Convs -> SUBSET Clients]
             /\ conn \in [Clients -> {"none", "open", "shut"}]
             /\ listener \in [Clients ->
                  [at : {"none", "reading", "list", "open", "typing", "pong", "error", "remove", "close", "done"},
                   want : SUBSET Convs, next : {"reading", "done"}]]
             /\ writer \in [Clients -> {"none", "serving", "done"}]
             /\ send \in [Clients -> 0..SendCap] /\ sendClosed \in [Clients -> BOOLEAN]
             /\ holds \in [Pushers -> Clients \union {NoClient}]
             /\ targets \in [Pushers -> SUBSET Clients] /\ hubPanic \in BOOLEAN
=============================================================================
