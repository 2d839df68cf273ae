------------------------------ MODULE Sockets ------------------------------
(***************************************************************************)
(* Agents' and visitors' sockets together: what an agent types goes from   *)
(* the goroutine that reads the agent's socket to the contact's            *)
(* connections, and what the contact types from the connection's goroutine *)
(* to the agents subscribed.  Other goroutines take the same steps to push *)
(* replies and updates.                                                    *)
(***************************************************************************)
EXTENDS WsHub, LiveChat

ASSUME SocketsAssumption == Senders = Clients /\ Pushers = Visitors

socketsVars == <<hubVars, chatVars>>
SocketsInit == HubInit /\ ChatInit

(* handleTyping of an agent, unless it is refused: the reader sends. *)
AgentTypes(c) == ReadTyping(c) /\ (SenderGets(c) \/ UNCHANGED chatVars)
AgentTyped(c) == TypingHandled(c) /\ sender[c].at = "idle"

(* handleWidgetTyping: the connection's goroutine broadcasts. *)
VisitorTypes(v) == /\ visitor[v].at = "joined" /\ Moves(v, "typing")
                   /\ Broadcast(v)
                   /\ UNCHANGED <<installed, built, clients, chan, chanClosed, forwarder, sender, chatPanic, down, cut>>
VisitorTyped(v) == /\ visitor[v].at = "typing" /\ targets[v] = {} /\ holds[v] = NoClient
                   /\ Moves(v, "joined")
                   /\ UNCHANGED <<hubVars, installed, built, clients, chan, chanClosed, forwarder, sender, chatPanic, down, cut>>

Agent(c) == \/ (~down /\ AddClient(c)) \/ Disconnect(c) \/ ReadMessage(c) \/ ServeEnds(c)
Visit(v) == \/ Connect(v) \/ Join(v) \/ Depart(v)

(* The goroutines of the connections. *)
Reader(c) == \/ (Listen(c) \/ AgentTyped(c)) /\ UNCHANGED chatVars
             \/ SendOn(c) /\ UNCHANGED hubVars
Handler(v) == \/ Widget(v) /\ UNCHANGED hubVars
              \/ Push(v) /\ UNCHANGED chatVars
              \/ VisitorTyped(v)

SocketsNext ==
    \/ \E c \in Clients : \/ (Agent(c) \/ Write(c)) /\ UNCHANGED chatVars
                          \/ AgentTypes(c) \/ Reader(c)
    \/ \E v \in Visitors : \/ (Visit(v) \/ Forward(v)) /\ UNCHANGED hubVars
                           \/ VisitorTypes(v) \/ Handler(v)
    \/ (CloseInstance \/ InstallInstance \/ ManagerClose) /\ UNCHANGED hubVars
SocketsSpec == SocketsInit /\ [][SocketsNext]_socketsVars

(* They go on; nobody need connect, type or reload.  One that wants a      *)
(* mutex for writing gets it at last: sync.RWMutex lets no new reader in   *)
(* before it.                                                              *)
SocketsFairness ==
    /\ \A c \in Clients : SF_socketsVars(Reader(c)) /\ WF_socketsVars(Write(c) /\ UNCHANGED chatVars)
    /\ \A v \in Visitors : SF_socketsVars(Handler(v)) /\ WF_socketsVars(Forward(v) /\ UNCHANGED hubVars)
SocketsFairSpec == SocketsSpec /\ SocketsFairness
-----------------------------------------------------------------------------
(* The variables have their types. *)
SocketsTypeOK == HubTypeOK /\ ChatTypeOK

(* No goroutine sends on a channel another one has closed, which would end *)
(* the program: neither a broadcast that read the client before it was     *)
(* removed, nor one to a contact during a reload of the inbox.             *)
PushesAreSafe == ~hubPanic /\ ~chatPanic

(* A connection whose goroutine has ended is in no map, although an error  *)
(* that could not be sent removes a client that goes on subscribing; and   *)
(* the maps by client and by conversation never differ.                    *)
GoneIsForgotten ==
    /\ \A c \in Clients, k \in Convs : /\ c \in convSubsList[k] <=> k \in clientListSubs[c]
                                       /\ c \in convSubsOpen[k] <=> k = clientOpenSub[c]
    /\ \A c \in Clients : listener[c].at = "done" =>
         c \notin registered /\ clientListSubs[c] = {} /\ clientOpenSub[c] = NoConv
    /\ \A v \in Visitors : visitor[v].at = "done" =>
         \A i \in Instances : v \notin clients[i]

(* A visitor who has joined the instance that is installed is reached by   *)
(* what is sent to the contact, unless the end of the program has closed   *)
(* the instance since.  One who joins the closed instance is reached.      *)
JoinedIsReached == \A v \in Visitors :
    (visitor[v].at \in {"joined", "typing"} /\ visitor[v].inst = installed /\ v \notin cut)
      => v \in clients[installed] /\ ~chanClosed[v]

(* A connection that is shut, or whose channel was closed on it, ends with *)
(* both its goroutines, and so does the forwarder of a visitor who leaves. *)
EndsAreNoticed ==
    /\ \A c \in Clients : (conn[c] = "shut" \/ sendClosed[c]) ~> (listener[c].at = "done" /\ writer[c] = "done")
    /\ \A v \in Visitors : visitor[v].at = "remove" ~> (visitor[v].at = "done" /\ forwarder[v] # "running")
=============================================================================
