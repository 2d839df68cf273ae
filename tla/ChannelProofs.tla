--------------------------- MODULE ChannelProofs ---------------------------
(***************************************************************************)
(* Proofs about the channels that are closed while others send on them,    *)
(* for any instance.  Shutdown: no caller that goes through the lock       *)
(* panics, and what main has closed stays quiet.  Sockets: neither an      *)
(* agent's nor a visitor's channel is sent on after it is closed, who is   *)
(* gone is in no map, and who joined is reached.                           *)
(***************************************************************************)
EXTENDS Shutdown, Sockets, TLAPS

-----------------------------------------------------------------------------
(* Shutdown *)

(* Who calls is inside the lock of the component it calls, ... *)
CallersOK ==
  \A g \in Goroutines :
    /\ pc[g] \in {"want", "in", "push"} => callee[g] \in Pools
    /\ pc[g] \in {"in", "push"} => g \in readers[callee[g]]
    /\ pc[g] = "push" => callee[g] \notin closed

(* ... into which nobody comes while Close has it. *)
LocksOK == \A c \in Components : holder[c] # Nobody => readers[c] = {}

(* A Close under way has the lock of the component it closes. *)
ClosersOK ==
  \A k \in Closers : closing[k] \in {"locked", "wait"} =>
    /\ Target(k) \in Components
    /\ holder[Target(k)] = k
    /\ k = "main" => stage \in 1..Len(Order)
    /\ closing[k] = "wait" => Target(k) \in closed

(* A component is closed and idle, or a Close waits for it to be idle. *)
ClosedOK ==
  \A c \in closed : Idle(c) \/ \E k \in Closers : closing[k] = "wait" /\ Target(k) = c

IInv == /\ TypeOK /\ CallersOK /\ LocksOK /\ ClosersOK /\ ClosedOK
        /\ CallersNeverPanic /\ ClosedIsQuiet

-----------------------------------------------------------------------------
(* main closes components that are there, one of them at each stage. *)
LEMMA OrderOK ==
  /\ Len(Order) \in Nat
  /\ \A i \in 1..Len(Order) : Order[i] \in Components
<1>1. \A c : Present(c) \in Seq(Components)
  BY DEF Present
<1>2. Order \in Seq(Components)
  BY <1>1 DEF Order
<1> QED
  BY <1>2

LEMMA TargetOK ==
  ASSUME NEW k \in Closers, k = "main" => stage \in 1..Len(Order)
  PROVE  Target(k) \in Components
BY OrderOK DEF Target, Closers, Components

LEMMA NobodyCloses == Nobody \notin Closers
BY DEF Nobody, Closers

LEMMA InitIInv == Init => IInv
<1> SUFFICES ASSUME Init PROVE IInv
  OBVIOUS
<1>1. TypeOK
  <2>1. 0 \in 0..(Len(Order) + 1) /\ 0 \in 0..Cap /\ 0 \in 0..MaxCalls
    BY OrderOK, ShutdownAssumption
  <2>2. closing \in [Closers -> {"before", "locked", "wait", "after"}] /\ closed \in SUBSET Components
    BY DEF Init
  <2>3. /\ holder \in [Components -> Closers \cup {Nobody}]
        /\ readers \in [Components -> SUBSET Goroutines]
    BY DEF Init
  <2>4. queue \in [Pools -> 0..Cap] /\ pc \in [Goroutines -> At] /\ callee \in [Goroutines -> Pools \cup {Nobody}]
    BY <2>1 DEF Init, At
  <2> QED
    BY <2>1, <2>2, <2>3, <2>4 DEF Init, TypeOK
<1> QED
  BY <1>1 DEF Init, IInv, CallersOK, LocksOK, ClosersOK, ClosedOK, CallersNeverPanic,
              ClosedIsQuiet

-----------------------------------------------------------------------------
(* A step of goroutines that wakes none that has exited and neither closes *)
(* nor opens a lock to Close.                                              *)
LEMMA WorkIInv ==
  ASSUME IInv, TypeOK', CallersOK', LocksOK', panics' = panics,
         UNCHANGED <<cancelled, stage, closing, closed, holder>>,
         \A g \in Goroutines : pc[g] = "exited" => pc'[g] = "exited"
  PROVE  IInv'
<1>1. \A k : Target(k)' = Target(k)
  BY DEF Target
<1>2. \A c : Idle(c) => Idle(c)'
  BY DEF Idle
<1>3. ClosersOK' /\ ClosedOK'
  BY <1>1, <1>2 DEF IInv, ClosersOK, ClosedOK
<1>4. CallersNeverPanic' /\ ClosedIsQuiet'
  BY <1>2 DEF IInv, CallersNeverPanic, ClosedIsQuiet
<1> QED
  BY <1>3, <1>4 DEF IInv

(* A goroutine that moves outside every lock. *)
LEMMA MoveIInv ==
  ASSUME IInv, NEW g \in Goroutines, NEW at \in {"select", "busy", "lock", "exited"},
         pc' = [pc EXCEPT ![g] = at], pc[g] \in {"select", "busy", "lock"},
         queue' \in [Pools -> 0..Cap],
         UNCHANGED <<cancelled, stage, closing, closed, holder, readers, callee, calls, ticker,
                     panics>>
  PROVE  IInv'
<1>1. TypeOK'
  BY DEF IInv, TypeOK, At
<1>2. CallersOK' /\ LocksOK'
  BY DEF IInv, TypeOK, CallersOK, LocksOK
<1> QED
  BY <1>1, <1>2, WorkIInv DEF IInv, TypeOK

LEMMA GoroutineIInv ==
  ASSUME IInv, NEW g \in Goroutines,
         Receive(g) \/ AssignerReads(g) \/ Finish(g) \/ WorkerExit(g) \/ Arrive(g) \/ AssignerTick(g)
  PROVE  IInv'
<1>1. CASE Receive(g)
  <2>1. Owner(g) \in Pools
    BY <1>1 DEF Receive, PoolWorkers, Owner
  <2> DEFINE p == Owner(g)
  <2>2. p \in Pools /\ queue \in [Pools -> 0..Cap] /\ queue[p] > 0 /\ queue' = [queue EXCEPT ![p] = @ - 1]
    BY <1>1, <2>1 DEF Receive, IInv, TypeOK
  <2> HIDE DEF p
  <2>3. queue[p] - 1 \in 0..Cap
    BY <2>2, ShutdownAssumption
  <2>4. queue' \in [Pools -> 0..Cap]
    BY <2>2, <2>3
  <2> QED
    BY <1>1, <2>4, MoveIInv DEF Receive
<1>2. CASE AssignerReads(g)
  BY <1>2, MoveIInv DEF AssignerReads, IInv, TypeOK
<1>3. CASE Finish(g)
  BY <1>3, MoveIInv DEF Finish, IInv, TypeOK
<1>4. CASE WorkerExit(g)
  BY <1>4, MoveIInv DEF WorkerExit, IInv, TypeOK
<1>5. CASE Arrive(g)
  BY <1>5, MoveIInv DEF Arrive, IInv, TypeOK
<1>6. CASE AssignerTick(g)
  BY <1>6, MoveIInv DEF AssignerTick, IInv, TypeOK
<1> QED
  BY <1>1, <1>2, <1>3, <1>4, <1>5, <1>6

LEMMA CallIInv ==
  ASSUME IInv, NEW g \in Goroutines, NEW p \in Pools, Call(g, p)
  PROVE  IInv'
<1> USE DEF Call
<1>1. TypeOK'
  BY ShutdownAssumption DEF IInv, TypeOK, At
<1>2. CallersOK' /\ LocksOK'
  BY DEF IInv, TypeOK, CallersOK, LocksOK
<1> QED
  BY <1>1, <1>2, WorkIInv DEF IInv, TypeOK

LEMMA CallLocksIInv ==
  ASSUME IInv, NEW g \in Goroutines, CallLocks(g)
  PROVE  IInv'
<1> USE DEF CallLocks
<1>1. callee[g] \in Components
  BY DEF IInv, CallersOK, Components
<1>2. TypeOK'
  BY <1>1 DEF IInv, TypeOK, At
<1>3. CallersOK'
  <2>1. \A h \in Goroutines : h # g /\ pc[h] \in {"in", "push"} =>
          callee[h] \in Components /\ h \in readers[callee[h]]
    BY DEF IInv, CallersOK, Components
  <2>2. \A h \in Goroutines : h # g /\ pc[h] \in {"in", "push"} => h \in readers'[callee[h]]
    BY <1>1, <2>1 DEF IInv, TypeOK
  <2>3. g \in readers'[callee[g]]
    BY <1>1 DEF IInv, TypeOK
  <2> QED
    BY <2>2, <2>3 DEF IInv, TypeOK, CallersOK
<1>4. LocksOK'
  BY <1>1 DEF IInv, TypeOK, LocksOK
<1> QED
  BY <1>2, <1>3, <1>4, WorkIInv DEF IInv, TypeOK

(* A call that returns lets go of one lock only. *)
LEMMA UnlockIInv ==
  ASSUME IInv, NEW g \in Goroutines, pc[g] \in {"in", "push"}, Unlock(g),
         queue' \in [Pools -> 0..Cap],
         UNCHANGED <<cancelled, stage, closing, closed, holder, calls, ticker, panics>>
  PROVE  IInv'
<1> USE DEF Unlock
<1>1. callee[g] \in Components
  BY DEF IInv, CallersOK, Components
<1>2. TypeOK'
  BY <1>1 DEF IInv, TypeOK, At
<1>3. CallersOK'
  <2>1. \A h \in Goroutines : h # g /\ pc[h] \in {"in", "push"} =>
          callee[h] \in Components /\ h \in readers[callee[h]]
    BY DEF IInv, CallersOK, Components
  <2>2. \A h \in Goroutines : h # g /\ pc[h] \in {"in", "push"} => h \in readers'[callee[h]]
    BY <1>1, <2>1 DEF IInv, TypeOK
  <2> QED
    BY <2>2 DEF IInv, TypeOK, CallersOK
<1>4. LocksOK'
  BY <1>1 DEF IInv, TypeOK, LocksOK
<1> QED
  BY <1>2, <1>3, <1>4, WorkIInv DEF IInv, TypeOK

LEMMA CallChecksIInv ==
  ASSUME IInv, NEW g \in Goroutines, CallChecks(g)
  PROVE  IInv'
<1>1. CASE callee[g] \in closed
  BY <1>1, UnlockIInv DEF CallChecks, IInv, TypeOK
<1>2. CASE callee[g] \notin closed
  <2> USE <1>2 DEF CallChecks
  <2>1. TypeOK'
    BY DEF IInv, TypeOK, At
  <2>2. CallersOK' /\ LocksOK'
    BY DEF IInv, TypeOK, CallersOK, LocksOK
  <2> QED
    BY <2>1, <2>2, WorkIInv DEF IInv, TypeOK
<1> QED
  BY <1>1, <1>2

(* A caller that found the flag down pushes on an open channel: the flag   *)
(* cannot go up while the caller is inside the lock.                       *)
LEMMA CallPushesIInv ==
  ASSUME IInv, NEW g \in Goroutines, CallPushes(g)
  PROVE  IInv'
<1>1. callee[g] \in Pools /\ callee[g] \notin closed
  BY DEF CallPushes, IInv, CallersOK
<1>2. queue' \in [Pools -> 0..Cap]
  BY <1>1, ShutdownAssumption DEF CallPushes, IInv, TypeOK
<1> QED
  BY <1>1, <1>2, UnlockIInv DEF CallPushes

(* The loop of automation's Run, the signal and the end of the HTTP server *)
(* touch no lock.                                                          *)
LEMMA AsideIInv ==
  ASSUME IInv, TypeOK', stage' \in {stage, 1}, stage' # stage => stage = 0,
         UNCHANGED <<closing, closed, holder, readers, pc, callee, panics>>
  PROVE  IInv'
<1>1. CallersOK' /\ LocksOK' /\ CallersNeverPanic'
  BY DEF IInv, CallersOK, LocksOK, CallersNeverPanic
<1>2. \A k \in Closers : closing[k] \in {"locked", "wait"} =>
        Target(k)' = Target(k) /\ (k = "main" => stage' = stage)
  BY DEF IInv, ClosersOK, Target
<1>3. \A c : Idle(c)' <=> Idle(c)
  BY DEF Idle
<1>4. ClosersOK' /\ ClosedOK'
  BY <1>2, <1>3 DEF IInv, ClosersOK, ClosedOK
<1>5. ClosedIsQuiet'
  BY <1>3 DEF IInv, TypeOK, ClosedIsQuiet
<1> QED
  BY <1>1, <1>4, <1>5 DEF IInv

LEMMA OthersIInv ==
  ASSUME IInv, TickerFires \/ TickerPushes \/ TickerExit \/ Signal \/ HttpStops
  PROVE  IInv'
<1>1. CASE TickerFires \/ TickerExit \/ Signal
  BY <1>1, AsideIInv DEF TickerFires, TickerExit, Signal, IInv, TypeOK
<1>2. CASE TickerPushes
  <2>1. queue' \in [Pools -> 0..Cap]
    <3>1. CASE "automation" \in Pools
      BY <1>2, <3>1, ShutdownAssumption DEF TickerPushes, IInv, TypeOK
    <3>2. CASE "automation" \notin Pools
      BY <1>2, <3>2 DEF TickerPushes, IInv, TypeOK
    <3> QED
      BY <3>1, <3>2
  <2> QED
    BY <1>2, <2>1, AsideIInv DEF TickerPushes, IInv, TypeOK
<1>3. CASE HttpStops
  BY <1>3, OrderOK, AsideIInv DEF HttpStops, IInv, TypeOK
<1> QED
  BY <1>1, <1>2, <1>3

-----------------------------------------------------------------------------
LEMMA CloseLocksIInv ==
  ASSUME IInv, NEW k \in Closers, CloseLocks(k)
  PROVE  IInv'
<1> USE DEF CloseLocks
<1>1. k = "main" => stage \in 1..Len(Order)
  BY OrderOK DEF MayClose, Done, IInv, TypeOK
<1>2. Target(k) \in Components
  BY <1>1, TargetOK
<1>3. \A j : Target(j)' = Target(j)
  BY DEF Target
<1>4. TypeOK'
  BY <1>2 DEF IInv, TypeOK
<1>5. LocksOK' /\ CallersOK' /\ CallersNeverPanic'
  BY <1>2 DEF IInv, TypeOK, LocksOK, CallersOK, CallersNeverPanic
<1>6. ClosersOK'
  <2>1. \A j \in Closers : j # k /\ closing[j] \in {"locked", "wait"} => Target(j) # Target(k)
    BY NobodyCloses DEF IInv, ClosersOK
  <2> QED
    BY <1>1, <1>2, <1>3, <2>1 DEF IInv, TypeOK, ClosersOK
<1>7. \A c : Idle(c)' <=> Idle(c)
  BY DEF Idle
<1>8. ClosedOK' /\ ClosedIsQuiet'
  BY <1>3, <1>7 DEF IInv, TypeOK, ClosedOK, ClosedIsQuiet
<1> QED
  BY <1>4, <1>5, <1>6, <1>8 DEF IInv

(* A Close that returns leaves a component that is closed and idle. *)
LEMMA ReturnIInv ==
  ASSUME IInv, NEW k \in Closers, closing[k] \in {"locked", "wait"},
         Target(k) \in closed, Idle(Target(k)), CloseReturns(k),
         UNCHANGED <<cancelled, closed, readers, queue, pc, callee, calls, ticker, panics>>
  PROVE  IInv'
<1> USE DEF CloseReturns
<1>1. Target(k) \in Components /\ holder[Target(k)] = k /\ (k = "main" => stage \in 1..Len(Order))
  BY DEF IInv, ClosersOK
<1>2. \A j \in Closers : j # k /\ closing[j] \in {"locked", "wait"} => Target(j) # Target(k)
  BY DEF IInv, ClosersOK
<1>3. \A j \in Closers : j # k => Target(j)' = Target(j) /\ closing'[j] = closing[j]
                                  /\ (j = "main" => stage' = stage)
  BY DEF Target, IInv, TypeOK
<1>4. closing'[k] \notin {"locked", "wait"}
  BY DEF IInv, TypeOK
<1>5. TypeOK'
  BY <1>1, OrderOK DEF IInv, TypeOK
<1>6. CallersOK' /\ CallersNeverPanic' /\ LocksOK'
  BY <1>1 DEF IInv, TypeOK, CallersOK, CallersNeverPanic, LocksOK
<1>7. ClosersOK'
  BY <1>1, <1>2, <1>3, <1>4 DEF IInv, TypeOK, ClosersOK
<1>8. \A c : Idle(c)' <=> Idle(c)
  BY DEF Idle
<1>9. ClosedOK'
  <2> SUFFICES ASSUME NEW c \in closed, ~Idle(c)
               PROVE  \E j \in Closers : closing'[j] = "wait" /\ Target(j)' = c
    BY <1>8 DEF ClosedOK
  <2>1. PICK j \in Closers : closing[j] = "wait" /\ Target(j) = c
    BY DEF IInv, ClosedOK
  <2> QED
    BY <1>3, <2>1
<1>10. ClosedIsQuiet'
  <2>1. \A i \in 1..Len(Order) : i < stage' => i < stage \/ (k = "main" /\ i = stage)
    BY <1>1, OrderOK DEF IInv, TypeOK
  <2>2. k = "main" => Target(k) = Order[stage]
    BY DEF Target
  <2> QED
    BY <1>8, <2>1, <2>2 DEF IInv, ClosedIsQuiet
<1> QED
  BY <1>5, <1>6, <1>7, <1>9, <1>10 DEF IInv

LEMMA CloseMarksIInv ==
  ASSUME IInv, NEW k \in Closers, CloseMarks(k)
  PROVE  IInv'
<1>1. /\ closing[k] = "locked" /\ Target(k) \in Components /\ holder[Target(k)] = k
      /\ k = "main" => stage \in 1..Len(Order)
  BY DEF CloseMarks, IInv, ClosersOK
<1>2. CASE Target(k) \in closed
  <2>1. Idle(Target(k))
    <3>1. ~ \E j \in Closers : closing[j] = "wait" /\ Target(j) = Target(k)
      BY <1>1 DEF IInv, ClosersOK
    <3> QED
      BY <1>2, <3>1 DEF IInv, ClosedOK
  <2> QED
    BY <1>1, <1>2, <2>1, ReturnIInv DEF CloseMarks
<1>3. CASE Target(k) \notin closed
  <2> USE <1>3 DEF CloseMarks
  <2>1. \A j : Target(j)' = Target(j)
    BY DEF Target
  <2>2. \A c : Idle(c)' <=> Idle(c)
    BY DEF Idle
  <2>3. readers[Target(k)] = {}
    BY <1>1, NobodyCloses DEF IInv, LocksOK
  <2>4. TypeOK'
    BY <1>1 DEF IInv, TypeOK
  <2>5. CallersOK'
    BY <2>3 DEF IInv, TypeOK, CallersOK
  <2>6. LocksOK' /\ CallersNeverPanic' /\ ClosedIsQuiet'
    BY <2>2 DEF IInv, LocksOK, CallersNeverPanic, ClosedIsQuiet
  <2>7. ClosersOK'
    BY <1>1, <2>1 DEF IInv, TypeOK, ClosersOK
  <2>8. ClosedOK'
    <3>1. closing'[k] = "wait"
      BY DEF IInv, TypeOK
    <3>2. \A j \in Closers : closing[j] = "wait" => closing'[j] = "wait"
      BY <1>1 DEF IInv, TypeOK
    <3> QED
      BY <2>1, <2>2, <3>1, <3>2 DEF IInv, ClosedOK
  <2> QED
    BY <2>4, <2>5, <2>6, <2>7, <2>8 DEF IInv
<1> QED
  BY <1>2, <1>3

LEMMA CloseWaitsIInv ==
  ASSUME IInv, NEW k \in Closers, CloseWaits(k)
  PROVE  IInv'
<1>1. closing[k] = "wait" /\ Target(k) \in closed
  BY DEF CloseWaits, IInv, ClosersOK
<1> QED
  BY <1>1, ReturnIInv DEF CloseWaits

LEMMA StepIInv == IInv /\ [Next]_vars => IInv'
<1> SUFFICES ASSUME IInv, [Next]_vars PROVE IInv'
  OBVIOUS
<1>1. ASSUME NEW g \in Goroutines,
             Goroutine(g) \/ Arrive(g) \/ AssignerTick(g) \/ \E p \in Pools : Call(g, p)
      PROVE  IInv'
  BY <1>1, GoroutineIInv, CallIInv, CallLocksIInv, CallChecksIInv, CallPushesIInv DEF Goroutine
<1>2. CASE TickerFires \/ TickerPushes \/ TickerExit \/ Signal \/ HttpStops
  BY <1>2, OthersIInv
<1>3. ASSUME NEW k \in Closers, Closer(k)
      PROVE  IInv'
  BY <1>3, CloseLocksIInv, CloseMarksIInv, CloseWaitsIInv DEF Closer
<1>4. CASE UNCHANGED vars
  <2>1. TypeOK'
    BY <1>4 DEF vars, IInv, TypeOK
  <2> QED
    BY <1>4, <2>1, AsideIInv DEF vars
<1> QED
  BY <1>1, <1>2, <1>3, <1>4 DEF Next

(* The inductive invariant of goroutines, locks and closers holds. *)
THEOREM Invariance == Spec => []IInv
BY InitIInv, StepIInv, PTL DEF Spec

(* The variables of main, pools and goroutines keep their types. *)
THEOREM TypeCorrect == Spec => []TypeOK
<1>1. IInv => TypeOK
  BY DEF IInv
<1> QED
  BY <1>1, Invariance, PTL

(* No caller of EvaluateConversationUpdateRules, TriggerEvent, Send or     *)
(* EnqueueIncoming ever pushes on a channel that Close has closed.         *)
THEOREM NoCallerPanics == Spec => []CallersNeverPanic
<1>1. IInv => CallersNeverPanic
  BY DEF IInv
<1> QED
  BY <1>1, Invariance, PTL

(* The goroutines of a component that main has closed are gone, although   *)
(* notifier.Run closes the notifier as well.                               *)
THEOREM ClosedStaysQuiet == Spec => []ClosedIsQuiet
<1>1. IInv => ClosedIsQuiet
  BY DEF IInv
<1> QED
  BY <1>1, Invariance, PTL

-----------------------------------------------------------------------------
(* Sockets *)

(* Who holds the send lock of a client found the channel open; a client    *)
(* that is being closed, or whose goroutine has ended, is in no map.       *)
HubOK ==
  /\ \A p \in Pushers : holds[p] # NoClient => ~sendClosed[holds[p]]
  /\ \A c \in Clients : listener[c].at \in {"close", "done"} =>
       c \notin registered /\ clientListSubs[c] = {} /\ clientOpenSub[c] = NoConv

(* The maps by client and by conversation agree. *)
MapsOK ==
  \A c \in Clients, k \in Convs : /\ c \in convSubsList[k] <=> k \in clientListSubs[c]
                                  /\ c \in convSubsOpen[k] <=> k = clientOpenSub[c]

HubIInv == HubTypeOK /\ HubOK /\ MapsOK /\ ~hubPanic

(* The instance that is installed is the last one built. *)
InstancesOK == /\ installed \in {0, built}
               /\ installed = 0 => built < MaxInstances

(* A connection is in no other instance's map than its own, from the time  *)
(* it is added until it is removed, or the instance is closed; and its     *)
(* channel is open while it is in a map.                                   *)
VisitorOK(v) ==
  /\ visitor[v].inst \in 0..built
  /\ visitor[v].at \in {"join", "greet", "joined", "typing", "remove", "close"} => visitor[v].inst # 0
  /\ chanClosed[v] => visitor[v].at \notin {"none", "open", "join"}
  /\ visitor[v].at \in {"greet", "joined", "typing"} /\ visitor[v].inst = installed /\ v \notin cut
       => v \in clients[installed]
  /\ \A i \in Instances : v \in clients[i] =>
       /\ visitor[v].inst = i /\ visitor[v].at \in {"greet", "joined", "typing", "remove"}
       /\ ~chanClosed[v]
VisitorsOK == \A v \in Visitors : VisitorOK(v)

(* What a sender has still to send to is in the map of its instance. *)
SendersOK ==
  \A s \in Senders :
    /\ sender[s].at # "idle" => sender[s].inst \in Instances
    /\ sender[s].at \in {"look", "push"} => sender[s].todo \subseteq clients[sender[s].inst]
    /\ sender[s].at = "push" => sender[s].now \in sender[s].todo

ChatIInv == ChatTypeOK /\ InstancesOK /\ VisitorsOK /\ SendersOK /\ ~chatPanic

SocketsIInv == HubIInv /\ ChatIInv
-----------------------------------------------------------------------------
LEMMA HubInitIInv == HubInit => HubIInv
<1> SUFFICES ASSUME HubInit PROVE HubIInv
  OBVIOUS
<1>1. HubTypeOK
  <2>1. 0 \in 0..SendCap
    BY HubAssumption
  <2>2. Asleep \in [at : {"none", "reading", "list", "open", "typing", "pong", "error", "remove", "close", "done"},
                    want : SUBSET Convs, next : {"reading", "done"}]
    BY DEF Asleep, Place
  <2>3. listener \in [Clients ->
          [at : {"none", "reading", "list", "open", "typing", "pong", "error", "remove", "close", "done"},
           want : SUBSET Convs, next : {"reading", "done"}]]
    BY <2>2 DEF HubInit
  <2> QED
    BY <2>1, <2>3 DEF HubInit, HubTypeOK
<1>2. HubOK /\ MapsOK
  BY HubAssumption DEF HubInit, HubOK, MapsOK, Asleep, Place
<1> QED
  BY <1>1, <1>2 DEF HubIInv, HubInit

LEMMA ChatInitIInv == ChatInit => ChatIInv
<1> SUFFICES ASSUME ChatInit PROVE ChatIInv
  OBVIOUS
<1>1. 1 \in Instances
  BY ChatAssumption DEF Instances
<1>2. ChatTypeOK
  <2>1. 0 \in 0..ChanCap
    BY ChatAssumption
  <2>2. visitor \in [Visitors -> [at : {"none", "open", "join", "greet", "joined", "typing", "remove", "close", "done"},
                                 inst : Instances \union {0}]]
    BY DEF ChatInit, Stranger
  <2>3. sender \in [Senders -> [at : {"idle", "got", "look", "push"}, inst : Instances \union {0},
                               todo : SUBSET Visitors, now : Visitors \union {None}]]
    BY DEF ChatInit, Silent
  <2> QED
    BY <1>1, <2>1, <2>2, <2>3 DEF ChatInit, ChatTypeOK
<1>3. InstancesOK /\ VisitorsOK
  BY <1>1 DEF ChatInit, InstancesOK, VisitorsOK, VisitorOK, Stranger
<1>4. SendersOK
  BY DEF ChatInit, SendersOK, Silent
<1> QED
  BY <1>2, <1>3, <1>4 DEF ChatIInv, ChatInit
-----------------------------------------------------------------------------
(* A step of a connection's reader that touches no map and closes nothing. *)
LEMMA ListenerMoves ==
  ASSUME HubIInv, NEW c \in Clients, NEW to, Hears(c, to),
         to \in [at : {"none", "reading", "list", "open", "typing", "pong", "error", "remove"},
                 want : SUBSET Convs, next : {"reading", "done"}],
         conn' \in [Clients -> {"none", "open", "shut"}],
         writer' \in [Clients -> {"none", "serving", "done"}],
         send' \in [Clients -> 0..SendCap],
         registered' \in SUBSET Clients, registered' \ {c} = registered \ {c},
         UNCHANGED <<subsVars, sendClosed, holds, targets, hubPanic>>
  PROVE  HubIInv'
<1> USE DEF Hears, subsVars
<1>1. HubTypeOK'
  BY DEF HubIInv, HubTypeOK
<1>2. HubOK'
  BY DEF HubIInv, HubTypeOK, HubOK
<1>3. MapsOK'
  BY DEF HubIInv, MapsOK
<1> QED
  BY <1>1, <1>2, <1>3 DEF HubIInv

LEMMA Places ==
  /\ Reading = [at |-> "reading", want |-> {}, next |-> "reading"]
  /\ \A next : Leaving(next) = [at |-> "remove", want |-> {}, next |-> next]
BY DEF Reading, Leaving, Place

LEMMA AddClientHubIInv ==
  ASSUME HubIInv, NEW c \in Clients, AddClient(c)
  PROVE  HubIInv'
BY ListenerMoves, Places DEF AddClient, HubIInv, HubTypeOK, sendVars

LEMMA ReadHubIInv ==
  ASSUME HubIInv, NEW c \in Clients, ReadMessage(c) \/ ReadTyping(c) \/ TypingHandled(c) \/ ReadFails(c)
  PROVE  HubIInv'
<1> DEFINE Reads == [at : {"none", "reading", "list", "open", "typing", "pong", "error", "remove"},
                     want : SUBSET Convs, next : {"reading", "done"}]
<1>1. PICK to : to \in Reads /\ Hears(c, to)
  BY Places DEF ReadMessage, ReadTyping, TypingHandled, ReadFails
<1>2. UNCHANGED <<registered, subsVars, conn, writer, sendVars>>
  BY DEF ReadMessage, ReadTyping, TypingHandled, ReadFails
<1> QED
  BY <1>1, <1>2, ListenerMoves DEF HubIInv, HubTypeOK, sendVars

(* A step that moves no reader and touches no map. *)
LEMMA HubAsideIInv ==
  ASSUME HubIInv,
         conn' \in [Clients -> {"none", "open", "shut"}],
         writer' \in [Clients -> {"none", "serving", "done"}],
         send' \in [Clients -> 0..SendCap],
         targets' \in [Pushers -> SUBSET Clients],
         holds' \in [Pushers -> Clients \union {NoClient}],
         \A p \in Pushers : holds'[p] # NoClient => ~sendClosed[holds'[p]],
         UNCHANGED <<registered, subsVars, listener, sendClosed, hubPanic>>
  PROVE  HubIInv'
<1>1. HubTypeOK'
  BY DEF HubIInv, HubTypeOK, subsVars
<1>2. HubOK' /\ MapsOK'
  BY DEF HubIInv, HubOK, MapsOK, subsVars
<1> QED
  BY <1>1, <1>2 DEF HubIInv

LEMMA WriterHubIInv ==
  ASSUME HubIInv, NEW c \in Clients, Disconnect(c) \/ ServeEnds(c) \/ Write(c)
  PROVE  HubIInv'
<1>1. /\ conn' \in [Clients -> {"none", "open", "shut"}]
      /\ writer' \in [Clients -> {"none", "serving", "done"}]
  BY DEF HubIInv, HubTypeOK, Disconnect, ServeEnds, Write, Leave
<1>2. send' \in [Clients -> 0..SendCap]
  <2>1. CASE send' = send
    BY <2>1 DEF HubIInv, HubTypeOK
  <2>2. CASE send[c] > 0 /\ send' = [send EXCEPT ![c] = @ - 1]
    BY <2>2, HubAssumption DEF HubIInv, HubTypeOK
  <2> QED
    BY <2>1, <2>2 DEF Disconnect, ServeEnds, Write, sendVars
<1>3. UNCHANGED <<registered, subsVars, listener, sendClosed, holds, targets, hubPanic>>
  BY DEF Disconnect, ServeEnds, Write, sendVars
<1> QED
  BY <1>1, <1>2, <1>3, HubAsideIInv DEF HubIInv, HubTypeOK, HubOK

(* A message is put into the channel if there is room. *)
LEMMA PutType ==
  ASSUME HubIInv, NEW c \in Clients, NEW lost \in BOOLEAN, ~lost => ~Full(c),
         send' = [send EXCEPT ![c] = IF lost THEN @ ELSE @ + 1]
  PROVE  send' \in [Clients -> 0..SendCap]
<1>1. CASE lost
  BY <1>1 DEF HubIInv, HubTypeOK
<1>2. CASE ~lost
  <2>1. send[c] \in 0..SendCap /\ send[c] # SendCap
    BY <1>2 DEF HubIInv, HubTypeOK, Full
  <2>2. send[c] + 1 \in 0..SendCap
    BY <2>1, HubAssumption
  <2> QED
    BY <1>2, <2>2 DEF HubIInv, HubTypeOK
<1> QED
  BY <1>1, <1>2

LEMMA AnswerHubIInv ==
  ASSUME HubIInv, NEW c \in Clients, Answer(c)
  PROVE  HubIInv'
<1> DEFINE lost == sendClosed[c] \/ Full(c)
           to == IF listener[c].at = "error" /\ (lost \/ listener[c].next = "done")
                   THEN Leaving(listener[c].next) ELSE Reading
<1>1. /\ send' = [send EXCEPT ![c] = IF lost THEN @ ELSE @ + 1]
      /\ Hears(c, to)
      /\ UNCHANGED <<registered, subsVars, conn, writer, sendClosed, holds, targets, hubPanic>>
  BY DEF Answer
<1>2. send' \in [Clients -> 0..SendCap]
  BY <1>1, PutType
<1>3. to \in [at : {"none", "reading", "list", "open", "typing", "pong", "error", "remove"},
              want : SUBSET Convs, next : {"reading", "done"}]
  BY Places DEF HubIInv, HubTypeOK
<1> HIDE DEF to, lost
<1> QED
  BY <1>1, <1>2, <1>3, ListenerMoves DEF HubIInv, HubTypeOK

(* A broadcast: who grabs a lock finds the channel open, and it stays open *)
(* while the lock is held.                                                 *)
LEMMA BroadcastHubIInv ==
  ASSUME HubIInv, NEW p \in Pushers, Broadcast(p)
  PROVE  HubIInv'
<1>1. \A k \in Convs : Subscribers(k) \subseteq Clients
  BY DEF Subscribers, HubIInv, HubTypeOK
<1>2. targets' \in [Pushers -> SUBSET Clients]
  BY <1>1 DEF Broadcast, HubIInv, HubTypeOK
<1> QED
  BY <1>2, HubAsideIInv DEF Broadcast, HubIInv, HubTypeOK, HubOK

LEMMA PushHubIInv ==
  ASSUME HubIInv, NEW p \in Pushers, Push(p)
  PROVE  HubIInv'
<1>1. PICK c \in Clients : PushSkipped(p, c) \/ PushGrab(p, c) \/ PushPut(p, c)
  BY DEF Push
<1>2. CASE PushSkipped(p, c)
  BY <1>2, HubAsideIInv DEF PushSkipped, HubIInv, HubTypeOK, HubOK
<1>3. CASE PushGrab(p, c)
  BY <1>3, HubAsideIInv DEF PushGrab, Grab, HubIInv, HubTypeOK, HubOK
<1>4. CASE PushPut(p, c)
  <2>1. holds[p] = c /\ ~sendClosed[c]
    BY <1>4, HubAssumption DEF PushPut, Put, HubIInv, HubOK
  <2>2. send' \in [Clients -> 0..SendCap]
    BY <1>4, <2>1, PutType DEF PushPut, Put, Full
  <2>3. UNCHANGED hubPanic
    BY <1>4, <2>1 DEF PushPut, Put, HubIInv, HubTypeOK
  <2> QED
    BY <1>4, <2>2, <2>3, HubAsideIInv DEF PushPut, Put, HubIInv, HubTypeOK, HubOK
<1> QED
  BY <1>1, <1>2, <1>3, <1>4

(* Subscriptions, which change both maps together. *)
LEMMA SubscribeHubIInv ==
  ASSUME HubIInv, NEW c \in Clients, SubscribeListReplace(c) \/ SubscribeOpenConv(c)
  PROVE  HubIInv'
<1>1. CASE SubscribeListReplace(c)
  <2> USE <1>1 DEF SubscribeListReplace, Hears
  <2>1. HubTypeOK'
    BY Places DEF HubIInv, HubTypeOK, sendVars
  <2>2. HubOK'
    BY Places DEF HubIInv, HubTypeOK, HubOK, sendVars
  <2>3. MapsOK'
    BY DEF HubIInv, HubTypeOK, MapsOK
  <2> QED
    BY <2>1, <2>2, <2>3 DEF HubIInv, sendVars
<1>2. CASE SubscribeOpenConv(c)
  <2> USE <1>2 DEF SubscribeOpenConv, Hears
  <2>1. HubTypeOK'
    BY Places DEF HubIInv, HubTypeOK, sendVars
  <2>2. HubOK'
    BY Places DEF HubIInv, HubTypeOK, HubOK, sendVars
  <2>3. MapsOK'
    BY DEF HubIInv, HubTypeOK, MapsOK
  <2> QED
    BY <2>1, <2>2, <2>3 DEF HubIInv, sendVars
<1> QED
  BY <1>1, <1>2

(* RemoveClient takes the client out of every map ... *)
LEMMA RemoveClientHubIInv ==
  ASSUME HubIInv, NEW c \in Clients, RemoveClient(c)
  PROVE  HubIInv'
<1> DEFINE to == [listener[c] EXCEPT !.at = "close"]
<1>1. listener' = [listener EXCEPT ![c] = to] /\ to.at = "close"
  BY DEF RemoveClient, Hears, HubIInv, HubTypeOK
<1>2. to \in [at : {"close"}, want : SUBSET Convs, next : {"reading", "done"}]
  BY DEF HubIInv, HubTypeOK
<1> HIDE DEF to
<1>3. HubTypeOK'
  <2>1. /\ registered' \subseteq Clients
        /\ clientListSubs' \in [Clients -> SUBSET Convs] /\ convSubsList' \in [Convs -> SUBSET Clients]
        /\ clientOpenSub' \in [Clients -> Convs \union {NoConv}] /\ convSubsOpen' \in [Convs -> SUBSET Clients]
    BY DEF RemoveClient, HubIInv, HubTypeOK
  <2>2. listener' \in [Clients ->
          [at : {"none", "reading", "list", "open", "typing", "pong", "error", "remove", "close", "done"},
           want : SUBSET Convs, next : {"reading", "done"}]]
    BY <1>1, <1>2 DEF HubIInv, HubTypeOK
  <2> QED
    BY <2>1, <2>2 DEF RemoveClient, HubIInv, HubTypeOK, sendVars
<1>4. HubOK'
  <2>1. \A d \in Clients : d # c => /\ listener'[d] = listener[d]
                                    /\ d \in registered' <=> d \in registered
                                    /\ clientListSubs'[d] = clientListSubs[d]
                                    /\ clientOpenSub'[d] = clientOpenSub[d]
    BY <1>1 DEF RemoveClient, HubIInv, HubTypeOK
  <2>2. c \notin registered' /\ clientListSubs'[c] = {} /\ clientOpenSub'[c] = NoConv
    BY DEF RemoveClient, HubIInv, HubTypeOK
  <2>3. UNCHANGED <<holds, sendClosed>>
    BY DEF RemoveClient, sendVars
  <2>4. \A d \in Clients : listener'[d].at \in {"close", "done"} =>
          d \notin registered' /\ clientListSubs'[d] = {} /\ clientOpenSub'[d] = NoConv
    BY <2>1, <2>2 DEF HubIInv, HubOK
  <2> QED
    BY <2>3, <2>4 DEF HubIInv, HubOK
<1>5. MapsOK'
  BY HubAssumption DEF RemoveClient, HubIInv, HubTypeOK, MapsOK
<1> QED
  BY <1>3, <1>4, <1>5 DEF RemoveClient, HubIInv, sendVars

(* ... before close, which nobody who pushes is then inside of. *)
LEMMA CloseHubIInv ==
  ASSUME HubIInv, NEW c \in Clients, Close(c)
  PROVE  HubIInv'
<1> DEFINE to == [Reading EXCEPT !.at = listener[c].next]
<1>1. listener' = [listener EXCEPT ![c] = to]
  BY DEF Close, Hears
<1>2. to \in [at : {"reading", "done"}, want : SUBSET Convs, next : {"reading", "done"}]
  BY Places DEF HubIInv, HubTypeOK
<1> HIDE DEF to
<1>3. \A p \in Pushers : holds[p] # c
  BY HubAssumption DEF Close, HubIInv, HubOK
<1>4. HubTypeOK'
  BY <1>1, <1>2 DEF Close, HubIInv, HubTypeOK, subsVars
<1>5. HubOK'
  <2>1. \A p \in Pushers : holds'[p] # NoClient => ~sendClosed'[holds'[p]]
    BY <1>3 DEF Close, HubIInv, HubTypeOK, HubOK
  <2>2. \A d \in Clients : listener'[d].at \in {"close", "done"} => listener[d].at \in {"close", "done"}
    BY <1>1 DEF Close, HubIInv, HubTypeOK
  <2> QED
    BY <2>1, <2>2 DEF Close, HubIInv, HubOK, subsVars
<1>6. MapsOK'
  BY DEF Close, HubIInv, MapsOK, subsVars
<1> QED
  BY <1>4, <1>5, <1>6 DEF Close, HubIInv

LEMMA SameHubIInv ==
  ASSUME HubIInv, UNCHANGED hubVars
  PROVE  HubIInv'
BY HubAsideIInv DEF hubVars, sendVars, HubIInv, HubTypeOK, HubOK
-----------------------------------------------------------------------------
LEMMA InstancesInt == Instances \subseteq Int /\ 0 \notin Instances /\ 0 \notin 1..built
BY ChatAssumption DEF Instances

(* A step of one connection, which changes no other's place in the maps. *)
LEMMA VisitorMoves ==
  ASSUME ChatIInv, NEW v \in Visitors,
         NEW to \in [at : {"none", "open", "join", "greet", "joined", "typing", "remove", "close", "done"},
                     inst : Instances \union {0}],
         visitor' = [visitor EXCEPT ![v] = to],
         clients' \in [Instances -> SUBSET Visitors],
         \A i \in Instances : clients'[i] \ {v} = clients[i] \ {v},
         chanClosed' \in [Visitors -> BOOLEAN],
         \A w \in Visitors : w # v => chanClosed'[w] = chanClosed[w],
         forwarder' \in [Visitors -> {"none", "running", "done"}],
         UNCHANGED <<installed, built, chan, sender, chatPanic, down, cut>>,
         VisitorOK(v)', SendersOK'
  PROVE  ChatIInv'
<1>1. ChatTypeOK'
  BY DEF ChatIInv, ChatTypeOK
<1>2. InstancesOK'
  BY DEF ChatIInv, InstancesOK
<1>3. VisitorsOK'
  <2> SUFFICES ASSUME NEW w \in Visitors, w # v PROVE VisitorOK(w)'
    BY DEF VisitorsOK
  <2>1. visitor'[w] = visitor[w] /\ chanClosed'[w] = chanClosed[w]
    BY DEF ChatIInv, ChatTypeOK
  <2>2. \A i \in Instances : w \in clients'[i] <=> w \in clients[i]
    OBVIOUS
  <2>3. VisitorOK(w)
    BY DEF ChatIInv, VisitorsOK
  <2>4. visitor[w].inst \in Instances \union {0} /\ installed \in Instances \union {0}
    BY DEF ChatIInv, ChatTypeOK
  <2> QED
    BY <2>1, <2>2, <2>3, <2>4 DEF VisitorOK
<1> QED
  BY <1>1, <1>2, <1>3 DEF ChatIInv

(* A connection that goes on, or leaves, without touching a map. *)
LEMMA VisitorGoes ==
  ASSUME ChatIInv, NEW v \in Visitors,
         NEW at \in {"open", "greet", "joined", "typing", "remove", "done"}, Moves(v, at),
         forwarder' \in [Visitors -> {"none", "running", "done"}],
         at = "open" => visitor[v].at = "none",
         at = "remove" => visitor[v].at \in {"greet", "joined"},
         at = "joined" => visitor[v].at \in {"greet", "typing"},
         at = "typing" => visitor[v].at = "joined",
         at = "done" => visitor[v].at \in {"open", "join"},
         at # "greet",
         UNCHANGED <<installed, built, clients, chan, chanClosed, sender, chatPanic, down, cut>>
  PROVE  ChatIInv'
<1> DEFINE to == [visitor[v] EXCEPT !.at = at]
<1>1. visitor' = [visitor EXCEPT ![v] = to]
  BY DEF Moves
<1>2. /\ to \in [at : {"none", "open", "join", "greet", "joined", "typing", "remove", "close", "done"},
                  inst : Instances \union {0}]
      /\ to.at = at /\ to.inst = visitor[v].inst
  BY DEF ChatIInv, ChatTypeOK
<1> HIDE DEF to
<1>3. visitor'[v] = to
  BY <1>1 DEF ChatIInv, ChatTypeOK
<1>4. VisitorOK(v)
  BY DEF ChatIInv, VisitorsOK
<1>5. VisitorOK(v)'
  BY <1>2, <1>3, <1>4 DEF VisitorOK
<1>6. SendersOK'
  BY DEF ChatIInv, SendersOK
<1> QED
  BY <1>1, <1>2, <1>5, <1>6, VisitorMoves DEF ChatIInv, ChatTypeOK

LEMMA GoingChatIInv ==
  ASSUME ChatIInv, NEW v \in Visitors, Connect(v) \/ Greet(v) \/ Depart(v)
  PROVE  ChatIInv'
<1>1. forwarder' \in [Visitors -> {"none", "running", "done"}]
  BY DEF Connect, Greet, Depart, ChatIInv, ChatTypeOK
<1> QED
  BY <1>1, VisitorGoes DEF Connect, Greet, Depart

LEMMA JoinChatIInv ==
  ASSUME ChatIInv, NEW v \in Visitors, Join(v)
  PROVE  ChatIInv'
<1>1. CASE installed = 0
  BY <1>1, VisitorGoes DEF Join, Moves, ChatIInv, ChatTypeOK
<1>2. CASE installed # 0
  <2> DEFINE to == [at |-> "join", inst |-> installed]
  <2>1. visitor' = [visitor EXCEPT ![v] = to]
    BY <1>2 DEF Join
  <2>2. VisitorOK(v) /\ visitor'[v] = to
    BY <2>1 DEF ChatIInv, ChatTypeOK, VisitorsOK, VisitorOK
  <2>3. VisitorOK(v)'
    <3>1. installed \in 0..built
      BY ChatAssumption DEF ChatIInv, ChatTypeOK, InstancesOK, Instances
    <3> QED
      BY <1>2, <2>2, <3>1 DEF Join, VisitorOK
  <2>4. SendersOK'
    BY DEF Join, ChatIInv, SendersOK
  <2> QED
    BY <2>1, <2>3, <2>4, VisitorMoves DEF Join, ChatIInv, ChatTypeOK
<1> QED
  BY <1>1, <1>2

(* Maps change only while nobody sends to those in them. *)
LEMMA AddVisitorChatIInv ==
  ASSUME ChatIInv, NEW v \in Visitors, AddVisitor(v)
  PROVE  ChatIInv'
<1> DEFINE i == visitor[v].inst
<1>1. VisitorOK(v) /\ visitor[v].at = "join" /\ i \in Instances
  BY InstancesInt DEF AddVisitor, ChatIInv, ChatTypeOK, VisitorsOK, VisitorOK
<1>2. CASE Cardinality(clients[i]) < MaxConnections
  <2> DEFINE to == [visitor[v] EXCEPT !.at = "greet"]
  <2>1. /\ visitor' = [visitor EXCEPT ![v] = to]
        /\ clients' = [clients EXCEPT ![i] = @ \union {v}]
        /\ UNCHANGED <<installed, built, chan, chanClosed, forwarder, sender, chatPanic, down, cut>>
    BY <1>2 DEF AddVisitor, Moves
  <2>2. /\ to \in [at : {"none", "open", "join", "greet", "joined", "typing", "remove", "close", "done"},
                    inst : Instances \union {0}]
        /\ to.at = "greet" /\ to.inst = i
    BY DEF ChatIInv, ChatTypeOK
  <2> HIDE DEF to
  <2>3. clients' \in [Instances -> SUBSET Visitors] /\ visitor'[v] = to
    BY <1>1, <2>1 DEF ChatIInv, ChatTypeOK
  <2>4. \A j \in Instances : clients'[j] = IF j = i THEN clients[j] \union {v} ELSE clients[j]
    BY <1>1, <2>1 DEF ChatIInv, ChatTypeOK
  <2>5. VisitorOK(v)'
    BY <1>1, <2>1, <2>2, <2>3, <2>4 DEF VisitorOK
  <2>6. SendersOK'
    BY <2>1, <2>4 DEF ChatIInv, SendersOK
  <2> QED
    BY <2>1, <2>2, <2>3, <2>4, <2>5, <2>6, VisitorMoves DEF ChatIInv, ChatTypeOK
<1>3. CASE ~(Cardinality(clients[i]) < MaxConnections)
  BY <1>1, <1>3, VisitorGoes DEF AddVisitor, ChatIInv, ChatTypeOK
<1> QED
  BY <1>2, <1>3

LEMMA RemoveVisitorChatIInv ==
  ASSUME ChatIInv, NEW v \in Visitors, RemoveVisitor(v)
  PROVE  ChatIInv'
<1> DEFINE i == visitor[v].inst
           to == [visitor[v] EXCEPT !.at = "close"]
<1>1. VisitorOK(v) /\ visitor[v].at = "remove" /\ i \in Instances
  BY InstancesInt DEF RemoveVisitor, ChatIInv, ChatTypeOK, VisitorsOK, VisitorOK
<1>2. /\ visitor' = [visitor EXCEPT ![v] = to]
      /\ clients' = [clients EXCEPT ![i] = @ \ {v}]
      /\ UNCHANGED <<installed, built, chan, chanClosed, forwarder, sender, chatPanic, down, cut>>
      /\ Unread(i)
  BY DEF RemoveVisitor, Moves
<1>3. /\ to \in [at : {"none", "open", "join", "greet", "joined", "typing", "remove", "close", "done"},
                  inst : Instances \union {0}]
      /\ to.at = "close" /\ to.inst = i
  BY DEF ChatIInv, ChatTypeOK
<1> HIDE DEF to
<1>4. clients' \in [Instances -> SUBSET Visitors] /\ visitor'[v] = to
  BY <1>1, <1>2 DEF ChatIInv, ChatTypeOK
<1>5. \A j \in Instances : clients'[j] = IF j = i THEN clients[j] \ {v} ELSE clients[j]
  BY <1>1, <1>2 DEF ChatIInv, ChatTypeOK
<1>6. VisitorOK(v)'
  BY <1>1, <1>2, <1>3, <1>4, <1>5 DEF VisitorOK
<1>7. SendersOK'
  BY <1>2, <1>5 DEF ChatIInv, ChatTypeOK, SendersOK, Unread
<1> QED
  BY <1>2, <1>3, <1>4, <1>5, <1>6, <1>7, VisitorMoves DEF ChatIInv, ChatTypeOK

(* The channel is closed when the connection is in no map any more. *)
LEMMA CloseChannelChatIInv ==
  ASSUME ChatIInv, NEW v \in Visitors, CloseChannel(v)
  PROVE  ChatIInv'
<1> DEFINE to == [visitor[v] EXCEPT !.at = "done"]
<1>1. VisitorOK(v) /\ visitor[v].at = "close"
  BY DEF CloseChannel, ChatIInv, VisitorsOK, VisitorOK
<1>2. /\ visitor' = [visitor EXCEPT ![v] = to]
      /\ chanClosed' = [chanClosed EXCEPT ![v] = TRUE]
      /\ UNCHANGED <<installed, built, clients, chan, forwarder, sender, chatPanic, down, cut>>
  BY DEF CloseChannel, Moves
<1>3. /\ to \in [at : {"none", "open", "join", "greet", "joined", "typing", "remove", "close", "done"},
                  inst : Instances \union {0}]
      /\ to.at = "done" /\ to.inst = visitor[v].inst
  BY DEF ChatIInv, ChatTypeOK
<1> HIDE DEF to
<1>4. /\ chanClosed' \in [Visitors -> BOOLEAN] /\ visitor'[v] = to
      /\ \A w \in Visitors : w # v => chanClosed'[w] = chanClosed[w]
  BY <1>2 DEF ChatIInv, ChatTypeOK
<1>5. VisitorOK(v)'
  BY <1>1, <1>2, <1>3, <1>4 DEF VisitorOK
<1>6. SendersOK'
  BY <1>2 DEF ChatIInv, SendersOK
<1> QED
  BY <1>2, <1>3, <1>4, <1>5, <1>6, VisitorMoves DEF ChatIInv, ChatTypeOK

LEMMA ForwardChatIInv ==
  ASSUME ChatIInv, NEW v \in Visitors, Forward(v)
  PROVE  ChatIInv'
<1>1. chan' \in [Visitors -> 0..ChanCap]
  <2>1. CASE chan' = chan
    BY <2>1 DEF ChatIInv, ChatTypeOK
  <2>2. CASE chan[v] > 0 /\ chan' = [chan EXCEPT ![v] = @ - 1]
    BY <2>2, ChatAssumption DEF ChatIInv, ChatTypeOK
  <2> QED
    BY <2>1, <2>2 DEF Forward
<1>2. ChatTypeOK'
  BY <1>1 DEF Forward, ChatIInv, ChatTypeOK
<1>3. InstancesOK' /\ VisitorsOK' /\ SendersOK'
  BY DEF Forward, ChatIInv, InstancesOK, VisitorsOK, VisitorOK, SendersOK
<1> QED
  BY <1>2, <1>3 DEF Forward, ChatIInv

(* Closing an instance closes the channels of those in its map, and        *)
(* empties it, while nobody sends to them.                                 *)
LEMMA EmptyKeeps ==
  ASSUME ChatIInv, Empty, UNCHANGED <<visitor, built, sender>>
  PROVE  /\ clients' \in [Instances -> SUBSET Visitors] /\ chanClosed' \in [Visitors -> BOOLEAN]
         /\ \A i \in Instances : clients'[i] = IF i = installed THEN {} ELSE clients[i]
         /\ SendersOK'
<1>1. installed \in Instances /\ Unread(installed)
  BY DEF Empty, ChatIInv, ChatTypeOK
<1>2. clients' \in [Instances -> SUBSET Visitors] /\ chanClosed' \in [Visitors -> BOOLEAN]
  BY DEF Empty, ChatIInv, ChatTypeOK
<1>3. \A i \in Instances : clients'[i] = IF i = installed THEN {} ELSE clients[i]
  BY <1>1 DEF Empty, ChatIInv, ChatTypeOK
<1>4. SendersOK'
  <2> SUFFICES ASSUME NEW s \in Senders, sender[s].at \in {"look", "push"}
               PROVE  clients'[sender[s].inst] = clients[sender[s].inst]
    BY DEF ChatIInv, SendersOK
  <2>1. sender[s].inst \in Instances /\ sender[s].inst # installed
    BY <1>1 DEF Unread, ChatIInv, SendersOK
  <2> QED
    BY <1>3, <2>1
<1> QED
  BY <1>2, <1>3, <1>4

(* A reload deletes the instance: the next one has a map of its own.  The  *)
(* end of the program leaves it, and remembers whom it has cut off.        *)
LEMMA CloseInstanceChatIInv ==
  ASSUME ChatIInv, CloseInstance \/ ManagerClose
  PROVE  ChatIInv'
<1>1. /\ Empty /\ UNCHANGED <<built, visitor, chan, forwarder, sender, chatPanic>>
      /\ installed # 0 /\ installed \in Instances
      /\ \/ installed' = 0 /\ UNCHANGED <<down, cut>> /\ built < MaxInstances
         \/ installed' = installed /\ down' = TRUE /\ cut' = cut \union clients[installed]
  BY DEF CloseInstance, ManagerClose, Empty, ChatIInv, ChatTypeOK
<1>2. /\ clients' \in [Instances -> SUBSET Visitors] /\ chanClosed' \in [Visitors -> BOOLEAN]
      /\ \A i \in Instances : clients'[i] = IF i = installed THEN {} ELSE clients[i]
      /\ SendersOK'
  BY <1>1, EmptyKeeps
<1>3. ChatTypeOK'
  BY <1>1, <1>2 DEF ChatIInv, ChatTypeOK
<1>4. InstancesOK'
  BY <1>1 DEF ChatIInv, InstancesOK
<1>5. VisitorsOK'
  <2> SUFFICES ASSUME NEW v \in Visitors PROVE VisitorOK(v)'
    BY DEF VisitorsOK
  <2>1. VisitorOK(v)
    BY DEF ChatIInv, VisitorsOK
  <2>2. chanClosed'[v] = (chanClosed[v] \/ v \in clients[installed])
    BY <1>1 DEF Empty
  <2>3. v \notin cut' => v \notin cut /\ (installed' = installed => v \notin clients[installed])
    BY <1>1
  <2> QED
    BY <1>1, <1>2, <2>1, <2>2, <2>3 DEF VisitorOK
<1> QED
  BY <1>1, <1>2, <1>3, <1>4, <1>5 DEF ChatIInv

LEMMA InstallInstanceChatIInv ==
  ASSUME ChatIInv, InstallInstance
  PROVE  ChatIInv'
<1>1. /\ built \in Nat /\ built + 1 \in Instances /\ installed = 0
      /\ built' = built + 1 /\ installed' = built + 1
  BY ChatAssumption DEF InstallInstance, ChatIInv, ChatTypeOK, InstancesOK, Instances
<1>2. ChatTypeOK'
  BY <1>1 DEF InstallInstance, ChatIInv, ChatTypeOK
<1>3. InstancesOK'
  BY <1>1 DEF InstancesOK, Instances
<1>4. VisitorsOK'
  <2> SUFFICES ASSUME NEW v \in Visitors PROVE VisitorOK(v)'
    BY DEF VisitorsOK
  <2>1. VisitorOK(v)
    BY DEF ChatIInv, VisitorsOK
  <2>2. visitor[v].inst \in 0..built' /\ visitor[v].inst # installed'
    BY <1>1, <2>1 DEF VisitorOK
  <2> QED
    BY <2>1, <2>2 DEF InstallInstance, VisitorOK
<1>5. SendersOK'
  BY DEF InstallInstance, ChatIInv, SendersOK
<1> QED
  BY <1>2, <1>3, <1>4, <1>5 DEF InstallInstance, ChatIInv

(* A step of a sender. *)
LEMMA SenderMoves ==
  ASSUME ChatIInv, NEW s \in Senders,
         NEW to \in [at : {"idle", "got", "look", "push"}, inst : Instances \union {0},
                     todo : SUBSET Visitors, now : Visitors \union {None}],
         sender' = [sender EXCEPT ![s] = to],
         to.at # "idle" => to.inst \in Instances,
         to.at \in {"look", "push"} => to.todo \subseteq clients[to.inst],
         to.at = "push" => to.now \in to.todo,
         chan' \in [Visitors -> 0..ChanCap],
         UNCHANGED <<installed, built, clients, visitor, chanClosed, forwarder, chatPanic, down, cut>>
  PROVE  ChatIInv'
<1>1. ChatTypeOK'
  BY DEF ChatIInv, ChatTypeOK
<1>2. InstancesOK' /\ VisitorsOK'
  BY DEF ChatIInv, InstancesOK, VisitorsOK, VisitorOK
<1>3. SendersOK'
  BY DEF ChatIInv, ChatTypeOK, SendersOK
<1> QED
  BY <1>1, <1>2, <1>3 DEF ChatIInv

LEMMA SilentType ==
  Silent \in [at : {"idle"}, inst : {0}, todo : SUBSET Visitors, now : {None}]
BY DEF Silent

LEMMA SenderGetsChatIInv ==
  ASSUME ChatIInv, NEW s \in Senders, SenderGets(s)
  PROVE  ChatIInv'
<1> DEFINE to == [Silent EXCEPT !.at = "got", !.inst = installed]
<1>1. sender' = [sender EXCEPT ![s] = to] /\ installed \in Instances
  BY DEF SenderGets, ChatIInv, ChatTypeOK
<1>2. to \in [at : {"got"}, inst : Instances, todo : SUBSET Visitors, now : Visitors \union {None}]
  BY <1>1 DEF Silent
<1> HIDE DEF to
<1> QED
  BY <1>1, <1>2, SenderMoves DEF SenderGets, ChatIInv, ChatTypeOK

LEMMA SenderLocksChatIInv ==
  ASSUME ChatIInv, NEW s \in Senders, SenderLocks(s)
  PROVE  ChatIInv'
<1> DEFINE i == sender[s].inst
           to == IF clients[i] = {} THEN Silent ELSE [sender[s] EXCEPT !.at = "look", !.todo = clients[i]]
<1>1. sender' = [sender EXCEPT ![s] = to] /\ i \in Instances
  BY DEF SenderLocks, ChatIInv, ChatTypeOK, SendersOK
<1>2. /\ to \in [at : {"idle", "look"}, inst : Instances \union {0},
                  todo : SUBSET Visitors, now : Visitors \union {None}]
      /\ to.at = "look" => to.inst = i /\ to.todo = clients[i]
  BY <1>1, SilentType DEF ChatIInv, ChatTypeOK
<1> HIDE DEF to
<1> QED
  BY <1>1, <1>2, SenderMoves DEF SenderLocks, ChatIInv, ChatTypeOK

LEMMA SenderLooksChatIInv ==
  ASSUME ChatIInv, NEW s \in Senders, SenderLooks(s)
  PROVE  ChatIInv'
<1>1. /\ sender[s] \in [at : {"look"}, inst : Instances, todo : SUBSET Visitors, now : Visitors \union {None}]
      /\ sender[s].todo \subseteq clients[sender[s].inst]
  BY DEF SenderLooks, ChatIInv, ChatTypeOK, SendersOK
<1>2. PICK v \in sender[s].todo :
        sender' = [sender EXCEPT ![s] = IF chanClosed[v] THEN Passed(s, v)
                                        ELSE [@ EXCEPT !.at = "push", !.now = v]]
  BY DEF SenderLooks
<1>3. v \in Visitors /\ ~chanClosed[v]
  BY <1>1, <1>2 DEF ChatIInv, ChatTypeOK, VisitorsOK, VisitorOK
<1> DEFINE to == [sender[s] EXCEPT !.at = "push", !.now = v]
<1>4. sender' = [sender EXCEPT ![s] = to]
  BY <1>2, <1>3
<1>5. /\ to \in [at : {"push"}, inst : Instances, todo : SUBSET Visitors, now : Visitors]
      /\ to.inst = sender[s].inst /\ to.todo = sender[s].todo /\ to.now = v
  BY <1>1, <1>3
<1>6. /\ UNCHANGED <<installed, built, clients, visitor, chanClosed, forwarder, chatPanic, down, cut>>
      /\ chan' \in [Visitors -> 0..ChanCap]
  BY DEF SenderLooks, ChatIInv, ChatTypeOK
<1> HIDE DEF to
<1> QED
  BY <1>1, <1>2, <1>4, <1>5, <1>6, SenderMoves

(* What is in the map has an open channel. *)
LEMMA SenderPushesChatIInv ==
  ASSUME ChatIInv, NEW s \in Senders, SenderPushes(s)
  PROVE  ChatIInv'
<1> DEFINE v == sender[s].now
           to == Passed(s, v)
<1>1. /\ sender[s] \in [at : {"push"}, inst : Instances, todo : SUBSET Visitors, now : Visitors]
      /\ sender[s].todo \subseteq clients[sender[s].inst] /\ v \in sender[s].todo
  BY DEF SenderPushes, ChatIInv, ChatTypeOK, SendersOK
<1>2. v \in Visitors /\ ~chanClosed[v]
  BY <1>1 DEF ChatIInv, ChatTypeOK, VisitorsOK, VisitorOK
<1>3. sender' = [sender EXCEPT ![s] = to]
  BY DEF SenderPushes
<1>4. /\ to \in [at : {"idle", "look"}, inst : Instances \union {0}, todo : SUBSET Visitors, now : {None}]
      /\ to.at = "look" => to.inst = sender[s].inst /\ to.todo = sender[s].todo \ {v}
  BY <1>1, SilentType DEF Passed
<1>5. chan' \in [Visitors -> 0..ChanCap]
  <2>1. chan[v] \in 0..ChanCap /\ chan' = [chan EXCEPT ![v] = IF @ = ChanCap THEN @ ELSE @ + 1]
    BY <1>2 DEF SenderPushes, ChatIInv, ChatTypeOK
  <2>2. (IF chan[v] = ChanCap THEN chan[v] ELSE chan[v] + 1) \in 0..ChanCap
    BY <2>1, ChatAssumption
  <2> QED
    BY <2>1, <2>2 DEF ChatIInv, ChatTypeOK
<1>6. UNCHANGED <<installed, built, clients, visitor, chanClosed, forwarder, chatPanic, down, cut>>
  BY <1>2 DEF SenderPushes, ChatIInv, ChatTypeOK
<1> HIDE DEF to, v
<1> QED
  BY <1>1, <1>3, <1>4, <1>5, <1>6, SenderMoves

LEMMA SameChatIInv ==
  ASSUME ChatIInv, UNCHANGED chatVars
  PROVE  ChatIInv'
<1>1. ChatTypeOK'
  BY DEF chatVars, ChatIInv, ChatTypeOK
<1>2. InstancesOK' /\ VisitorsOK' /\ SendersOK'
  BY DEF chatVars, ChatIInv, InstancesOK, VisitorsOK, VisitorOK, SendersOK
<1> QED
  BY <1>1, <1>2 DEF chatVars, ChatIInv
-----------------------------------------------------------------------------
LEMMA ReaderIInv ==
  ASSUME SocketsIInv, NEW c \in Clients, Reader(c) \/ AgentTypes(c)
  PROVE  SocketsIInv'
<1>1. c \in Senders
  BY SocketsAssumption
<1>2. CASE Listen(c) /\ UNCHANGED chatVars
  BY <1>2, SubscribeHubIInv, ReadHubIInv, RemoveClientHubIInv, CloseHubIInv, AnswerHubIInv, SameChatIInv
     DEF Listen, SocketsIInv
<1>3. CASE AgentTyped(c) /\ UNCHANGED chatVars
  BY <1>3, ReadHubIInv, SameChatIInv DEF AgentTyped, SocketsIInv
<1>4. CASE SendOn(c) /\ UNCHANGED hubVars
  BY <1>1, <1>4, SenderLocksChatIInv, SenderLooksChatIInv, SenderPushesChatIInv, SameHubIInv
     DEF SendOn, SocketsIInv
<1>5. CASE AgentTypes(c)
  BY <1>1, <1>5, ReadHubIInv, SenderGetsChatIInv, SameChatIInv DEF AgentTypes, SocketsIInv
<1> QED
  BY <1>2, <1>3, <1>4, <1>5 DEF Reader

LEMMA HandlerIInv ==
  ASSUME SocketsIInv, NEW v \in Visitors, Handler(v) \/ VisitorTypes(v)
  PROVE  SocketsIInv'
<1>1. v \in Pushers
  BY SocketsAssumption
<1>2. CASE Widget(v) /\ UNCHANGED hubVars
  BY <1>2, AddVisitorChatIInv, GoingChatIInv, RemoveVisitorChatIInv, CloseChannelChatIInv, SameHubIInv
     DEF Widget, SocketsIInv
<1>3. CASE Push(v) /\ UNCHANGED chatVars
  BY <1>1, <1>3, PushHubIInv, SameChatIInv DEF SocketsIInv
<1>4. CASE VisitorTyped(v)
  BY <1>4, VisitorGoes, SameHubIInv DEF VisitorTyped, SocketsIInv, ChatIInv, ChatTypeOK
<1>5. CASE VisitorTypes(v)
  BY <1>1, <1>5, VisitorGoes, BroadcastHubIInv DEF VisitorTypes, SocketsIInv, ChatIInv, ChatTypeOK
<1> QED
  BY <1>2, <1>3, <1>4, <1>5 DEF Handler

LEMMA SocketsStepIInv == SocketsIInv /\ [SocketsNext]_socketsVars => SocketsIInv'
<1> SUFFICES ASSUME SocketsIInv, [SocketsNext]_socketsVars PROVE SocketsIInv'
  OBVIOUS
<1>1. ASSUME NEW c \in Clients, (Agent(c) \/ Write(c)) /\ UNCHANGED chatVars
      PROVE  SocketsIInv'
  BY <1>1, AddClientHubIInv, WriterHubIInv, ReadHubIInv, SameChatIInv DEF Agent, SocketsIInv
<1>2. ASSUME NEW v \in Visitors, (Visit(v) \/ Forward(v)) /\ UNCHANGED hubVars
      PROVE  SocketsIInv'
  BY <1>2, GoingChatIInv, JoinChatIInv, ForwardChatIInv, SameHubIInv DEF Visit, SocketsIInv
<1>3. CASE (CloseInstance \/ InstallInstance \/ ManagerClose) /\ UNCHANGED hubVars
  BY <1>3, CloseInstanceChatIInv, InstallInstanceChatIInv, SameHubIInv DEF SocketsIInv
<1>4. CASE UNCHANGED socketsVars
  BY <1>4, SameHubIInv, SameChatIInv DEF socketsVars, SocketsIInv
<1> QED
  BY <1>1, <1>2, <1>3, <1>4, ReaderIInv, HandlerIInv DEF SocketsNext

(* The inductive invariant of the hub and the live chat instances holds. *)
THEOREM SocketsInvariance == SocketsSpec => []SocketsIInv
<1>1. SocketsInit => SocketsIInv
  BY HubInitIInv, ChatInitIInv DEF SocketsInit, SocketsIInv
<1> QED
  BY <1>1, SocketsStepIInv, PTL DEF SocketsSpec

(* The variables of hub, connections and instances keep their types. *)
THEOREM SocketsTypeCorrect == SocketsSpec => []SocketsTypeOK
<1>1. SocketsIInv => SocketsTypeOK
  BY DEF SocketsIInv, HubIInv, ChatIInv, SocketsTypeOK
<1> QED
  BY <1>1, SocketsInvariance, PTL

(* Neither SendMessage of a broadcast nor what is sent to a contact ever   *)
(* sends on a channel that close, CloseChannel or the Close of the         *)
(* instance has closed.                                                    *)
THEOREM NoPushPanics == SocketsSpec => []PushesAreSafe
<1>1. SocketsIInv => PushesAreSafe
  BY DEF SocketsIInv, HubIInv, ChatIInv, PushesAreSafe
<1> QED
  BY <1>1, SocketsInvariance, PTL

(* A connection whose goroutine has ended is in no map, of an agent or of  *)
(* a visitor, and the hub's maps agree.                                    *)
THEOREM NobodyGoneIsKept == SocketsSpec => []GoneIsForgotten
<1>1. SocketsIInv => GoneIsForgotten
  <2> SUFFICES ASSUME SocketsIInv PROVE GoneIsForgotten
    OBVIOUS
  <2>1. MapsOK /\ HubOK
    BY DEF SocketsIInv, HubIInv
  <2>2. \A v \in Visitors, i \in Instances : visitor[v].at = "done" => v \notin clients[i]
    BY DEF SocketsIInv, ChatIInv, VisitorsOK, VisitorOK
  <2> QED
    BY <2>1, <2>2 DEF HubOK, MapsOK, GoneIsForgotten
<1> QED
  BY <1>1, SocketsInvariance, PTL

(* A visitor who joined the installed instance is in its map, with an open *)
(* channel, unless Manager.Close has cut the visitor off.                  *)
THEOREM JoinedStaysReached == SocketsSpec => []JoinedIsReached
<1>1. SocketsIInv => JoinedIsReached
  <2> SUFFICES ASSUME SocketsIInv, NEW v \in Visitors, visitor[v].at \in {"joined", "typing"},
                      visitor[v].inst = installed, v \notin cut
               PROVE  v \in clients[installed] /\ ~chanClosed[v]
    BY DEF JoinedIsReached
  <2>1. VisitorOK(v) /\ installed \in Instances \union {0}
    BY DEF SocketsIInv, ChatIInv, ChatTypeOK, VisitorsOK
  <2> QED
    BY <2>1 DEF VisitorOK
<1> QED
  BY <1>1, SocketsInvariance, PTL
=============================================================================
