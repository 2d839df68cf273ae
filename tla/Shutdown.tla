------------------------------ MODULE Shutdown ------------------------------
(***************************************************************************)
(* How the process stops.  After SIGINT or SIGTERM main.go closes the      *)
(* components one after the other, while their goroutines still run and    *)
(* call each other.  Four components are pools of the same make (bounded   *)
(* channel, workers, a lock around a closed flag): the automation engine,  *)
(* the notifier, the webhook manager and the conversation manager.  Close  *)
(* keeps the lock while it waits for the workers; a caller takes the lock, *)
(* looks at the flag and pushes unless the channel is full.  The           *)
(* autoassigner has a lock, a flag and one goroutine that reads the flag   *)
(* at every tick.  Two goroutines push without the lock: the automation    *)
(* engine's hourly ticker here, the scanner in Outgoing.                   *)
(***************************************************************************)
EXTENDS Naturals, Sequences

CONSTANTS
  Pools,     \* the pools present, of "automation", "notifier", "webhook", "conversation"
  Workers,   \* workers of each pool
  Requests,  \* goroutines of HTTP requests
  Assigner,  \* {"autoassigner"}, or {} to leave it out
  Callees,   \* the pools on which a goroutine's work may push
  Cap,       \* capacity of each channel
  MaxCalls   \* bound: calls of all goroutines together

ASSUME ShutdownAssumption ==
  /\ Pools \subseteq {"automation", "notifier", "webhook", "conversation"}
  /\ Assigner \subseteq {"autoassigner"}
  /\ Callees \in [Pools \cup Assigner \cup {"request"} -> SUBSET Pools]
  /\ Cap \in Nat \ {0}
  /\ MaxCalls \in Nat

Nobody == "nobody"

(* The goroutines that work and call, each with the component it belongs   *)
(* to.                                                                     *)
PoolWorkers == Pools \X Workers
Goroutines  == PoolWorkers \cup (Assigner \X {1}) \cup ({"request"} \X Requests)
Owner(g)    == g[1]

VARIABLES
  cancelled,   \* the context of main.go
  stage,       \* main: the component it closes, in this order
  closing,     \* the Close calls under way: where each one is, by closer
  closed,      \* components whose closed flag is set (and channel closed)
  holder,      \* who has the write lock of a component
  readers,     \* goroutines inside its lock that call
  queue,       \* tasks in the channel of each pool
  pc,          \* where each goroutine is
  callee,      \* the pool it calls
  calls,       \* calls made so far
  ticker,      \* the loop of automation's Run
  panics       \* history: goroutines that pushed on a closed channel

vars == <<cancelled, stage, closing, closed, holder, readers, queue, pc, callee, calls, ticker, panics>>

Components == Pools \cup Assigner

(* main closes the components in this order, after the HTTP server. *)
Present(c) == IF c \in Components THEN <<c>> ELSE << >>
Order == Present("automation") \o Present("autoassigner") \o Present("notifier")
           \o Present("webhook") \o Present("conversation")

(* notifier.Run closes the notifier as well. *)
Closers == {"main"} \cup {"notifier.Run" : p \in Pools \cap {"notifier"}}

(* stage: 0 the HTTP server, i the i-th component, beyond the last done.   *)
Done == stage > Len(Order)
Target(k) == IF k = "main" THEN Order[stage] ELSE "notifier"

At == {"select", "busy", "want", "in", "push", "lock", "exited"}

TypeOK ==
  /\ cancelled \in BOOLEAN
  /\ stage \in 0..(Len(Order) + 1)
  /\ closing \in [Closers -> {"before", "locked", "wait", "after"}]
  /\ closed \in SUBSET Components
  /\ holder \in [Components -> Closers \cup {Nobody}]
  /\ readers \in [Components -> SUBSET Goroutines]
  /\ queue \in [Pools -> 0..Cap]
  /\ pc \in [Goroutines -> At]
  /\ callee \in [Goroutines -> Pools \cup {Nobody}]
  /\ calls \in 0..MaxCalls
  /\ ticker \in {"select", "push", "exited", "panicked"}
  /\ panics \in SUBSET Goroutines

Init ==
  /\ cancelled = FALSE
  /\ stage = 0
  /\ closing = [k \in Closers |-> "before"]
  /\ closed = {}
  /\ holder = [c \in Components |-> Nobody]
  /\ readers = [c \in Components |-> {}]
  /\ queue = [p \in Pools |-> 0]
  /\ pc = [g \in Goroutines |-> "select"]
  /\ callee = [g \in Goroutines |-> Nobody]
  /\ calls = 0
  /\ ticker = IF "automation" \in Pools THEN "select" ELSE "exited"
  /\ panics = {}

-----------------------------------------------------------------------------
(* Work *)

(* A worker takes a task; a closed channel yields what is buffered. *)
Receive(g) ==
  /\ g \in PoolWorkers
  /\ pc[g] = "select"
  /\ queue[Owner(g)] > 0
  /\ queue' = [queue EXCEPT ![Owner(g)] = @ - 1]
  /\ pc' = [pc EXCEPT ![g] = "busy"]
  /\ UNCHANGED <<cancelled, stage, closing, closed, holder, readers, callee, calls, ticker, panics>>

(* A request arrives, while the HTTP server accepts. *)
Arrive(g) ==
  /\ Owner(g) = "request"
  /\ pc[g] = "select"
  /\ ~cancelled
  /\ pc' = [pc EXCEPT ![g] = "busy"]
  /\ UNCHANGED <<cancelled, stage, closing, closed, holder, readers, queue, callee, calls,
                 ticker, panics>>

(* The autoassigner's ticker fires; the select may choose this case        *)
(* although the context is cancelled.  It locks to read the flag ...       *)
AssignerTick(g) ==
  /\ Owner(g) \in Assigner
  /\ pc[g] = "select"
  /\ pc' = [pc EXCEPT ![g] = "lock"]
  /\ UNCHANGED <<cancelled, stage, closing, closed, holder, readers, queue, callee, calls,
                 ticker, panics>>

(* ... and either returns or sweeps. *)
AssignerReads(g) ==
  /\ pc[g] = "lock"
  /\ holder[Owner(g)] = Nobody
  /\ pc' = [pc EXCEPT ![g] = IF Owner(g) \in closed THEN "exited" ELSE "busy"]
  /\ UNCHANGED <<cancelled, stage, closing, closed, holder, readers, queue, callee, calls,
                 ticker, panics>>

(* The work is done. *)
Finish(g) ==
  /\ pc[g] = "busy"
  /\ pc' = [pc EXCEPT ![g] = "select"]
  /\ UNCHANGED <<cancelled, stage, closing, closed, holder, readers, queue, callee, calls,
                 ticker, panics>>

(* Mutant: a goroutine takes the lock when it ends. *)
WorkerExitLocked(g) ==
  /\ pc[g] = "select"
  /\ Owner(g) # "request" /\ holder[Owner(g)] = Nobody
  /\ \/ cancelled
     \/ g \in PoolWorkers /\ Owner(g) \in closed /\ queue[Owner(g)] = 0
  /\ pc' = [pc EXCEPT ![g] = "exited"]
  /\ UNCHANGED <<cancelled, stage, closing, closed, holder, readers, queue, callee, calls,
                 ticker, panics>>

(* ctx.Done, or the channel is closed and drained. *)
WorkerExit(g) ==
  /\ pc[g] = "select"
  /\ Owner(g) # "request"
  /\ \/ cancelled
     \/ g \in PoolWorkers /\ Owner(g) \in closed /\ queue[Owner(g)] = 0
  /\ pc' = [pc EXCEPT ![g] = "exited"]
  /\ UNCHANGED <<cancelled, stage, closing, closed, holder, readers, queue, callee, calls,
                 ticker, panics>>

-----------------------------------------------------------------------------
(* Calls: EvaluateConversationUpdateRules, TriggerEvent, Send,             *)
(* EnqueueIncoming                                                         *)

(* The work of g comes to a call on p. *)
Call(g, p) ==
  /\ pc[g] = "busy"
  /\ p \in Callees[Owner(g)]
  /\ calls < MaxCalls
  /\ calls' = calls + 1
  /\ pc' = [pc EXCEPT ![g] = "want"]
  /\ callee' = [callee EXCEPT ![g] = p]
  /\ UNCHANGED <<cancelled, stage, closing, closed, holder, readers, queue, ticker, panics>>

(* Mutant: the flag is read without the lock. *)
CallLocksForgotten(g) ==
  /\ pc[g] = "want"
  /\ pc' = [pc EXCEPT ![g] = "in"]
  /\ UNCHANGED <<cancelled, stage, closing, closed, holder, readers, queue, callee, calls,
                 ticker, panics>>

(* It waits for the lock that Close may hold; only the automation engine   *)
(* and the webhook manager have a read lock that callers share.            *)
Shared == {"automation", "webhook"}

CallLocks(g) ==
  /\ pc[g] = "want"
  /\ holder[callee[g]] = Nobody
  /\ callee[g] \in Shared \/ readers[callee[g]] = {}
  /\ readers' = [readers EXCEPT ![callee[g]] = @ \cup {g}]
  /\ pc' = [pc EXCEPT ![g] = "in"]
  /\ UNCHANGED <<cancelled, stage, closing, closed, holder, queue, callee, calls, ticker, panics>>

(* The call returns. *)
Unlock(g) ==
  /\ readers' = [readers EXCEPT ![callee[g]] = @ \ {g}]
  /\ callee' = [callee EXCEPT ![g] = Nobody]
  /\ pc' = [pc EXCEPT ![g] = "busy"]

(* Mutant: the closed flag is not looked at. *)
CallChecksNothing(g) ==
  /\ pc[g] = "in"
  /\ pc' = [pc EXCEPT ![g] = "push"] /\ UNCHANGED <<readers, callee>>
  /\ UNCHANGED <<cancelled, stage, closing, closed, holder, queue, calls, ticker, panics>>

(* It returns if the flag is set ... *)
CallChecks(g) ==
  /\ pc[g] = "in"
  /\ IF callee[g] \in closed
     THEN Unlock(g)
     ELSE pc' = [pc EXCEPT ![g] = "push"] /\ UNCHANGED <<readers, callee>>
  /\ UNCHANGED <<cancelled, stage, closing, closed, holder, queue, calls, ticker, panics>>

(* ... and else pushes, or drops the task when the channel is full. *)
CallPushes(g) ==
  /\ pc[g] = "push"
  /\ IF callee[g] \in closed
     THEN panics' = panics \cup {g} /\ UNCHANGED queue
     ELSE /\ queue' = [queue EXCEPT ![callee[g]] = IF @ < Cap THEN @ + 1 ELSE @]
          /\ UNCHANGED panics
  /\ Unlock(g)
  /\ UNCHANGED <<cancelled, stage, closing, closed, holder, calls, ticker>>

-----------------------------------------------------------------------------
(* The ticker of automation's Run *)

TickerFires ==
  /\ ticker = "select"
  /\ ticker' = "push"
  /\ UNCHANGED <<cancelled, stage, closing, closed, holder, readers, queue, pc, callee, calls, panics>>

(* It pushes, waiting for room, without lock or flag. *)
TickerPushes ==
  /\ ticker = "push"
  /\ IF "automation" \in closed
     THEN ticker' = "panicked" /\ UNCHANGED queue
     ELSE /\ queue["automation"] < Cap
          /\ queue' = [queue EXCEPT !["automation"] = @ + 1]
          /\ ticker' = "select"
  /\ UNCHANGED <<cancelled, stage, closing, closed, holder, readers, pc, callee, calls, panics>>

TickerExit ==
  /\ ticker = "select"
  /\ cancelled
  /\ ticker' = "exited"
  /\ UNCHANGED <<cancelled, stage, closing, closed, holder, readers, queue, pc, callee, calls, panics>>

-----------------------------------------------------------------------------
(* main *)

Signal ==
  /\ ~cancelled
  /\ cancelled' = TRUE
  /\ UNCHANGED <<stage, closing, closed, holder, readers, queue, pc, callee, calls, ticker, panics>>

(* s.Shutdown waits for the requests. *)
HttpStops ==
  /\ cancelled
  /\ stage = 0
  /\ \A g \in Goroutines : Owner(g) = "request" => pc[g] = "select"
  /\ stage' = 1
  /\ UNCHANGED <<cancelled, closing, closed, holder, readers, queue, pc, callee, calls, ticker, panics>>

(* The goroutines of a component are gone. *)
Idle(c) == \A g \in Goroutines : Owner(g) = c => pc[g] = "exited"

(* The closer k is in a Close call. *)
MayClose(k) == IF k = "main" THEN stage > 0 /\ ~Done ELSE cancelled

(* Close: Lock ... *)
CloseLocks(k) ==
  /\ MayClose(k)
  /\ closing[k] = "before"
  /\ holder[Target(k)] = Nobody
  /\ readers[Target(k)] = {}
  /\ holder' = [holder EXCEPT ![Target(k)] = k]
  /\ closing' = [closing EXCEPT ![k] = "locked"]
  /\ UNCHANGED <<cancelled, stage, closed, readers, queue, pc, callee, calls, ticker, panics>>

(* The call returns; main goes on to the next component. *)
CloseReturns(k) ==
  /\ holder' = [holder EXCEPT ![Target(k)] = Nobody]
  /\ IF k = "main"
     THEN stage' = stage + 1 /\ closing' = [closing EXCEPT ![k] = "before"]
     ELSE closing' = [closing EXCEPT ![k] = "after"] /\ UNCHANGED stage

(* ... return if the flag is set, else set it and close the channel ...    *)
CloseMarks(k) ==
  /\ closing[k] = "locked"
  /\ IF Target(k) \in closed
     THEN CloseReturns(k) /\ UNCHANGED closed
     ELSE /\ closed' = closed \cup {Target(k)}
          /\ closing' = [closing EXCEPT ![k] = "wait"]
          /\ UNCHANGED <<stage, holder>>
  /\ UNCHANGED <<cancelled, readers, queue, pc, callee, calls, ticker, panics>>

(* ... and wait for the goroutines, the lock held. *)
CloseWaits(k) ==
  /\ closing[k] = "wait"
  /\ Idle(Target(k))
  /\ CloseReturns(k)
  /\ UNCHANGED <<cancelled, closed, readers, queue, pc, callee, calls, ticker, panics>>

-----------------------------------------------------------------------------
Goroutine(g) ==
  \/ Receive(g) \/ AssignerReads(g) \/ Finish(g) \/ WorkerExit(g)
  \/ CallLocks(g) \/ CallChecks(g) \/ CallPushes(g)

Closer(k) == CloseLocks(k) \/ CloseMarks(k) \/ CloseWaits(k)

Next ==
  \/ \E g \in Goroutines :
       Goroutine(g) \/ Arrive(g) \/ AssignerTick(g) \/ \E p \in Pools : Call(g, p)
  \/ TickerFires \/ TickerPushes \/ TickerExit
  \/ Signal \/ HttpStops
  \/ \E k \in Closers : Closer(k)

Spec == Init /\ [][Next]_vars

(* The runtime runs every goroutine that can go on; a select that comes    *)
(* back to a ready case again and again takes it some time (Go chooses     *)
(* among ready cases at random), which matters for the two ticker loops.   *)
Fairness ==
  /\ \A g \in Goroutines : WF_vars(Goroutine(g))
  /\ \A a \in Assigner : SF_vars(WorkerExit(<<a, 1>>))
  /\ WF_vars(TickerPushes)
  /\ "automation" \in Pools => SF_vars(TickerExit)
  /\ WF_vars(HttpStops)
  /\ \A k \in Closers : WF_vars(Closer(k))

FairSpec == Spec /\ Fairness

-----------------------------------------------------------------------------
(* No caller that goes through the lock pushes on a closed channel, which  *)
(* would panic and cut the shutdown off.                                   *)
CallersNeverPanic == panics = {}

(* What main has closed is quiet: nobody of that component works, calls or *)
(* waits any more, so the components behind it (database and redis last)   *)
(* are not used by it.  And Close does not return twice for one component. *)
ClosedIsQuiet ==
  \A i \in 1..Len(Order) : i < stage => Order[i] \in closed /\ Idle(Order[i])

(* Once main closes a component that does not call itself, that Close      *)
(* returns, although both notifier.Run and main close the notifier.        *)
Closes(c) ==
  \A i \in 1..Len(Order) : Order[i] = c => (stage = i ~> stage > i)

LeavesClose == \A c \in Pools \ {"automation"} : Closes(c)

(* "Close signals the Engine to stop accepting any more messages and waits *)
(* for all workers to finish": it returns.                                 *)
AutomationCloses == Closes("automation")
=============================================================================
