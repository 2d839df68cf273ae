--------------------------- MODULE OutgoingProofs ---------------------------
(***************************************************************************)
(* Proofs about Outgoing: its invariants hold for every set of messages,   *)
(* workers and requests, every capacity and every bound, and it implements *)
(* Delivery.                                                               *)
(***************************************************************************)
EXTENDS Outgoing, TLAPS

-----------------------------------------------------------------------------
(* Sequences without repetition *)

(* Appending a new element adds it to the range and repeats nothing. *)
LEMMA AppendNew ==
  ASSUME NEW S, NEW q \in Seq(S), NEW x \in S, x \notin Range(q), IsInjective(q)
  PROVE  /\ Append(q, x) \in Seq(S)
         /\ Len(Append(q, x)) = Len(q) + 1
         /\ Range(Append(q, x)) = Range(q) \cup {x}
         /\ IsInjective(Append(q, x))
<1> DEFINE a == Append(q, x)
<1>1. /\ a \in Seq(S) /\ Len(a) = Len(q) + 1 /\ DOMAIN a = 1 .. Len(q) + 1
      /\ DOMAIN q = 1 .. Len(q) /\ Len(q) \in Nat
  OBVIOUS
<1>2. /\ \A i \in 1 .. Len(q) : a[i] = q[i]
      /\ a[Len(q) + 1] = x
  OBVIOUS
<1>3. Range(a) = Range(q) \cup {x}
  <2>1. \A i \in DOMAIN q : i \in DOMAIN a /\ a[i] = q[i]
    BY <1>1, <1>2
  <2>2. Len(q) + 1 \in DOMAIN a
    BY <1>1
  <2>3. \A i \in DOMAIN a : i \in DOMAIN q \/ i = Len(q) + 1
    BY <1>1
  <2> QED
    BY <2>1, <2>2, <2>3, <1>2, Zenon DEF Range
<1>4. IsInjective(a)
  <2> SUFFICES ASSUME NEW i \in 1 .. Len(q) + 1, NEW j \in 1 .. Len(q) + 1, a[i] = a[j]
               PROVE  i = j
    BY <1>1 DEF IsInjective
  <2>1. \A k \in 1 .. Len(q) : q[k] # x
    BY <1>1 DEF Range
  <2>2. CASE i \in 1 .. Len(q) /\ j \in 1 .. Len(q)
    BY <2>2, <1>1, <1>2 DEF IsInjective
  <2>3. CASE i = Len(q) + 1 \/ j = Len(q) + 1
    BY <2>1, <2>3, <1>1, <1>2
  <2> QED
    BY <2>2, <2>3, <1>1
<1> QED
  BY <1>1, <1>3, <1>4

(* Taking the head removes exactly it from the range. *)
LEMMA TailTakesHead ==
  ASSUME NEW S, NEW q \in Seq(S), q # <<>>, IsInjective(q)
  PROVE  /\ Head(q) \in S /\ Tail(q) \in Seq(S)
         /\ Len(Tail(q)) = Len(q) - 1
         /\ Head(q) \in Range(q)
         /\ Range(Tail(q)) = Range(q) \ {Head(q)}
         /\ IsInjective(Tail(q))
<1> DEFINE t == Tail(q)
<1>1. /\ t \in Seq(S) /\ Len(t) = Len(q) - 1 /\ DOMAIN t = 1 .. Len(q) - 1
      /\ DOMAIN q = 1 .. Len(q) /\ Len(q) \in Nat /\ Len(q) # 0
      /\ Head(q) \in S /\ Head(q) = q[1]
  OBVIOUS
<1>2. \A i \in 1 .. Len(q) - 1 : t[i] = q[i + 1]
  OBVIOUS
<1>3. Head(q) \in Range(q)
  BY <1>1 DEF Range
<1>4. Range(t) = Range(q) \ {Head(q)}
  <2>1. ASSUME NEW i \in DOMAIN t
        PROVE  t[i] \in Range(q) \ {Head(q)}
    <3>1. /\ i + 1 \in DOMAIN q /\ i + 1 # 1 /\ 1 \in DOMAIN q
          /\ t[i] = q[i + 1]
      BY <1>1, <1>2
    <3> QED
      BY <3>1, <1>1 DEF Range, IsInjective
  <2>2. ASSUME NEW k \in DOMAIN q, q[k] # Head(q)
        PROVE  q[k] \in Range(t)
    <3>1. k - 1 \in DOMAIN t /\ t[k - 1] = q[k]
      BY <2>2, <1>1, <1>2
    <3> QED
      BY <3>1 DEF Range
  <2> QED
    BY <2>1, <2>2, Zenon DEF Range
<1>5. IsInjective(t)
  <2> SUFFICES ASSUME NEW i \in 1 .. Len(q) - 1, NEW j \in 1 .. Len(q) - 1, t[i] = t[j]
               PROVE  i = j
    BY <1>1 DEF IsInjective
  <2>1. q[i + 1] = q[j + 1] /\ i + 1 \in DOMAIN q /\ j + 1 \in DOMAIN q
    BY <1>1, <1>2
  <2> QED
    BY <2>1 DEF IsInjective
<1> QED
  BY <1>1, <1>3, <1>4, <1>5

-----------------------------------------------------------------------------
(* The inductive invariant *)

(* The invariant holds at the start. *)
LEMMA InitIInv == Init => IInv
<1> SUFFICES ASSUME Init PROVE IInv
  OBVIOUS
<1> USE OutgoingAssumption DEF Init
<1>1. TypeOK
  BY DEF TypeOK, Statuses, ScanAt, WorkerAt
<1>2. Range(queue) = {} /\ IsInjective(queue) /\ Held = {} /\ Pushing = {}
  BY DEF Range, IsInjective, Held, Pushing
<1>3. OneHolder /\ MapIsInFlight
  BY <1>2 DEF OneHolder, MapIsInFlight, InQueue
<1>4. InFlightIsPending /\ ScannerOK /\ WorkersOK /\ OnlyStored
  BY <1>2 DEF InFlightIsPending, ScannerOK, WorkersOK, OnlyStored, InQueue, Answered
<1>5. Reserve /\ DuplicatesExplained
  BY DEF Reserve, DuplicatesExplained
<1> QED
  BY <1>1, <1>3, <1>4, <1>5 DEF IInv

(* A step that only moves the shutdown on, or changes nothing. *)
LEMMA QuietStep ==
  ASSUME IInv,
         UNCHANGED <<status, stamps, processing, queue, scanner, workers, rmsg, history>>,
         stops' \in Nat, proc' \in {"up", "signalled", "closing", "down"}
  PROVE  IInv'
BY DEF IInv, TypeOK, OneHolder, MapIsInFlight, InFlightIsPending, ScannerOK,
       WorkersOK, OnlyStored, Reserve, DuplicatesExplained, Unsettled, InQueue,
       Held, Pushing, scanner, workers, stamps, history

(* A step that changes rows, retries or reasons only, and leaves the       *)
(* scanner, the channel and the workers alone.                             *)
LEMMA QueueReplyStep ==
  ASSUME IInv, NEW m \in Messages, QueueReply(m)
  PROVE  IInv'
<1> USE DEF scanner, workers, process, stamps, history, QueueReply
<1>1. TypeOK'
  BY DEF IInv, TypeOK, Statuses
<1>2. (OneHolder /\ MapIsInFlight /\ ScannerOK /\ WorkersOK)'
  BY DEF IInv, OneHolder, MapIsInFlight, ScannerOK, WorkersOK, InQueue, Held, Pushing
<1>3. (InFlightIsPending /\ OnlyStored)'
  BY DEF IInv, TypeOK, InFlightIsPending, OnlyStored, InQueue, Pushing
<1>4. (Reserve /\ DuplicatesExplained)'
  BY DEF IInv, TypeOK, Reserve, DuplicatesExplained, Unsettled
<1> QED
  BY <1>1, <1>2, <1>3, <1>4 DEF IInv

(* A step of a request: a reply is stored, or retried. *)
LEMMA RequestStep ==
  ASSUME IInv, NEW r \in Requests, Request(r)
  PROVE  IInv'
<1> USE DEF scanner, workers, process, stamps, history
<1>1. CASE \E m \in Messages : RetryCheck(r, m)
  BY <1>1 DEF RetryCheck, IInv, TypeOK, OneHolder, MapIsInFlight, InFlightIsPending,
       ScannerOK, WorkersOK, OnlyStored, Reserve, DuplicatesExplained, Unsettled,
       InQueue, Held, Pushing
<1>2. CASE RetryMark(r)
  <2> USE <1>2 DEF RetryMark, AddReason
  <2>1. TypeOK'
    BY DEF IInv, TypeOK, Statuses
  <2>2. (OneHolder /\ MapIsInFlight /\ ScannerOK /\ WorkersOK)'
    BY DEF IInv, OneHolder, MapIsInFlight, ScannerOK, WorkersOK, InQueue, Held, Pushing
  <2>3. (InFlightIsPending /\ OnlyStored)'
    BY DEF IInv, TypeOK, InFlightIsPending, OnlyStored, InQueue, Pushing
  <2>4. (Reserve /\ DuplicatesExplained)'
    BY DEF IInv, TypeOK, Reserve, DuplicatesExplained, Unsettled
  <2> QED
    BY <2>1, <2>2, <2>3, <2>4 DEF IInv
<1>3. CASE RetryFails(r)
  BY <1>3 DEF RetryFails, IInv, TypeOK, OneHolder, MapIsInFlight, InFlightIsPending,
       ScannerOK, WorkersOK, OnlyStored, Reserve, DuplicatesExplained, Unsettled,
       InQueue, Held, Pushing
<1> QED
  BY <1>1, <1>2, <1>3 DEF Request

(* A step of the scanner: a scan, a push, or its end. *)
LEMMA ScannerStep ==
  ASSUME IInv, Scanner \/ ScanQueryFails
  PROVE  IInv'
<1> USE DEF workers, process, stamps, history
<1>1. CASE ScanTick
  BY <1>1 DEF ScanTick, IInv, TypeOK, ScanAt, OneHolder, MapIsInFlight,
       InFlightIsPending, ScannerOK, WorkersOK, OnlyStored, Reserve,
       DuplicatesExplained, Unsettled, InQueue, Held, Pushing
<1>2. CASE ScanQuery
  <2> USE <1>2 DEF ScanQuery
  <2>1. TypeOK'
    BY DEF IInv, TypeOK, ScanAt
  <2>2. (MapIsInFlight /\ WorkersOK /\ OnlyStored /\ Reserve /\ DuplicatesExplained)'
    BY DEF IInv, MapIsInFlight, WorkersOK, OnlyStored, Reserve, DuplicatesExplained,
           Unsettled, InQueue, Held, Pushing
  <2>3. ScannerOK'
    BY DEF IInv, ScannerOK
  <2>4. InFlightIsPending'
    BY DEF IInv, InFlightIsPending, InQueue, Pushing
  <2>5. batch' \cap processing = {}
    BY DEF IInv, ScannerOK
  <2>6. OneHolder'
    BY <2>5 DEF IInv, OneHolder, MapIsInFlight, InQueue, Held, Pushing
  <2> QED
    BY <2>1, <2>2, <2>3, <2>4, <2>6 DEF IInv
<1>3. CASE ScanPush
  <2> USE <1>3 DEF ScanPush
  <2>1. /\ cur \in Messages /\ cur # NoMsg /\ queue \in Seq(Messages)
        /\ cur \notin InQueue \cup Held \cup batch /\ IsInjective(queue)
        /\ Pushing = {cur}
    BY DEF IInv, TypeOK, ScannerOK, OneHolder, Pushing
  <2>2. /\ queue' \in Seq(Messages) /\ Len(queue') = Len(queue) + 1
        /\ InQueue' = InQueue \cup {cur} /\ IsInjective(queue')
    BY <2>1, AppendNew DEF InQueue
  <2>3. Held' = Held /\ Pushing' = {}
    BY DEF Held, Pushing
  <2>4. TypeOK'
    BY <2>2, OutgoingAssumption DEF IInv, TypeOK, ScanAt
  <2>5. (OneHolder /\ MapIsInFlight)'
    BY <2>1, <2>2, <2>3 DEF IInv, OneHolder, MapIsInFlight
  <2>6. InFlightIsPending'
    BY <2>1, <2>2, <2>3 DEF IInv, InFlightIsPending
  <2>7. (ScannerOK /\ WorkersOK /\ OnlyStored /\ Reserve /\ DuplicatesExplained)'
    BY DEF IInv, ScannerOK, WorkersOK, OnlyStored, Reserve, DuplicatesExplained, Unsettled
  <2> QED
    BY <2>4, <2>5, <2>6, <2>7 DEF IInv
<1>4. CASE ScanStop \/ ScanQueryFails
  BY <1>4 DEF ScanStop, ScanQueryFails, IInv, TypeOK, ScanAt, OneHolder, MapIsInFlight,
       InFlightIsPending, ScannerOK, WorkersOK, OnlyStored, Reserve,
       DuplicatesExplained, Unsettled, InQueue, Held, Pushing
<1>5. CASE \E m \in Messages : ScanStore(m)
  <2> PICK m \in Messages : ScanStore(m)
    BY <1>5
  <2> USE DEF ScanStore
  <2>1. /\ m # NoMsg /\ Pushing = {} /\ Pushing' = {m} /\ InQueue' = InQueue
        /\ Held' = Held /\ m \notin InQueue \cup Held
    BY OutgoingAssumption DEF IInv, ScannerOK, OneHolder, Pushing, InQueue, Held
  <2>2. TypeOK'
    BY DEF IInv, TypeOK, ScanAt
  <2>3. (OneHolder /\ MapIsInFlight)'
    BY <2>1 DEF IInv, OneHolder, MapIsInFlight
  <2>4. InFlightIsPending'
    BY <2>1 DEF IInv, InFlightIsPending
  <2>5. (ScannerOK /\ WorkersOK /\ OnlyStored /\ Reserve /\ DuplicatesExplained)'
    BY <2>1 DEF IInv, ScannerOK, WorkersOK, OnlyStored, Reserve, DuplicatesExplained,
                Unsettled
  <2> QED
    BY <2>2, <2>3, <2>4, <2>5 DEF IInv
<1> QED
  BY <1>1, <1>2, <1>3, <1>4, <1>5 DEF Scanner

(* A worker that holds a message is its only holder. *)
LEMMA HolderFacts ==
  ASSUME IInv, NEW w \in Workers, wmsg[w] # NoMsg
  PROVE  /\ wmsg[w] \in Messages
         /\ wmsg[w] \notin InQueue \cup Pushing \cup batch
         /\ \A v \in Workers : v # w => wmsg[v] # wmsg[w]
BY DEF IInv, TypeOK, OneHolder, Held

(* A worker takes the head of the channel. *)
LEMMA ReceiveStep ==
  ASSUME IInv, NEW w \in Workers, Receive(w)
  PROVE  IInv'
<1> USE DEF Receive, scanner, process, stamps, history
<1> DEFINE h == Head(queue)
<1>1. /\ wmsg[w] = NoMsg /\ wmsg \in [Workers -> Messages \cup {NoMsg}]
      /\ wpc \in [Workers -> WorkerAt]
  BY DEF IInv, TypeOK, WorkersOK
<1>2. /\ h \in InQueue /\ h \in Messages /\ h # NoMsg
      /\ queue' \in Seq(Messages) /\ Len(queue') = Len(queue) - 1
      /\ InQueue' = InQueue \ {h} /\ IsInjective(queue')
      /\ Len(queue) \in Nat
  <2>1. queue \in Seq(Messages) /\ queue # <<>> /\ IsInjective(queue) /\ queue' = Tail(queue)
    BY DEF IInv, TypeOK, OneHolder
  <2>2. /\ h \in Range(queue) /\ h \in Messages
        /\ Tail(queue) \in Seq(Messages) /\ Len(Tail(queue)) = Len(queue) - 1
        /\ Range(Tail(queue)) = Range(queue) \ {h} /\ IsInjective(Tail(queue))
    BY <2>1, TailTakesHead
  <2> QED
    BY <2>1, <2>2, OutgoingAssumption DEF InQueue
<1>3. h \notin Held \cup Pushing \cup batch /\ status[h] = "pending"
  BY <1>2 DEF IInv, OneHolder, InFlightIsPending
<1>4. /\ wmsg'[w] = h /\ wpc'[w] = "send"
      /\ \A v \in Workers : v # w => wmsg'[v] = wmsg[v] /\ wpc'[v] = wpc[v]
      /\ \A v \in Workers : v # w => wmsg[v] # h
  BY <1>1, <1>2, <1>3 DEF Held
<1>5. Held' = Held \cup {h} /\ Pushing' = Pushing
  BY <1>1, <1>2, <1>4 DEF Held, Pushing
<1>6. TypeOK'
  BY <1>1, <1>2, OutgoingAssumption DEF IInv, TypeOK, WorkerAt
<1>7. OneHolder'
  BY <1>2, <1>3, <1>4, <1>5 DEF IInv, OneHolder
<1>8. (MapIsInFlight /\ InFlightIsPending)'
  BY <1>2, <1>3, <1>4, <1>5 DEF IInv, MapIsInFlight, InFlightIsPending
<1>9. (ScannerOK /\ WorkersOK /\ OnlyStored)'
  BY <1>2, <1>3, <1>4 DEF IInv, ScannerOK, WorkersOK, OnlyStored
<1>10. \A m \in Messages : Unsettled(m)' <=> Unsettled(m)
  BY <1>1, <1>4 DEF Unsettled, Answered
<1>11. (Reserve /\ DuplicatesExplained)'
  BY <1>10 DEF IInv, Reserve, DuplicatesExplained
<1> QED
  BY <1>6, <1>7, <1>8, <1>9, <1>11 DEF IInv

(* The transport's answer. *)
LEMMA SendStep ==
  ASSUME IInv, NEW w \in Workers,
         SendAccepted(w) \/ SendNotConnected(w) \/ SendRefused(w)
  PROVE  IInv'
<1> USE DEF scanner, process, stamps, history
<1> DEFINE m == wmsg[w]
<1>1. /\ wpc[w] = "send"
      /\ UNCHANGED <<status, stamps, processing, queue, scanner, wmsg, rmsg, process, reasons>>
      /\ \E a \in Answered : wpc' = [wpc EXCEPT ![w] = a]
      /\ \E n \in {0, 1} : sends' = [sends EXCEPT ![m] = @ + n]
  <2>1. sends = [sends EXCEPT ![m] = @ + 0]
    BY DEF IInv, TypeOK
  <2> QED
    BY <2>1 DEF SendAccepted, SendNotConnected, SendRefused, Answered
<1>2. m # NoMsg
  BY <1>1 DEF IInv, WorkersOK
<1>3. m \in Messages /\ \A v \in Workers : v # w => wmsg[v] # m
  BY <1>2, HolderFacts
<1>4. status[m] = "pending" /\ ~Unsettled(m)
  BY <1>1, <1>3 DEF IInv, InFlightIsPending, Unsettled, Answered
<1>5. wpc'[w] \in Answered /\ \A v \in Workers : v # w => wpc'[v] = wpc[v]
  BY <1>1 DEF IInv, TypeOK
<1>6. TypeOK'
  <2>1. wpc' \in [Workers -> WorkerAt]
    BY <1>1 DEF IInv, TypeOK, Answered, WorkerAt
  <2>2. sends' \in [Messages -> Nat]
    BY <1>1, <1>3 DEF IInv, TypeOK
  <2> QED
    BY <1>1, <2>1, <2>2 DEF IInv, TypeOK
<1>7. (OneHolder /\ MapIsInFlight /\ ScannerOK /\ OnlyStored)'
  BY <1>1 DEF IInv, OneHolder, MapIsInFlight, ScannerOK, OnlyStored, InQueue, Held, Pushing
<1>8. (InFlightIsPending /\ WorkersOK)'
  BY <1>1, <1>5, <1>4, <1>2 DEF IInv, InFlightIsPending, WorkersOK, InQueue, Pushing, Answered
<1>9. /\ Unsettled(m)'
      /\ \A k \in Messages \ {m} : Unsettled(k)' <=> Unsettled(k)
  BY <1>1, <1>3, <1>5 DEF Unsettled
<1>10. /\ sends[m] <= reasons[m]
       /\ sends'[m] \in {sends[m], sends[m] + 1}
       /\ sends[m] \in Nat /\ reasons[m] \in Nat
       /\ \A k \in Messages \ {m} : sends'[k] = sends[k]
  BY <1>1, <1>3, <1>4 DEF IInv, TypeOK, Reserve
<1>11. (Reserve /\ DuplicatesExplained)'
  BY <1>1, <1>9, <1>10 DEF IInv, Reserve, DuplicatesExplained
<1> QED
  BY <1>6, <1>7, <1>8, <1>11 DEF IInv

(* The status update, done or refused by the database. *)
LEMMA AnswerStep ==
  ASSUME IInv, NEW w \in Workers, StoreAnswer(w) \/ StoreAnswerFails(w)
  PROVE  IInv'
<1> USE DEF scanner, process, stamps, history
<1> DEFINE m == wmsg[w]
<1>1. /\ wpc[w] \in Answered
      /\ UNCHANGED <<stamps, processing, queue, scanner, wmsg, rmsg, process, sends>>
      /\ \E a \in {"stamp", "release"} : wpc' = [wpc EXCEPT ![w] = a]
      /\ \/ UNCHANGED reasons /\ \E s \in {"sent", "failed"} : status' = [status EXCEPT ![m] = s]
         \/ UNCHANGED status /\ AddReason({m})
  BY DEF StoreAnswer, StoreAnswerFails, NextAfterAnswer
<1>2. m # NoMsg
  BY <1>1 DEF IInv, WorkersOK, Answered
<1>3. /\ m \in Messages /\ m \notin InQueue \cup Pushing \cup batch
      /\ \A v \in Workers : v # w => wmsg[v] # m
  BY <1>2, HolderFacts
<1>4. wpc'[w] \in {"stamp", "release"} /\ \A v \in Workers : v # w => wpc'[v] = wpc[v]
  BY <1>1 DEF IInv, TypeOK
<1>5. \A k \in Messages \ {m} : status'[k] = status[k] /\ reasons'[k] = reasons[k]
  BY <1>1, <1>3 DEF IInv, TypeOK, AddReason
<1>6. TypeOK'
  <2>1. status' \in [Messages -> Statuses]
    BY <1>1 DEF IInv, TypeOK, Statuses
  <2>2. wpc' \in [Workers -> WorkerAt]
    BY <1>1 DEF IInv, TypeOK, WorkerAt
  <2>3. reasons' \in [Messages -> Nat]
    BY <1>1 DEF IInv, TypeOK, AddReason
  <2> QED
    BY <1>1, <2>1, <2>2, <2>3 DEF IInv, TypeOK
<1>7. (OneHolder /\ MapIsInFlight /\ ScannerOK)'
  BY <1>1 DEF IInv, OneHolder, MapIsInFlight, ScannerOK, InQueue, Held, Pushing
<1>8. InFlightIsPending'
  <2>1. batch' = batch /\ Pushing' = Pushing /\ InQueue' = InQueue
    BY <1>1 DEF Pushing, InQueue
  <2>2. batch \cup Pushing \cup InQueue \subseteq Messages \ {m}
    BY <1>3 DEF IInv, TypeOK, Pushing, InQueue, Range
  <2>3. ASSUME NEW v \in Workers, wpc'[v] \in {"send"} \cup Answered
        PROVE  status'[wmsg'[v]] = "pending"
    <3>1. v # w /\ wpc[v] \in {"send"} \cup Answered /\ wmsg'[v] = wmsg[v]
      BY <2>3, <1>1, <1>4 DEF Answered
    <3>2. wmsg[v] \in Messages \ {m} /\ status[wmsg[v]] = "pending"
      BY <3>1, <1>3 DEF IInv, TypeOK, WorkersOK, InFlightIsPending, Answered
    <3> QED
      BY <3>1, <3>2, <1>5
  <2> QED
    BY <2>1, <2>2, <2>3, <1>5 DEF IInv, InFlightIsPending
<1>9. WorkersOK'
  BY <1>1, <1>2, <1>4 DEF IInv, WorkersOK
<1>10. OnlyStored'
  BY <1>1 DEF IInv, TypeOK, OnlyStored
<1>11. \A k \in Messages \ {m} : Unsettled(k)' <=> Unsettled(k)
  BY <1>1, <1>3, <1>4 DEF Unsettled, Answered
<1>12. /\ \/ status'[m] \in {"sent", "failed"} /\ reasons'[m] = reasons[m]
          \/ reasons'[m] = reasons[m] + 1
       /\ sends[m] <= 1 + reasons[m] /\ sends[m] \in Nat /\ reasons[m] \in Nat
  BY <1>1, <1>3 DEF IInv, TypeOK, AddReason, DuplicatesExplained
<1>13. (Reserve /\ DuplicatesExplained)'
  BY <1>1, <1>5, <1>11, <1>12 DEF IInv, Reserve, DuplicatesExplained
<1> QED
  BY <1>6, <1>7, <1>8, <1>9, <1>10, <1>13 DEF IInv

(* The worker stamps the conversation of a sent reply, or fails to. *)
LEMMA StampStep ==
  ASSUME IInv, NEW w \in Workers, StampReply(w) \/ StampFails(w)
  PROVE  IInv'
<1> USE DEF StampReply, StampFails, scanner, process, stamps, history
<1>1. /\ wpc[w] = "stamp" /\ wpc' = [wpc EXCEPT ![w] = "release"]
      /\ UNCHANGED <<status, processing, queue, scanner, wmsg, rmsg, process, history>>
  OBVIOUS
<1>2. wmsg[w] \in Messages
  BY <1>1 DEF IInv, TypeOK, WorkersOK
<1>3. /\ wpc'[w] = "release"
      /\ \A v \in Workers : v # w => wpc'[v] = wpc[v]
  BY <1>1 DEF IInv, TypeOK
<1>4. TypeOK'
  <2>1. wpc' \in [Workers -> WorkerAt]
    BY <1>1 DEF IInv, TypeOK, WorkerAt
  <2>2. replied' \in SUBSET Messages /\ unstamped' \in SUBSET Messages
    BY <1>2 DEF IInv, TypeOK
  <2> QED
    BY <1>1, <2>1, <2>2 DEF IInv, TypeOK
<1>5. (OneHolder /\ MapIsInFlight /\ ScannerOK /\ OnlyStored)'
  BY <1>1 DEF IInv, OneHolder, MapIsInFlight, ScannerOK, OnlyStored, InQueue, Held, Pushing
<1>6. (InFlightIsPending /\ WorkersOK)'
  BY <1>1, <1>3 DEF IInv, InFlightIsPending, WorkersOK, InQueue, Pushing, Answered
<1>7. \A k \in Messages : Unsettled(k)' <=> Unsettled(k)
  BY <1>1, <1>3 DEF Unsettled, Answered
<1>8. (Reserve /\ DuplicatesExplained)'
  BY <1>1, <1>7 DEF IInv, Reserve, DuplicatesExplained
<1> QED
  BY <1>4, <1>5, <1>6, <1>8 DEF IInv

(* The worker takes its message out of the processing map. *)
LEMMA ReleaseStep ==
  ASSUME IInv, NEW w \in Workers, Release(w)
  PROVE  IInv'
<1> USE DEF Release, scanner, process, stamps, history
<1> DEFINE m == wmsg[w]
<1>1. m # NoMsg
  BY DEF IInv, WorkersOK
<1>2. /\ m \in Messages /\ m \notin InQueue \cup Pushing \cup batch
      /\ \A v \in Workers : v # w => wmsg[v] # m
  BY <1>1, HolderFacts
<1>3. /\ wpc'[w] = "select" /\ wmsg'[w] = NoMsg
      /\ \A v \in Workers : v # w => wpc'[v] = wpc[v] /\ wmsg'[v] = wmsg[v]
  BY DEF IInv, TypeOK
<1>4. Held' = Held \ {m} /\ Pushing' = Pushing /\ InQueue' = InQueue
  BY <1>1, <1>2, <1>3 DEF Held, Pushing, InQueue
<1>5. TypeOK'
  BY DEF IInv, TypeOK, WorkerAt
<1>6. (OneHolder /\ MapIsInFlight)'
  BY <1>2, <1>3, <1>4 DEF IInv, OneHolder, MapIsInFlight
<1>7. (InFlightIsPending /\ ScannerOK /\ WorkersOK /\ OnlyStored)'
  BY <1>3, <1>4 DEF IInv, InFlightIsPending, ScannerOK, WorkersOK, OnlyStored, Answered
<1>8. \A k \in Messages : Unsettled(k)' <=> Unsettled(k)
  BY <1>2, <1>3 DEF Unsettled, Answered
<1>9. (Reserve /\ DuplicatesExplained)'
  BY <1>8 DEF IInv, Reserve, DuplicatesExplained
<1> QED
  BY <1>5, <1>6, <1>7, <1>9 DEF IInv

(* A worker that finds the channel closed and empty ends. *)
LEMMA WorkerExitStep ==
  ASSUME IInv, NEW w \in Workers, WorkerExit(w)
  PROVE  IInv'
<1> USE DEF WorkerExit, scanner, process, stamps, history
<1>1. \A v \in Workers : wpc'[v] # wpc[v] => wpc[v] = "select" /\ wpc'[v] = "exited"
  BY DEF IInv, TypeOK
<1>2. TypeOK'
  BY DEF IInv, TypeOK, WorkerAt
<1>3. (OneHolder /\ MapIsInFlight /\ ScannerOK /\ OnlyStored)'
  BY DEF IInv, OneHolder, MapIsInFlight, ScannerOK, OnlyStored, InQueue, Held, Pushing
<1>4. (InFlightIsPending /\ WorkersOK)'
  BY <1>1 DEF IInv, InFlightIsPending, WorkersOK, InQueue, Pushing, Answered
<1>5. \A k \in Messages : Unsettled(k)' <=> Unsettled(k)
  BY <1>1 DEF Unsettled, Answered
<1>6. (Reserve /\ DuplicatesExplained)'
  BY <1>5 DEF IInv, Reserve, DuplicatesExplained
<1> QED
  BY <1>2, <1>3, <1>4, <1>6 DEF IInv

(* The end of the process. *)
LEMMA DieStep ==
  ASSUME IInv, Die, stops' \in Nat
  PROVE  IInv'
<1> USE DEF Die
<1>1. TypeOK'
  <2>1. \A w \in Workers : wpc[w] = "stamp" => wmsg[w] \in Messages
    BY DEF IInv, TypeOK, WorkersOK
  <2>2. unstamped' \in SUBSET Messages
    BY <2>1 DEF IInv, TypeOK
  <2> QED
    BY <2>2, OutgoingAssumption DEF IInv, TypeOK, ScanAt, WorkerAt, AddReason
<1>2. InQueue' = {} /\ IsInjective(queue') /\ Held' = {} /\ Pushing' = {}
  BY DEF InQueue, Range, IsInjective, Held, Pushing
<1>3. (OneHolder /\ MapIsInFlight /\ InFlightIsPending)'
  BY <1>2 DEF OneHolder, MapIsInFlight, InFlightIsPending, Answered
<1>4. (ScannerOK /\ WorkersOK /\ OnlyStored)'
  BY DEF ScannerOK, WorkersOK, OnlyStored
<1>5. \A m \in Messages : /\ reasons[m] \in Nat /\ sends[m] \in Nat
                          /\ reasons'[m] = IF Unsettled(m) THEN reasons[m] + 1 ELSE reasons[m]
  BY DEF IInv, TypeOK, AddReason
<1>6. (Reserve /\ DuplicatesExplained)'
  BY <1>5 DEF IInv, Reserve, DuplicatesExplained
<1> QED
  BY <1>1, <1>3, <1>4, <1>6 DEF IInv

-----------------------------------------------------------------------------
(* IInv holds in every state of the pipeline. *)
THEOREM Invariance == Spec => []IInv
<1>1. IInv /\ [Next]_vars => IInv'
  <2> SUFFICES ASSUME IInv, [Next]_vars PROVE IInv'
    OBVIOUS
  <2>1. ASSUME NEW m \in Messages, QueueReply(m) PROVE IInv'
    BY <2>1, QueueReplyStep
  <2>2. ASSUME NEW r \in Requests, Request(r) PROVE IInv'
    BY <2>2, RequestStep
  <2>3. CASE Scanner \/ ScanQueryFails
    BY <2>3, ScannerStep
  <2>4. ASSUME NEW w \in Workers, Worker(w) PROVE IInv'
    BY <2>4, ReceiveStep, WorkerExitStep, SendStep, AnswerStep, StampStep, ReleaseStep
       DEF Worker
  <2>5. CASE ScanPanics \/ Crash \/ Exit
    <3>1. Die /\ stops' \in Nat
      BY <2>5 DEF ScanPanics, Crash, Exit, IInv, TypeOK
    <3> QED
      BY <3>1, DieStep
  <2>6. CASE Signal \/ CloseQueues \/ Restart
    <3>1. /\ UNCHANGED <<status, stamps, processing, queue, scanner, workers, rmsg, history>>
          /\ stops' \in Nat /\ proc' \in {"up", "signalled", "closing", "down"}
      BY <2>6 DEF Signal, CloseQueues, Restart, IInv, TypeOK
    <3> QED
      BY <3>1, QuietStep
  <2>7. CASE UNCHANGED vars
    <3>1. /\ UNCHANGED <<status, stamps, processing, queue, scanner, workers, rmsg, history>>
          /\ stops' \in Nat /\ proc' \in {"up", "signalled", "closing", "down"}
      BY <2>7 DEF vars, process, IInv, TypeOK
    <3> QED
      BY <3>1, QuietStep
  <2> QED
    BY <2>1, <2>2, <2>3, <2>4, <2>5, <2>6, <2>7 DEF Next
<1> QED
  BY InitIInv, <1>1, PTL DEF Spec

(* The variables of database, channel, scanner, workers, requests and      *)
(* process keep their types.                                               *)
THEOREM TypeCorrect == Spec => []TypeOK
<1>1. IInv => TypeOK
  BY DEF IInv
<1> QED
  BY <1>1, Invariance, PTL

(* A reply on its way is in one hand only, the processing map names just   *)
(* the replies on their way, and those are pending in the database.        *)
THEOREM RepliesInCustody == Spec => []Custody
<1>1. IInv => Custody
  BY DEF IInv, Custody
<1> QED
  BY <1>1, Invariance, PTL

(* Every delivery of a reply after the first has its reason: at most once  *)
(* per reason, whatever the interleaving of scanner, workers, retries and  *)
(* restarts.                                                               *)
THEOREM NoUnexplainedDuplicate == Spec => []DuplicatesExplained
BY Invariance, PTL DEF IInv

(* Every human reply that counts as sent is stamped, about to be, or lost  *)
(* its stamp to an error or to the end of the process.                     *)
THEOREM SentRepliesAreStamped == Spec => []SentIsStamped
<1>1. Init => SentIsStamped
  BY OutgoingAssumption DEF Init, SentIsStamped
<1>2. IInv /\ SentIsStamped /\ [Next]_vars => SentIsStamped'
  <2> SUFFICES ASSUME IInv, SentIsStamped, [Next]_vars, NEW m \in Human, status'[m] = "sent"
               PROVE  \/ m \in replied' \cup unstamped'
                      \/ \E w \in Workers : wmsg'[w] = m /\ wpc'[w] = "stamp"
    BY DEF SentIsStamped
  <2> USE DEF scanner, workers, process, stamps, history
  <2>1. m \in Messages
    BY OutgoingAssumption
  <2>2. ASSUME UNCHANGED <<status, stamps>>,
               \A w \in Workers : wpc[w] = "stamp" => wpc'[w] = "stamp" /\ wmsg'[w] = wmsg[w]
        PROVE  \/ m \in replied' \cup unstamped'
               \/ \E w \in Workers : wmsg'[w] = m /\ wpc'[w] = "stamp"
    BY <2>2 DEF SentIsStamped
  <2>3. ASSUME status[m] = "sent", UNCHANGED <<stamps, wpc, wmsg>>
        PROVE  \/ m \in replied' \cup unstamped'
               \/ \E w \in Workers : wmsg'[w] = m /\ wpc'[w] = "stamp"
    BY <2>3 DEF SentIsStamped
  <2>4. ASSUME NEW k \in Messages, QueueReply(k)
        PROVE  status[m] = "sent" /\ UNCHANGED <<stamps, wpc, wmsg>>
    BY <2>4 DEF QueueReply, IInv, TypeOK
  <2>5. ASSUME NEW r \in Requests, Request(r)
        PROVE  status[m] = "sent" /\ UNCHANGED <<stamps, wpc, wmsg>>
    <3>1. CASE RetryMark(r)
      BY <3>1, <2>1 DEF RetryMark, IInv, TypeOK
    <3>2. CASE ~RetryMark(r)
      BY <3>2, <2>5 DEF Request, RetryCheck, RetryFails
    <3> QED
      BY <3>1, <3>2
  <2>6. ASSUME NEW w \in Workers, StoreAnswer(w)
        PROVE  \/ m \in replied' \cup unstamped'
               \/ \E v \in Workers : wmsg'[v] = m /\ wpc'[v] = "stamp"
    <3>1. CASE wmsg[w] = m
      <4>1. wpc[w] = "accepted"
        BY <2>6, <3>1, <2>1 DEF StoreAnswer, IInv, TypeOK, Answered
      <4>2. wpc'[w] = "stamp" /\ wmsg'[w] = m
        BY <2>6, <3>1, <4>1 DEF StoreAnswer, NextAfterAnswer, IInv, TypeOK
      <4> QED
        BY <4>2
    <3>2. CASE wmsg[w] # m
      <4>1. status[m] = "sent" /\ UNCHANGED <<stamps, wmsg>>
        BY <2>6, <3>2, <2>1 DEF StoreAnswer, IInv, TypeOK
      <4>2. \A v \in Workers : wpc[v] = "stamp" => wpc'[v] = "stamp"
        BY <2>6 DEF StoreAnswer, IInv, TypeOK, Answered
      <4> QED
        BY <4>1, <4>2 DEF SentIsStamped
    <3> QED
      BY <3>1, <3>2
  <2>7. ASSUME NEW w \in Workers, StampReply(w) \/ StampFails(w)
        PROVE  \/ m \in replied' \cup unstamped'
               \/ \E v \in Workers : wmsg'[v] = m /\ wpc'[v] = "stamp"
    <3>1. /\ UNCHANGED <<status, wmsg>>
          /\ replied' \cup unstamped' = replied \cup unstamped \cup {wmsg[w]}
          /\ \A v \in Workers : v # w => wpc'[v] = wpc[v]
      BY <2>7 DEF StampReply, StampFails, IInv, TypeOK
    <3> QED
      BY <3>1 DEF SentIsStamped
  <2>8. ASSUME NEW w \in Workers, Worker(w),
               ~StoreAnswer(w), ~(StampReply(w) \/ StampFails(w))
        PROVE  /\ UNCHANGED <<status, stamps>>
               /\ \A v \in Workers : wpc[v] = "stamp" => wpc'[v] = "stamp" /\ wmsg'[v] = wmsg[v]
    <3>1. /\ wpc[w] # "stamp" /\ UNCHANGED <<status, stamps>>
          /\ \E a \in WorkerAt, k \in Messages \cup {NoMsg} :
               wpc' = [wpc EXCEPT ![w] = a] /\ wmsg' = [wmsg EXCEPT ![w] = k]
      <4>1. wmsg = [wmsg EXCEPT ![w] = wmsg[w]] /\ wmsg[w] \in Messages \cup {NoMsg}
        BY DEF IInv, TypeOK
      <4>2. CASE Receive(w)
        <5>1. Head(queue) \in Messages
          BY <4>2 DEF Receive, IInv, TypeOK
        <5> QED
          BY <4>2, <5>1 DEF Receive, WorkerAt
      <4>3. CASE WorkerExit(w) \/ SendAccepted(w) \/ SendNotConnected(w) \/ SendRefused(w)
        BY <4>1, <4>3 DEF WorkerExit, SendAccepted, SendNotConnected, SendRefused, WorkerAt
      <4>4. CASE StoreAnswerFails(w)
        BY <4>1, <4>4 DEF StoreAnswerFails, NextAfterAnswer, WorkerAt, Answered
      <4>5. CASE Release(w)
        BY <4>5 DEF Release, WorkerAt
      <4> QED
        BY <2>8, <4>2, <4>3, <4>4, <4>5 DEF Worker
    <3>2. PICK a \in WorkerAt, k \in Messages \cup {NoMsg} :
            wpc' = [wpc EXCEPT ![w] = a] /\ wmsg' = [wmsg EXCEPT ![w] = k]
      BY <3>1
    <3>3. \A v \in Workers : v # w => wpc'[v] = wpc[v] /\ wmsg'[v] = wmsg[v]
      BY <3>2 DEF IInv, TypeOK
    <3> QED
      BY <3>1, <3>3
  <2>9. CASE Scanner \/ ScanQueryFails \/ Signal \/ CloseQueues \/ Restart \/ UNCHANGED vars
    BY <2>9, <2>2 DEF Scanner, ScanTick, ScanQuery, ScanPush, ScanStop, ScanStore,
                      ScanQueryFails, Signal, CloseQueues, Restart, vars
  <2>10. CASE Die
    BY <2>10 DEF Die, SentIsStamped
  <2> QED
    BY <2>2, <2>3, <2>4, <2>5, <2>6, <2>7, <2>8, <2>9, <2>10
       DEF Next, ScanPanics, Crash, Exit
<1> QED
  BY Invariance, <1>1, <1>2, PTL DEF Spec

-----------------------------------------------------------------------------
(* Only the worker that has the transport's answer takes a reply out of    *)
(* 'pending'.                                                              *)
THEOREM OnlyHolderSettles == Spec => SettledByHolder
<1>1. ASSUME IInv, [Next]_vars, NEW m \in Messages,
             status[m] = "pending", status'[m] # "pending"
      PROVE  \E w \in Workers : wmsg[w] = m /\ wpc[w] \in Answered
                                /\ wpc'[w] \in {"stamp", "release"}
  <2> USE <1>1 DEF history
  <2>1. ASSUME NEW w \in Workers, StoreAnswer(w)
        PROVE  wmsg[w] = m /\ wpc[w] \in Answered /\ wpc'[w] \in {"stamp", "release"}
    <3>1. wpc'[w] \in {"stamp", "release"}
      BY <2>1 DEF StoreAnswer, NextAfterAnswer, IInv, TypeOK
    <3>2. wmsg[w] = m
      BY <2>1 DEF StoreAnswer, IInv, TypeOK
    <3> QED
      BY <3>1, <3>2, <2>1 DEF StoreAnswer
  <2>2. ASSUME NEW k \in Messages, QueueReply(k) PROVE FALSE
    BY <2>2 DEF QueueReply, IInv, TypeOK
  <2>3. ASSUME NEW r \in Requests, Request(r) PROVE FALSE
    BY <2>3 DEF Request, RetryCheck, RetryMark, RetryFails, IInv, TypeOK
  <2>4. CASE UNCHANGED status
    BY <2>4
  <2>5. ASSUME NEW w \in Workers, Worker(w), ~StoreAnswer(w) PROVE UNCHANGED status
    BY <2>5 DEF Worker, Receive, WorkerExit, SendAccepted, SendNotConnected,
                SendRefused, StoreAnswerFails, StampReply, StampFails, Release
  <2>6. CASE Scanner \/ ScanQueryFails
    BY <2>6, <2>4 DEF Scanner, ScanTick, ScanQuery, ScanPush, ScanStop, ScanStore,
                      ScanQueryFails
  <2>7. CASE ScanPanics \/ Crash \/ Exit \/ Signal \/ CloseQueues \/ Restart \/ UNCHANGED vars
    BY <2>7, <2>4 DEF ScanPanics, Crash, Exit, Signal, CloseQueues, Restart, Die, vars
  <2> QED
    BY <2>1, <2>2, <2>3, <2>4, <2>5, <2>6, <2>7 DEF Next
<1>2. IInv /\ [Next]_vars =>
        [\A m \in Messages :
           status[m] = "pending" /\ status'[m] # "pending" =>
             \E w \in Workers : wmsg[w] = m /\ wpc[w] \in Answered
                                /\ wpc'[w] \in {"stamp", "release"}]_vars
  BY <1>1
<1> QED
  BY Invariance, <1>2, PTL DEF Spec, SettledByHolder

-----------------------------------------------------------------------------
(* The pipeline implements Delivery: its initial states map to initial     *)
(* states, and each of its steps to a step of Delivery or to a stutter.    *)

Mapped == [m \in Messages |-> IF Unsettled(m) THEN "attempted" ELSE status[m]]

(* A step that leaves status, sends, reasons and the answered replies      *)
(* alone is a stutter of Delivery.                                         *)
LEMMA Stutters ==
  ASSUME UNCHANGED <<status, sends, reasons>>,
         \A m \in Messages : Unsettled(m)' <=> Unsettled(m)
  PROVE  UNCHANGED <<Mapped, sends, reasons>>
BY DEF Mapped

(* New reasons, and a fresh attempt for some of the replies that got one.  *)
LEMMA Renewal ==
  ASSUME NEW M \in SUBSET Messages, \A m \in M : status[m] # "none",
         AddReason(M), UNCHANGED sends, NEW again \in SUBSET M,
         Mapped' = [m \in Messages |-> IF m \in again THEN "pending" ELSE Mapped[m]]
  PROVE  D!DNext
<1>1. \A m \in M : Mapped[m] # "none"
  BY DEF Mapped
<1>2. D!Renew(M)
  BY <1>1 DEF D!Renew, AddReason, Mapped
<1> QED
  BY <1>2 DEF D!DNext

(* The pipeline of scanner, channel, workers and retries implements Delivery. *)
THEOREM ImplementsDelivery == Spec => Implements
<1>1. Init => D!DInit
  BY DEF Init, D!DInit, Unsettled, Answered
<1>2. IInv /\ [Next]_vars => [D!DNext]_(D!avars)
  <2> SUFFICES ASSUME IInv, [Next]_vars
               PROVE  D!DNext \/ UNCHANGED <<Mapped, sends, reasons>>
    BY DEF D!avars, Mapped
  <2> USE DEF scanner, workers, process, stamps, history
  <2>1. ASSUME NEW m \in Messages, QueueReply(m) PROVE D!Accept(m)
    <3>1. \A k \in Messages : Unsettled(k)' <=> Unsettled(k)
      BY <2>1 DEF QueueReply, Unsettled
    <3>2. ~Unsettled(m)
      BY <2>1 DEF QueueReply, Unsettled, IInv, OnlyStored, WorkersOK, Answered
    <3> QED
      BY <2>1, <3>1, <3>2 DEF QueueReply, D!Accept, IInv, TypeOK
  <2>2. ASSUME NEW r \in Requests, Request(r)
        PROVE  D!DNext \/ UNCHANGED <<Mapped, sends, reasons>>
    <3>1. CASE RetryMark(r)
      <4> DEFINE m == rmsg[r]
      <4>1. /\ m \in Messages /\ status[m] # "none" /\ AddReason({m}) /\ UNCHANGED sends
            /\ status' = [status EXCEPT ![m] = "pending"]
            /\ \A k \in Messages : Unsettled(k)' <=> Unsettled(k)
        BY <3>1 DEF RetryMark, Unsettled, IInv, TypeOK, OnlyStored
      <4>2. CASE Unsettled(m)
        <5>1. Mapped' = [k \in Messages |-> IF k \in {} THEN "pending" ELSE Mapped[k]]
          BY <4>1, <4>2 DEF Mapped, IInv, TypeOK
        <5>2. {m} \in SUBSET Messages /\ {} \in SUBSET {m} /\ \A k \in {m} : status[k] # "none"
          BY <4>1
        <5> QED
          BY <4>1, <5>1, <5>2, Renewal
      <4>3. CASE ~Unsettled(m)
        <5>1. Mapped' = [k \in Messages |-> IF k \in {m} THEN "pending" ELSE Mapped[k]]
          BY <4>1, <4>3 DEF Mapped, IInv, TypeOK
        <5> QED
          BY <4>1, <5>1, Renewal
      <4> QED
        BY <4>2, <4>3
    <3>2. CASE RetryFails(r) \/ \E m \in Messages : RetryCheck(r, m)
      BY <3>2, Stutters DEF RetryFails, RetryCheck, Unsettled
    <3> QED
      BY <2>2, <3>1, <3>2 DEF Request
  <2>3. ASSUME Scanner \/ ScanQueryFails
        PROVE  UNCHANGED <<Mapped, sends, reasons>>
    BY <2>3, Stutters DEF Scanner, ScanTick, ScanQuery, ScanPush, ScanStop, ScanStore,
                          ScanQueryFails, Unsettled
  <2>4. ASSUME NEW w \in Workers, Receive(w) \/ WorkerExit(w) \/ StampReply(w) \/ StampFails(w) \/ Release(w)
        PROVE  UNCHANGED <<Mapped, sends, reasons>>
    <3>1. \A v \in Workers : (wpc[v] \in Answered \/ wpc'[v] \in Answered)
                               => wpc'[v] = wpc[v] /\ wmsg'[v] = wmsg[v]
      BY <2>4 DEF Receive, WorkerExit, StampReply, StampFails, Release, IInv, TypeOK, Answered
    <3> QED
      BY <2>4, <3>1, Stutters DEF Receive, WorkerExit, StampReply, StampFails, Release, Unsettled
  <2>5. ASSUME NEW w \in Workers, SendAccepted(w) \/ SendNotConnected(w) \/ SendRefused(w)
        PROVE  D!DNext
    <3>1. wmsg[w] # NoMsg
      BY <2>5 DEF SendAccepted, SendNotConnected, SendRefused, IInv, WorkersOK
    <3>2. PICK m \in Messages : m = wmsg[w] /\ \A v \in Workers : v # w => wmsg[v] # m
      BY <3>1, HolderFacts
    <3>3. /\ wpc[w] = "send" /\ UNCHANGED <<status, wmsg, reasons>>
          /\ \E a \in Answered : wpc' = [wpc EXCEPT ![w] = a]
          /\ \E n \in {0, 1} : sends' = [sends EXCEPT ![m] = @ + n]
      <4>1. sends = [sends EXCEPT ![m] = @ + 0]
        BY DEF IInv, TypeOK
      <4> QED
        BY <2>5, <3>2, <4>1 DEF SendAccepted, SendNotConnected, SendRefused, Answered
    <3>4. /\ status[m] = "pending" /\ ~Unsettled(m) /\ Unsettled(m)'
          /\ \A k \in Messages \ {m} : Unsettled(k)' <=> Unsettled(k)
      BY <3>2, <3>3 DEF IInv, TypeOK, InFlightIsPending, Unsettled, Answered
    <3>5. Mapped[m] = "pending" /\ Mapped' = [Mapped EXCEPT ![m] = "attempted"]
      BY <3>2, <3>3, <3>4 DEF Mapped
    <3>6. D!Attempt(m)
      BY <3>3, <3>5 DEF D!Attempt, Mapped
    <3> QED
      BY <3>2, <3>6 DEF D!DNext
  <2>6. ASSUME NEW w \in Workers, StoreAnswer(w)
        PROVE  D!DNext
    <3>1. wmsg[w] # NoMsg
      BY <2>6 DEF StoreAnswer, IInv, WorkersOK, Answered
    <3>2. PICK m \in Messages : m = wmsg[w] /\ \A v \in Workers : v # w => wmsg[v] # m
      BY <3>1, HolderFacts
    <3>3. /\ Unsettled(m) /\ ~Unsettled(m)'
          /\ \A k \in Messages \ {m} : Unsettled(k)' <=> Unsettled(k)
      BY <2>6, <3>2 DEF StoreAnswer, NextAfterAnswer, IInv, TypeOK, Unsettled, Answered
    <3>4. PICK s \in {"sent", "failed"} : status' = [status EXCEPT ![m] = s]
      BY <2>6, <3>2 DEF StoreAnswer
    <3>5. Mapped[m] = "attempted" /\ Mapped' = [Mapped EXCEPT ![m] = s]
      <4>1. /\ status'[m] = s
            /\ \A k \in Messages \ {m} : status'[k] = status[k]
        BY <3>2, <3>4 DEF IInv, TypeOK
      <4> QED
        BY <3>2, <3>3, <4>1 DEF Mapped
    <3>6. D!Settle(m)
      BY <2>6, <3>5 DEF StoreAnswer, D!Settle, Mapped
    <3> QED
      BY <3>6 DEF D!DNext
  <2>7. ASSUME NEW w \in Workers, StoreAnswerFails(w)
        PROVE  D!DNext
    <3>1. wmsg[w] # NoMsg
      BY <2>7 DEF StoreAnswerFails, IInv, WorkersOK, Answered
    <3>2. PICK m \in Messages : m = wmsg[w] /\ \A v \in Workers : v # w => wmsg[v] # m
      BY <3>1, HolderFacts
    <3>3. /\ Unsettled(m) /\ ~Unsettled(m)'
          /\ \A k \in Messages \ {m} : Unsettled(k)' <=> Unsettled(k)
      BY <2>7, <3>2 DEF StoreAnswerFails, NextAfterAnswer, IInv, TypeOK, Unsettled, Answered
    <3>4. status[m] = "pending" /\ AddReason({m}) /\ UNCHANGED <<status, sends>>
      BY <2>7, <3>2 DEF StoreAnswerFails, IInv, InFlightIsPending
    <3>5. Mapped' = [k \in Messages |-> IF k \in {m} THEN "pending" ELSE Mapped[k]]
      <4>1. \A k \in Messages : k # m => (Unsettled(k)' <=> Unsettled(k))
        BY <3>3
      <4> QED
        BY <3>2, <3>3, <3>4, <4>1 DEF Mapped
    <3> QED
      BY <3>2, <3>4, <3>5, Renewal
  <2>8. ASSUME Die PROVE D!DNext
    <3> DEFINE M == {m \in Messages : Unsettled(m)}
    <3>1. \A m \in M : status[m] = "pending"
      BY DEF Unsettled, IInv, InFlightIsPending
    <3>2. AddReason(M) /\ UNCHANGED <<status, sends>> /\ \A m \in Messages : ~Unsettled(m)'
      BY <2>8 DEF Die, Unsettled, Answered
    <3>3. Mapped' = [m \in Messages |-> IF m \in M THEN "pending" ELSE Mapped[m]]
      BY <3>1, <3>2 DEF Mapped
    <3> QED
      BY <3>1, <3>2, <3>3, Renewal
  <2>9. CASE Signal \/ CloseQueues \/ Restart \/ UNCHANGED vars
    BY <2>9, Stutters DEF Signal, CloseQueues, Restart, vars, Unsettled
  <2> QED
    <3>1. ASSUME NEW w \in Workers, Worker(w)
          PROVE  D!DNext \/ UNCHANGED <<Mapped, sends, reasons>>
      BY <3>1, <2>4, <2>5, <2>6, <2>7 DEF Worker
    <3>2. ASSUME NEW m \in Messages, QueueReply(m) PROVE D!DNext
      BY <3>2, <2>1 DEF D!DNext
    <3> QED
      BY <3>1, <3>2, <2>2, <2>3, <2>8, <2>9 DEF Next, ScanPanics, Crash, Exit
<1> QED
  BY Invariance, <1>1, <1>2, PTL DEF Spec, Implements, D!DSpec
=============================================================================
