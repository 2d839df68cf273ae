----------------------------- MODULE SlaProofs -----------------------------
(***************************************************************************)
(* The safety properties of Sla, for any number of SLAs and any bounds.    *)
(***************************************************************************)
EXTENDS Sla, TLAPS

(* Times are in the past; a reply whose time is not yet written is the     *)
(* first.                                                                  *)
TimesOK ==
  /\ \A m \in Metrics : fact[m] # None => fact[m] <= now
  /\ stamp # None => stamp <= now /\ fact["first_response"] = None

(* Rows that do not exist have no verdict. *)
RowsOK == \A s \in Slas, m \in Metrics : Decided(s, m) => s \in Rows

(* What the evaluator read still holds where it read something, and the    *)
(* SLA it works on is pending unless it was replaced.                      *)
SnapshotOK ==
  epc # "idle" =>
    /\ row \in Slas
    /\ state[row] \in {"pending", "deleted"}
    /\ \A m \in Metrics : seen[m] # None => fact[m] = seen[m]

(* A metric that had no verdict and whose turn has not come has none.      *)
AheadOK ==
  /\ epc = "check" /\ metric \notin decided => ~Decided(row, metric)
  /\ epc \in {"check", "notice"} /\ metric = "first_response" /\ "resolution" \notin decided
       => ~Decided(row, "resolution")

(* A breach whose notification is due has not been notified. *)
NoticeOK ==
  epc = "notice" => notices[<<row, metric>>] = 0 /\ (row \in Rows => <<row, metric>> \in breached)

(* A reply about to be written does not contradict a breach. *)
StampExplained ==
  \A p \in breached \ raced :
    p[2] = "first_response" /\ stamp # None => After(stamp, due[p[1]][p[2]])

IInv ==
  /\ TypeOK /\ TimesOK /\ RowsOK /\ SnapshotOK /\ AheadOK /\ NoticeOK /\ StampExplained
  /\ OneVerdict /\ MetIsTrue /\ BreachExplained /\ FinalAgrees /\ OneNotice

LEMMA InitIInv == Init => IInv
<1> SUFFICES ASSUME Init PROVE IInv
  OBVIOUS
<1> USE SlaAssumption DEF Init
<1>1. TypeOK
  <2>1. 0 \in Time /\ 0 \in 0..MaxErrors
    BY DEF Time
  <2>2. fact \in [Metrics -> Time \cup {None}] /\ seen \in [Metrics -> Time \cup {None}]
    BY DEF NoFacts
  <2>3. due \in [Slas -> [Metrics -> Nat \cup {None}]]
    BY DEF NoFacts
  <2>4. notices \in [Slas \X Metrics -> Nat]
    OBVIOUS
  <2> QED
    BY <2>1, <2>2, <2>3, <2>4 DEF TypeOK, Metrics
<1>2. TimesOK /\ RowsOK /\ SnapshotOK /\ AheadOK /\ NoticeOK /\ StampExplained
  BY DEF TimesOK, RowsOK, Decided, SnapshotOK, AheadOK, NoticeOK, StampExplained, NoFacts
<1>3. OneVerdict /\ MetIsTrue /\ BreachExplained /\ FinalAgrees
  BY DEF OneVerdict, MetIsTrue, BreachExplained, FinalAgrees, Final
<1>4. OneNotice
  BY DEF OneNotice
<1> QED
  BY <1>1, <1>2, <1>3, <1>4 DEF IInv

(* The clock. *)
LEMMA PassIInv == ASSUME IInv, Pass PROVE IInv'
<1> USE SlaAssumption DEF Pass, conversation, applied, evaluator
<1>1. TypeOK'
  BY DEF IInv, TypeOK, Time
<1>2. TimesOK'
  BY DEF IInv, TypeOK, Time, TimesOK
<1>3. BreachExplained'
  BY DEF IInv, TypeOK, Time, BreachExplained, After
<1>4. (RowsOK /\ SnapshotOK /\ AheadOK /\ NoticeOK /\ StampExplained)'
  BY DEF IInv, RowsOK, Rows, Decided, SnapshotOK, AheadOK, NoticeOK, StampExplained, After
<1>5. (OneVerdict /\ MetIsTrue /\ FinalAgrees /\ OneNotice)'
  BY DEF IInv, OneVerdict, MetIsTrue, After, FinalAgrees, Decided, OneNotice
<1> QED
  BY <1>1, <1>2, <1>3, <1>4, <1>5 DEF IInv

(* A step that leaves the applied SLAs and the evaluator alone keeps what  *)
(* is said of them; facts are only added.                                  *)
LEMMA ConversationIInv ==
  ASSUME IInv, TypeOK', TimesOK', StampExplained',
         UNCHANGED <<now, applied, evaluator, raced>>,
         \A m \in Metrics : fact[m] # None => fact'[m] = fact[m],
         \A p \in breached \ raced : fact'[p[2]] # fact[p[2]] => After(fact'[p[2]], due[p[1]][p[2]])
  PROVE  IInv'
<1> USE DEF applied, evaluator
<1>1. SnapshotOK'
  BY DEF IInv, SnapshotOK, TypeOK, Metrics
<1>2. (RowsOK /\ AheadOK /\ NoticeOK)'
  BY DEF IInv, RowsOK, Rows, Decided, AheadOK, NoticeOK
<1>3. MetIsTrue'
  <2>1. ASSUME NEW p \in met PROVE p[2] \in Metrics
    BY DEF IInv, TypeOK
  <2> QED
    BY <2>1 DEF IInv, MetIsTrue, After
<1>4. BreachExplained'
  BY DEF IInv, BreachExplained, After
<1>5. (OneVerdict /\ FinalAgrees /\ OneNotice)'
  BY DEF IInv, OneVerdict, FinalAgrees, Decided, OneNotice
<1> QED
  BY <1>1, <1>2, <1>3, <1>4, <1>5 DEF IInv

(* A reply's time is now, which is after the deadline of every breach. *)
LEMMA ReplyIInv == ASSUME IInv, Reply PROVE IInv'
<1> USE SlaAssumption DEF Reply
<1>1. TypeOK'
  BY DEF IInv, TypeOK, Time, applied, evaluator
<1>2. TimesOK'
  BY DEF IInv, TypeOK, Time, TimesOK
<1>3. StampExplained'
  BY DEF IInv, TypeOK, Time, StampExplained, BreachExplained, After, applied
<1> QED
  BY <1>1, <1>2, <1>3, ConversationIInv

LEMMA ReplyWrittenIInv == ASSUME IInv, ReplyWritten PROVE IInv'
<1> USE SlaAssumption DEF ReplyWritten
<1>1. TypeOK'
  BY DEF IInv, TypeOK, Metrics, applied, evaluator
<1>2. TimesOK'
  BY DEF IInv, TypeOK, Time, Metrics, TimesOK
<1>3. StampExplained'
  BY DEF StampExplained
<1>4. \A m \in Metrics : fact[m] # None => fact'[m] = fact[m]
  BY DEF IInv, TypeOK, TimesOK, Metrics
<1>5. ASSUME NEW p \in breached \ raced, fact'[p[2]] # fact[p[2]]
      PROVE  After(fact'[p[2]], due[p[1]][p[2]])
  <2>1. p[2] \in Metrics
    BY DEF IInv, TypeOK
  <2>2. p[2] = "first_response" /\ fact'[p[2]] = stamp
    BY <1>5, <2>1 DEF IInv, TypeOK, Metrics
  <2> QED
    BY <2>2 DEF IInv, StampExplained
<1> QED
  BY <1>1, <1>2, <1>3, <1>4, <1>5, ConversationIInv

LEMMA ResolveIInv == ASSUME IInv, Resolve PROVE IInv'
<1> USE SlaAssumption DEF Resolve
<1>1. TypeOK'
  BY DEF IInv, TypeOK, Time, Metrics, applied, evaluator
<1>2. TimesOK'
  BY DEF IInv, TypeOK, Time, Metrics, TimesOK
<1>3. StampExplained'
  BY DEF IInv, StampExplained, After, applied
<1>4. \A m \in Metrics : fact[m] # None => fact'[m] = fact[m]
  BY DEF IInv, TypeOK, Metrics
<1>5. ASSUME NEW p \in breached \ raced, fact'[p[2]] # fact[p[2]]
      PROVE  After(fact'[p[2]], due[p[1]][p[2]])
  <2>1. p[2] \in Metrics
    BY DEF IInv, TypeOK
  <2>2. fact'[p[2]] = now
    BY <1>5, <2>1 DEF IInv, TypeOK, Metrics
  <2> QED
    BY <2>2 DEF IInv, BreachExplained
<1> QED
  BY <1>1, <1>2, <1>3, <1>4, <1>5, ConversationIInv

(* What is said of the evaluator after a step to its next place. *)
LEMMA GoOnKeeps ==
  ASSUME IInv, NEW w \in BOOLEAN, epc \in {"check", "notice"}, GoOn(w),
         UNCHANGED <<fact, state>>,
         metric = "first_response" /\ Decided(row, "resolution")' => Decided(row, "resolution")
  PROVE  /\ SnapshotOK' /\ AheadOK' /\ NoticeOK'
         /\ epc' \in {"idle", "check", "notice", "status"}
         /\ row' \in Slas \cup {None}
         /\ seen' \in [Metrics -> Time \cup {None}]
         /\ decided' \in SUBSET Metrics
         /\ metric' \in Metrics
         /\ changed' \in BOOLEAN
<1> USE DEF GoOn, Rest
<1>1. SnapshotOK'
  BY DEF IInv, SnapshotOK
<1>2. NoticeOK'
  BY DEF NoticeOK
<1>3. AheadOK'
  BY DEF IInv, AheadOK, Decided
<1>4. row' \in Slas \cup {None} /\ seen' \in [Metrics -> Time \cup {None}]
  BY DEF IInv, TypeOK, NoFacts
<1>5. decided' \in SUBSET Metrics /\ metric' \in Metrics /\ changed' \in BOOLEAN
  BY DEF IInv, TypeOK, Metrics
<1> QED
  BY <1>1, <1>2, <1>3, <1>4, <1>5

LEMMA SkipIInv == ASSUME IInv, Skip PROVE IInv'
<1> USE DEF Skip, conversation, applied
<1>1. SnapshotOK' /\ AheadOK' /\ NoticeOK' /\ TypeOK'
  <2>1. metric = "first_response" /\ Decided(row, "resolution")' => Decided(row, "resolution")
    BY DEF GoOn, Decided
  <2> QED
    BY <2>1, GoOnKeeps DEF IInv, TypeOK
<1>2. (TimesOK /\ RowsOK /\ StampExplained)'
  BY DEF IInv, TimesOK, RowsOK, Rows, Decided, StampExplained, After
<1>3. (OneVerdict /\ MetIsTrue /\ BreachExplained /\ FinalAgrees /\ OneNotice)'
  BY DEF IInv, OneVerdict, MetIsTrue, BreachExplained, After, FinalAgrees, Decided, OneNotice
<1> QED
  BY <1>1, <1>2, <1>3 DEF IInv

(* A new breach is the truth, or the evaluator was overtaken. *)
LEMMA BreachIInv == ASSUME IInv, Breach PROVE IInv'
<1> USE SlaAssumption DEF Breach, conversation
<1> DEFINE p0 == <<row, metric>>
<1>1. row \in Slas /\ metric \in Metrics /\ ~Decided(row, metric)
  BY DEF IInv, TypeOK, SnapshotOK, AheadOK, IsBreached, Undecided
<1>2. \/ row \in Rows /\ breached' = breached \cup {p0}
      \/ row \notin Rows /\ breached' = breached /\ raced' = raced
  <2>1. row \in Rows => {p0} \cap (Rows \X Metrics) = {p0}
    BY <1>1
  <2>2. row \notin Rows => {p0} \cap (Rows \X Metrics) = {}
    OBVIOUS
  <2> QED
    BY <2>1, <2>2
<1>3. TypeOK'
  <2>1. breached' \in SUBSET (Slas \X Metrics) /\ raced' \in SUBSET (Slas \X Metrics)
    BY <1>1 DEF IInv, TypeOK
  <2> QED
    BY <2>1 DEF IInv, TypeOK
<1>4. (TimesOK /\ SnapshotOK)'
  BY DEF IInv, TimesOK, SnapshotOK
<1>5. RowsOK'
  BY <1>2 DEF IInv, RowsOK, Rows, Decided
<1>6. AheadOK'
  BY <1>2 DEF IInv, AheadOK, Decided
<1>7. NoticeOK'
  <2>1. notices[p0] = 0
    <3>1. p0 \in Slas \X Metrics /\ p0 \notin breached
      BY <1>1 DEF Decided
    <3>2. notices[p0] \in Nat
      BY <3>1 DEF IInv, TypeOK
    <3> QED
      BY <3>1, <3>2 DEF IInv, OneNotice
  <2> QED
    BY <1>2, <2>1 DEF NoticeOK, Rows
<1>8. OneVerdict' /\ MetIsTrue'
  BY <1>1, <1>2 DEF IInv, OneVerdict, MetIsTrue, Decided, After
<1>9. FinalAgrees'
  <2>1. row \in Rows => state[row] \notin Final
    BY DEF IInv, SnapshotOK, Rows, Final
  <2> QED
    BY <1>2, <2>1 DEF IInv, FinalAgrees, Decided
<1>10. OneNotice'
  BY <1>2 DEF IInv, OneNotice
<1>11. ASSUME NEW p \in breached' \ raced', p = p0, p \notin breached
       PROVE  /\ After(now, due[p[1]][p[2]])
              /\ fact[p[2]] # None => After(fact[p[2]], due[p[1]][p[2]])
              /\ p[2] = "first_response" => stamp = None
  <2>1. row \in Rows /\ p0 \notin raced'
    BY <1>2, <1>11
  <2>2. fact[metric] = seen[metric] /\ ~(metric = "first_response" /\ stamp # None)
    BY <2>1
  <2>3. now \in Nat /\ due[row][metric] \in Nat /\ (fact[metric] # None => fact[metric] \in Nat /\ fact[metric] <= now)
    BY <1>1 DEF IInv, TypeOK, TimesOK, Time, IsBreached, Undecided
  <2> QED
    BY <1>1, <1>11, <2>2, <2>3 DEF IsBreached, Undecided, After
<1>12. BreachExplained' /\ StampExplained'
  <2>1. ASSUME NEW p \in breached' \ raced'
        PROVE  p \in breached \ raced \/ (p = p0 /\ p \notin breached)
    BY <1>2
  <2> QED
    BY <1>11, <2>1 DEF IInv, BreachExplained, StampExplained, After
<1> QED
  BY <1>3, <1>4, <1>5, <1>6, <1>7, <1>8, <1>9, <1>10, <1>12 DEF IInv

LEMMA NoticeIInv == ASSUME IInv, Notice PROVE IInv'
<1> USE DEF Notice, conversation
<1>1. row \in Slas /\ metric \in Metrics
  BY DEF IInv, TypeOK, SnapshotOK
<1>2. notices' \in [Slas \X Metrics -> Nat]
  BY <1>1 DEF IInv, TypeOK
<1>3. SnapshotOK' /\ AheadOK' /\ NoticeOK' /\ TypeOK'
  <2>1. metric = "first_response" /\ Decided(row, "resolution")' => Decided(row, "resolution")
    BY DEF GoOn, Decided
  <2> QED
    BY <1>2, <2>1, GoOnKeeps DEF IInv, TypeOK
<1>4. (TimesOK /\ RowsOK /\ StampExplained)'
  BY DEF IInv, TimesOK, RowsOK, Rows, Decided, StampExplained, After
<1>5. (OneVerdict /\ MetIsTrue /\ BreachExplained /\ FinalAgrees)'
  BY DEF IInv, OneVerdict, MetIsTrue, BreachExplained, After, FinalAgrees, Decided
<1>6. OneNotice'
  <2> DEFINE p0 == <<row, metric>>
  <2>1. p0 \in Slas \X Metrics /\ notices[p0] = 0 /\ (row \in Rows => p0 \in breached)
    BY <1>1 DEF IInv, NoticeOK
  <2>2. ASSUME NEW p \in Slas \X Metrics
        PROVE  notices'[p] = notices[p] \/ (p = p0 /\ row \in Rows /\ notices'[p] = 1)
    BY <2>1, <2>2 DEF IInv, TypeOK
  <2> QED
    BY <2>1, <2>2 DEF IInv, OneNotice
<1> QED
  BY <1>3, <1>4, <1>5, <1>6 DEF IInv

(* What is found met was so by what was read, and that has not changed. *)
LEMMA MetIInv == ASSUME IInv, Met PROVE IInv'
<1> USE SlaAssumption DEF Met, conversation
<1> DEFINE p0 == <<row, metric>>
<1>1. row \in Slas /\ metric \in Metrics /\ ~Decided(row, metric)
  BY DEF IInv, TypeOK, SnapshotOK, AheadOK, IsMet, Undecided
<1>2. \/ row \in Rows /\ met' = met \cup {p0}
      \/ met' = met
  BY <1>1
<1>3. SnapshotOK' /\ AheadOK' /\ NoticeOK' /\ TypeOK'
  <2>1. metric = "first_response" /\ Decided(row, "resolution")' => Decided(row, "resolution")
    BY <1>2 DEF GoOn, Decided
  <2>2. met' \in SUBSET (Slas \X Metrics)
    BY <1>1, <1>2 DEF IInv, TypeOK
  <2> QED
    BY <2>1, <2>2, GoOnKeeps DEF IInv, TypeOK
<1>4. TimesOK' /\ StampExplained' /\ BreachExplained'
  BY DEF IInv, TimesOK, StampExplained, BreachExplained, After
<1>5. RowsOK'
  BY <1>2 DEF IInv, RowsOK, Rows, Decided
<1>6. OneVerdict' /\ OneNotice'
  BY <1>1, <1>2 DEF IInv, OneVerdict, OneNotice, Decided
<1>7. FinalAgrees'
  <2>1. row \in Rows => state[row] \notin Final
    BY DEF IInv, SnapshotOK, Rows, Final
  <2> QED
    BY <1>2, <2>1 DEF IInv, FinalAgrees, Decided
<1>8. MetIsTrue'
  <2>1. due[row][metric] # None /\ fact[metric] # None /\ ~After(fact[metric], due[row][metric])
    BY <1>1 DEF IInv, SnapshotOK, IsMet, Undecided
  <2> QED
    BY <1>2, <2>1 DEF IInv, MetIsTrue, After
<1> QED
  BY <1>3, <1>4, <1>5, <1>6, <1>7, <1>8 DEF IInv

(* The final status is read off the verdicts. *)
LEMMA SetStatusIInv == ASSUME IInv, SetStatus PROVE IInv'
<1> USE DEF SetStatus, Rest, conversation
<1>1. row \in Slas /\ state[row] \in {"pending", "deleted"} /\ Verdict(row) \in Final \cup {"pending"}
  BY DEF IInv, SnapshotOK, Verdict, Final
<1>2. TypeOK'
  BY <1>1 DEF IInv, TypeOK, NoFacts, Metrics
<1>3. (TimesOK /\ SnapshotOK /\ AheadOK /\ NoticeOK /\ StampExplained)'
  BY DEF IInv, TimesOK, SnapshotOK, AheadOK, NoticeOK, StampExplained, After
<1>4. Rows' = Rows
  BY <1>1 DEF IInv, TypeOK, Rows, Final
<1>5. (RowsOK /\ OneVerdict /\ MetIsTrue /\ BreachExplained /\ OneNotice)'
  BY <1>4 DEF IInv, RowsOK, Decided, OneVerdict, MetIsTrue, BreachExplained, After, OneNotice
<1>6. FinalAgrees'
  <2>1. ASSUME NEW s \in Slas, s # row \/ row \notin Rows
        PROVE  state'[s] = state[s]
    BY <2>1 DEF IInv, TypeOK
  <2>2. CASE row \in Rows
    <3>1. state'[row] = Verdict(row)
      BY <1>1, <2>2 DEF IInv, TypeOK
    <3>2. /\ state'[row] = "met" => \A m \in Metrics : <<row, m>> \in met
          /\ state'[row] = "breached" => \A m \in Metrics : <<row, m>> \in breached
          /\ state'[row] = "partially_met" =>
               /\ \A m \in Metrics : Decided(row, m)
               /\ \E m \in Metrics : <<row, m>> \in met
      BY <3>1 DEF Verdict, Decided
    <3> QED
      BY <2>1, <3>2 DEF IInv, FinalAgrees, Decided, Final
  <2> QED
    BY <2>1, <2>2 DEF IInv, FinalAgrees, Decided
<1> QED
  BY <1>2, <1>3, <1>5, <1>6 DEF IInv

LEMMA QueryIInv == ASSUME IInv, NEW s \in Slas, Query(s) PROVE IInv'
<1> USE DEF Query, conversation, applied
<1>1. TypeOK'
  BY DEF IInv, TypeOK, Metrics
<1>2. SnapshotOK' /\ AheadOK' /\ NoticeOK'
  BY DEF SnapshotOK, AheadOK, NoticeOK, Actionable, Decided, Metrics
<1>3. (TimesOK /\ RowsOK /\ StampExplained)'
  BY DEF IInv, TimesOK, RowsOK, Rows, Decided, StampExplained, After
<1>4. (OneVerdict /\ MetIsTrue /\ BreachExplained /\ FinalAgrees /\ OneNotice)'
  BY DEF IInv, OneVerdict, MetIsTrue, BreachExplained, After, FinalAgrees, Decided, OneNotice
<1> QED
  BY <1>1, <1>2, <1>3, <1>4 DEF IInv

LEMMA FailIInv == ASSUME IInv, Fail PROVE IInv'
<1> USE SlaAssumption DEF Fail, Error, Rest, conversation, applied
<1>1. TypeOK'
  <2>1. errors' \in 0..MaxErrors
    BY DEF IInv, TypeOK
  <2>2. seen' \in [Metrics -> Time \cup {None}] /\ metric' \in Metrics
    BY DEF NoFacts, Metrics
  <2> QED
    BY <2>1, <2>2 DEF IInv, TypeOK
<1>2. SnapshotOK' /\ AheadOK' /\ NoticeOK'
  BY DEF SnapshotOK, AheadOK, NoticeOK
<1>3. (TimesOK /\ RowsOK /\ StampExplained)'
  BY DEF IInv, TimesOK, RowsOK, Rows, Decided, StampExplained, After
<1>4. (OneVerdict /\ MetIsTrue /\ BreachExplained /\ FinalAgrees /\ OneNotice)'
  BY DEF IInv, OneVerdict, MetIsTrue, BreachExplained, After, FinalAgrees, Decided, OneNotice
<1> QED
  BY <1>1, <1>2, <1>3, <1>4 DEF IInv

(* What a new SLA replaces loses its verdicts; the new one has none, and   *)
(* the others are as they were.                                            *)
LEMMA ApplyIInv == ASSUME IInv, NEW s \in Slas, Apply(s) PROVE IInv'
<1> USE SlaAssumption DEF Apply, conversation, evaluator
<1>1. \A r \in Slas : state'[r] = IF r = s THEN "pending"
                                  ELSE IF r \in Replaced THEN "deleted" ELSE state[r]
  OBVIOUS
<1>2. \A m \in Metrics : ~Decided(s, m)
  BY DEF IInv, RowsOK, Rows, Final
<1>3. ASSUME NEW p, p \in met' \/ p \in breached'
      PROVE  /\ p[1] \in Slas /\ p[2] \in Metrics /\ p = <<p[1], p[2]>>
             /\ p[1] # s /\ p[1] \notin Replaced /\ due'[p[1]] = due[p[1]]
  <2>1. p \in met \cup breached /\ p[1] \notin Replaced
    BY <1>3
  <2>2. p \in Slas \X Metrics
    BY <2>1 DEF IInv, TypeOK
  <2>3. p[1] # s
    BY <1>2, <2>1, <2>2 DEF Decided
  <2> QED
    BY <2>1, <2>2, <2>3 DEF IInv, TypeOK
<1>4. TypeOK'
  <2>1. state' \in [Slas -> {"unused", "pending", "deleted"} \cup Final]
    BY DEF IInv, TypeOK
  <2>2. due' \in [Slas -> [Metrics -> Nat \cup {None}]]
    <3>1. now \in Nat /\ now + 1 \in Nat
      BY DEF IInv, TypeOK, Time
    <3>2. PICK d \in [Metrics -> {None, now, now + 1}] : due' = [due EXCEPT ![s] = d]
      OBVIOUS
    <3>3. d \in [Metrics -> Nat \cup {None}]
      BY <3>1
    <3> QED
      BY <3>2, <3>3 DEF IInv, TypeOK
  <2>3. notices' \in [Slas \X Metrics -> Nat]
    BY DEF IInv, TypeOK
  <2>4. met' \in SUBSET (Slas \X Metrics) /\ breached' \in SUBSET (Slas \X Metrics)
          /\ raced' \in SUBSET (Slas \X Metrics)
    BY DEF IInv, TypeOK
  <2> QED
    BY <2>1, <2>2, <2>3, <2>4 DEF IInv, TypeOK
<1>5. TimesOK'
  BY DEF IInv, TimesOK
<1>6. RowsOK'
  BY <1>1 DEF IInv, RowsOK, Rows, Decided, Final, Replaced
<1>7. SnapshotOK'
  <2>1. epc # "idle" => row \in Slas /\ row # s /\ state'[row] = "deleted"
    BY <1>1 DEF IInv, SnapshotOK, Replaced
  <2> QED
    BY <2>1 DEF IInv, SnapshotOK
<1>8. AheadOK'
  BY DEF IInv, AheadOK, Decided
<1>9. NoticeOK'
  <2>1. epc = "notice" => row \in Slas /\ metric \in Metrics /\ state'[row] = "deleted"
    BY <1>1 DEF IInv, SnapshotOK, Replaced, TypeOK
  <2>2. epc = "notice" => notices'[<<row, metric>>] = 0
    BY <2>1 DEF IInv, NoticeOK
  <2> QED
    BY <2>1, <2>2 DEF NoticeOK, Rows, Final
<1>10. OneVerdict'
  BY DEF IInv, OneVerdict
<1>11. MetIsTrue'
  BY <1>3 DEF IInv, MetIsTrue, After
<1>12. ASSUME NEW p \in breached' \ raced'
       PROVE  p \in breached \ raced /\ due'[p[1]] = due[p[1]]
  BY <1>3, <1>12
<1>13. BreachExplained' /\ StampExplained'
  BY <1>12 DEF IInv, BreachExplained, StampExplained, After
<1>14. FinalAgrees'
  <2> SUFFICES ASSUME NEW r \in Slas, state'[r] \in Final
               PROVE  /\ state'[r] = state[r]
                      /\ \A m \in Metrics : /\ <<r, m>> \in met' <=> <<r, m>> \in met
                                           /\ <<r, m>> \in breached' <=> <<r, m>> \in breached
    BY DEF IInv, FinalAgrees, Decided, Final
  <2>1. r # s /\ r \notin Replaced
    BY <1>1 DEF Final
  <2> QED
    BY <1>1, <2>1
<1>15. OneNotice'
  <2>1. ASSUME NEW p \in Slas \X Metrics
        PROVE  notices'[p] = 0 \/ (p[1] \notin Replaced /\ notices'[p] = notices[p])
    OBVIOUS
  <2> QED
    BY <2>1 DEF IInv, OneNotice
<1> QED
  BY <1>4, <1>5, <1>6, <1>7, <1>8, <1>9, <1>10, <1>11, <1>13, <1>14, <1>15 DEF IInv

LEMMA StepIInv == IInv /\ [Next]_vars => IInv'
<1> SUFFICES ASSUME IInv, [Next]_vars PROVE IInv'
  OBVIOUS
<1>1. CASE Pass \/ Reply \/ ReplyWritten \/ Resolve
  BY <1>1, PassIInv, ReplyIInv, ReplyWrittenIInv, ResolveIInv
<1>2. CASE \E s \in Slas : Apply(s)
  BY <1>2, ApplyIInv
<1>3. CASE Evaluate
  BY <1>3, QueryIInv, SkipIInv, BreachIInv, NoticeIInv, MetIInv, SetStatusIInv DEF Evaluate
<1>4. CASE Fail
  BY <1>4, FailIInv
<1>5. CASE UNCHANGED vars
  <2> USE <1>5 DEF vars, conversation, applied, evaluator
  <2>1. (TypeOK /\ TimesOK /\ RowsOK /\ SnapshotOK /\ AheadOK /\ NoticeOK /\ StampExplained)'
    BY DEF IInv, TypeOK, TimesOK, RowsOK, Rows, Decided, SnapshotOK, AheadOK, NoticeOK,
           StampExplained, After
  <2>2. (OneVerdict /\ MetIsTrue /\ BreachExplained /\ FinalAgrees /\ OneNotice)'
    BY DEF IInv, OneVerdict, MetIsTrue, BreachExplained, After, FinalAgrees, Decided, OneNotice
  <2> QED
    BY <2>1, <2>2 DEF IInv
<1> QED
  BY <1>1, <1>2, <1>3, <1>4, <1>5 DEF Next

(* The inductive invariant of evaluator, conversation and replacements     *)
(* holds in every behaviour.                                               *)
THEOREM Invariance == Spec => []IInv
BY InitIInv, StepIInv, PTL DEF Spec

(* The variables of evaluator, conversation and applied SLAs keep their    *)
(* types.                                                                  *)
THEOREM TypeCorrect == Spec => []TypeOK
<1>1. IInv => TypeOK
  BY DEF IInv
<1> QED
  BY <1>1, Invariance, PTL

(* evaluateSLA never gives a metric both verdicts, although it judges by   *)
(* an old reading and may stop between any two writes, and                 *)
(* update-applied-sla-status makes final only what is decided.             *)
THEOREM VerdictsAndStatusAgree == Spec => []VerdictsAgree
<1>1. IInv => VerdictsAgree
  BY DEF IInv, VerdictsAgree
<1> QED
  BY <1>1, Invariance, PTL

(* The verdicts of evaluateSLA are true, but for breaches in which a reply *)
(* or resolution overtook it.                                              *)
THEOREM VerdictsAreTrue == Spec => []VerdictsTrue
<1>1. IInv => VerdictsTrue
  BY DEF IInv, VerdictsTrue
<1> QED
  BY <1>1, Invariance, PTL

(* handleSLABreach schedules the notifications of a breach at most once.   *)
THEOREM NotifiedOnce == Spec => []OneNotice
<1>1. IInv => OneNotice
  BY DEF IInv
<1> QED
  BY <1>1, Invariance, PTL

(* Nothing final changes and no verdict of an SLA that stays is withdrawn: *)
(* SetStatus writes only to the pending SLA of the evaluator, Apply takes  *)
(* away only pending ones.                                                 *)
THEOREM NothingIsWithdrawn == Spec => NothingWithdrawn
<1> DEFINE Kept(s) ==
      /\ state[s] \in Final => state'[s] = state[s]
      /\ state'[s] # "deleted" =>
           \A m \in Metrics :
             /\ <<s, m>> \in met => <<s, m>> \in met'
             /\ <<s, m>> \in breached => <<s, m>> \in breached'
<1>1. ASSUME IInv, Next, NEW s \in Slas
      PROVE  Kept(s)
  <2>1. CASE UNCHANGED <<state, met, breached>>
    BY <2>1
  <2>2. CASE Breach \/ Met
    BY <2>2 DEF Breach, Met
  <2>3. CASE SetStatus
    <3>1. row \in Slas /\ state[row] \notin Final
      BY <1>1, <2>3 DEF IInv, SnapshotOK, SetStatus, Final
    <3> QED
      BY <1>1, <2>3, <3>1 DEF IInv, TypeOK, SetStatus
  <2>4. ASSUME NEW new \in Slas, Apply(new)
        PROVE  Kept(s)
    <3>1. state'[s] = IF s = new THEN "pending"
                      ELSE IF s \in Replaced THEN "deleted" ELSE state[s]
      BY <2>4 DEF Apply
    <3>2. state[new] = "unused"
      BY <2>4 DEF Apply
    <3>3. \A m \in Metrics : s = new => ~Decided(s, m)
      BY <1>1, <3>2 DEF IInv, RowsOK, Rows, Final
    <3> QED
      BY <2>4, <3>1, <3>2, <3>3 DEF Apply, Replaced, Final, Decided
  <2> QED
    BY <1>1, <2>1, <2>2, <2>3, <2>4
    DEF Next, Evaluate, Pass, Reply, ReplyWritten, Resolve, Query, Skip, Notice, Fail, applied
<1>2. IInv /\ [Next]_vars => [\A s \in Slas : Kept(s)]_vars
  BY <1>1
<1> QED
  BY <1>2, Invariance, PTL DEF Spec, NothingWithdrawn
=============================================================================
