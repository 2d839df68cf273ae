-------------------------------- MODULE Sla --------------------------------
(***************************************************************************)
(* The service level agreements applied to one conversation.  An applied   *)
(* SLA has a deadline for the first response and one for the resolution.   *)
(* The evaluator of internal/sla reads the pending SLA with the times at   *)
(* which the conversation was answered and resolved, and then, in several  *)
(* statements, writes for each metric whether it was met or breached, and  *)
(* the status that follows.  Replies, resolutions and a new SLA fall       *)
(* between any two of them.                                                *)
(***************************************************************************)
EXTENDS Naturals, FiniteSets

CONSTANTS
  MaxSlas,    \* bound: SLAs applied
  None,       \* NULL
  MaxTime,    \* bound: the clock
  MaxErrors   \* bound: errors of the evaluator's statements

ASSUME SlaAssumption ==
  /\ MaxSlas \in Nat
  /\ MaxTime \in Nat
  /\ MaxErrors \in Nat
  /\ None \notin Nat

VARIABLES
  now,        \* the clock of server and database
  fact,       \* first_reply_at and resolved_at of the conversation
  stamp,      \* time.Now() of a reply whose timestamps are not yet written
  state,      \* status of each applied SLA, or unused, or deleted
  due,        \* its deadlines
  met,        \* pairs <<s, m>> with a met_at of the metric ...
  breached,   \* ... and with a breached_at
  notices,    \* breach notifications scheduled for each pair
  errors,     \* errors so far
  epc,        \* where the evaluator is
  row, seen, decided,  \* what its query read: the SLA, the facts, the metrics with a verdict
  metric,     \* the metric it looks at
  changed,    \* whether it wrote a verdict in this pass
  raced       \* history: breaches written after a fact that its query had not read

conversation == <<fact, stamp>>
applied      == <<state, due, met, breached, notices>>
evaluator    == <<epc, row, seen, decided, metric, changed>>
vars == <<now, conversation, applied, errors, evaluator, raced>>

Slas == 1..MaxSlas  \* ids of applied_slas
Metrics == {"first_response", "resolution"}
Final == {"met", "breached", "partially_met"}
Time == 0..MaxTime

TypeOK ==
  /\ now \in Time
  /\ fact \in [Metrics -> Time \cup {None}]
  /\ stamp \in Time \cup {None}
  /\ state \in [Slas -> {"unused", "pending", "deleted"} \cup Final]
  /\ due \in [Slas -> [Metrics -> Nat \cup {None}]]
  /\ met \in SUBSET (Slas \X Metrics)
  /\ breached \in SUBSET (Slas \X Metrics)
  /\ notices \in [Slas \X Metrics -> Nat]
  /\ errors \in 0..MaxErrors
  /\ epc \in {"idle", "check", "notice", "status"}
  /\ row \in Slas \cup {None}
  /\ seen \in [Metrics -> Time \cup {None}]
  /\ decided \in SUBSET Metrics
  /\ metric \in Metrics
  /\ changed \in BOOLEAN
  /\ raced \in SUBSET (Slas \X Metrics)

NoFacts == [m \in Metrics |-> None]

Init ==
  /\ now = 0
  /\ fact = NoFacts
  /\ stamp = None
  /\ state = [s \in Slas |-> "unused"]
  /\ due = [s \in Slas |-> NoFacts]
  /\ met = {}
  /\ breached = {}
  /\ notices = [p \in Slas \X Metrics |-> 0]
  /\ errors = 0
  /\ epc = "idle"
  /\ row = None
  /\ seen = NoFacts
  /\ decided = {}
  /\ metric = "first_response"
  /\ changed = FALSE
  /\ raced = {}

Rows == {s \in Slas : state[s] \in Final \cup {"pending"}}
Decided(s, m) == <<s, m>> \in met \cup breached
After(t, d) == t # None /\ d # None /\ t > d

-----------------------------------------------------------------------------
(* The conversation *)

Pass ==
  /\ now < MaxTime
  /\ now' = now + 1
  /\ UNCHANGED <<conversation, applied, errors, evaluator, raced>>

(* A worker has sent an agent's reply and takes the time ... *)
Reply ==
  /\ stamp = None
  /\ fact["first_response"] = None
  /\ stamp' = now
  /\ UNCHANGED <<now, fact, applied, errors, evaluator, raced>>

(* ... which it then writes; the statement may fail. *)
ReplyWritten ==
  /\ stamp # None
  /\ \/ fact' = [fact EXCEPT !["first_response"] = stamp]
     \/ UNCHANGED fact
  /\ stamp' = None
  /\ UNCHANGED <<now, applied, errors, evaluator, raced>>

(* resolved_at is written once; reopening does not clear it. *)
Resolve ==
  /\ fact["resolution"] = None
  /\ fact' = [fact EXCEPT !["resolution"] = now]
  /\ UNCHANGED <<now, stamp, applied, errors, evaluator, raced>>

(* The SLAs that a new one replaces. *)
Replaced == {s \in Slas : state[s] = "pending"}

(* ApplySLA: a pending SLA of the conversation is deleted, with its        *)
(* notifications, and the new one inserted, in one statement.  Which half  *)
(* runs first is open: if the insert does, the unique index refuses it and *)
(* nothing changes.  Deadlines count from a start that may lie in the past.*)
Apply(s) ==
  /\ state[s] = "unused"
  /\ \A r \in Slas : r < s => state[r] # "unused"
  /\ LET old == Replaced IN
     /\ state' = [r \in Slas |-> IF r = s THEN "pending"
                                 ELSE IF r \in old THEN "deleted" ELSE state[r]]
     /\ met' = {p \in met : p[1] \notin old}
     /\ breached' = {p \in breached : p[1] \notin old}
     /\ notices' = [p \in Slas \X Metrics |-> IF p[1] \in old THEN 0 ELSE notices[p]]
     /\ raced' = {p \in raced : p[1] \notin old}
  /\ \E d \in [Metrics -> {None, now, now + 1}] : due' = [due EXCEPT ![s] = d]
  /\ UNCHANGED <<now, conversation, errors, evaluator>>

-----------------------------------------------------------------------------
(* The evaluator *)

Error == errors < MaxErrors /\ errors' = errors + 1

Rest ==
  /\ epc' = "idle"
  /\ row' = None
  /\ seen' = NoFacts
  /\ decided' = {}
  /\ metric' = "first_response"
  /\ changed' = FALSE

(* Mutant: only an SLA none of whose metrics has a verdict. *)
ActionableUntouched(s) ==
  /\ state[s] = "pending"
  /\ \A m \in Metrics : ~Decided(s, m)
  /\ \E m \in Metrics : fact[m] # None \/ (due[s][m] # None /\ due[s][m] <= now)

(* The condition of get-pending-applied-sla. *)
Actionable(s) ==
  /\ state[s] = "pending"
  /\ \E m \in Metrics :
       /\ ~Decided(s, m)
       /\ fact[m] # None \/ (due[s][m] # None /\ due[s][m] <= now)

(* The ticker fires and the query reads an SLA to evaluate.  The time that *)
(* passes until its turn is the time the rows before it take.              *)
Query(s) ==
  /\ epc = "idle"
  /\ Actionable(s)
  /\ epc' = "check"
  /\ row' = s
  /\ seen' = fact
  /\ decided' = {m \in Metrics : Decided(s, m)}
  /\ metric' = "first_response"
  /\ changed' = FALSE
  /\ UNCHANGED <<now, conversation, applied, errors, raced>>

(* On to the second metric, or to the status if a verdict was written. *)
GoOn(wrote) ==
  \/ /\ metric = "first_response"
     /\ epc' = "check"
     /\ metric' = "resolution"
     /\ changed' = (changed \/ wrote)
     /\ UNCHANGED <<row, seen, decided>>
  \/ /\ metric = "resolution"
     /\ changed \/ wrote
     /\ epc' = "status"
     /\ changed' = TRUE
     /\ UNCHANGED <<row, seen, decided, metric>>
  \/ /\ metric = "resolution"
     /\ ~(changed \/ wrote)
     /\ Rest

(* Mutant: a verdict the query read is judged again. *)
UndecidedAlways == due[row][metric] # None

(* evaluateSLA judges a metric that had no verdict and has a deadline. *)
Undecided == metric \notin decided /\ due[row][metric] # None

(* Mutant: breached at the deadline already. *)
IsBreachedAtOnce ==
  /\ Undecided
  /\ \/ seen[metric] = None /\ now >= due[row][metric]
     \/ After(seen[metric], due[row][metric])

IsBreached ==
  /\ Undecided
  /\ \/ seen[metric] = None /\ After(now, due[row][metric])
     \/ After(seen[metric], due[row][metric])

(* Mutant: what happened at all was in time. *)
IsMetWhenever == Undecided /\ seen[metric] # None

IsMet == Undecided /\ seen[metric] # None /\ ~After(seen[metric], due[row][metric])

Skip ==
  /\ epc = "check"
  /\ ~IsBreached
  /\ ~IsMet
  /\ GoOn(FALSE)
  /\ UNCHANGED <<now, conversation, applied, errors, raced>>

(* A write to an SLA that was replaced meanwhile finds no row. *)
Breach ==
  /\ epc = "check"
  /\ IsBreached
  /\ breached' = breached \cup ({<<row, metric>>} \cap (Rows \X Metrics))
  /\ raced' = IF row \in Rows /\ (fact[metric] # seen[metric]
                                    \/ (metric = "first_response" /\ stamp # None))
              THEN raced \cup {<<row, metric>>} ELSE raced
  /\ epc' = "notice"
  /\ UNCHANGED <<now, conversation, state, due, met, notices, errors, row, seen, decided, metric,
                 changed>>

(* handleSLABreach reads the policy and schedules the notifications; the   *)
(* insert for a replaced SLA is refused, and only logged.                  *)
Notice ==
  /\ epc = "notice"
  /\ notices' = IF row \in Rows THEN [notices EXCEPT ![<<row, metric>>] = @ + 1] ELSE notices
  /\ GoOn(TRUE)
  /\ UNCHANGED <<now, conversation, state, due, met, breached, errors, raced>>

Met ==
  /\ epc = "check"
  /\ IsMet
  /\ met' = met \cup ({<<row, metric>>} \cap (Rows \X Metrics))
  /\ GoOn(TRUE)
  /\ UNCHANGED <<now, conversation, state, due, breached, notices, errors, raced>>

(* Mutant: one metric met is enough. *)
VerdictOfEither(s) ==
  LET M == {m \in Metrics : <<s, m>> \in met}
      B == {m \in Metrics : <<s, m>> \in breached}
  IN IF M # {} THEN "met"
     ELSE IF B = Metrics THEN "breached"
     ELSE IF M \cup B = Metrics THEN "partially_met"
     ELSE "pending"

(* update-applied-sla-status, from the verdicts that are there by now. *)
Verdict(s) ==
  LET M == {m \in Metrics : <<s, m>> \in met}
      B == {m \in Metrics : <<s, m>> \in breached}
  IN IF M = Metrics THEN "met"
     ELSE IF B = Metrics THEN "breached"
     ELSE IF M \cup B = Metrics THEN "partially_met"
     ELSE "pending"

SetStatus ==
  /\ epc = "status"
  /\ state' = IF row \in Rows THEN [state EXCEPT ![row] = Verdict(row)] ELSE state
  /\ Rest
  /\ UNCHANGED <<now, conversation, due, met, breached, notices, errors, raced>>

(* Any statement may fail: a verdict, the policy of the breach, the        *)
(* conversation's next deadline or the status.  The rest of the pass is    *)
(* given up, what was written stays.                                       *)
Fail ==
  /\ Error
  /\ \/ epc = "check" /\ (IsBreached \/ IsMet)
     \/ epc \in {"notice", "status"}
  /\ Rest
  /\ UNCHANGED <<now, conversation, applied, raced>>

-----------------------------------------------------------------------------
Evaluate ==
  \/ \E s \in Slas : Query(s)
  \/ Skip \/ Breach \/ Notice \/ Met \/ SetStatus

Next ==
  \/ Pass \/ Reply \/ ReplyWritten \/ Resolve
  \/ \E s \in Slas : Apply(s)
  \/ Evaluate \/ Fail

Spec == Init /\ [][Next]_vars

(* The evaluator's goroutine runs and its ticker fires. *)
FairSpec == Spec /\ WF_vars(Evaluate)

-----------------------------------------------------------------------------
(* A metric never has both verdicts, although the evaluator judges by what *)
(* it read some time ago and a pass may be given up between two writes.    *)
OneVerdict == met \cap breached = {}

(* "Met" is the truth, whatever happened since it was read: the            *)
(* conversation was answered, or resolved, by the deadline.                *)
MetIsTrue ==
  \A p \in met :
    /\ due[p[1]][p[2]] # None
    /\ fact[p[2]] # None
    /\ ~After(fact[p[2]], due[p[1]][p[2]])

(* "Breached" is the truth too, except for what the evaluator overlooked   *)
(* because the reply or the resolution was written, or the reply's time    *)
(* taken, after its query.                                                 *)
BreachExplained ==
  \A p \in breached \ raced :
    /\ After(now, due[p[1]][p[2]])
    /\ fact[p[2]] # None => After(fact[p[2]], due[p[1]][p[2]])

(* Together: every verdict is true, or explained by what overtook it. *)
VerdictsTrue == MetIsTrue /\ BreachExplained

(* A status that is final agrees with the verdicts, ... *)
FinalAgrees ==
  \A s \in Slas :
    /\ state[s] \in Final => \A m \in Metrics : Decided(s, m)
    /\ state[s] = "met" => \A m \in Metrics : <<s, m>> \in met
    /\ state[s] = "breached" => \A m \in Metrics : <<s, m>> \in breached
    /\ state[s] = "partially_met" => \E m \in Metrics : <<s, m>> \in met

(* Together: the verdicts exclude one another and the status agrees. *)
VerdictsAgree == OneVerdict /\ FinalAgrees

(* The verdicts and a final status of an SLA are never taken back, not     *)
(* even when another SLA is applied: that replaces only a pending one.     *)
NothingWithdrawn ==
  [][\A s \in Slas :
       /\ state[s] \in Final => state'[s] = state[s]
       /\ state'[s] # "deleted" =>
            \A m \in Metrics :
              /\ <<s, m>> \in met => <<s, m>> \in met'
              /\ <<s, m>> \in breached => <<s, m>> \in breached']_vars

(* A breach is notified once, however many passes see the SLA. *)
OneNotice ==
  \A p \in Slas \X Metrics : notices[p] <= 1 /\ (notices[p] = 1 => p \in breached)

(* A deadline that has passed, or an answer, leads to a verdict in spite   *)
(* of passes that are given up, unless the SLA is replaced.                *)
JudgedEventually ==
  \A s \in Slas, m \in Metrics :
    (/\ state[s] = "pending"
     /\ due[s][m] # None
     /\ After(now, due[s][m]) \/ fact[m] # None) ~> (Decided(s, m) \/ state[s] = "deleted")
=============================================================================
