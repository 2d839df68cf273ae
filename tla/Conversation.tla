---------------------------- MODULE Conversation ----------------------------
(***************************************************************************)
(* The life of one conversation under an SLA with a next-response time     *)
(* (internal/conversation, internal/sla, internal/csat).  Agents and rules *)
(* change its status, messages of the contact open it again, the unsnoozer *)
(* wakes it, and a resolution sends a survey.  A message of the contact    *)
(* that waits for an answer is an SLA event, which a reply meets and the   *)
(* evaluator judges.                                                       *)
(*                                                                         *)
(* Every SQL statement is one step, but for INSERT ... WHERE NOT EXISTS,   *)
(* whose test and whose insertion are two.  0 stands for NULL.  Two        *)
(* timestamps are never equal: instant t lies before the deadline t.       *)
(***************************************************************************)
EXTENDS Integers, Sequences, FiniteSets

CONSTANTS Actors,       \* requests and automation workers that act on the status
          Receivers,    \* goroutines that handle messages of the contact
          Choices,      \* the statuses an actor may ask for
          Snoozes,      \* the snooze durations
          ResponseTime, \* of the SLA policy
          MaxTime,      \* bound: of the clock
          MaxWork,      \* bound: requests, arriving messages and replies together
          MaxFaults     \* bound: statements that fail, and restarts

Statuses == {"Open", "Snoozed", "Resolved", "Closed"}

ASSUME TimesAssumption == /\ Snoozes \subseteq Nat \ {0} /\ ResponseTime \in Nat
                          /\ MaxTime \in Nat \ {0}
ASSUME BoundsAssumption == /\ {MaxWork, MaxFaults} \subseteq Nat
                           /\ Choices \subseteq Statuses
ASSUME RequestsAssumption == IsFiniteSet(Actors) /\ IsFiniteSet(Receivers)

VARIABLES now,
          status, snoozedUntil,     \* of the conversation
          survey,                   \* its row in csat_responses: "none", "open", "answered"
          mails,                    \* survey mails queued so far
          events,                   \* its rows in sla_events
          actor,                    \* where each actor is, and what it wants
          receiver, due,            \* where each receiver is, and the deadline it computed
          replies, sent,            \* replies queued, and whether one has just been sent
          batch,                    \* the events the evaluator has read and not judged
          work, faults              \* counters of the bounds

vars == <<now, status, snoozedUntil, survey, mails, events, actor, receiver, due,
          replies, sent, batch, work, faults>>
row == <<status, snoozedUntil>>
surveyVars == <<survey, mails>>
slaVars == <<events, batch>>
recVars == <<receiver, due>>
repVars == <<replies, sent>>
rest == <<now, work, faults>>

Event == [deadline : Nat, met : Nat, verdict : {"pending", "met", "breached"}]
Idle == [at |-> "idle", by |-> "agent", want |-> "Open", until |-> 0]

Init == /\ now = 1
        /\ status = "Open" /\ snoozedUntil = 0
        /\ survey = "none" /\ mails = 0
        /\ events = << >> /\ batch = {}
        /\ actor = [a \in Actors |-> Idle]
        /\ receiver = [r \in Receivers |-> "idle"] /\ due = [r \in Receivers |-> 0]
        /\ replies = 0 /\ sent = FALSE
        /\ work = 0 /\ faults = 0

-----------------------------------------------------------------------------
(* Status changes and surveys. *)

Goto(a, place) == actor' = [actor EXCEPT ![a].at = place]
Finish(a) == actor' = [actor EXCEPT ![a] = Idle]

(* An agent's request, or an action of a rule: set a status, send a survey. *)
Ask(a) == \E by \in {"agent", "rule"}, want \in Choices, d \in Snoozes :
    /\ actor[a].at = "idle" /\ work < MaxWork
    /\ want = "Snoozed" => by = "agent" /\ now + d <= MaxTime   \* a rule gives no duration
    /\ want # "Snoozed" => d = CHOOSE e \in Snoozes : TRUE
    /\ actor' = [actor EXCEPT ![a] = [at |-> "read", by |-> by, want |-> want,
                                      until |-> IF want = "Snoozed" THEN now + d ELSE 0]]
    /\ work' = work + 1
    /\ UNCHANGED <<now, row, surveyVars, slaVars, recVars, repVars, faults>>

SendSurvey(a) ==
    /\ actor[a].at = "idle" /\ work < MaxWork
    /\ actor' = [actor EXCEPT ![a] = [Idle EXCEPT !.at = "create", !.by = "rule"]]
    /\ work' = work + 1
    /\ UNCHANGED <<now, row, surveyVars, slaVars, recVars, repVars, faults>>

(* What the handler does once the status is set. *)
Afterwards(a) == IF actor[a].by = "agent" /\ actor[a].want = "Resolved" THEN Goto(a, "create")
                                                                        ELSE Finish(a)

(* GetConversation, and the early return when nothing changes. *)
ReadStatus(a) ==
    /\ actor[a].at = "read"
    /\ IF status = actor[a].want /\ status # "Snoozed" THEN Afterwards(a) ELSE Goto(a, "update")
    /\ UNCHANGED <<row, surveyVars, slaVars, recVars, repVars, rest>>

UpdateStatus(a) ==
    /\ actor[a].at = "update"
    /\ status' = actor[a].want
    /\ snoozedUntil' = actor[a].until
    /\ Goto(a, "record")
    /\ UNCHANGED <<surveyVars, slaVars, recVars, repVars, rest>>

(* RecordStatusChange: the activity, whose failure ends the request. *)
RecordChange(a) ==
    /\ actor[a].at = "record"
    /\ Afterwards(a)
    /\ UNCHANGED <<row, surveyVars, slaVars, recVars, repVars, rest>>

(* Mutant: the insertion updates the row that is there, and returns it. *)
CreateSurveyAgain(a) ==
    /\ actor[a].at = "create"
    /\ survey' = "open" /\ Goto(a, "mail")
    /\ UNCHANGED <<row, mails, slaVars, recVars, repVars, rest>>

(* INSERT ... ON CONFLICT (conversation_id) DO NOTHING. *)
CreateSurvey(a) ==
    /\ actor[a].at = "create"
    /\ IF survey = "none" THEN survey' = "open" /\ Goto(a, "mail")
                          ELSE UNCHANGED survey /\ Finish(a)
    /\ UNCHANGED <<row, mails, slaVars, recVars, repVars, rest>>

(* QueueReply: the survey goes out as a reply of the agent, or of the system. *)
QueueSurvey(a) ==
    /\ actor[a].at = "mail"
    /\ mails' = mails + 1
    /\ replies' = IF actor[a].by = "agent" THEN replies + 1 ELSE replies
    /\ Finish(a)
    /\ UNCHANGED <<row, survey, slaVars, recVars, sent, rest>>

ActorFails(a) ==
    /\ actor[a].at # "idle" /\ faults < MaxFaults
    /\ Finish(a) /\ faults' = faults + 1
    /\ UNCHANGED <<now, row, surveyVars, slaVars, recVars, repVars, work>>

Respond == /\ mails > 0 /\ survey = "open"
           /\ survey' = "answered"
           /\ UNCHANGED <<row, mails, slaVars, actor, recVars, repVars, rest>>

(* Mutant: the conversation must be due at this very tick. *)
UnsnoozeOnTheDot == /\ status = "Snoozed" /\ snoozedUntil = now
                    /\ status' = "Open" /\ snoozedUntil' = 0
                    /\ UNCHANGED <<surveyVars, slaVars, actor, recVars, repVars, rest>>

(* unsnoozeAll *)
Unsnooze == /\ status = "Snoozed" /\ snoozedUntil <= now
            /\ status' = "Open" /\ snoozedUntil' = 0
            /\ UNCHANGED <<surveyVars, slaVars, actor, recVars, repVars, rest>>

-----------------------------------------------------------------------------
(* Messages of the contact: ProcessIncomingMessageHooks. *)

Unmet == {i \in DOMAIN events : events[i].met = 0}
Place(r, place) == receiver' = [receiver EXCEPT ![r] = place]

Arrive(r) == /\ receiver[r] = "idle" /\ work < MaxWork
             /\ work' = work + 1
             /\ Place(r, "reopen")
             /\ UNCHANGED <<now, row, surveyVars, slaVars, actor, due, repVars, faults>>

(* ReOpenConversation: whatever the status was. *)
Reopen(r) == /\ receiver[r] = "reopen"
             /\ status' = "Open" /\ snoozedUntil' = 0
             /\ Place(r, "look")
             /\ UNCHANGED <<surveyVars, slaVars, actor, due, repVars, rest>>

(* An error while reopening is logged, and the hooks go on. *)
ReopenFails(r) == /\ receiver[r] = "reopen" /\ faults < MaxFaults
                  /\ Place(r, "look") /\ faults' = faults + 1
                  /\ UNCHANGED <<now, row, surveyVars, slaVars, actor, due, repVars, work>>

(* The deadline, and what the statement sees: an unmet event makes it void. *)
Look(r) == /\ receiver[r] = "look"
           /\ IF Unmet = {} THEN /\ due' = [due EXCEPT ![r] = now + ResponseTime]
                                 /\ Place(r, "insert")
                            ELSE UNCHANGED due /\ Place(r, "idle")
           /\ UNCHANGED <<row, surveyVars, slaVars, actor, repVars, rest>>

InsertEvent(r) ==
    /\ receiver[r] = "insert"
    /\ events' = Append(events, [deadline |-> due[r], met |-> 0, verdict |-> "pending"])
    /\ Place(r, "idle") /\ due' = [due EXCEPT ![r] = 0]
    /\ UNCHANGED <<row, surveyVars, batch, actor, repVars, rest>>

ReceiverFails(r) == /\ receiver[r] \in {"look", "insert"} /\ faults < MaxFaults
                    /\ Place(r, "idle") /\ due' = [due EXCEPT ![r] = 0]
                    /\ faults' = faults + 1
                    /\ UNCHANGED <<now, row, surveyVars, slaVars, actor, repVars, work>>

-----------------------------------------------------------------------------
(* Replies: what a sender does once a message of an agent has gone out. *)

Reply == /\ work < MaxWork
         /\ work' = work + 1 /\ replies' = replies + 1
         /\ UNCHANGED <<now, row, surveyVars, slaVars, actor, recVars, sent, faults>>

Send == /\ replies > 0 /\ ~sent
        /\ replies' = replies - 1 /\ sent' = TRUE
        /\ UNCHANGED <<row, surveyVars, slaVars, actor, recVars, rest>>

(* SetLatestSLAEventMetAt: the newest unmet event, and only it. *)
Meet == /\ sent /\ sent' = FALSE
        /\ \/ Unmet = {} /\ UNCHANGED events
           \/ \E newest \in Unmet :
                /\ \A i \in Unmet : i <= newest
                /\ events' = [events EXCEPT ![newest].met = now]
        /\ UNCHANGED <<row, surveyVars, batch, actor, recVars, replies, rest>>

MeetFails == /\ sent /\ sent' = FALSE
             /\ faults < MaxFaults /\ faults' = faults + 1
             /\ UNCHANGED <<now, row, surveyVars, slaVars, actor, recVars, replies, work>>

-----------------------------------------------------------------------------
(* The evaluator of SLA events. *)

(* Mutant: only unanswered events are looked at. *)
ActionableUnanswered(e) == e.verdict = "pending" /\ e.met = 0 /\ now > e.deadline

(* get-pending-sla-events *)
Actionable(e) == e.verdict = "pending" /\ (now > e.deadline \/ e.met # 0)

Query == /\ batch = {}
         /\ batch' = {[id |-> i, met |-> events[i].met] : i \in {j \in DOMAIN events : Actionable(events[j])}}
         /\ batch' # {}
         /\ UNCHANGED <<row, surveyVars, events, actor, recVars, repVars, rest>>

(* Mutant: what is answered is not asked. *)
IsBreachedLate(e, met) == now > e.deadline

(* The answer is the one that was read, the clock is today's. *)
IsBreached(e, met) == met > e.deadline \/ (met = 0 /\ now > e.deadline)

Judge == \E b \in batch :
    /\ batch' = batch \ {b}
    /\ events' = [events EXCEPT ![b.id].verdict =
                     IF IsBreached(events[b.id], b.met) THEN "breached" ELSE "met"]
    /\ UNCHANGED <<row, surveyVars, actor, recVars, repVars, rest>>

(* An error is logged, and the next event looked at. *)
JudgeFails == \E b \in batch :
    /\ batch' = batch \ {b}
    /\ faults < MaxFaults /\ faults' = faults + 1
    /\ UNCHANGED <<now, row, surveyVars, events, actor, recVars, repVars, work>>

-----------------------------------------------------------------------------
Tick == /\ now < MaxTime /\ now' = now + 1
        /\ UNCHANGED <<row, surveyVars, slaVars, actor, recVars, repVars, work, faults>>

(* A restart: the rows stay, what was under way is gone; a reply that was  *)
(* not yet marked as sent is queued again.                                 *)
Restart == /\ faults < MaxFaults /\ faults' = faults + 1
           /\ actor' = [a \in Actors |-> Idle]
           /\ receiver' = [r \in Receivers |-> "idle"] /\ due' = [r \in Receivers |-> 0]
           /\ sent' = FALSE /\ batch' = {}
           /\ UNCHANGED <<now, row, surveyVars, events, replies, work>>

Act(a) == \/ Ask(a) \/ SendSurvey(a) \/ ReadStatus(a) \/ UpdateStatus(a) \/ RecordChange(a)
          \/ CreateSurvey(a) \/ QueueSurvey(a) \/ ActorFails(a)
Receive(r) == \/ Arrive(r) \/ Reopen(r) \/ ReopenFails(r) \/ Look(r) \/ InsertEvent(r)
              \/ ReceiverFails(r)
Sender == Send \/ Meet \/ MeetFails
Evaluate == Query \/ Judge \/ JudgeFails

Next == \/ \E a \in Actors : Act(a)
        \/ \E r \in Receivers : Receive(r)
        \/ Reply \/ Sender \/ Evaluate \/ Unsnooze \/ Respond \/ Tick \/ Restart

Spec == Init /\ [][Next]_vars
FairSpec == Spec /\ WF_vars(Tick) /\ WF_vars(Unsnooze) /\ WF_vars(Evaluate)

-----------------------------------------------------------------------------
(* The type of the state. *)
TypeOK == /\ now \in 1..MaxTime
          /\ status \in Statuses /\ snoozedUntil \in 0..MaxTime
          /\ survey \in {"none", "open", "answered"} /\ mails \in Nat
          /\ events \in Seq(Event)
          /\ batch \subseteq [id : DOMAIN events, met : Nat]
          /\ actor \in [Actors -> [at : {"idle", "read", "update", "record", "create", "mail"},
                                   by : {"agent", "rule"}, want : Statuses, until : 0..MaxTime]]
          /\ receiver \in [Receivers -> {"idle", "reopen", "look", "insert"}]
          /\ due \in [Receivers -> Nat]
          /\ replies \in Nat /\ sent \in BOOLEAN
          /\ work \in 0..MaxWork /\ faults \in 0..MaxFaults

(* However many agents and rules resolve the conversation or ask for a     *)
(* survey, and whatever fails in between, the contact is sent one survey   *)
(* at most, and it belongs to a row that exists (SendCSATReply).           *)
Surveying == {a \in Actors : actor[a].at = "mail"}
SurveyOnce == /\ mails + Cardinality(Surveying) <= 1
              /\ mails + Cardinality(Surveying) = 1 => survey # "none"

(* The unmet events of an SLA never outnumber the goroutines that handle   *)
(* messages of the contact: a second one needs two at once, each between   *)
(* the test and the insertion of insert-next-response-sla-event.           *)
Inserting == {r \in Receivers : receiver[r] = "insert"}
UnmetBounded == Cardinality(Unmet) + Cardinality(Inserting) <= Cardinality(Receivers)

(* An event that was answered in time is never judged breached, and one    *)
(* judged met was answered in time, although the evaluator judges by a row *)
(* it read earlier and a reply may be written in between.                  *)
VerdictsAreDue == \A i \in DOMAIN events :
    /\ events[i].verdict = "met" => events[i].met \in 1..events[i].deadline
    /\ events[i].verdict = "breached" => /\ now > events[i].deadline
                                         /\ events[i].met \notin 1..events[i].deadline

(* A snoozed conversation does not sleep for ever: whoever snoozes it      *)
(* again, and whenever, it wakes once nobody does (RunUnsnoozer).          *)
SnoozeEnds == status = "Snoozed" ~> status # "Snoozed"

(* An event that is answered or overdue is judged, whatever fails, unless  *)
(* statements fail for ever (runSLAEventEvaluation).                       *)
EventsAreJudged ==
    \A i \in 1..MaxWork :
        (/\ i \in DOMAIN events
         /\ events[i].met # 0 \/ now > events[i].deadline)
            ~> (i \in DOMAIN events /\ events[i].verdict # "pending")
=============================================================================
