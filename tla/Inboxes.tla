------------------------------ MODULE Inboxes ------------------------------
(***************************************************************************)
(* The inbox manager (internal/inbox/inbox.go): one row of the inboxes     *)
(* table, the instance built from it that m.inboxes holds, and the         *)
(* goroutines that receive mail for the instances built so far.  The       *)
(* manager keeps its state per inbox id and its only shared lock is held   *)
(* for the steps below, so one id shows every interleaving.                *)
(*                                                                         *)
(* Requests (cmd/inboxes.go, cmd/oauth.go) write the row and then reload   *)
(* the instance; an e-mail instance refreshes its OAuth token and writes   *)
(* its own copy of the configuration back; a signal ends the program.      *)
(*                                                                         *)
(* An instance is not built from the row's configuration alone: that is    *)
(* loaded into the koanf of the whole process, and the instance takes the  *)
(* result.  One optional key shows it: where the row lacks the key, the    *)
(* instance has the value that was loaded last, for whichever inbox.       *)
(***************************************************************************)
EXTENDS Integers, Sequences, FiniteSets

CONSTANTS Requests,     \* admin requests, each of which does one operation
          Forms,        \* what an admin may save: channel, enabled, with the optional
                        \* key or not, with a new secret or not
          MaxTokens     \* bound: tokens obtained from the provider

Channels == {"email", "livechat"}
ASSUME FormsAssumption ==
    Forms \subseteq [channel : Channels, enabled : BOOLEAN, keyed : BOOLEAN, rotated : BOOLEAN]
ASSUME TokensAssumption == MaxTokens \in Nat

VARIABLES shared,       \* the optional key in ko, the koanf of the process
          row,          \* the row of the inboxes table
          edits,        \* configurations saved by an admin so far
          tokens,       \* tokens issued by the provider so far
          instances,    \* every instance built so far
          installed,    \* m.inboxes[id]: its place in instances, 0 when absent
          receiver,     \* the instance m.receivers[id] stands for, 0 when absent
          pc, op,       \* where each request is, and what it does
          record,       \* the row each request read
          waited,       \* the instance whose receiver a request waits for
          stage,        \* of the program
          failed,       \* the last reload ended early on an error
          overlapped    \* two requests have been under way at once

vars == <<shared, row, edits, tokens, instances, installed, receiver, pc, op,
          record, waited, stage, failed, overlapped>>
manVars == <<instances, installed, receiver>>
reqVars == <<pc, op, record, waited>>

(* Values of the optional key: the edit that set it, or one of these. *)
NoKey == 0    \* not there
Foreign == -1 \* what another inbox has
Blank == -2   \* there, with the zero value
Keys == Nat \union {Foreign, Blank}

Row == [state : {"absent", "live", "deleted"}, channel : Channels, enabled : BOOLEAN,
        edit : Nat, key : Keys, token : Nat, secret : Nat, version : Nat \ {0}]
Instance == [channel : Channels, edit : Nat, key : Keys, token : Nat, receiving : BOOLEAN,
             cancelled : BOOLEAN, closed : BOOLEAN, unsaved : BOOLEAN]
Ops == {"create", "update", "toggle", "delete", "reconnect"}
NewRow(c, on) == [state |-> "live", channel |-> c, enabled |-> on, edit |-> 0, key |-> NoKey,
                  token |-> 0, secret |-> 0, version |-> 1]
NoRow == [NewRow("email", FALSE) EXCEPT !.state = "absent"]

(* ko.Load merges the row's configuration into what was loaded before. *)
Merged(x, before) == IF x.key = NoKey THEN before ELSE x.key
Built(x, before) ==
            [channel |-> x.channel, edit |-> x.edit, key |-> Merged(x, before), token |-> x.token,
             receiving |-> TRUE, cancelled |-> FALSE, closed |-> FALSE, unsaved |-> FALSE]

(* A configuration that is marshalled from its type has every key. *)
Marshalled(k) == IF k = NoKey THEN Blank ELSE k

Busy(r) == pc[r] \notin {"idle", "done"}
Receiving == {i \in DOMAIN instances : instances[i].receiving}

(* startInboxes: the enabled inboxes are built, this one perhaps after one *)
(* that has the key, and their receivers started.                          *)
Init == /\ shared \in {NoKey, Foreign}
        /\ row \in {NoRow} \union {NewRow(c, on) : c \in Channels, on \in BOOLEAN}
        /\ edits = 0 /\ tokens = 0
        /\ instances = IF row.enabled THEN <<Built(row, shared)>> ELSE << >>
        /\ installed = Len(instances)
        /\ receiver = Len(instances)
        /\ pc = [r \in Requests |-> "idle"]
        /\ op = [r \in Requests |-> "create"]
        /\ record = [r \in Requests |-> NoRow]
        /\ waited = [r \in Requests |-> 0]
        /\ stage = "up" /\ failed = FALSE /\ overlapped = FALSE

Goto(r, place) == pc' = [pc EXCEPT ![r] = place]
(* A request's variables go out of scope. *)
Forget(r) == op' = [op EXCEPT ![r] = "create"] /\ record' = [record EXCEPT ![r] = NoRow]

(* Mutant: only a new secret or channel revokes. *)
NextVersionOnSecret(current, c, enabled, rotated) ==
    IF current.channel # c \/ (current.channel = "livechat" /\ rotated)
    THEN current.version + 1 ELSE current.version
(* Mutant: a change of channel does not revoke. *)
NextVersionInChannel(current, c, enabled, rotated) ==
    IF current.channel = "livechat" /\ c = "livechat" /\ (rotated \/ enabled # current.enabled)
    THEN current.version + 1 ELSE current.version

(* The widget_session_version column.  Update computes it from the row it read. *)
NextVersion(current, c, enabled, rotated) ==
    IF \/ current.channel # c
       \/ current.channel = "livechat" /\ (rotated \/ enabled # current.enabled)
    THEN current.version + 1 ELSE current.version
Revoked == IF row.channel = "livechat" THEN row.version + 1 ELSE row.version

(* A request arrives; the server accepts requests until it is shut down. *)
Begin(r) == /\ pc[r] = "idle" /\ stage \in {"up", "signalled"}
            /\ \E o \in Ops : /\ o = "reconnect" => tokens < MaxTokens
                              /\ op' = [op EXCEPT ![r] = o]
                              /\ Goto(r, IF o \in {"update", "reconnect"} THEN "read" ELSE "write")
            /\ UNCHANGED <<shared, row, edits, tokens, manVars, record, waited, stage, failed>>

(* Only an e-mail inbox has the address that a reconnection must match. *)
Read(r) == /\ pc[r] = "read"
           /\ record' = [record EXCEPT ![r] = row]
           /\ Goto(r, IF row.state = "live" /\ (op[r] = "reconnect" => row.channel = "email")
                      THEN "write" ELSE "done")
           /\ UNCHANGED <<shared, row, edits, tokens, manVars, op, waited, stage, failed>>

(* The query of the operation fails, and nothing is reloaded. *)
Fail(r) == /\ pc[r] \in {"read", "write"}
           /\ Goto(r, "done") /\ Forget(r)
           /\ UNCHANGED <<shared, row, edits, tokens, manVars, waited, stage, failed>>

(* The optional key as the edit at hand saves it. *)
KeyOf(f) == IF f.keyed THEN edits + 1 ELSE NoKey

Create(r) == /\ op[r] = "create" /\ row.state = "absent"
             /\ edits' = edits + 1
             /\ \E f \in Forms : row' = [NewRow(f.channel, f.enabled) EXCEPT
                                        !.edit = edits', !.key = KeyOf(f)]
             /\ UNCHANGED tokens

(* The admin's form carries no token: the token read with the row of an    *)
(* e-mail inbox is kept.                                                   *)
Update(r) == /\ op[r] = "update" /\ row.state = "live"
             /\ edits' = edits + 1
             /\ \E f \in Forms :
                  LET current == record[r]
                      rotated == current.channel = "livechat" /\ f.rotated
                  IN row' = [row EXCEPT !.channel = f.channel, !.enabled = f.enabled,
                       !.edit = edits', !.key = KeyOf(f),
                       !.token = IF current.channel = "email" THEN current.token ELSE 0,
                       !.secret = current.secret + (IF rotated THEN 1 ELSE 0),
                       !.version = NextVersion(current, f.channel, f.enabled, rotated)]
             /\ UNCHANGED tokens

(* Toggle does not look at deleted_at. *)
Toggle(r) == /\ op[r] = "toggle" /\ row.state # "absent"
             /\ row' = [row EXCEPT !.enabled = ~row.enabled, !.version = Revoked]
             /\ UNCHANGED <<edits, tokens>>

SoftDelete(r) ==
    /\ op[r] = "delete"
    /\ row' = IF row.state = "live"
              THEN [row EXCEPT !.state = "deleted", !.enabled = FALSE, !.edit = 0, !.key = NoKey,
                               !.token = 0, !.version = Revoked]
              ELSE row
    /\ UNCHANGED <<edits, tokens>>

(* UpdateConfig: the whole configuration is written, where the row is live. *)
WithConfig(edit, key, token) ==
    IF row.state = "live"
    THEN [row EXCEPT !.edit = edit, !.key = Marshalled(key), !.token = token] ELSE row

Reconnect(r) == /\ op[r] = "reconnect" /\ tokens < MaxTokens
                /\ tokens' = tokens + 1
                /\ row' = WithConfig(record[r].edit, record[r].key, tokens')
                /\ UNCHANGED edits

Write(r) == /\ pc[r] = "write"
            /\ Create(r) \/ Update(r) \/ Toggle(r) \/ SoftDelete(r) \/ Reconnect(r)
            /\ Goto(r, "stop") /\ Forget(r)
            /\ UNCHANGED <<shared, manVars, waited, stage, failed>>

(* Mutant: the receiver is cancelled and not waited for. *)
StopWithoutWaiting(r) ==
    /\ pc[r] = "stop"
    /\ IF receiver # 0 THEN instances' = [instances EXCEPT ![receiver].cancelled = TRUE]
                       ELSE UNCHANGED instances
    /\ receiver' = 0
    /\ Goto(r, "close")
    /\ UNCHANGED <<shared, row, edits, tokens, installed, op, record, waited, stage, failed>>
(* Mutant: the receiver is forgotten and waited for, but not cancelled. *)
StopWithoutCancel(r) ==
    /\ pc[r] = "stop"
    /\ waited' = [waited EXCEPT ![r] = receiver]
    /\ receiver' = 0
    /\ Goto(r, IF receiver # 0 THEN "wait" ELSE "close")
    /\ UNCHANGED <<shared, row, edits, tokens, instances, installed, op, record, stage, failed>>

(* ReloadInbox, first stopInbox: cancel the receiver and forget it, ... *)
Stop(r) == /\ pc[r] = "stop"
           /\ IF receiver # 0
              THEN /\ instances' = [instances EXCEPT ![receiver].cancelled = TRUE]
                   /\ waited' = [waited EXCEPT ![r] = receiver]
                   /\ Goto(r, "wait")
              ELSE /\ Goto(r, "close")
                   /\ UNCHANGED <<instances, waited>>
           /\ receiver' = 0
           /\ UNCHANGED <<shared, row, edits, tokens, installed, op, record, stage, failed>>

(* ... wait for it, ... *)
Wait(r) == /\ pc[r] = "wait" /\ ~instances[waited[r]].receiving
           /\ Goto(r, "close")
           /\ waited' = [waited EXCEPT ![r] = 0]
           /\ UNCHANGED <<shared, row, edits, tokens, manVars, op, record, stage, failed>>

(* ... and close whatever instance is installed by now. *)
CloseOld(r) == /\ pc[r] = "close"
               /\ instances' = IF installed # 0
                               THEN [instances EXCEPT ![installed].closed = TRUE] ELSE instances
               /\ installed' = 0
               /\ Goto(r, "fetch")
               /\ UNCHANGED <<shared, row, edits, tokens, receiver, op, record, waited, stage, failed>>

(* Mutant: a disabled inbox is built again. *)
FetchIgnoresEnabled(r) ==
    /\ pc[r] = "fetch"
    /\ record' = [record EXCEPT ![r] = row]
    /\ failed' = FALSE
    /\ Goto(r, IF row.state = "live" THEN "install" ELSE "done")
    /\ UNCHANGED <<shared, row, edits, tokens, manVars, op, waited, stage>>

(* GetDBRecord.  An inbox that is gone or disabled stays stopped. *)
Fetch(r) == /\ pc[r] = "fetch"
            /\ record' = [record EXCEPT ![r] = row]
            /\ failed' = FALSE
            /\ Goto(r, IF row.state = "live" /\ row.enabled THEN "install" ELSE "done")
            /\ UNCHANGED <<shared, row, edits, tokens, manVars, op, waited, stage>>

(* The query fails, which is taken for a missing row; or initFn fails,     *)
(* before or after it has loaded the configuration.                        *)
ReloadFails(r) == /\ pc[r] \in {"fetch", "install"}
                  /\ failed' = TRUE
                  /\ Goto(r, "done") /\ Forget(r)
                  /\ \/ UNCHANGED shared
                     \/ pc[r] = "install" /\ shared' = Merged(record[r], shared)
                  /\ UNCHANGED <<row, edits, tokens, manVars, waited, stage>>

(* What was loaded before is this inbox's, or by now that of another inbox *)
(* which has the key.                                                      *)
Install(r) == /\ pc[r] = "install"
              /\ \E before \in {shared, Foreign} :
                   /\ instances' = Append(instances, Built(record[r], before))
                   /\ shared' = Merged(record[r], before)
              /\ installed' = Len(instances')
              /\ receiver' = Len(instances')
              /\ Goto(r, "done") /\ Forget(r)
              /\ UNCHANGED <<row, edits, tokens, waited, stage, failed>>

(* Mutant: the receiver's context is not derived from the program's. *)
EndsWhenCancelled(i) == instances[i].channel = "livechat" \/ instances[i].cancelled

(* Receive returns: at once for live chat, for e-mail when its context is done. *)
Ends(i) == instances[i].channel = "livechat" \/ instances[i].cancelled \/ stage # "up"
Exit(i) == /\ i \in DOMAIN instances /\ instances[i].receiving /\ Ends(i)
           /\ instances' = [instances EXCEPT ![i].receiving = FALSE]
           /\ UNCHANGED <<shared, row, edits, tokens, installed, receiver, reqVars, stage, failed>>

(* A receiver or a sender finds the token expired and gets a new one ... *)
RefreshToken(i) ==
    /\ tokens < MaxTokens
    /\ i \in Receiving \union ({installed} \ {0}) /\ ~instances[i].unsaved
    /\ instances[i].channel = "email"
    /\ tokens' = tokens + 1
    /\ instances' = [instances EXCEPT ![i].token = tokens', ![i].unsaved = TRUE]
    /\ UNCHANGED <<shared, row, edits, installed, receiver, reqVars, stage, failed>>

(* ... and writes the configuration of the instance back, or fails to. *)
Persist(i) ==
    /\ i \in DOMAIN instances /\ instances[i].unsaved
    /\ instances' = [instances EXCEPT ![i].unsaved = FALSE]
    /\ row' \in {row, WithConfig(instances[i].edit, instances[i].key, instances[i].token)}
    /\ UNCHANGED <<shared, edits, tokens, installed, receiver, reqVars, stage, failed>>

Signal == /\ stage = "up" /\ stage' = "signalled"
          /\ UNCHANGED <<shared, row, edits, tokens, manVars, reqVars, failed>>

(* The HTTP server returns from Shutdown when no request is under way. *)
ServerDown == /\ stage = "signalled" /\ \A r \in Requests : ~Busy(r)
              /\ stage' = "down"
              /\ UNCHANGED <<shared, row, edits, tokens, manVars, reqVars, failed>>

(* Manager.Close cancels the receivers it knows, closes the instances it knows ... *)
CloseAll == /\ stage = "down" /\ stage' = "closing"
            /\ instances' = [i \in DOMAIN instances |->
                 [instances[i] EXCEPT !.cancelled = @ \/ i = receiver, !.closed = @ \/ i = installed]]
            /\ UNCHANGED <<shared, row, edits, tokens, installed, receiver, reqVars, failed>>

(* ... and waits for every receiver ever started. *)
Closed == /\ stage = "closing" /\ Receiving = {}
          /\ stage' = "closed"
          /\ UNCHANGED <<shared, row, edits, tokens, manVars, reqVars, failed>>

Step(r) == \/ Read(r) \/ Fail(r) \/ Write(r) \/ Stop(r) \/ Wait(r) \/ CloseOld(r)
           \/ Fetch(r) \/ ReloadFails(r) \/ Install(r)
Act == \/ \E r \in Requests : Begin(r) \/ Step(r)
       \/ \E i \in DOMAIN instances : Exit(i) \/ RefreshToken(i) \/ Persist(i)
       \/ Signal \/ ServerDown \/ CloseAll \/ Closed

(* overlapped only remembers: no action reads it. *)
TwoBusy == \E r, s \in Requests : r # s /\ Busy(r) /\ Busy(s)
Next == Act /\ overlapped' = (overlapped \/ TwoBusy')

Spec == Init /\ [][Next]_vars

Fairness == /\ \A r \in Requests : WF_vars(Step(r) /\ overlapped' = (overlapped \/ TwoBusy'))
            /\ \A i \in 1..(Cardinality(Requests) + 1) :
                 WF_vars(Exit(i) /\ overlapped' = (overlapped \/ TwoBusy'))
            /\ WF_vars((ServerDown \/ CloseAll \/ Closed) /\ overlapped' = (overlapped \/ TwoBusy'))
FairSpec == Spec /\ Fairness
-----------------------------------------------------------------------------
(* The variables have their types. *)
TypeOK == /\ shared \in Keys
          /\ row \in Row /\ edits \in Nat /\ tokens \in Nat
          /\ instances \in Seq(Instance)
          /\ installed \in 0..Len(instances) /\ receiver \in 0..Len(instances)
          /\ pc \in [Requests -> {"idle", "read", "write", "stop", "wait", "close", "fetch", "install", "done"}]
          /\ op \in [Requests -> Ops]
          /\ record \in [Requests -> Row]
          /\ waited \in [Requests -> 0..Len(instances)]
          /\ stage \in {"up", "signalled", "down", "closing", "closed"}
          /\ failed \in BOOLEAN /\ overlapped \in BOOLEAN

(* As long as requests never overlapped, one receiver runs at most, and it *)
(* is the one the manager knows or the one a reload waits for: two         *)
(* goroutines never read one mailbox.                                      *)
OneReceiver ==
    ~overlapped => \A i \in Receiving :
        i = receiver \/ \E r \in Requests : pc[r] = "wait" /\ waited[r] = i

(* The instance has what the row says of its configuration. *)
Agrees(x) == x.edit = row.edit /\ (row.key # NoKey => Marshalled(x.key) = row.key)

(* What the row says is the copy of x. *)
CopiedFrom(x) == x.edit = row.edit /\ Marshalled(x.key) = row.key /\ x.token = row.token

(* As long as requests never overlapped, and when no request is under way  *)
(* and the last reload did not fail, an instance is installed exactly when *)
(* the row is live and enabled, and has its channel.  It has every key of  *)
(* the row's configuration, or else the row holds the copy of an instance  *)
(* the manager has already closed, whose token was refreshed.  Of a key    *)
(* the row lacks nothing is said: the instance has what was loaded last,   *)
(* for whichever inbox (cmd/init.go:733, 797).                             *)
InstalledIsCurrent ==
    (~overlapped /\ ~failed /\ \A r \in Requests : ~Busy(r)) =>
        /\ installed # 0 <=> (row.state = "live" /\ row.enabled)
        /\ installed # 0 => /\ instances[installed].channel = row.channel
                            /\ \/ Agrees(instances[installed])
                               \/ \E i \in DOMAIN instances : /\ instances[i].closed /\ i # installed
                                                               /\ CopiedFrom(instances[i])

(* After Close no receiver runs, not even one an overlapping reload left   *)
(* behind and that the manager no longer knows.                            *)
QuietAfterClose == stage = "closed" => Receiving = {}

(* As long as requests never overlapped, whatever turns a live chat inbox  *)
(* on or off, rotates its secret or deletes it, and whatever makes a live  *)
(* chat inbox of another or another of it, raises the session version.     *)
BoundaryRevokes ==
    [][(/\ ~overlapped' /\ row.state = "live"
        /\ \/ row.channel # row'.channel
           \/ /\ row.channel = "livechat"
              /\ row.enabled # row'.enabled \/ row.secret # row'.secret \/ row'.state = "deleted")
         => row'.version > row.version]_vars

(* A request always gets its answer, although it waits for a receiver, and *)
(* a signalled program ends, whatever receivers overlapping reloads left.  *)
EverythingEnds == /\ \A r \in Requests : Busy(r) ~> pc[r] = "done"
                  /\ stage = "signalled" ~> stage = "closed"
=============================================================================
