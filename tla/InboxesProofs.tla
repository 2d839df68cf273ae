----------------------------- MODULE InboxesProofs -----------------------------
(***************************************************************************)
(* Proofs about Inboxes, for any requests and any number of tokens: while  *)
(* requests do not overlap, one receiver runs at most and the manager      *)
(* knows it, what is installed agrees with the row, and what changes the   *)
(* session boundary of a live chat inbox revokes its sessions; after Close *)
(* no receiver runs, even when they did overlap.                           *)
(***************************************************************************)
EXTENDS Inboxes, TLAPS

Reloading(r) == pc[r] \in {"stop", "wait", "close", "fetch", "install"}

(* A closed instance wrote its configuration over the row. *)
WrittenBack == \E i \in DOMAIN instances : /\ instances[i].closed /\ i # installed
                                          /\ CopiedFrom(instances[i])

(* The row says what it said when the reload fetched it. *)
Fetched(r) == record[r].edit = row.edit /\ record[r].key = row.key

Current == /\ installed # 0 <=> (row.state = "live" /\ row.enabled)
           /\ installed # 0 => /\ instances[installed].channel = row.channel
                               /\ Agrees(instances[installed]) \/ WrittenBack

(* One request at a time: the receiver a reload stops is the only one, and *)
(* nothing receives when it closes the old instance and builds the new.    *)
OneRequest ==
  /\ \A i \in Receiving : i = receiver \/ \E r \in Requests : pc[r] = "wait" /\ waited[r] = i
  /\ receiver \in {0, installed}
  /\ \A i \in DOMAIN instances : i = installed \/ instances[i].closed
  /\ \A r \in Requests :
       /\ pc[r] \in {"wait", "close", "fetch", "install"} => receiver = 0
       /\ pc[r] \in {"close", "fetch", "install"} => Receiving = {}
       /\ pc[r] \in {"fetch", "install"} => installed = 0
       /\ pc[r] = "install" => /\ row.state = "live" /\ row.enabled
                               /\ record[r].channel = row.channel
                               /\ Fetched(r) \/ WrittenBack
       /\ pc[r] = "write" /\ op[r] = "update" =>
            /\ record[r].channel = row.channel
            /\ record[r].enabled = row.enabled /\ record[r].secret = row.secret
            /\ record[r].version = row.version
  /\ ~failed /\ (\A r \in Requests : ~Reloading(r)) => Current

(* The server is down only when all requests are answered. *)
AllAnswered == stage \in {"down", "closing", "closed"} => \A r \in Requests : ~Busy(r)

IInv == /\ TypeOK /\ (TwoBusy => overlapped) /\ AllAnswered /\ QuietAfterClose
        /\ (~overlapped => OneRequest)

Remembers == overlapped' = (overlapped \/ TwoBusy')

USE DEF manVars, reqVars, Goto, Forget

-----------------------------------------------------------------------------
(* Types *)

LEMMA InstanceTypes ==
  ASSUME TypeOK, NEW i \in DOMAIN instances
  PROVE  /\ instances[i] \in Instance /\ i \in 1..Len(instances) /\ Len(instances) \in Nat
         /\ instances[i].edit \in Nat /\ instances[i].token \in Nat /\ instances[i].key \in Keys
         /\ instances[i].receiving \in BOOLEAN /\ instances[i].cancelled \in BOOLEAN
         /\ instances[i].closed \in BOOLEAN /\ instances[i].unsaved \in BOOLEAN
<1>1. instances \in Seq(Instance)
  BY DEF TypeOK
<1>2. instances[i] \in Instance /\ i \in 1..Len(instances) /\ Len(instances) \in Nat
  BY <1>1
<1> QED
  BY <1>2 DEF Instance

(* One instance is changed. *)
LEMMA InstanceChanged ==
  ASSUME TypeOK, NEW i \in DOMAIN instances, NEW new \in Instance,
         instances' = [instances EXCEPT ![i] = new]
  PROVE  /\ instances' \in Seq(Instance) /\ DOMAIN instances' = DOMAIN instances
         /\ Len(instances') = Len(instances)
         /\ instances'[i] = new /\ \A j \in DOMAIN instances : j # i => instances'[j] = instances[j]
<1>1. instances \in Seq(Instance)
  BY DEF TypeOK
<1> QED
  BY <1>1

LEMMA RowTypes ==
  ASSUME NEW x \in Row
  PROVE  /\ x.state \in {"absent", "live", "deleted"} /\ x.enabled \in BOOLEAN
         /\ x.channel \in Channels /\ x.key \in Keys
         /\ x.edit \in Nat /\ x.token \in Nat /\ x.secret \in Nat /\ x.version \in Nat \ {0}
BY DEF Row

LEMMA KeyTypes == /\ NoKey \in Keys /\ Foreign \in Keys /\ Nat \subseteq Keys
                  /\ \A k \in Keys : Marshalled(k) \in Keys /\ Marshalled(k) # NoKey
                  /\ \A k \in Keys : k # NoKey => Marshalled(k) = k
BY DEF Keys, NoKey, Foreign, Blank, Marshalled

LEMMA BuiltType ==
  ASSUME NEW x \in Row, NEW before \in Keys
  PROVE  Built(x, before) \in Instance /\ Merged(x, before) \in Keys
<1>1. Merged(x, before) \in Keys
  BY RowTypes DEF Merged
<1> QED
  BY <1>1, RowTypes DEF Built, Instance

LEMMA NewRowType == (\A c \in Channels, on \in BOOLEAN : NewRow(c, on) \in Row) /\ NoRow \in Row
<1>1. \A c \in Channels, on \in BOOLEAN : NewRow(c, on) \in Row
  BY KeyTypes DEF NewRow, Row
<1>2. NoRow = [NewRow("email", FALSE) EXCEPT !.state = "absent"] /\ NewRow("email", FALSE) \in Row
  BY <1>1 DEF NoRow, Channels
<1> QED
  BY <1>1, <1>2 DEF Row

LEMMA WithConfigType ==
  ASSUME row \in Row, NEW edit \in Nat, NEW key \in Keys, NEW token \in Nat
  PROVE  WithConfig(edit, key, token) \in Row
<1>1. Marshalled(key) \in Keys
  BY KeyTypes
<1> QED
  BY <1>1 DEF WithConfig, Row

-----------------------------------------------------------------------------
(* What is known of requests that do not overlap *)

LEMMA Alone ==
  ASSUME IInv, Remembers, ~overlapped', NEW r \in Requests
  PROVE  /\ ~overlapped /\ OneRequest
         /\ Busy(r) => \A s \in Requests : s # r => ~Busy(s)
         /\ Busy(r)' => \A s \in Requests : s # r => ~Busy(s)'
BY DEF IInv, Remembers, TwoBusy

LEMMA InitIInv == Init => IInv
<1> SUFFICES ASSUME Init PROVE IInv
  OBVIOUS
<1>1. row \in Row
  BY NewRowType DEF Init
<1>a. shared \in Keys
  <2>1. shared = NoKey \/ shared = Foreign
    BY DEF Init
  <2> QED
    BY <2>1, KeyTypes
<1>2. /\ instances \in Seq(Instance)
      /\ \/ row.enabled /\ instances = <<Built(row, shared)>>
         \/ ~row.enabled /\ instances = << >>
  <2>1. Built(row, shared) \in Instance
    BY <1>1, <1>a, BuiltType
  <2> QED
    BY <2>1 DEF Init
<1>3. /\ row.enabled => row.state = "live"
      /\ row.state = "live" <=> row # NoRow
      /\ row.edit = 0 /\ row.key = NoKey
  <2>1. row = NoRow \/ \E c \in Channels, on \in BOOLEAN : row = NewRow(c, on)
    BY DEF Init
  <2>2. /\ NoRow.state = "absent" /\ NoRow.enabled = FALSE /\ NoRow.edit = 0 /\ NoRow.key = NoKey
    BY DEF NewRow, NoRow
  <2>3. ASSUME NEW c, NEW on
        PROVE  /\ NewRow(c, on).state = "live" /\ NewRow(c, on).edit = 0 /\ NewRow(c, on).key = NoKey
    BY DEF NewRow
  <2> QED
    BY <2>1, <2>2, <2>3
<1>4. TypeOK
  <2>1. record \in [Requests -> Row]
    BY NewRowType DEF Init
  <2>2. installed \in 0..Len(instances) /\ receiver \in 0..Len(instances) /\ Len(instances) \in Nat
    BY <1>2 DEF Init
  <2> QED
    <3>1. /\ pc \in [Requests -> {"idle", "read", "write", "stop", "wait", "close", "fetch",
                                 "install", "done"}]
          /\ op \in [Requests -> Ops] /\ waited \in [Requests -> 0..Len(instances)]
      BY <2>2 DEF Init, Ops
    <3>2. /\ shared \in Keys /\ edits \in Nat /\ tokens \in Nat
          /\ stage \in {"up", "signalled", "down", "closing", "closed"}
          /\ failed \in BOOLEAN /\ overlapped \in BOOLEAN
      BY <1>a DEF Init
    <3> QED
      BY <1>1, <1>2, <2>1, <2>2, <3>1, <3>2 DEF TypeOK
<1>5. \A r \in Requests : pc[r] = "idle"
  BY DEF Init
<1>6. OneRequest
  <2>1. CASE row.enabled /\ instances = <<Built(row, shared)>>
    <3>1. /\ DOMAIN instances = {1} /\ installed = 1 /\ receiver = 1
          /\ instances[1].edit = row.edit /\ instances[1].channel = row.channel /\ row.key = NoKey
      BY <1>3, <2>1 DEF Init, Built
    <3>2. Receiving \subseteq {receiver} /\ receiver = installed
      BY <3>1 DEF Receiving
    <3>3. Current
      <4>1. Agrees(instances[installed]) /\ instances[installed].channel = row.channel
        BY <3>1 DEF Agrees
      <4>2. installed # 0 /\ row.state = "live" /\ row.enabled
        BY <1>3, <2>1, <3>1
      <4> QED
        BY <4>1, <4>2 DEF Current
    <3> QED
      BY <1>5, <3>1, <3>2, <3>3 DEF OneRequest
  <2>2. CASE ~row.enabled /\ instances = << >>
    <3>1. DOMAIN instances = {} /\ installed = 0 /\ receiver = 0
      BY <2>2 DEF Init
    <3> QED
      BY <1>3, <1>5, <2>2, <3>1 DEF OneRequest, Receiving, Current, Reloading
  <2> QED
    BY <1>2, <2>1, <2>2
<1> QED
  BY <1>4, <1>5, <1>6 DEF Init, IInv, TwoBusy, Busy, AllAnswered, QuietAfterClose

-----------------------------------------------------------------------------
(* Requests before they reload *)

LEMMA BeginIInv ==
  ASSUME IInv, NEW r \in Requests, Begin(r), Remembers
  PROVE  IInv'
<1>1. PICK o \in Ops :
        /\ op' = [op EXCEPT ![r] = o]
        /\ pc' = [pc EXCEPT ![r] = IF o \in {"update", "reconnect"} THEN "read" ELSE "write"]
  BY DEF Begin
<1>2. /\ UNCHANGED <<shared, row, edits, tokens, manVars, record, waited, stage, failed>>
      /\ pc[r] = "idle" /\ stage \in {"up", "signalled"}
  BY DEF Begin
<1>3. /\ pc' \in [Requests -> {"idle", "read", "write", "stop", "wait", "close", "fetch", "install", "done"}]
      /\ op' \in [Requests -> Ops]
      /\ \A s \in Requests : s # r => pc'[s] = pc[s] /\ op'[s] = op[s]
      /\ pc'[r] \in {"read", "write"} /\ (pc'[r] = "write" => op'[r] # "update")
  BY <1>1 DEF IInv, TypeOK
<1>4. TypeOK'
  BY <1>2, <1>3 DEF IInv, TypeOK, Remembers, TwoBusy
<1>5. AllAnswered' /\ QuietAfterClose'
  BY <1>2 DEF AllAnswered, QuietAfterClose
<1>6. ASSUME ~overlapped' PROVE OneRequest'
  <2>1. OneRequest
    BY <1>6, Alone
  <2> QED
    BY <1>2, <1>3, <2>1 DEF OneRequest, Receiving, Current, WrittenBack, Reloading,
       Agrees, CopiedFrom, Fetched
<1> QED
  BY <1>4, <1>5, <1>6 DEF IInv, Remembers

(* A step of a request that only moves it, before it reloads or when an   *)
(* error ends its reload.                                                  *)
LEMMA PassIInv ==
  ASSUME IInv, NEW r \in Requests, Read(r) \/ Fail(r) \/ ReloadFails(r), Remembers
  PROVE  IInv'
<1>1. /\ UNCHANGED <<row, edits, tokens, manVars, waited, stage>>
      /\ pc[r] \in {"read", "write", "fetch", "install"} /\ Busy(r)
      /\ pc' = [pc EXCEPT ![r] = "done"] \/ (pc' = [pc EXCEPT ![r] = "write"] /\ Read(r))
  BY DEF Read, Fail, ReloadFails, Busy
<1>2. /\ pc' \in [Requests -> {"idle", "read", "write", "stop", "wait", "close", "fetch", "install", "done"}]
      /\ \A s \in Requests : s # r => pc'[s] = pc[s]
      /\ pc'[r] = "done" \/ (pc'[r] = "write" /\ Read(r))
  BY <1>1 DEF IInv, TypeOK
<1>3. /\ record' \in [Requests -> Row] /\ op' \in [Requests -> Ops] /\ failed' \in BOOLEAN
      /\ Read(r) => record'[r] = row
      /\ overlapped' \in BOOLEAN
  <2>1. NoRow \in Row /\ "create" \in Ops
    BY NewRowType DEF Ops
  <2> QED
    BY <2>1 DEF Read, Fail, ReloadFails, IInv, TypeOK, Remembers, TwoBusy
<1>a. shared' \in Keys
  <2>1. shared \in Keys /\ record[r] \in Row
    BY DEF IInv, TypeOK
  <2> QED
    BY <2>1, BuiltType DEF Read, Fail, ReloadFails
<1>4. TypeOK'
  BY <1>1, <1>2, <1>3, <1>a DEF IInv, TypeOK, Remembers
<1>5. AllAnswered' /\ QuietAfterClose'
  BY <1>1, <1>2 DEF IInv, AllAnswered, QuietAfterClose, Busy, Receiving
<1>6. ASSUME ~overlapped' PROVE OneRequest'
  <2>1. OneRequest /\ \A s \in Requests : s # r => ~Busy(s)
    BY <1>1, <1>6, Alone
  <2>2. \A s \in Requests : s # r => pc'[s] \in {"idle", "done"}
    BY <1>2, <2>1 DEF Busy
  <2>3. \A i \in Receiving : i = receiver
    BY <1>1, <2>1 DEF OneRequest, Busy
  <2>4. ~failed' /\ (\A q \in Requests : ~Reloading(q)') => Current
    <3>1. CASE ReloadFails(r)
      BY <3>1 DEF ReloadFails
    <3>2. CASE Read(r) \/ Fail(r)
      <4>1. (\A q \in Requests : ~Reloading(q)) /\ failed' = failed
        BY <2>1, <3>2 DEF Read, Fail, Reloading, Busy
      <4> QED
        BY <2>1, <4>1 DEF OneRequest
    <3> QED
      BY <3>1, <3>2
  <2>5. /\ Receiving' = Receiving /\ Current' = Current /\ UNCHANGED <<receiver, installed, instances, row>>
    BY <1>1 DEF Receiving, WrittenBack, Current, Agrees, CopiedFrom
  <2>6. \A i \in DOMAIN instances : i = installed \/ instances[i].closed
    BY <2>1 DEF OneRequest
  <2>7. pc'[r] = "write" /\ op'[r] = "update" =>
          /\ record'[r].channel = row.channel /\ record'[r].enabled = row.enabled /\ record'[r].secret = row.secret
          /\ record'[r].version = row.version
    BY <1>2, <1>3
  <2>8. receiver \in {0, installed}
    BY <2>1 DEF OneRequest
  <2> QED
    BY <1>2, <2>2, <2>3, <2>4, <2>5, <2>6, <2>7, <2>8 DEF OneRequest
<1> QED
  BY <1>4, <1>5, <1>6 DEF IInv, Remembers

(* The statement of the operation; the reload starts. *)
LEMMA WriteTypes ==
  ASSUME IInv, NEW r \in Requests, Write(r)
  PROVE  row' \in Row /\ edits' \in Nat /\ tokens' \in Nat
<1>1. row \in Row /\ record[r] \in Row /\ edits \in Nat /\ tokens \in Nat
  BY DEF IInv, TypeOK
<1>b. ASSUME NEW f \in Forms
      PROVE  f.channel \in Channels /\ f.enabled \in BOOLEAN /\ f.rotated \in BOOLEAN /\ KeyOf(f) \in Keys
  BY <1>1, FormsAssumption, KeyTypes DEF KeyOf
<1>2. CASE Create(r)
  <2>1. PICK f \in Forms : row' = [NewRow(f.channel, f.enabled) EXCEPT !.edit = edits', !.key = KeyOf(f)]
    BY <1>2 DEF Create
  <2>2. NewRow(f.channel, f.enabled) \in Row /\ edits' \in Nat /\ KeyOf(f) \in Keys
    BY <1>1, <1>2, <1>b, NewRowType DEF Create
  <2> QED
    BY <1>1, <1>2, <2>1, <2>2 DEF Create, Row
<1>3. CASE Update(r)
  <2> DEFINE token == IF record[r].channel = "email" THEN record[r].token ELSE 0
             rotated(f) == record[r].channel = "livechat" /\ f.rotated
             secret(f) == record[r].secret + (IF rotated(f) THEN 1 ELSE 0)
             version(f) == NextVersion(record[r], f.channel, f.enabled, rotated(f))
  <2>1. PICK f \in Forms :
          row' = [row EXCEPT !.channel = f.channel, !.enabled = f.enabled, !.edit = edits',
                    !.key = KeyOf(f), !.token = token, !.secret = secret(f), !.version = version(f)]
    BY <1>3 DEF Update
  <2>2. /\ edits' \in Nat /\ token \in Nat /\ secret(f) \in Nat
        /\ version(f) \in Nat \ {0}
    BY <1>1, <1>3, RowTypes DEF Update, NextVersion
  <2>3. f.channel \in Channels /\ f.enabled \in BOOLEAN /\ KeyOf(f) \in Keys
    BY <1>b
  <2> HIDE DEF token, secret, version
  <2> QED
    BY <1>1, <1>3, <2>1, <2>2, <2>3 DEF Update, Row
<1>a. Revoked \in Nat \ {0} /\ row.enabled \in BOOLEAN
  BY <1>1, RowTypes DEF Revoked
<1> HIDE DEF Revoked
<1>4. CASE Toggle(r)
  BY <1>1, <1>4, <1>a DEF Toggle, Row
<1>5. CASE SoftDelete(r)
  BY <1>1, <1>5, <1>a, KeyTypes DEF SoftDelete, Row
<1>6. CASE Reconnect(r)
  <2>1. /\ tokens' \in Nat /\ record[r].edit \in Nat /\ record[r].key \in Keys
        /\ row' = WithConfig(record[r].edit, record[r].key, tokens')
    BY <1>1, <1>6, RowTypes DEF Reconnect
  <2>2. \A edit, token \in Nat, key \in Keys : WithConfig(edit, key, token) \in Row
    BY <1>1, WithConfigType
  <2> QED
    BY <1>1, <1>6, <2>1, <2>2 DEF Reconnect
<1> QED
  BY <1>2, <1>3, <1>4, <1>5, <1>6 DEF Write

LEMMA WriteIInv ==
  ASSUME IInv, NEW r \in Requests, Write(r), Remembers
  PROVE  IInv'
<1>1. /\ UNCHANGED <<shared, manVars, waited, stage, failed>>
      /\ pc[r] = "write" /\ Busy(r) /\ pc' = [pc EXCEPT ![r] = "stop"]
      /\ op' \in [Requests -> Ops] /\ record' \in [Requests -> Row]
  <2>1. NoRow \in Row /\ "create" \in Ops
    BY NewRowType DEF Ops
  <2> QED
    BY <2>1 DEF Write, Busy, IInv, TypeOK
<1>2. /\ pc' \in [Requests -> {"idle", "read", "write", "stop", "wait", "close", "fetch", "install", "done"}]
      /\ \A s \in Requests : s # r => pc'[s] = pc[s]
      /\ pc'[r] = "stop"
  BY <1>1 DEF IInv, TypeOK
<1>3. TypeOK'
  BY <1>1, <1>2, WriteTypes DEF IInv, TypeOK, Remembers
<1>4. AllAnswered' /\ QuietAfterClose'
  BY <1>1, <1>2 DEF IInv, AllAnswered, QuietAfterClose, Busy, Receiving
<1>5. ASSUME ~overlapped' PROVE OneRequest'
  <2>1. OneRequest /\ \A s \in Requests : s # r => ~Busy(s)
    BY <1>1, <1>5, Alone
  <2>2. \A s \in Requests : s # r => pc'[s] \in {"idle", "done"}
    BY <1>2, <2>1 DEF Busy
  <2>3. \A i \in Receiving : i = receiver
    BY <1>1, <2>1 DEF OneRequest, Busy
  <2>4. Reloading(r)'
    BY <1>2 DEF Reloading
  <2>5. UNCHANGED Receiving
    BY <1>1 DEF Receiving
  <2> QED
    BY <1>1, <1>2, <2>1, <2>2, <2>3, <2>4, <2>5 DEF OneRequest
<1> QED
  BY <1>3, <1>4, <1>5 DEF IInv, Remembers

-----------------------------------------------------------------------------
(* The reload *)

LEMMA StopIInv ==
  ASSUME IInv, NEW r \in Requests, Stop(r), Remembers
  PROVE  IInv'
<1>1. /\ UNCHANGED <<shared, row, edits, tokens, installed, op, record, stage, failed>>
      /\ pc[r] = "stop" /\ Busy(r) /\ receiver' = 0
      /\ \/ /\ receiver # 0 /\ instances' = [instances EXCEPT ![receiver].cancelled = TRUE]
            /\ waited' = [waited EXCEPT ![r] = receiver] /\ pc' = [pc EXCEPT ![r] = "wait"]
         \/ /\ receiver = 0 /\ UNCHANGED <<instances, waited>> /\ pc' = [pc EXCEPT ![r] = "close"]
  BY DEF Stop, Busy
<1>2. /\ pc' \in [Requests -> {"idle", "read", "write", "stop", "wait", "close", "fetch", "install", "done"}]
      /\ \A s \in Requests : s # r => pc'[s] = pc[s]
      /\ pc'[r] = IF receiver # 0 THEN "wait" ELSE "close"
  BY <1>1 DEF IInv, TypeOK
<1>3. /\ instances' \in Seq(Instance) /\ DOMAIN instances' = DOMAIN instances
      /\ Len(instances') = Len(instances)
      /\ \A j \in DOMAIN instances : /\ instances'[j].receiving = instances[j].receiving
                                     /\ instances'[j].closed = instances[j].closed
  <2>1. CASE receiver # 0
    <3>1. receiver \in DOMAIN instances
      BY <2>1 DEF IInv, TypeOK
    <3> DEFINE new == [instances[receiver] EXCEPT !.cancelled = TRUE]
    <3>2. /\ new \in Instance /\ new.receiving = instances[receiver].receiving
          /\ new.closed = instances[receiver].closed
      BY <3>1, InstanceTypes DEF IInv, Instance
    <3>3. instances' = [instances EXCEPT ![receiver] = new]
      BY <1>1, <2>1
    <3> HIDE DEF new
    <3> QED
      BY <3>1, <3>2, <3>3, InstanceChanged DEF IInv
  <2>2. CASE receiver = 0
    BY <1>1, <2>2 DEF IInv, TypeOK
  <2> QED
    BY <2>1, <2>2
<1>4. waited' \in [Requests -> 0..Len(instances)] /\ (receiver # 0 => waited'[r] = receiver)
  BY <1>1 DEF IInv, TypeOK
<1>5. TypeOK'
  <2>1. 0 \in 0..Len(instances) /\ Len(instances) \in Nat
    BY DEF IInv, TypeOK
  <2> QED
    BY <1>1, <1>2, <1>3, <1>4, <2>1 DEF IInv, TypeOK, Remembers
<1>6. Receiving' = Receiving
  BY <1>3 DEF Receiving
<1>7. AllAnswered' /\ QuietAfterClose'
  BY <1>1, <1>2, <1>6 DEF IInv, AllAnswered, QuietAfterClose, Busy
<1>8. ASSUME ~overlapped' PROVE OneRequest'
  <2>1. OneRequest /\ \A s \in Requests : s # r => ~Busy(s)
    BY <1>1, <1>8, Alone
  <2>2. \A s \in Requests : s # r => pc'[s] \in {"idle", "done"}
    BY <1>2, <2>1 DEF Busy
  <2>3. \A i \in Receiving : i = receiver
    BY <1>1, <2>1 DEF OneRequest, Busy
  <2>4. receiver = 0 => Receiving = {}
    BY <2>3 DEF Receiving, IInv, TypeOK
  <2>5. Reloading(r)'
    BY <1>2 DEF Reloading
  <2>6. \A i \in DOMAIN instances' : i = installed' \/ instances'[i].closed
    BY <1>1, <1>3, <2>1 DEF OneRequest
  <2>7. \A i \in Receiving' : pc'[r] = "wait" /\ waited'[r] = i
    BY <1>2, <1>4, <1>6, <2>3, <2>4
  <2> QED
    BY <1>1, <1>2, <1>6, <2>2, <2>4, <2>5, <2>6, <2>7 DEF OneRequest
<1> QED
  BY <1>5, <1>7, <1>8 DEF IInv, Remembers

LEMMA WaitIInv ==
  ASSUME IInv, NEW r \in Requests, Wait(r), Remembers
  PROVE  IInv'
<1>1. /\ UNCHANGED <<shared, row, edits, tokens, manVars, op, record, stage, failed>>
      /\ waited' = [waited EXCEPT ![r] = 0]
      /\ pc[r] = "wait" /\ Busy(r) /\ pc' = [pc EXCEPT ![r] = "close"]
      /\ ~instances[waited[r]].receiving
  BY DEF Wait, Busy
<1>2. /\ pc' \in [Requests -> {"idle", "read", "write", "stop", "wait", "close", "fetch", "install", "done"}]
      /\ \A s \in Requests : s # r => pc'[s] = pc[s]
      /\ pc'[r] = "close"
  BY <1>1 DEF IInv, TypeOK
<1>3. TypeOK'
  <2>1. 0 \in 0..Len(instances)
    BY DEF IInv, TypeOK
  <2> QED
    BY <1>1, <1>2, <2>1 DEF IInv, TypeOK, Remembers
<1>4. AllAnswered' /\ QuietAfterClose'
  BY <1>1, <1>2 DEF IInv, AllAnswered, QuietAfterClose, Busy, Receiving
<1>5. ASSUME ~overlapped' PROVE OneRequest'
  <2>1. OneRequest /\ \A s \in Requests : s # r => ~Busy(s)
    BY <1>1, <1>5, Alone
  <2>2. \A s \in Requests : s # r => pc'[s] \in {"idle", "done"}
    BY <1>2, <2>1 DEF Busy
  <2>3. receiver = 0
    BY <1>1, <2>1 DEF OneRequest
  <2>4. Receiving = {}
    <3> SUFFICES ASSUME NEW i \in Receiving PROVE FALSE
      OBVIOUS
    <3>1. i # 0 /\ instances[i].receiving
      BY DEF Receiving, IInv, TypeOK
    <3>2. PICK s \in Requests : pc[s] = "wait" /\ waited[s] = i
      BY <2>1, <2>3, <3>1 DEF OneRequest
    <3> QED
      BY <1>1, <2>1, <3>1, <3>2 DEF Busy
  <2>5. Receiving' = {} /\ Reloading(r)'
    BY <1>1, <1>2, <2>4 DEF Receiving, Reloading
  <2> QED
    BY <1>1, <1>2, <2>1, <2>2, <2>3, <2>5 DEF OneRequest
<1> QED
  BY <1>3, <1>4, <1>5 DEF IInv, Remembers
LEMMA CloseOldIInv ==
  ASSUME IInv, NEW r \in Requests, CloseOld(r), Remembers
  PROVE  IInv'
<1>1. /\ UNCHANGED <<shared, row, edits, tokens, receiver, op, record, waited, stage, failed>>
      /\ pc[r] = "close" /\ Busy(r) /\ pc' = [pc EXCEPT ![r] = "fetch"] /\ installed' = 0
      /\ \/ installed # 0 /\ instances' = [instances EXCEPT ![installed].closed = TRUE]
         \/ installed = 0 /\ instances' = instances
  BY DEF CloseOld, Busy
<1>2. /\ pc' \in [Requests -> {"idle", "read", "write", "stop", "wait", "close", "fetch", "install", "done"}]
      /\ \A s \in Requests : s # r => pc'[s] = pc[s]
      /\ pc'[r] = "fetch"
  BY <1>1 DEF IInv, TypeOK
<1>3. /\ instances' \in Seq(Instance) /\ DOMAIN instances' = DOMAIN instances
      /\ Len(instances') = Len(instances)
      /\ \A j \in DOMAIN instances : /\ instances'[j].receiving = instances[j].receiving
                                     /\ j = installed \/ instances[j].closed => instances'[j].closed
  <2>1. CASE installed # 0
    <3>1. installed \in DOMAIN instances
      BY <2>1 DEF IInv, TypeOK
    <3> DEFINE new == [instances[installed] EXCEPT !.closed = TRUE]
    <3>2. new \in Instance /\ new.receiving = instances[installed].receiving /\ new.closed
      BY <3>1, InstanceTypes DEF IInv, Instance
    <3>3. instances' = [instances EXCEPT ![installed] = new]
      BY <1>1, <2>1
    <3> HIDE DEF new
    <3> QED
      BY <3>1, <3>2, <3>3, InstanceChanged DEF IInv
  <2>2. CASE installed = 0
    BY <1>1, <2>2 DEF IInv, TypeOK
  <2> QED
    BY <2>1, <2>2
<1>4. TypeOK'
  <2>1. 0 \in 0..Len(instances) /\ Len(instances) \in Nat
    BY DEF IInv, TypeOK
  <2> QED
    BY <1>1, <1>2, <1>3, <2>1 DEF IInv, TypeOK, Remembers
<1>5. Receiving' = Receiving
  BY <1>3 DEF Receiving
<1>6. AllAnswered' /\ QuietAfterClose'
  BY <1>1, <1>2, <1>5 DEF IInv, AllAnswered, QuietAfterClose, Busy
<1>7. ASSUME ~overlapped' PROVE OneRequest'
  <2>1. OneRequest /\ \A s \in Requests : s # r => ~Busy(s)
    BY <1>1, <1>7, Alone
  <2>2. \A s \in Requests : s # r => pc'[s] \in {"idle", "done"}
    BY <1>2, <2>1 DEF Busy
  <2>3. receiver' = 0 /\ Receiving' = {} /\ Reloading(r)'
    BY <1>1, <1>2, <1>5, <2>1 DEF OneRequest, Reloading
  <2>4. \A i \in DOMAIN instances' : instances'[i].closed
    BY <1>3, <2>1 DEF OneRequest
  <2> QED
    BY <1>1, <1>2, <2>2, <2>3, <2>4 DEF OneRequest
<1> QED
  BY <1>4, <1>6, <1>7 DEF IInv, Remembers

LEMMA FetchIInv ==
  ASSUME IInv, NEW r \in Requests, Fetch(r), Remembers
  PROVE  IInv'
<1>1. /\ UNCHANGED <<shared, row, edits, tokens, manVars, op, waited, stage>>
      /\ pc[r] = "fetch" /\ Busy(r) /\ failed' = FALSE
      /\ record' = [record EXCEPT ![r] = row]
      /\ \/ row.state = "live" /\ row.enabled /\ pc' = [pc EXCEPT ![r] = "install"]
         \/ ~(row.state = "live" /\ row.enabled) /\ pc' = [pc EXCEPT ![r] = "done"]
  BY DEF Fetch, Busy
<1>2. /\ pc' \in [Requests -> {"idle", "read", "write", "stop", "wait", "close", "fetch", "install", "done"}]
      /\ record' \in [Requests -> Row] /\ record'[r] = row
      /\ \A s \in Requests : s # r => pc'[s] = pc[s]
      /\ \/ pc'[r] = "install" /\ row.state = "live" /\ row.enabled
         \/ pc'[r] = "done" /\ ~(row.state = "live" /\ row.enabled)
  BY <1>1 DEF IInv, TypeOK
<1>3. TypeOK'
  BY <1>1, <1>2 DEF IInv, TypeOK, Remembers
<1>4. AllAnswered' /\ QuietAfterClose'
  BY <1>1, <1>2 DEF IInv, AllAnswered, QuietAfterClose, Busy, Receiving
<1>5. ASSUME ~overlapped' PROVE OneRequest'
  <2>1. OneRequest /\ \A s \in Requests : s # r => ~Busy(s)
    BY <1>1, <1>5, Alone
  <2>2. \A s \in Requests : s # r => pc'[s] \in {"idle", "done"}
    BY <1>2, <2>1 DEF Busy
  <2>3. receiver' = 0 /\ Receiving' = {} /\ installed' = 0
    BY <1>1, <2>1 DEF OneRequest, Receiving
  <2>4. \A i \in DOMAIN instances' : i = installed' \/ instances'[i].closed
    BY <1>1, <2>1 DEF OneRequest
  <2>5. (\A q \in Requests : ~Reloading(q)') => Current'
    BY <1>1, <1>2, <2>3 DEF Reloading, Current
  <2>6. record'[r].channel = row'.channel /\ Fetched(r)'
    BY <1>1, <1>2 DEF Fetched
  <2> QED
    BY <1>1, <1>2, <2>2, <2>3, <2>4, <2>5, <2>6 DEF OneRequest
<1> QED
  BY <1>3, <1>4, <1>5 DEF IInv, Remembers

LEMMA InstallIInv ==
  ASSUME IInv, NEW r \in Requests, Install(r), Remembers
  PROVE  IInv'
<1>a. shared \in Keys /\ record[r] \in Row /\ record \in [Requests -> Row] /\ op \in [Requests -> Ops]
  BY DEF IInv, TypeOK
<1>b. PICK before \in {shared, Foreign} :
        instances' = Append(instances, Built(record[r], before)) /\ shared' = Merged(record[r], before)
  BY DEF Install
<1> DEFINE n == Len(instances) + 1
           b == Built(record[r], before)
<1>1. /\ UNCHANGED <<row, edits, tokens, waited, stage, failed>>
      /\ pc[r] = "install" /\ Busy(r) /\ pc' = [pc EXCEPT ![r] = "done"]
      /\ instances' = Append(instances, b) /\ installed' = Len(instances') /\ receiver' = Len(instances')
  BY <1>b DEF Install, Busy
<1>c. /\ op' \in [Requests -> Ops] /\ record' \in [Requests -> Row] /\ shared' \in Keys
      /\ b \in Instance
  <2>1. before \in Keys /\ NoRow \in Row /\ "create" \in Ops
    BY <1>a, KeyTypes, NewRowType DEF Ops
  <2> QED
    BY <1>a, <1>b, <2>1, BuiltType DEF Install
<1>2. /\ pc' \in [Requests -> {"idle", "read", "write", "stop", "wait", "close", "fetch", "install", "done"}]
      /\ \A s \in Requests : s # r => pc'[s] = pc[s]
      /\ pc'[r] = "done"
  BY <1>1 DEF IInv, TypeOK
<1>3. /\ b \in Instance /\ b.edit = record[r].edit /\ b.channel = record[r].channel
      /\ record[r].key # NoKey => b.key = record[r].key
  BY <1>c DEF Built, Merged
<1>4. /\ instances' \in Seq(Instance) /\ Len(instances') = n /\ n \in Nat
      /\ DOMAIN instances' = DOMAIN instances \union {n} /\ n \notin DOMAIN instances
      /\ instances'[n] = b /\ \A j \in DOMAIN instances : instances'[j] = instances[j]
      /\ Len(instances) \in Nat
  <2> HIDE DEF b
  <2>1. instances \in Seq(Instance)
    BY DEF IInv, TypeOK
  <2> QED
    BY <1>1, <1>3, <2>1
<1>5. TypeOK'
  <2>1. waited \in [Requests -> 0..n] /\ n \in 0..n
    BY <1>4 DEF IInv, TypeOK
  <2> QED
    BY <1>1, <1>2, <1>4, <1>c, <2>1 DEF IInv, TypeOK, Remembers
<1>6. AllAnswered' /\ QuietAfterClose'
  <2>1. stage \notin {"down", "closing", "closed"}
    BY <1>1 DEF IInv, AllAnswered
  <2> QED
    BY <1>1, <2>1 DEF AllAnswered, QuietAfterClose
<1>7. ASSUME ~overlapped' PROVE OneRequest'
  <2>1. OneRequest /\ \A s \in Requests : s # r => ~Busy(s)
    BY <1>1, <1>7, Alone
  <2>2. \A s \in Requests : pc'[s] \in {"idle", "done"}
    BY <1>2, <2>1 DEF Busy
  <2>3. Receiving = {} /\ installed = 0
    BY <1>1, <2>1 DEF OneRequest
  <2>4. receiver' = n /\ installed' = n /\ n # 0
    BY <1>1, <1>4
  <2>5. \A i \in DOMAIN instances : i # n /\ instances'[i].closed /\ ~instances'[i].receiving
    BY <1>4, <2>1, <2>3 DEF OneRequest, Receiving, IInv, TypeOK
  <2>6. \A i \in Receiving' : i = receiver'
    BY <1>4, <2>4, <2>5 DEF Receiving
  <2>7. \A i \in DOMAIN instances' : i = installed' \/ instances'[i].closed
    BY <1>4, <2>4, <2>5
  <2>8. Current'
    <3>1. /\ row' = row /\ row.state = "live" /\ row.enabled /\ record[r].channel = row.channel
          /\ Fetched(r) \/ WrittenBack
      BY <1>1, <2>1 DEF OneRequest
    <3>2. WrittenBack => WrittenBack'
      BY <1>4, <2>4, <2>5, <3>1 DEF WrittenBack, CopiedFrom
    <3>3. instances'[installed'] = b
      BY <1>4, <2>4
    <3>4. Fetched(r) => Agrees(instances[installed])'
      <4>1. row.key \in Keys
        BY RowTypes DEF IInv, TypeOK
      <4> QED
        BY <1>3, <3>1, <3>3, <4>1, KeyTypes DEF Agrees, Fetched
    <3> QED
      BY <1>3, <2>4, <3>1, <3>2, <3>3, <3>4 DEF Current
  <2> QED
    BY <2>2, <2>4, <2>6, <2>7, <2>8 DEF OneRequest
<1> QED
  BY <1>5, <1>6, <1>7 DEF IInv, Remembers

-----------------------------------------------------------------------------
(* The receivers and their tokens *)

(* What an instance step and the steps of the program leave alone. *)
LEMMA Bystanders ==
  ASSUME IInv, Remembers, UNCHANGED <<shared, edits, installed, receiver, reqVars, failed>>,
         row' \in Row, tokens' \in Nat,
         stage' \in {"up", "signalled", "down", "closing", "closed"},
         instances' \in Seq(Instance), DOMAIN instances' = DOMAIN instances,
         Len(instances') = Len(instances)
  PROVE  TypeOK' /\ (TwoBusy' => overlapped') /\ (~overlapped' => ~overlapped /\ OneRequest)
BY DEF IInv, TypeOK, Remembers, TwoBusy

LEMMA ExitIInv ==
  ASSUME IInv, NEW i, Exit(i), Remembers
  PROVE  IInv'
<1> DEFINE new == [instances[i] EXCEPT !.receiving = FALSE]
<1>1. /\ UNCHANGED <<shared, row, edits, tokens, installed, receiver, reqVars, stage, failed>>
      /\ i \in DOMAIN instances /\ instances' = [instances EXCEPT ![i] = new]
  BY DEF Exit
<1>2. /\ new \in Instance /\ ~new.receiving /\ new.closed = instances[i].closed
      /\ new.edit = instances[i].edit /\ new.token = instances[i].token
      /\ new.key = instances[i].key /\ new.channel = instances[i].channel
  BY <1>1, InstanceTypes DEF IInv, Instance
<1> HIDE DEF new
<1>3. /\ instances' \in Seq(Instance) /\ DOMAIN instances' = DOMAIN instances
      /\ Len(instances') = Len(instances)
      /\ \A j \in DOMAIN instances : /\ instances'[j].receiving => instances[j].receiving
                                     /\ instances'[j].closed = instances[j].closed
                                     /\ instances'[j].edit = instances[j].edit
                                     /\ instances'[j].key = instances[j].key
                                     /\ instances'[j].channel = instances[j].channel
                                     /\ instances'[j].token = instances[j].token
  BY <1>1, <1>2, InstanceChanged DEF IInv
<1>4. Receiving' \subseteq Receiving
  BY <1>3 DEF Receiving
<1>5. row' \in Row /\ tokens' \in Nat /\ stage' \in {"up", "signalled", "down", "closing", "closed"}
  BY <1>1 DEF IInv, TypeOK
<1>6. TypeOK' /\ (TwoBusy' => overlapped') /\ (~overlapped' => ~overlapped /\ OneRequest)
  BY <1>1, <1>3, <1>5, Bystanders
<1>7. AllAnswered' /\ QuietAfterClose'
  BY <1>1, <1>4 DEF IInv, AllAnswered, QuietAfterClose, Busy
<1>8. ASSUME OneRequest PROVE OneRequest'
  <2>1. WrittenBack' <=> WrittenBack
    BY <1>1, <1>3 DEF WrittenBack, CopiedFrom
  <2>2. installed # 0 => installed \in DOMAIN instances
    BY DEF IInv, TypeOK
  <2>3. Current => Current'
    BY <1>1, <1>3, <2>1, <2>2 DEF Current, Agrees
  <2> QED
    BY <1>1, <1>3, <1>4, <1>8, <2>1, <2>3 DEF OneRequest, Reloading, Fetched
<1> QED
  BY <1>6, <1>7, <1>8 DEF IInv

LEMMA RefreshTokenIInv ==
  ASSUME IInv, NEW i, RefreshToken(i), Remembers
  PROVE  IInv'
<1> DEFINE new == [instances[i] EXCEPT !.token = tokens', !.unsaved = TRUE]
<1>1. /\ UNCHANGED <<shared, row, edits, installed, receiver, reqVars, stage, failed>>
      /\ i \in Receiving \union ({installed} \ {0}) /\ tokens' = tokens + 1
      /\ instances' = [instances EXCEPT ![i] = new]
  BY DEF RefreshToken
<1>2. i \in DOMAIN instances /\ i # 0 /\ tokens' \in Nat
  BY <1>1 DEF IInv, TypeOK, Receiving
<1>3. /\ new \in Instance /\ new.receiving = instances[i].receiving
      /\ new.closed = instances[i].closed /\ new.edit = instances[i].edit
      /\ new.key = instances[i].key /\ new.channel = instances[i].channel
  BY <1>2, InstanceTypes DEF IInv, Instance
<1> HIDE DEF new
<1>4. /\ instances' \in Seq(Instance) /\ DOMAIN instances' = DOMAIN instances
      /\ Len(instances') = Len(instances)
      /\ \A j \in DOMAIN instances : /\ instances'[j].receiving = instances[j].receiving
                                     /\ instances'[j].closed = instances[j].closed
                                     /\ instances'[j].edit = instances[j].edit
                                     /\ instances'[j].key = instances[j].key
                                     /\ instances'[j].channel = instances[j].channel
                                     /\ j # i => instances'[j].token = instances[j].token
  BY <1>1, <1>2, <1>3, InstanceChanged DEF IInv
<1>5. Receiving' = Receiving
  BY <1>4 DEF Receiving
<1>6. row' \in Row /\ stage' \in {"up", "signalled", "down", "closing", "closed"}
  BY <1>1 DEF IInv, TypeOK
<1>7. TypeOK' /\ (TwoBusy' => overlapped') /\ (~overlapped' => ~overlapped /\ OneRequest)
  BY <1>1, <1>2, <1>4, <1>6, Bystanders
<1>8. AllAnswered' /\ QuietAfterClose'
  BY <1>1, <1>5 DEF IInv, AllAnswered, QuietAfterClose, Busy
<1>9. ASSUME OneRequest PROVE OneRequest'
  <2>1. i = installed /\ WrittenBack => WrittenBack'
    BY <1>1, <1>4 DEF WrittenBack, CopiedFrom
  <2>2. \A q \in Requests : pc[q] # "install"
    BY <1>1, <1>9 DEF OneRequest
  <2>3. (\A q \in Requests : ~Reloading(q)) => i = installed
    <3>1. (\A q \in Requests : ~Reloading(q)) => \A j \in Receiving : j = receiver
      BY <1>9 DEF OneRequest, Reloading, Fetched
    <3> QED
      BY <1>1, <1>2, <1>9, <3>1 DEF OneRequest
  <2>4. installed # 0 => installed \in DOMAIN instances
    BY DEF IInv, TypeOK
  <2>5. i = installed /\ Current => Current'
    BY <1>1, <1>4, <2>1, <2>4 DEF Current, Agrees
  <2> QED
    BY <1>1, <1>4, <1>5, <1>9, <2>2, <2>3, <2>5 DEF OneRequest, Reloading, Fetched
<1> QED
  BY <1>7, <1>8, <1>9 DEF IInv

LEMMA PersistIInv ==
  ASSUME IInv, NEW i, Persist(i), Remembers
  PROVE  IInv'
<1> DEFINE new == [instances[i] EXCEPT !.unsaved = FALSE]
<1>1. /\ UNCHANGED <<shared, edits, tokens, installed, receiver, reqVars, stage, failed>>
      /\ i \in DOMAIN instances /\ instances' = [instances EXCEPT ![i] = new]
      /\ row' = row \/ row' = WithConfig(instances[i].edit, instances[i].key, instances[i].token)
  BY DEF Persist
<1>2. /\ new \in Instance /\ new.receiving = instances[i].receiving
      /\ new.closed = instances[i].closed /\ new.edit = instances[i].edit
      /\ new.token = instances[i].token
      /\ new.key = instances[i].key /\ new.channel = instances[i].channel
  BY <1>1, InstanceTypes DEF IInv, Instance
<1> HIDE DEF new
<1>3. /\ instances' \in Seq(Instance) /\ DOMAIN instances' = DOMAIN instances
      /\ Len(instances') = Len(instances)
      /\ \A j \in DOMAIN instances : /\ instances'[j].receiving = instances[j].receiving
                                     /\ instances'[j].closed = instances[j].closed
                                     /\ instances'[j].edit = instances[j].edit
                                     /\ instances'[j].key = instances[j].key
                                     /\ instances'[j].channel = instances[j].channel
                                     /\ instances'[j].token = instances[j].token
  BY <1>1, <1>2, InstanceChanged DEF IInv
<1>4. Receiving' = Receiving
  BY <1>3 DEF Receiving
<1>5. /\ row' \in Row /\ row'.state = row.state /\ row'.enabled = row.enabled
      /\ row'.secret = row.secret /\ row'.version = row.version /\ row'.channel = row.channel
      /\ row' = row \/ (/\ row'.edit = instances[i].edit /\ row'.token = instances[i].token
                        /\ row'.key = Marshalled(instances[i].key))
  <2>1. /\ row \in Row /\ instances[i].edit \in Nat /\ instances[i].token \in Nat
        /\ instances[i].key \in Keys
    BY <1>1, InstanceTypes DEF IInv, TypeOK
  <2>2. row' \in Row
    BY <1>1, <2>1, WithConfigType
  <2> QED
    BY <1>1, <2>1, <2>2 DEF WithConfig, Row
<1>6. tokens' \in Nat /\ stage' \in {"up", "signalled", "down", "closing", "closed"}
  BY <1>1 DEF IInv, TypeOK
<1>7. TypeOK' /\ (TwoBusy' => overlapped') /\ (~overlapped' => ~overlapped /\ OneRequest)
  BY <1>1, <1>3, <1>5, <1>6, Bystanders
<1>8. AllAnswered' /\ QuietAfterClose'
  BY <1>1, <1>4 DEF IInv, AllAnswered, QuietAfterClose, Busy
<1>9. ASSUME OneRequest PROVE OneRequest'
  <2>1. i = installed \/ instances[i].closed
    BY <1>1, <1>9 DEF OneRequest
  <2>2. row' # row /\ i # installed => WrittenBack'
    BY <1>1, <1>3, <1>5, <2>1 DEF WrittenBack, CopiedFrom
  <2>3. row' = row => (WrittenBack' <=> WrittenBack)
    BY <1>1, <1>3 DEF WrittenBack, CopiedFrom
  <2>4. installed # 0 => installed \in DOMAIN instances
    BY DEF IInv, TypeOK
  <2>5. Current => Current'
    BY <1>1, <1>3, <1>5, <2>2, <2>3, <2>4 DEF Current, Agrees
  <2>6. \A r \in Requests : pc'[r] = "install" =>
          /\ row'.state = "live" /\ row'.enabled
          /\ record'[r].channel = row'.channel
          /\ Fetched(r)' \/ WrittenBack'
    <3> SUFFICES ASSUME NEW r \in Requests, pc[r] = "install"
                 PROVE  /\ row'.state = "live" /\ row'.enabled
                        /\ record[r].channel = row'.channel
                        /\ Fetched(r)' \/ WrittenBack'
      BY <1>1
    <3>1. /\ installed = 0 /\ row.state = "live" /\ row.enabled
          /\ record[r].channel = row.channel /\ (Fetched(r) \/ WrittenBack)
      BY <1>9 DEF OneRequest
    <3>2. i # 0
      BY <1>1 DEF IInv, TypeOK
    <3> QED
      BY <1>1, <1>5, <2>2, <2>3, <3>1, <3>2 DEF Fetched
  <2> QED
    BY <1>1, <1>3, <1>4, <1>5, <1>9, <2>5, <2>6 DEF OneRequest, Reloading, Fetched
<1> QED
  BY <1>7, <1>8, <1>9 DEF IInv

-----------------------------------------------------------------------------
(* The end of the program *)

LEMMA CloseAllIInv ==
  ASSUME IInv, CloseAll, Remembers
  PROVE  IInv'
<1>1. /\ UNCHANGED <<shared, row, edits, tokens, installed, receiver, reqVars, failed>>
      /\ stage = "down" /\ stage' = "closing"
      /\ instances' = [j \in DOMAIN instances |->
           [instances[j] EXCEPT !.cancelled = @ \/ j = receiver, !.closed = @ \/ j = installed]]
  BY DEF CloseAll
<1>2. \A j \in DOMAIN instances :
        /\ instances'[j] \in Instance
        /\ instances'[j].receiving = instances[j].receiving
        /\ instances[j].closed => instances'[j].closed
        /\ UNCHANGED <<instances[j].edit, instances[j].key, instances[j].channel, instances[j].token>>
  <2> SUFFICES ASSUME NEW j \in DOMAIN instances
               PROVE  /\ instances'[j] \in Instance
                      /\ instances'[j].receiving = instances[j].receiving
                      /\ instances[j].closed => instances'[j].closed
                      /\ UNCHANGED <<instances[j].edit, instances[j].key, instances[j].channel,
                                     instances[j].token>>
    OBVIOUS
  <2>1. instances'[j] = [instances[j] EXCEPT !.cancelled = instances[j].cancelled \/ j = receiver,
                                             !.closed = instances[j].closed \/ j = installed]
    BY <1>1
  <2>2. instances[j] \in Instance
    BY InstanceTypes DEF IInv
  <2> QED
    BY <2>1, <2>2 DEF Instance
<1>3. instances' \in Seq(Instance) /\ DOMAIN instances' = DOMAIN instances /\ Len(instances') = Len(instances)
  <2>1. DOMAIN instances = 1..Len(instances) /\ Len(instances) \in Nat
    BY DEF IInv, TypeOK
  <2>2. instances' \in [1..Len(instances) -> Instance]
    BY <1>1, <1>2, <2>1
  <2> QED
    BY <2>1, <2>2
<1>4. Receiving' = Receiving
  BY <1>2, <1>3 DEF Receiving
<1>5. row' \in Row /\ tokens' \in Nat /\ stage' \in {"up", "signalled", "down", "closing", "closed"}
  BY <1>1 DEF IInv, TypeOK
<1>6. TypeOK' /\ (TwoBusy' => overlapped') /\ (~overlapped' => ~overlapped /\ OneRequest)
  BY <1>1, <1>3, <1>5, Bystanders
<1>7. AllAnswered' /\ QuietAfterClose'
  BY <1>1 DEF IInv, AllAnswered, QuietAfterClose, Busy
<1>8. ASSUME OneRequest PROVE OneRequest'
  <2>a. /\ UNCHANGED <<row, installed, receiver, pc, op, record, failed>>
        /\ \A j \in DOMAIN instances' : j \in DOMAIN instances
        /\ \A j \in DOMAIN instances : j \in DOMAIN instances'
    BY <1>1, <1>3
  <2>1. WrittenBack => WrittenBack'
    <3> HAVE WrittenBack
    <3>0. PICK j \in DOMAIN instances : instances[j].closed /\ j # installed /\ CopiedFrom(instances[j])
      BY DEF WrittenBack
    <3>1. instances'[j].closed /\ CopiedFrom(instances[j])'
      BY <1>2, <2>a, <3>0 DEF CopiedFrom
    <3> QED
      BY <2>a, <3>0, <3>1 DEF WrittenBack, CopiedFrom
  <2>2. installed # 0 => installed \in DOMAIN instances
    BY DEF IInv, TypeOK
  <2>3. Current => Current'
    <3>1. installed # 0 => /\ instances'[installed].channel = instances[installed].channel
                           /\ instances'[installed].edit = instances[installed].edit
                           /\ instances'[installed].key = instances[installed].key
      BY <1>2, <2>2
    <3> QED
      BY <2>a, <2>1, <3>1 DEF Current, Agrees
  <2>4. \A i \in DOMAIN instances' : i = installed' \/ instances'[i].closed
    BY <1>2, <1>8, <2>a DEF OneRequest
  <2>5. UNCHANGED <<waited, pc>>
    BY <1>1
  <2> QED
    BY <1>4, <1>8, <2>a, <2>1, <2>3, <2>4, <2>5 DEF OneRequest, Reloading, Fetched
<1> QED
  BY <1>6, <1>7, <1>8 DEF IInv

LEMMA StageIInv ==
  ASSUME IInv, Signal \/ ServerDown \/ Closed, Remembers
  PROVE  IInv'
<1>1. /\ UNCHANGED <<shared, row, edits, tokens, manVars, reqVars, failed>>
      /\ stage' \in {"up", "signalled", "down", "closing", "closed"}
      /\ stage' = "closed" => Receiving = {}
      /\ stage' \in {"down", "closing", "closed"} => \A r \in Requests : ~Busy(r)
  BY DEF Signal, ServerDown, Closed, IInv, AllAnswered
<1>2. row' \in Row /\ tokens' \in Nat /\ instances' \in Seq(Instance)
  BY <1>1 DEF IInv, TypeOK
<1>3. TypeOK' /\ (TwoBusy' => overlapped') /\ (~overlapped' => ~overlapped /\ OneRequest)
  BY <1>1, <1>2, Bystanders
<1>4. Receiving' = Receiving /\ \A r \in Requests : Busy(r)' <=> Busy(r)
  BY <1>1 DEF Receiving, Busy
<1>5. AllAnswered' /\ QuietAfterClose'
  BY <1>1, <1>4 DEF AllAnswered, QuietAfterClose
<1>6. ASSUME OneRequest PROVE OneRequest'
  BY <1>1, <1>4, <1>6 DEF OneRequest, Current, WrittenBack, Reloading, Agrees, CopiedFrom, Fetched
<1> QED
  BY <1>3, <1>5, <1>6 DEF IInv

LEMMA StutterIInv == ASSUME IInv, UNCHANGED vars PROVE IInv'
BY DEF vars, IInv, TypeOK, TwoBusy, Busy, AllAnswered, QuietAfterClose, Receiving, OneRequest,
       Current, WrittenBack, Reloading, Agrees, CopiedFrom, Fetched

LEMMA NextIInv == ASSUME IInv, [Next]_vars PROVE IInv'
<1>1. CASE UNCHANGED vars
  BY <1>1, StutterIInv
<1>2. CASE Next
  <2>1. Act /\ Remembers
    BY <1>2 DEF Next, Remembers
  <2>2. ASSUME NEW r \in Requests, Begin(r) PROVE IInv'
    BY <2>1, <2>2, BeginIInv
  <2>3. ASSUME NEW r \in Requests, Step(r) PROVE IInv'
    <3>1. CASE Read(r) \/ Fail(r) \/ ReloadFails(r)
      BY <2>1, <3>1, PassIInv
    <3>2. CASE Write(r)
      BY <2>1, <3>2, WriteIInv
    <3>3. CASE Stop(r)
      BY <2>1, <3>3, StopIInv
    <3>4. CASE Wait(r)
      BY <2>1, <3>4, WaitIInv
    <3>5. CASE CloseOld(r)
      BY <2>1, <3>5, CloseOldIInv
    <3>6. CASE Fetch(r)
      BY <2>1, <3>6, FetchIInv
    <3>7. CASE Install(r)
      BY <2>1, <3>7, InstallIInv
    <3> QED
      BY <2>3, <3>1, <3>2, <3>3, <3>4, <3>5, <3>6, <3>7 DEF Step
  <2>4. ASSUME NEW i \in DOMAIN instances, Exit(i) \/ RefreshToken(i) \/ Persist(i) PROVE IInv'
    BY <2>1, <2>4, ExitIInv, RefreshTokenIInv, PersistIInv
  <2>5. CASE Signal \/ ServerDown \/ Closed
    BY <2>1, <2>5, StageIInv
  <2>6. CASE CloseAll
    BY <2>1, <2>6, CloseAllIInv
  <2> QED
    BY <2>1, <2>2, <2>3, <2>4, <2>5, <2>6 DEF Act
<1> QED
  BY <1>1, <1>2

-----------------------------------------------------------------------------
(* The inductive invariant: the types, what overlapping requests leave     *)
(* true, and what holds while they do not overlap.                         *)
THEOREM Invariance == Spec => []IInv
<1>1. Init => IInv
  BY InitIInv
<1>2. IInv /\ [Next]_vars => IInv'
  BY NextIInv
<1> QED
  BY <1>1, <1>2, PTL DEF Spec

(* The variables have their types, for any requests. *)
THEOREM TypeCorrect == Spec => []TypeOK
<1>1. IInv => TypeOK
  BY DEF IInv
<1> QED
  BY <1>1, Invariance, PTL

(* As long as requests never overlapped, every running receiver is the one *)
(* the manager knows or the one a reload waits for (inbox.go stopInbox,    *)
(* ReloadInbox).                                                           *)
THEOREM ReceiversKnown == Spec => []OneReceiver
<1>1. IInv => OneReceiver
  BY DEF IInv, OneRequest, OneReceiver
<1> QED
  BY <1>1, Invariance, PTL

(* As long as requests never overlapped, what is installed agrees with the *)
(* row, but for the copy of a closed instance (inbox.go ReloadInbox,       *)
(* UpdateConfig).                                                          *)
THEOREM InstalledAgrees == Spec => []InstalledIsCurrent
<1>1. ASSUME IInv, ~overlapped, ~failed, \A r \in Requests : ~Busy(r)
      PROVE  Current
  BY <1>1 DEF IInv, OneRequest, Reloading, Busy
<1>2. IInv => InstalledIsCurrent
  BY <1>1 DEF InstalledIsCurrent, Current, WrittenBack
<1> QED
  BY <1>2, Invariance, PTL

(* After Close no receiver runs, whatever overlapping reloads left         *)
(* (inbox.go Close).                                                       *)
THEOREM NothingReceivesAfterClose == Spec => []QuietAfterClose
<1>1. IInv => QuietAfterClose
  BY DEF IInv
<1> QED
  BY <1>1, Invariance, PTL

-----------------------------------------------------------------------------
(* The session boundary *)

Revokes ==
  (/\ ~overlapped' /\ row.state = "live"
   /\ \/ row.channel # row'.channel
      \/ /\ row.channel = "livechat"
         /\ row.enabled # row'.enabled \/ row.secret # row'.secret \/ row'.state = "deleted")
    => row'.version > row.version

LEMMA StepRevokes == ASSUME IInv, [Next]_vars PROVE Revokes
<1>0. SUFFICES ASSUME Act, Remembers, ~overlapped', row.state = "live",
                      \/ row.channel # row'.channel
                      \/ /\ row.channel = "livechat"
                         /\ row.enabled # row'.enabled \/ row.secret # row'.secret \/ row'.state = "deleted"
               PROVE  row'.version > row.version
  <2>1. UNCHANGED row => Revokes
    BY DEF Revokes
  <2> QED
    BY <2>1 DEF Revokes, Next, Remembers, vars
<1>1. row' # row /\ row \in Row /\ row.version \in Nat
  BY <1>0, RowTypes DEF IInv, TypeOK
<1>2. ASSUME NEW r \in Requests, Write(r) PROVE row'.version > row.version
  <2>1. row.channel = row'.channel => row.channel = "livechat" /\ Revoked = row.version + 1
    BY <1>0 DEF Revoked
  <2>2. CASE Create(r)
    BY <1>0, <2>2 DEF Create
  <2>3. CASE Update(r)
    <3> DEFINE token == IF record[r].channel = "email" THEN record[r].token ELSE 0
               rotated(f) == record[r].channel = "livechat" /\ f.rotated
               version(f) == NextVersion(record[r], f.channel, f.enabled, rotated(f))
    <3>1. PICK f \in Forms :
            row' = [row EXCEPT !.channel = f.channel, !.enabled = f.enabled, !.edit = edits',
                      !.key = KeyOf(f), !.token = token,
                      !.secret = record[r].secret + (IF rotated(f) THEN 1 ELSE 0),
                      !.version = version(f)]
      BY <2>3 DEF Update
    <3>2. /\ record[r].enabled = row.enabled /\ record[r].secret = row.secret
          /\ record[r].version = row.version /\ record[r].channel = row.channel
      <4>1. OneRequest
        BY <1>0, <1>2, Alone
      <4> QED
        BY <1>2, <2>3, <4>1 DEF OneRequest, Write, Update
    <3> HIDE DEF token
    <3>3. /\ row'.channel = f.channel /\ row'.enabled = f.enabled /\ row'.state = row.state
          /\ row'.secret = row.secret + (IF rotated(f) THEN 1 ELSE 0)
          /\ row'.version = version(f)
      BY <1>1, <3>1, <3>2 DEF Row
    <3>4. row.secret \in Nat
      BY <1>1, RowTypes
    <3>5. \/ f.channel # record[r].channel
          \/ record[r].channel = "livechat" /\ (rotated(f) \/ f.enabled # record[r].enabled)
      BY <1>0, <3>2, <3>3, <3>4
    <3> QED
      BY <1>1, <3>2, <3>3, <3>5 DEF NextVersion
  <2>4. CASE Toggle(r)
    <3>1. row'.channel = row.channel /\ row'.version = Revoked
      BY <1>1, <2>4 DEF Toggle, Row
    <3> QED
      BY <1>1, <2>1, <3>1
  <2>5. CASE SoftDelete(r)
    <3>1. row'.channel = row.channel /\ row'.version = Revoked
      BY <1>0, <1>1, <2>5 DEF SoftDelete, Row
    <3> QED
      BY <1>1, <2>1, <3>1
  <2>6. CASE Reconnect(r)
    BY <1>0, <1>1, <2>6 DEF Reconnect, WithConfig, Row
  <2> QED
    BY <1>2, <2>2, <2>3, <2>4, <2>5, <2>6 DEF Write
<1>3. ASSUME NEW i \in DOMAIN instances, Persist(i) PROVE row'.version > row.version
  <2>1. row' = row \/ row' = WithConfig(instances[i].edit, instances[i].key, instances[i].token)
    BY <1>3 DEF Persist
  <2> QED
    BY <1>0, <1>1, <2>1 DEF WithConfig, Row
<1>4. ASSUME NEW r \in Requests, Begin(r) \/ Step(r) PROVE row'.version > row.version
  BY <1>1, <1>2, <1>4 DEF Begin, Step, Read, Fail, Stop, Wait, CloseOld, Fetch, ReloadFails, Install
<1>5. ASSUME NEW i \in DOMAIN instances, Exit(i) \/ RefreshToken(i) PROVE FALSE
  BY <1>1, <1>5 DEF Exit, RefreshToken
<1>6. CASE Signal \/ ServerDown \/ CloseAll \/ Closed
  BY <1>1, <1>6 DEF Signal, ServerDown, CloseAll, Closed
<1> QED
  BY <1>0, <1>3, <1>4, <1>5, <1>6 DEF Act

(* As long as requests never overlapped, whatever turns a live chat inbox  *)
(* on or off, rotates its secret, deletes it or changes its channel, and   *)
(* what makes an e-mail inbox a live chat one, raises the session version  *)
(* (inbox.go Update; queries.sql toggle-inbox, soft-delete-inbox).         *)
THEOREM BoundariesRevoke == Spec => BoundaryRevokes
<1>1. IInv /\ [Next]_vars => Revokes
  BY StepRevokes
<1>2. Spec => [][Revokes]_vars
  BY <1>1, Invariance, PTL DEF Spec
<1> QED
  BY <1>2, PTL DEF BoundaryRevokes, Revokes
=============================================================================
