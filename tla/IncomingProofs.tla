----------------------------- MODULE IncomingProofs -----------------------------
(***************************************************************************)
(* Proofs about Incoming, for any mailboxes, workers, mails, windows and   *)
(* troubles: a window stays within its mailbox, a mail is stored at most   *)
(* once per worker, nothing stored is lost to a clean-up, and a            *)
(* conversation without a message has an explanation.                      *)
(***************************************************************************)
EXTENDS Incoming, FiniteSetTheorems, FunctionTheorems, SequenceTheorems, TLAPS

(* A mail lies in a mailbox once. *)
Distinct == \A r \in Readers : \A i, j \in DOMAIN mailbox[r] : mailbox[r][i] = mailbox[r][j] => i = j

RowsOK == /\ IsFiniteSet(messages) /\ IsFiniteSet(conversations)
          /\ \A row \in messages : row.conv \in conversations

(* What a worker holds: a conversation it created for its mail is nobody   *)
(* else's and has no message yet, one it found has one.                    *)
Position(w) ==
  /\ worker[w].at # "idle" => worker[w].mail \in Mails
  /\ worker[w].at \in {"idle", "check", "thread", "create"} => worker[w].conv = 0 /\ ~worker[w].new
  /\ worker[w].at = "rollback" => worker[w].new
  /\ worker[w].at \in {"insert", "rollback"} /\ worker[w].new =>
       /\ worker[w].conv \in conversations
       /\ \A row \in messages : row.conv # worker[w].conv
       /\ \A v \in Workers : v # w => worker[v].conv # worker[w].conv
  /\ worker[w].at = "insert" /\ ~worker[w].new => \E row \in messages : row.conv = worker[w].conv

Positions == \A w \in Workers : Position(w)

IInv == TypeOK /\ Distinct /\ RowsOK /\ Positions /\ CopiesBounded /\ EmptyExplained

USE DEF dbVars, Set

-----------------------------------------------------------------------------
(* boundedIMAPSearchWindow never leaves the mailbox, and the cursor it     *)
(* gives points below the newest mails.                                    *)
THEOREM WindowWithinMailbox ==
  ASSUME NEW num \in Nat \ {0}, NEW cursor \in Nat
  PROVE  /\ Window(num, cursor).set \subseteq 1..num
         /\ Window(num, cursor).next \in 0..(num - 1)
<1> DEFINE limit == Smaller(Limit, num)
           head == Smaller(HeadLimit, limit)
           start == num - head + 1
           room == limit - head
           top == IF cursor = 0 \/ cursor > start - 1 THEN start - 1 ELSE cursor
           low == IF top >= room THEN top - room + 1 ELSE 1
<1>1. limit \in 1..num /\ head \in 1..limit
  BY BoundsAssumption DEF Smaller
<1> HIDE DEF limit, head
<1>2. start \in 1..num /\ room \in Nat
  BY <1>1
<1>3. Window(num, cursor) = IF room > 0 /\ start > 1
        THEN [set |-> (start..num) \union (low..top), next |-> IF low > 1 THEN low - 1 ELSE start - 1]
        ELSE [set |-> start..num, next |-> 0]
  BY DEF Window, limit, head
<1>4. CASE room > 0 /\ start > 1
  <2>1. top \in 1..(start - 1)
    BY <1>2, <1>4
  <2>2. low \in 1..top
    BY <1>2, <1>4, <2>1
  <2> HIDE DEF start, room, top, low
  <2>3. (start..num) \union (low..top) \subseteq 1..num
    BY <1>2, <2>1, <2>2
  <2>4. (IF low > 1 THEN low - 1 ELSE start - 1) \in 0..(num - 1)
    BY <1>2, <2>1, <2>2
  <2> QED
    BY <1>3, <1>4, <2>3, <2>4
<1>5. CASE ~(room > 0 /\ start > 1)
  BY <1>2, <1>3, <1>5
<1> QED
  BY <1>4, <1>5

-----------------------------------------------------------------------------
(* Types *)

LEMMA MailboxFits ==
  ASSUME TypeOK, Distinct, NEW r \in Readers
  PROVE  /\ Len(mailbox[r]) \in Nat /\ Cardinality(Mails) \in Nat
         /\ Len(mailbox[r]) <= Cardinality(Mails)
<1>1. mailbox[r] \in Seq(Mails)
  BY DEF TypeOK
<1>2. mailbox[r] \in Injection(1..Len(mailbox[r]), Mails)
  BY <1>1, Fun_IsInj DEF Distinct
<1>3. Cardinality(1..Len(mailbox[r])) <= Cardinality(Mails)
  BY <1>2, FS_Injection, MailsAssumption
<1>4. Len(mailbox[r]) \in Nat
  BY <1>1
<1>5. Cardinality(1..Len(mailbox[r])) = Len(mailbox[r])
  BY <1>4, FS_Interval
<1> QED
  BY <1>3, <1>4, <1>5, FS_CardinalityType, MailsAssumption

LEMMA RestType == ASSUME NEW c \in Nat PROVE Rest(c) \in Reader
<1> 0 \in 0..PollBudget
  BY BoundsAssumption
<1>1. << >> \in Pages
  <2>1. << >> \in [{} -> Mails]
    OBVIOUS
  <2>2. {} \in SUBSET (1..Cardinality(Mails))
    OBVIOUS
  <2> QED
    BY <2>1, <2>2 DEF Pages
<1> QED
  BY <1>1 DEF Rest, Reader

LEMMA PageTypes ==
  ASSUME NEW p \in Pages
  PROVE  /\ DOMAIN p \subseteq 1..Cardinality(Mails)
         /\ \A n \in DOMAIN p : p[n] \in Mails /\ n \in Nat
         /\ \A S \in SUBSET DOMAIN p : [i \in S |-> p[i]] \in Pages
<1>1. PICK numbers \in SUBSET (1..Cardinality(Mails)) : p \in [numbers -> Mails]
  BY DEF Pages
<1>2. Cardinality(Mails) \in Nat
  BY FS_CardinalityType, MailsAssumption
<1>3. ASSUME NEW S \in SUBSET DOMAIN p PROVE [i \in S |-> p[i]] \in Pages
  <2>1. [i \in S |-> p[i]] \in [S -> Mails] /\ S \in SUBSET (1..Cardinality(Mails))
    BY <1>1
  <2> QED
    BY <2>1 DEF Pages
<1> QED
  BY <1>1, <1>2, <1>3

LEMMA PassOverType ==
  ASSUME TypeOK, NEW r \in Readers, NEW n \in DOMAIN reader[r].page,
         NEW left \in 0..PollBudget, PassOver(r, n, left)
  PROVE  reader' \in [Readers -> Reader]
<1>1. reader[r] \in Reader /\ reader \in [Readers -> Reader]
  BY DEF TypeOK
<1>2. reader[r].page \in Pages /\ reader[r].cursor \in Nat
  BY <1>1 DEF Reader
<1>3. Rest(reader[r].cursor) \in Reader
  BY <1>2, RestType
<1> DEFINE p == [i \in After(r, n) |-> reader[r].page[i]]
           next == [reader[r] EXCEPT !.at = "check", !.left = left, !.page = p]
<1>4. p \in Pages
  BY <1>2, PageTypes DEF After
<1> HIDE DEF p
<1>5. next \in Reader
  BY <1>1, <1>4 DEF Reader
<1>6. reader' = [reader EXCEPT ![r] = IF After(r, n) = {} THEN Rest(reader[r].cursor) ELSE next]
  BY <1>1 DEF PassOver, GoOn, p
<1> HIDE DEF next
<1> QED
  BY <1>1, <1>3, <1>5, <1>6

LEMMA PollType ==
  ASSUME TypeOK, Distinct, NEW r \in Readers, Poll(r)
  PROVE  reader' \in [Readers -> Reader]
<1>1. mailbox[r] \in Seq(Mails) /\ mailbox[r] # << >> /\ reader[r] \in Reader
  BY DEF TypeOK, Poll
<1> DEFINE num == Len(mailbox[r])
           w == Window(num, reader[r].cursor)
           page == {i \in w.set : mailbox[r][i] \notin Ignored \union aged[r]}
           p == [i \in page |-> mailbox[r][i]]
           next == [at |-> "check", page |-> p, cursor |-> w.next, left |-> PollBudget]
<1>2. num \in Nat \ {0} /\ reader[r].cursor \in Nat
  BY <1>1 DEF Reader
<1>3. w.set \subseteq 1..num /\ w.next \in 0..(num - 1)
  BY <1>2, WindowWithinMailbox
<1>4. num <= Cardinality(Mails) /\ Cardinality(Mails) \in Nat
  BY MailboxFits
<1>5. p \in Pages
  <2> HIDE DEF w
  <2>1. page \in SUBSET (1..Cardinality(Mails))
    BY <1>2, <1>3, <1>4
  <2>2. p \in [page -> Mails]
    BY <1>1, <1>3
  <2> QED
    BY <2>1, <2>2 DEF Pages
<1>6. reader' = [reader EXCEPT ![r] = IF page = {} THEN Rest(w.next) ELSE next]
  BY DEF Poll, TypeOK
<1> HIDE DEF w, page, p
<1>7. w.next \in Nat
  BY <1>2, <1>3
<1>8. next \in Reader
  <2>1. PollBudget \in 0..PollBudget
    BY BoundsAssumption
  <2> QED
    BY <1>5, <1>7, <2>1 DEF Reader
<1>9. Rest(w.next) \in Reader
  BY <1>7, RestType
<1> HIDE DEF next
<1> QED
  BY <1>6, <1>8, <1>9 DEF TypeOK

LEMMA ReaderType ==
  ASSUME IInv, NEW r \in Readers,
         \/ Poll(r) \/ PollFails(r) \/ Reload(r)
         \/ \E n \in DOMAIN reader[r].page :
              \/ Check(r, n) \/ Exhausted(r, n) \/ OverIngress(r, n)
              \/ FetchBody(r, n) \/ MailFails(r, n) \/ BodyFails(r, n)
  PROVE  reader' \in [Readers -> Reader] /\ spent' \in [Readers -> 0..Ingress]
<1>1. /\ TypeOK /\ Distinct /\ reader \in [Readers -> Reader] /\ reader[r] \in Reader
      /\ spent \in [Readers -> 0..Ingress] /\ reader[r].left \in 0..PollBudget
  BY DEF IInv, TypeOK, Reader
<1>2. CASE Poll(r)
  BY <1>1, <1>2, PollType DEF Poll
<1>3. CASE PollFails(r)
  BY <1>1, <1>3 DEF PollFails
<1>4. CASE Reload(r)
  <2>1. Rest(0) \in Reader /\ 0 \in 0..Ingress
    BY RestType, BoundsAssumption
  <2> QED
    BY <1>1, <1>4, <2>1 DEF Reload
<1>5. ASSUME NEW n \in DOMAIN reader[r].page, Check(r, n) \/ MailFails(r, n) \/ OverIngress(r, n)
      PROVE  reader' \in [Readers -> Reader] /\ UNCHANGED spent
  <2>1. CASE PassOver(r, n, reader[r].left)
    BY <1>1, <1>5, <2>1, PassOverType DEF Check, MailFails, OverIngress
  <2>2. CASE reader' = [reader EXCEPT ![r].at = "enqueue"]
    <3>1. [reader[r] EXCEPT !.at = "enqueue"] \in Reader
      BY <1>1 DEF Reader
    <3>2. reader' = [reader EXCEPT ![r] = [reader[r] EXCEPT !.at = "enqueue"]]
      BY <1>1, <2>2
    <3> QED
      BY <1>1, <1>5, <3>1, <3>2 DEF Check, MailFails, OverIngress
  <2> QED
    BY <1>5, <2>1, <2>2 DEF Check, MailFails, OverIngress
<1>6. ASSUME NEW n \in DOMAIN reader[r].page, Exhausted(r, n)
      PROVE  reader' \in [Readers -> Reader] /\ UNCHANGED spent
  <2>1. Rest(n) \in Reader
    BY <1>1, PageTypes, RestType DEF Reader
  <2> QED
    BY <1>1, <1>6, <2>1 DEF Exhausted
<1>7. ASSUME NEW n \in DOMAIN reader[r].page, Charge(r, n)
      PROVE  reader' \in [Readers -> Reader] /\ spent' \in [Readers -> 0..Ingress]
  <2>1. reader[r].left - 1 \in 0..PollBudget /\ PassOver(r, n, reader[r].left - 1)
    BY <1>1, <1>7, BoundsAssumption DEF Charge
  <2>2. spent[r] + 1 \in 0..Ingress /\ spent' = [spent EXCEPT ![r] = spent[r] + 1]
    BY <1>1, <1>7, BoundsAssumption DEF Charge
  <2> QED
    BY <1>1, <2>1, <2>2, PassOverType
<1> QED
  BY <1>1, <1>2, <1>3, <1>4, <1>5, <1>6, <1>7 DEF FetchBody, BodyFails

(* What a reader queues is a mail, and the queue keeps its bound. *)
LEMMA QueueType ==
  ASSUME IInv, NEW r \in Readers, NEW n \in DOMAIN reader[r].page, FetchBody(r, n)
  PROVE  queue' \in Seq(Mails) /\ Len(queue') <= QueueCap
<1>1. queue \in Seq(Mails) /\ Len(queue) <= QueueCap /\ QueueCap \in Nat
  BY BoundsAssumption DEF IInv, TypeOK
<1>2. reader[r].page[n] \in Mails
  BY PageTypes DEF IInv, TypeOK, Reader
<1> DEFINE m == reader[r].page[n]
<1>3. UNCHANGED queue \/ (Len(queue) < QueueCap /\ queue' = Append(queue, m))
  BY DEF FetchBody, EnqueueIncoming
<1> HIDE DEF m
<1> QED
  BY <1>1, <1>2, <1>3 DEF m

-----------------------------------------------------------------------------
(* Readers and mail server leave rows and workers alone. *)

LEMMA RowsKept ==
  ASSUME IInv, UNCHANGED <<worker, messages, conversations>>, abandoned \subseteq abandoned'
  PROVE  RowsOK' /\ Positions' /\ CopiesBounded' /\ EmptyExplained'
BY DEF IInv, RowsOK, Positions, Position, CopiesBounded, Copies, Past, EmptyExplained

LEMMA ReaderIInv ==
  ASSUME IInv, NEW r \in Readers,
         \/ Poll(r) \/ PollFails(r) \/ Reload(r)
         \/ \E n \in DOMAIN reader[r].page :
              \/ Check(r, n) \/ Exhausted(r, n) \/ OverIngress(r, n)
              \/ FetchBody(r, n) \/ MailFails(r, n) \/ BodyFails(r, n)
  PROVE  IInv'
<1> USE DEF Poll, PollFails, Reload, Check, Exhausted, OverIngress, FetchBody, MailFails, BodyFails
<1>1. UNCHANGED <<mailbox, aged, worker, messages, conversations, abandoned>>
  OBVIOUS
<1>2. reader' \in [Readers -> Reader] /\ spent' \in [Readers -> 0..Ingress]
  <2> USE DEF Poll
  <2> QED
    BY ReaderType
<1>3. queue' \in Seq(Mails) /\ Len(queue') <= QueueCap
  <2>1. \/ \E n \in DOMAIN reader[r].page : FetchBody(r, n)
        \/ UNCHANGED queue
    OBVIOUS
  <2> QED
    BY <2>1, QueueType DEF IInv, TypeOK
<1>4. troubles' \in 0..MaxTroubles
  <2>1. troubles \in 0..MaxTroubles /\ MaxTroubles \in Nat
    BY BoundsAssumption DEF IInv, TypeOK
  <2>2. UNCHANGED troubles \/ Strikes
    OBVIOUS
  <2> QED
    BY <2>1, <2>2 DEF Strikes
<1>5. TypeOK' /\ Distinct'
  BY <1>1, <1>2, <1>3, <1>4 DEF IInv, TypeOK, Distinct
<1> QED
  BY <1>1, <1>5, RowsKept DEF IInv

LEMMA WithoutOne ==
  ASSUME NEW S, NEW s \in Seq(S), NEW k \in 1..Len(s),
         \A i, j \in DOMAIN s : s[i] = s[j] => i = j
  PROVE  LET t == SubSeq(s, 1, k - 1) \o SubSeq(s, k + 1, Len(s))
         IN  t \in Seq(S) /\ \A i, j \in DOMAIN t : t[i] = t[j] => i = j
<1> DEFINE n == Len(s)
           a == SubSeq(s, 1, k - 1)
           b == SubSeq(s, k + 1, n)
<1>1. n \in Nat /\ k \in 1..n /\ k - 1 \in Nat /\ n - k \in Nat /\ k + 1 \in Int
      /\ \A i \in 1..n : s[i] \in S
  OBVIOUS
<1>2. a \in Seq(S) /\ Len(a) = k - 1 /\ \A i \in 1..(k - 1) : a[i] = s[i]
  <2>1. \A i \in 1..(k - 1) : s[i] \in S
    BY <1>1
  <2> HIDE DEF n
  <2> QED
    BY <1>1, <2>1, SubSeqProperties
<1>3. b \in Seq(S) /\ Len(b) = n - k /\ \A i \in 1..(n - k) : b[i] = s[k + i]
  <2>1. \A i \in (k + 1)..n : s[i] \in S
    BY <1>1
  <2> HIDE DEF n
  <2>2. b \in Seq(S) /\ Len(b) = (IF k + 1 <= n THEN n - (k + 1) + 1 ELSE 0)
        /\ \A i \in 1..(n - (k + 1) + 1) : b[i] = s[(k + 1) + i - 1]
    BY <1>1, <2>1, SubSeqProperties
  <2>3. n - (k + 1) + 1 = n - k /\ \A i \in 1..(n - k) : (k + 1) + i - 1 = k + i
    BY <1>1
  <2> HIDE DEF b
  <2>4. Len(b) = n - k
    BY <1>1, <2>2
  <2> QED
    BY <2>2, <2>3, <2>4
<1> DEFINE t == a \o b
<1> HIDE DEF a, b, n
<1>4. t \in Seq(S) /\ Len(t) = n - 1
  <2>1. a \o b \in Seq(S) /\ Len(a \o b) = Len(a) + Len(b)
    BY <1>2, <1>3, ConcatProperties
  <2>2. (k - 1) + (n - k) = n - 1
    BY <1>1
  <2> QED
    BY <1>2, <1>3, <2>1, <2>2
<1>5. \A i \in 1..(n - 1) : t[i] = s[IF i < k THEN i ELSE i + 1]
  <2>1. \A i \in 1..(k - 1) + (n - k) : t[i] = IF i <= k - 1 THEN a[i] ELSE b[i - (k - 1)]
    BY <1>2, <1>3, ConcatProperties
  <2> SUFFICES ASSUME NEW i \in 1..(n - 1) PROVE t[i] = s[IF i < k THEN i ELSE i + 1]
    OBVIOUS
  <2>2. i \in 1..(k - 1) + (n - k)
    BY <1>1
  <2>3. CASE i < k
    <3>1. i <= k - 1 /\ i \in 1..(k - 1)
      BY <1>1, <2>3
    <3> QED
      BY <1>2, <2>1, <2>2, <2>3, <3>1
  <2>4. CASE ~(i < k)
    <3>1. ~(i <= k - 1) /\ i - (k - 1) \in 1..(n - k) /\ k + (i - (k - 1)) = i + 1
      BY <1>1, <2>4
    <3> QED
      BY <1>3, <2>1, <2>2, <2>4, <3>1
  <2> QED
    BY <2>3, <2>4
<1> HIDE DEF t
<1>6. ASSUME NEW i \in 1..(n - 1), NEW j \in 1..(n - 1), t[i] = t[j]
      PROVE  i = j
  <2> DEFINE x == IF i < k THEN i ELSE i + 1
             y == IF j < k THEN j ELSE j + 1
  <2>1. x \in 1..n /\ y \in 1..n
    BY <1>1
  <2>2. s[x] = s[y]
    BY <1>5, <1>6
  <2>3. DOMAIN s = 1..n
    BY DEF n
  <2>4. x = y
    <3> HIDE DEF x, y
    <3> QED
      BY <2>1, <2>2, <2>3
  <2> QED
    BY <1>1, <2>4
<1>7. DOMAIN t = 1..(n - 1)
  BY <1>4
<1> QED
  BY <1>4, <1>6, <1>7 DEF t, a, b, n

LEMMA ServerIInv == ASSUME IInv, Server PROVE IInv'
<1>1. UNCHANGED <<spent, reader, queue, worker, messages, conversations, abandoned>>
  BY DEF Server, Deliver, Remove
<1>2. troubles' \in 0..MaxTroubles
  <2>1. troubles \in 0..MaxTroubles /\ MaxTroubles \in Nat
    BY BoundsAssumption DEF IInv, TypeOK
  <2>2. UNCHANGED troubles \/ Strikes
    BY DEF Server, Deliver, Remove
  <2> QED
    BY <2>1, <2>2 DEF Strikes
<1>3. PICK r \in Readers : \/ \E m \in Mails : Deliver(r, m)
                          \/ \E k \in DOMAIN mailbox[r] : Remove(r, k)
  BY DEF Server
<1>4. /\ mailbox[r] \in Seq(Mails) /\ mailbox \in [Readers -> Seq(Mails)]
      /\ \A i, j \in DOMAIN mailbox[r] : mailbox[r][i] = mailbox[r][j] => i = j
  BY DEF IInv, TypeOK, Distinct
<1>5. \E t \in Seq(Mails) : /\ mailbox' = [mailbox EXCEPT ![r] = t]
                            /\ \A i, j \in DOMAIN t : t[i] = t[j] => i = j
  <2>1. ASSUME NEW m \in Mails, Deliver(r, m)
        PROVE  \E t \in Seq(Mails) : /\ mailbox' = [mailbox EXCEPT ![r] = t]
                                     /\ \A i, j \in DOMAIN t : t[i] = t[j] => i = j
    <3> DEFINE t == Append(mailbox[r], m)
    <3>1. t \in Seq(Mails) /\ \A i, j \in DOMAIN t : t[i] = t[j] => i = j
      BY <1>4, <2>1 DEF Deliver, Lies
    <3>2. mailbox' = [mailbox EXCEPT ![r] = t]
      BY <2>1 DEF Deliver
    <3> QED
      BY <3>1, <3>2
  <2>2. ASSUME NEW k \in DOMAIN mailbox[r], Remove(r, k)
        PROVE  \E t \in Seq(Mails) : /\ mailbox' = [mailbox EXCEPT ![r] = t]
                                     /\ \A i, j \in DOMAIN t : t[i] = t[j] => i = j
    <3>1. k \in 1..Len(mailbox[r])
      BY <1>4
    <3>2. mailbox' = [mailbox EXCEPT ![r] = SubSeq(mailbox[r], 1, k - 1)
                                             \o SubSeq(mailbox[r], k + 1, Len(mailbox[r]))]
      BY <2>2 DEF Remove
    <3> QED
      <4> DEFINE t == SubSeq(mailbox[r], 1, k - 1) \o SubSeq(mailbox[r], k + 1, Len(mailbox[r]))
      <4>1. t \in Seq(Mails) /\ \A i, j \in DOMAIN t : t[i] = t[j] => i = j
        BY <1>4, <3>1, WithoutOne
      <4> HIDE DEF t
      <4>2. mailbox' = [mailbox EXCEPT ![r] = t]
        BY <3>2 DEF t
      <4> QED
        BY <4>1, <4>2
  <2> QED
    BY <1>3, <2>1, <2>2
<1>6. mailbox' \in [Readers -> Seq(Mails)] /\ Distinct'
  BY <1>4, <1>5 DEF IInv, Distinct
<1>7. aged' \in [Readers -> SUBSET Mails]
  <2>1. ASSUME NEW k \in DOMAIN mailbox[r] PROVE aged[r] \union {mailbox[r][k]} \in SUBSET Mails
    BY <1>4 DEF IInv, TypeOK
  <2> QED
    BY <1>3, <2>1 DEF Deliver, Remove, IInv, TypeOK
<1>8. TypeOK'
  BY <1>1, <1>2, <1>6, <1>7 DEF IInv, TypeOK
<1> QED
  BY <1>1, <1>6, <1>8, RowsKept DEF IInv

LEMMA TimeIInv == ASSUME IInv, Time PROVE IInv'
<1>1. UNCHANGED <<mailbox, reader, queue, worker, messages, conversations, abandoned, troubles>>
  BY DEF Time, Age, Expire
<1>2. aged' \in [Readers -> SUBSET Mails]
  BY DEF Time, Age, Expire, IInv, TypeOK
<1>3. spent' \in [Readers -> 0..Ingress]
  <2>1. ASSUME NEW r \in Readers, spent[r] > 0 PROVE spent[r] - 1 \in 0..Ingress
    BY <2>1, BoundsAssumption DEF IInv, TypeOK
  <2> QED
    BY <2>1 DEF Time, Age, Expire, IInv, TypeOK
<1>4. TypeOK' /\ Distinct'
  BY <1>1, <1>2, <1>3 DEF IInv, TypeOK, Distinct
<1> QED
  BY <1>1, <1>4, RowsKept DEF IInv

-----------------------------------------------------------------------------
(* Workers.  A step of one worker that leaves the rows alone. *)

LEMMA PastFinite ==
  ASSUME NEW m
  PROVE  /\ IsFiniteSet(Past(m)) /\ Cardinality(Past(m)) \in Nat
         /\ Cardinality(Past(m)) <= Cardinality(Workers) /\ Cardinality(Workers) \in Nat
BY WorkersAssumption, FS_Subset, FS_CardinalityType DEF Past

LEMMA CopiesFinite ==
  ASSUME RowsOK, NEW m
  PROVE  IsFiniteSet(Copies(m)) /\ Cardinality(Copies(m)) \in Nat
BY FS_Subset, FS_CardinalityType DEF RowsOK, Copies

LEMMA WorkerKept ==
  ASSUME IInv, NEW w \in Workers, NEW to \in Worker, Set(w, to),
         UNCHANGED <<mailbox, aged, spent, reader, messages, conversations, abandoned>>,
         queue' \in Seq(Mails), Len(queue') <= QueueCap, troubles' \in 0..MaxTroubles,
         to.conv = worker[w].conv \/ to.conv = 0 \/ \E row \in messages : to.conv = row.conv,
         to.conv = worker[w].conv \/ worker[w].conv = 0
           \/ \E row \in messages : worker[w].conv = row.conv,
         Position(w)'
  PROVE  TypeOK' /\ Distinct' /\ RowsOK' /\ Positions' /\ EmptyExplained'
<1>1. worker \in [Workers -> Worker] /\ conversations \subseteq Nat \ {0}
  BY DEF IInv, TypeOK
<1>2. worker' \in [Workers -> Worker] /\ worker'[w] = to /\ \A v \in Workers : v # w => worker'[v] = worker[v]
  BY <1>1
<1>3. TypeOK' /\ Distinct' /\ RowsOK'
  BY <1>2 DEF IInv, TypeOK, Distinct, RowsOK
<1>4. Positions'
  <2> SUFFICES ASSUME NEW v \in Workers, v # w PROVE Position(v)'
    BY DEF Positions
  <2>1. Position(v) /\ worker'[v] = worker[v]
    BY <1>2 DEF IInv, Positions
  <2>2. worker[v].at \in {"insert", "rollback"} /\ worker[v].new => to.conv # worker[v].conv
    BY <1>1, <2>1 DEF Position, IInv, RowsOK
  <2> QED
    BY <1>2, <2>1, <2>2 DEF Position
<1>5. EmptyExplained'
  <2> SUFFICES ASSUME NEW c \in conversations
               PROVE  \/ \E row \in messages : row.conv = c
                      \/ \E v \in Workers : worker'[v].conv = c
                      \/ c \in abandoned
    BY DEF EmptyExplained
  <2>1. \/ \E row \in messages : row.conv = c
        \/ \E v \in Workers : worker[v].conv = c
        \/ c \in abandoned
    BY DEF IInv, EmptyExplained
  <2>2. CASE worker[w].conv = c
    BY <1>1, <1>2, <2>2
  <2> QED
    BY <1>2, <2>1, <2>2
<1> QED
  BY <1>3, <1>4, <1>5

(* ... and does not go past the check. *)
LEMMA CopiesKept ==
  ASSUME IInv, UNCHANGED messages, \A m \in Mails : Past(m)' \subseteq Past(m)
  PROVE  CopiesBounded'
<1> SUFFICES ASSUME NEW m \in Mails
             PROVE  Cardinality(Copies(m)') + Cardinality(Past(m)') <= Cardinality(Workers)
  BY DEF CopiesBounded
<1>1. Copies(m)' = Copies(m)
  BY DEF Copies
<1>2. Cardinality(Past(m)') <= Cardinality(Past(m)) /\ Cardinality(Past(m)') \in Nat
  BY PastFinite, FS_Subset, FS_CardinalityType
<1>3. Cardinality(Copies(m)) + Cardinality(Past(m)) <= Cardinality(Workers)
  BY DEF IInv, CopiesBounded
<1> QED
  BY <1>1, <1>2, <1>3, PastFinite, CopiesFinite DEF IInv

LEMMA Counts == troubles \in 0..MaxTroubles /\ Strikes => troubles' \in 0..MaxTroubles
BY BoundsAssumption DEF Strikes

LEMMA FreeType == Free \in Worker /\ Free.conv = 0 /\ Free.at = "idle" /\ ~Free.new
BY DEF Free, Worker

LEMMA TakeIInv == ASSUME IInv, NEW w \in Workers, Take(w) PROVE IInv'
<1> DEFINE to == [Free EXCEPT !.at = "check", !.mail = Head(queue)]
<1>1. queue \in Seq(Mails) /\ queue # << >> /\ Len(queue) <= QueueCap
  BY DEF Take, IInv, TypeOK
<1>2. Head(queue) \in Mails /\ queue' \in Seq(Mails) /\ Len(queue') <= QueueCap
  BY <1>1, BoundsAssumption DEF Take
<1>3. to \in Worker /\ to.at = "check" /\ to.mail \in Mails /\ to.conv = 0 /\ ~to.new
  BY <1>2 DEF Free, Worker
<1>4. Set(w, to) /\ UNCHANGED <<mailbox, aged, spent, reader, messages, conversations, abandoned, troubles>>
  BY DEF Take
<1> HIDE DEF to
<1>5. worker' = [worker EXCEPT ![w] = to] /\ worker'[w] = to /\ worker[w].at = "idle"
  BY <1>4 DEF IInv, TypeOK, Take
<1>6. worker[w].conv = 0
  BY <1>5 DEF IInv, Positions, Position
<1>7. Position(w)'
  BY <1>3, <1>5 DEF Position
<1>8. TypeOK' /\ Distinct' /\ RowsOK' /\ Positions' /\ EmptyExplained'
  BY <1>2, <1>3, <1>4, <1>6, <1>7, WorkerKept DEF IInv, TypeOK
<1>9. \A m \in Mails : Past(m)' \subseteq Past(m)
  BY <1>3, <1>5 DEF Past, IInv, TypeOK
<1> QED
  BY <1>4, <1>8, <1>9, CopiesKept DEF IInv

(* A worker goes past the check only while no copy is there. *)
LEMMA CheckAgainIInv == ASSUME IInv, NEW w \in Workers, CheckAgain(w) PROVE IInv'
<1> DEFINE to == IF Stored(worker[w].mail) THEN Free ELSE [worker[w] EXCEPT !.at = "thread"]
<1>1. worker[w] \in Worker /\ worker[w].at = "check" /\ Position(w) /\ worker \in [Workers -> Worker]
  BY DEF CheckAgain, IInv, TypeOK, Positions
<1>2. worker[w].mail \in Mails /\ worker[w].conv = 0 /\ ~worker[w].new
  BY <1>1 DEF Position
<1>3. /\ to \in Worker /\ to.conv = 0 /\ ~to.new /\ to.at \in {"idle", "thread"}
      /\ to.at # "idle" => to.mail = worker[w].mail /\ ~Stored(worker[w].mail)
  BY <1>1, <1>2, FreeType DEF Worker
<1>4. Set(w, to) /\ UNCHANGED <<mailbox, aged, spent, reader, queue, messages, conversations, abandoned, troubles>>
  BY DEF CheckAgain
<1> HIDE DEF to
<1>5. worker'[w] = to /\ \A v \in Workers : v # w => worker'[v] = worker[v]
  BY <1>1, <1>4
<1>6. Position(w)'
  BY <1>2, <1>3, <1>5 DEF Position
<1>7. TypeOK' /\ Distinct' /\ RowsOK' /\ Positions' /\ EmptyExplained'
  BY <1>2, <1>3, <1>4, <1>6, WorkerKept DEF IInv, TypeOK
<1>8. CopiesBounded'
  <2> SUFFICES ASSUME NEW m \in Mails
               PROVE  Cardinality(Copies(m)') + Cardinality(Past(m)') <= Cardinality(Workers)
    BY DEF CopiesBounded
  <2>1. Copies(m)' = Copies(m) /\ Cardinality(Copies(m)) \in Nat
    BY <1>4, CopiesFinite DEF Copies, IInv
  <2>2. Past(m)' \subseteq Workers
    BY DEF Past
  <2>3. Cardinality(Past(m)') <= Cardinality(Workers) /\ Cardinality(Past(m)') \in Nat
    BY <2>2, WorkersAssumption, FS_Subset, FS_CardinalityType
  <2>4. CASE Copies(m) = {}
    BY <2>1, <2>3, <2>4, FS_EmptySet, PastFinite
  <2>5. CASE Copies(m) # {}
    <3>1. Past(m)' \subseteq Past(m)
      BY <1>3, <1>5, <2>5 DEF Past, Stored
    <3>2. Cardinality(Past(m)') <= Cardinality(Past(m))
      BY <3>1, PastFinite, FS_Subset
    <3>3. Cardinality(Copies(m)) + Cardinality(Past(m)) <= Cardinality(Workers)
      BY DEF IInv, CopiesBounded
    <3> QED
      BY <2>1, <2>3, <3>2, <3>3, PastFinite
  <2> QED
    BY <2>4, <2>5
<1> QED
  BY <1>7, <1>8 DEF IInv

LEMMA ThreadIInv == ASSUME IInv, NEW w \in Workers, Thread(w) PROVE IInv'
<1> DEFINE found == {row.conv : row \in Copies(Parent[worker[w].mail])}
<1>1. worker[w] \in Worker /\ worker[w].at = "thread" /\ Position(w) /\ worker \in [Workers -> Worker]
  BY DEF Thread, IInv, TypeOK, Positions
<1>2. worker[w].mail \in Mails /\ worker[w].conv = 0 /\ ~worker[w].new
  BY <1>1 DEF Position
<1>3. \A c \in found : c \in Nat /\ \E row \in messages : row.conv = c
  BY DEF Copies, IInv, TypeOK
<1>4. PICK to : /\ Set(w, to)
                /\ \/ to = [worker[w] EXCEPT !.at = "create"]
                   \/ \E c \in found : to = [worker[w] EXCEPT !.at = "insert", !.conv = c]
  BY DEF Thread
<1> HIDE DEF found
<1>5. /\ to \in Worker /\ to.mail = worker[w].mail /\ ~to.new /\ to.at \in {"create", "insert"}
      /\ to.at = "create" => to.conv = 0
      /\ to.at = "insert" => \E row \in messages : row.conv = to.conv
  <2>1. CASE to = [worker[w] EXCEPT !.at = "create"]
    BY <1>1, <1>2, <2>1 DEF Worker
  <2>2. ASSUME NEW c \in found, to = [worker[w] EXCEPT !.at = "insert", !.conv = c]
        PROVE  /\ to \in Worker /\ to.mail = worker[w].mail /\ ~to.new /\ to.at = "insert"
               /\ to.conv = c
    BY <1>1, <1>2, <1>3, <2>2 DEF Worker
  <2> QED
    BY <1>3, <1>4, <1>2, <2>1, <2>2
<1>6. UNCHANGED <<mailbox, aged, spent, reader, queue, messages, conversations, abandoned, troubles>>
  BY DEF Thread
<1>7. worker'[w] = to /\ \A v \in Workers : v # w => worker'[v] = worker[v]
  BY <1>1, <1>4
<1>8. Position(w)'
  BY <1>2, <1>5, <1>6, <1>7 DEF Position
<1>9. TypeOK' /\ Distinct' /\ RowsOK' /\ Positions' /\ EmptyExplained'
  BY <1>2, <1>4, <1>5, <1>6, <1>8, WorkerKept DEF IInv, TypeOK
<1>10. \A m \in Mails : Past(m)' \subseteq Past(m)
  BY <1>1, <1>5, <1>7 DEF Past
<1> QED
  BY <1>6, <1>9, <1>10, CopiesKept DEF IInv

(* The conversation created is nobody else's. *)
LEMMA CreateIInv == ASSUME IInv, NEW w \in Workers, Create(w) PROVE IInv'
<1>1. worker[w] \in Worker /\ worker[w].at = "create" /\ Position(w) /\ worker \in [Workers -> Worker]
  BY DEF Create, IInv, TypeOK, Positions
<1>2. worker[w].mail \in Mails /\ worker[w].conv = 0
  BY <1>1 DEF Position
<1>3. PICK id \in Unused :
        /\ conversations' = conversations \union {id}
        /\ Set(w, [worker[w] EXCEPT !.at = "insert", !.conv = id, !.new = TRUE])
  BY DEF Create
<1>4. Cardinality(conversations) \in Nat /\ Cardinality(Workers) \in Nat
  BY WorkersAssumption, FS_CardinalityType DEF IInv, RowsOK
<1>5. /\ id \in Nat \ {0} /\ id \notin conversations
      /\ \A v \in Workers : worker[v].conv # id
  BY <1>4 DEF Unused
<1> DEFINE to == [worker[w] EXCEPT !.at = "insert", !.conv = id, !.new = TRUE]
<1>6. to \in Worker /\ to.at = "insert" /\ to.conv = id /\ to.new /\ to.mail = worker[w].mail
  BY <1>1, <1>5 DEF Worker
<1> HIDE DEF to
<1>7. worker'[w] = to /\ \A v \in Workers : v # w => worker'[v] = worker[v]
  BY <1>1, <1>3 DEF to
<1>8. UNCHANGED <<mailbox, aged, spent, reader, queue, messages, abandoned, troubles>>
  BY DEF Create
<1>9. TypeOK' /\ Distinct'
  <2>1. worker' \in [Workers -> Worker] /\ conversations' \subseteq Nat \ {0}
    BY <1>1, <1>3, <1>5, <1>6 DEF IInv, TypeOK, to
  <2> QED
    BY <1>8, <2>1 DEF IInv, TypeOK, Distinct
<1>10. RowsOK'
  BY <1>3, <1>8, FS_AddElement DEF IInv, RowsOK
<1>11. \A row \in messages : row.conv # id
  BY <1>5 DEF IInv, RowsOK
<1>12. Positions'
  <2>1. Position(w)'
    BY <1>2, <1>3, <1>5, <1>6, <1>7, <1>8, <1>11 DEF Position
  <2>2. ASSUME NEW v \in Workers, v # w PROVE Position(v)'
    <3>1. Position(v) /\ worker'[v] = worker[v] /\ worker[v].conv # id
      BY <1>5, <1>7, <2>2 DEF IInv, Positions
    <3>2. \A u \in Workers : u # v => worker'[u].conv \in {worker[u].conv, id}
      BY <1>6, <1>7
    <3>3. worker'[v].at \in {"insert", "rollback"} /\ worker'[v].new =>
            /\ worker'[v].conv \in conversations'
            /\ \A row \in messages' : row.conv # worker'[v].conv
            /\ \A u \in Workers : u # v => worker'[u].conv # worker'[v].conv
      <4> SUFFICES ASSUME worker[v].at \in {"insert", "rollback"}, worker[v].new
                   PROVE  /\ worker[v].conv \in conversations'
                          /\ \A row \in messages : row.conv # worker[v].conv
                          /\ \A u \in Workers : u # v => worker'[u].conv # worker[v].conv
        BY <1>8, <3>1
      <4>1. /\ worker[v].conv \in conversations
            /\ \A row \in messages : row.conv # worker[v].conv
            /\ \A u \in Workers : u # v => worker[u].conv # worker[v].conv
        BY <3>1 DEF Position
      <4> QED
        BY <1>3, <3>1, <3>2, <4>1
    <3> QED
      BY <1>8, <3>1, <3>3 DEF Position
  <2> QED
    BY <2>1, <2>2 DEF Positions
<1>13. EmptyExplained'
  <2> SUFFICES ASSUME NEW c \in conversations'
               PROVE  \/ \E row \in messages : row.conv = c
                      \/ \E v \in Workers : worker'[v].conv = c
                      \/ c \in abandoned
    BY <1>8 DEF EmptyExplained
  <2>1. CASE c = id
    BY <1>6, <1>7, <2>1
  <2>2. CASE c # id
    <3>1. c \in conversations /\ c # 0
      BY <1>3, <2>2 DEF IInv, TypeOK
    <3>2. \/ \E row \in messages : row.conv = c
          \/ \E v \in Workers : worker[v].conv = c
          \/ c \in abandoned
      BY <3>1 DEF IInv, EmptyExplained
    <3> QED
      BY <1>2, <1>7, <3>1, <3>2
  <2> QED
    BY <2>1, <2>2
<1>14. \A m \in Mails : Past(m)' \subseteq Past(m)
  BY <1>1, <1>6, <1>7 DEF Past
<1> QED
  BY <1>8, <1>9, <1>10, <1>12, <1>13, <1>14, CopiesKept DEF IInv

LEMMA DropIInv ==
  ASSUME IInv, NEW w \in Workers, Drop(w) \/ (InsertFails(w) /\ ~worker[w].new)
  PROVE  IInv'
<1>1. worker[w] \in Worker /\ Position(w) /\ worker \in [Workers -> Worker]
      /\ worker[w].at \in {"check", "thread", "create", "insert"}
  BY DEF Drop, InsertFails, IInv, TypeOK, Positions
<1>2. worker[w].conv = 0 \/ \E row \in messages : worker[w].conv = row.conv
  BY DEF Drop, InsertFails, IInv, Positions, Position
<1>3. Set(w, Free) /\ UNCHANGED <<mailbox, aged, spent, reader, queue, messages, conversations, abandoned>> /\ Strikes
  BY DEF Drop, InsertFails
<1>4. worker'[w] = Free /\ \A v \in Workers : v # w => worker'[v] = worker[v]
  BY <1>1, <1>3
<1>5. Position(w)'
  BY <1>4, FreeType DEF Position
<1>6. TypeOK' /\ Distinct' /\ RowsOK' /\ Positions' /\ EmptyExplained'
  BY <1>2, <1>3, <1>5, FreeType, Counts, WorkerKept DEF IInv, TypeOK
<1>7. \A m \in Mails : Past(m)' \subseteq Past(m)
  BY <1>4, FreeType DEF Past
<1> QED
  BY <1>3, <1>6, <1>7, CopiesKept DEF IInv

LEMMA InsertFailsIInv ==
  ASSUME IInv, NEW w \in Workers, InsertFails(w), worker[w].new
  PROVE  IInv'
<1> DEFINE to == [worker[w] EXCEPT !.at = "rollback"]
<1>1. worker[w] \in Worker /\ Position(w) /\ worker \in [Workers -> Worker] /\ worker[w].at = "insert"
  BY DEF InsertFails, IInv, TypeOK, Positions
<1>2. Set(w, to) /\ UNCHANGED <<mailbox, aged, spent, reader, queue, messages, conversations, abandoned>> /\ Strikes
  BY DEF InsertFails
<1>3. to \in Worker /\ to.at = "rollback" /\ to.conv = worker[w].conv /\ to.new /\ to.mail = worker[w].mail
  BY <1>1 DEF Worker
<1> HIDE DEF to
<1>4. worker'[w] = to /\ \A v \in Workers : v # w => worker'[v] = worker[v]
  BY <1>1, <1>2
<1>5. Position(w)'
  BY <1>1, <1>2, <1>3, <1>4 DEF Position
<1>6. TypeOK' /\ Distinct' /\ RowsOK' /\ Positions' /\ EmptyExplained'
  BY <1>2, <1>3, <1>5, Counts, WorkerKept DEF IInv, TypeOK
<1>7. \A m \in Mails : Past(m)' \subseteq Past(m)
  BY <1>3, <1>4 DEF Past
<1> QED
  BY <1>2, <1>6, <1>7, CopiesKept DEF IInv

(* A copy is added by a worker that no longer counts. *)
LEMMA InsertIInv == ASSUME IInv, NEW w \in Workers, Insert(w) PROVE IInv'
<1> DEFINE mail == worker[w].mail
           conv == worker[w].conv
           row == Row(mail, conv)
<1>1. worker[w] \in Worker /\ Position(w) /\ worker \in [Workers -> Worker] /\ worker[w].at = "insert"
      /\ conv \in conversations /\ conv \in Nat
  BY DEF Insert, IInv, TypeOK, Positions, Worker
<1>2. mail \in Mails
  BY <1>1 DEF Position
<1>3. /\ messages' = messages \union {row} /\ Set(w, Free)
      /\ UNCHANGED <<mailbox, aged, spent, reader, queue, conversations, abandoned, troubles>>
  BY DEF Insert
<1>4. worker'[w] = Free /\ \A v \in Workers : v # w => worker'[v] = worker[v]
  BY <1>1, <1>3
<1>5. row \in [mail : Mails, conv : Nat, copy : Nat] /\ row.conv = conv /\ row.mail = mail
  <2>1. Cardinality(Copies(mail)) + 1 \in Nat
    BY CopiesFinite DEF IInv
  <2> QED
    BY <1>1, <1>2, <2>1 DEF Row
<1> HIDE DEF row
<1>6. TypeOK' /\ Distinct'
  <2>1. worker' \in [Workers -> Worker] /\ messages' \subseteq [mail : Mails, conv : Nat, copy : Nat]
    BY <1>1, <1>3, <1>5, FreeType DEF IInv, TypeOK
  <2> QED
    BY <1>3, <2>1 DEF IInv, TypeOK, Distinct
<1>7. RowsOK'
  BY <1>1, <1>3, <1>5, FS_AddElement DEF IInv, RowsOK
<1>8. Positions'
  <2>1. Position(w)'
    BY <1>4, FreeType DEF Position
  <2>2. ASSUME NEW v \in Workers, v # w PROVE Position(v)'
    <3>1. Position(v) /\ worker'[v] = worker[v]
      BY <1>4, <2>2 DEF IInv, Positions
    <3>2. worker[v].at \in {"insert", "rollback"} /\ worker[v].new =>
            /\ worker[v].conv # conv /\ worker[v].conv # 0
      BY <2>2, <3>1 DEF Position, IInv, TypeOK
    <3> QED
      BY <1>3, <1>4, <1>5, <3>1, <3>2, FreeType DEF Position
  <2> QED
    BY <2>1, <2>2 DEF Positions
<1>9. EmptyExplained'
  <2> SUFFICES ASSUME NEW c \in conversations
               PROVE  \/ \E x \in messages' : x.conv = c
                      \/ \E v \in Workers : worker'[v].conv = c
                      \/ c \in abandoned
    BY <1>3 DEF EmptyExplained
  <2>1. \/ \E x \in messages : x.conv = c
        \/ \E v \in Workers : worker[v].conv = c
        \/ c \in abandoned
    BY DEF IInv, EmptyExplained
  <2> QED
    BY <1>3, <1>4, <1>5, <2>1
<1>10. CopiesBounded'
  <2> SUFFICES ASSUME NEW m \in Mails
               PROVE  Cardinality(Copies(m)') + Cardinality(Past(m)') <= Cardinality(Workers)
    BY DEF CopiesBounded
  <2>1. Cardinality(Copies(m)) + Cardinality(Past(m)) <= Cardinality(Workers)
    BY DEF IInv, CopiesBounded
  <2>2. IsFiniteSet(Copies(m)) /\ Cardinality(Copies(m)) \in Nat
    BY CopiesFinite DEF IInv
  <2>3. CASE m = mail
    <3>1. Copies(m)' = Copies(m) \union {row}
      BY <1>3, <1>5, <2>3 DEF Copies
    <3>2. Cardinality(Copies(m)') <= Cardinality(Copies(m)) + 1 /\ Cardinality(Copies(m)') \in Nat
      <4>1. /\ IsFiniteSet(Copies(m) \union {row})
            /\ Cardinality(Copies(m) \union {row}) \in {Cardinality(Copies(m)), Cardinality(Copies(m)) + 1}
        BY <2>2, FS_AddElement
      <4> QED
        BY <2>2, <3>1, <4>1
    <3>3. Past(m)' = Past(m) \ {w} /\ w \in Past(m)
      BY <1>1, <1>4, <2>3, FreeType DEF Past
    <3>4. Cardinality(Past(m)') = Cardinality(Past(m)) - 1
      BY <3>3, PastFinite, FS_RemoveElement
    <3> QED
      BY <2>1, <2>2, <3>2, <3>4, PastFinite
  <2>4. CASE m # mail
    <3>1. Copies(m)' = Copies(m)
      BY <1>3, <1>5, <2>4 DEF Copies
    <3>2. Past(m)' \subseteq Past(m)
      BY <1>4, FreeType DEF Past
    <3>3. Cardinality(Past(m)') <= Cardinality(Past(m)) /\ Cardinality(Past(m)') \in Nat
      BY <3>2, PastFinite, FS_Subset, FS_CardinalityType
    <3> QED
      BY <2>1, <2>2, <3>1, <3>3, PastFinite
  <2> QED
    BY <2>3, <2>4
<1> QED
  BY <1>6, <1>7, <1>8, <1>9, <1>10 DEF IInv

(* The clean-up deletes an empty conversation, or leaves it behind. *)
LEMMA RollbackKeeps ==
  ASSUME IInv, NEW w \in Workers, Rollback(w)
  PROVE  messages' = messages
<1>1. worker[w].at = "rollback" /\ Position(w)
  BY DEF Rollback, IInv, Positions
<1>2. \A row \in messages : row.conv # worker[w].conv
  BY <1>1 DEF Position
<1> QED
  BY <1>2 DEF Rollback

LEMMA RollbackIInv == ASSUME IInv, NEW w \in Workers, Rollback(w) \/ RollbackFails(w) PROVE IInv'
<1> DEFINE conv == worker[w].conv
<1>1. worker[w] \in Worker /\ Position(w) /\ worker \in [Workers -> Worker]
      /\ worker[w].at = "rollback" /\ worker[w].new /\ conv \in Nat
  BY DEF Rollback, RollbackFails, IInv, TypeOK, Positions, Position, Worker
<1>2. /\ \A row \in messages : row.conv # conv
      /\ \A v \in Workers : v # w => worker[v].conv # conv
  BY <1>1 DEF Position
<1>3. /\ Set(w, Free) /\ UNCHANGED <<mailbox, aged, spent, reader, queue, messages, troubles>>
      /\ \/ conversations' = conversations \ {conv} /\ UNCHANGED abandoned
         \/ UNCHANGED conversations /\ abandoned' = abandoned \union {conv}
  BY RollbackKeeps DEF Rollback, RollbackFails
<1>4. worker'[w] = Free /\ \A v \in Workers : v # w => worker'[v] = worker[v]
  BY <1>1, <1>3
<1>5. TypeOK' /\ Distinct'
  <2>1. worker' \in [Workers -> Worker] /\ conversations' \subseteq Nat \ {0} /\ abandoned' \subseteq Nat
    BY <1>1, <1>3, FreeType DEF IInv, TypeOK
  <2> QED
    BY <1>3, <2>1 DEF IInv, TypeOK, Distinct
<1>6. RowsOK'
  <2>1. IsFiniteSet(conversations')
    BY <1>3, FS_RemoveElement DEF IInv, RowsOK
  <2> QED
    BY <1>2, <1>3, <2>1 DEF IInv, RowsOK
<1>7. Positions'
  <2>1. Position(w)'
    BY <1>4, FreeType DEF Position
  <2>2. ASSUME NEW v \in Workers, v # w PROVE Position(v)'
    <3>1. Position(v) /\ worker'[v] = worker[v] /\ worker[v].conv # conv
      BY <1>2, <1>4, <2>2 DEF IInv, Positions
    <3>2. worker[v].at \in {"insert", "rollback"} /\ worker[v].new =>
            worker[v].conv \in conversations' /\ worker[v].conv # 0
      BY <1>3, <3>1 DEF Position, IInv, TypeOK
    <3> QED
      BY <1>3, <1>4, <3>1, <3>2, FreeType DEF Position
  <2> QED
    BY <2>1, <2>2 DEF Positions
<1>8. EmptyExplained'
  <2> SUFFICES ASSUME NEW c \in conversations'
               PROVE  \/ \E x \in messages : x.conv = c
                      \/ \E v \in Workers : worker'[v].conv = c
                      \/ c \in abandoned'
    BY <1>3 DEF EmptyExplained
  <2>1. \/ \E x \in messages : x.conv = c
        \/ \E v \in Workers : worker[v].conv = c
        \/ c \in abandoned
    BY <1>3 DEF IInv, EmptyExplained
  <2> QED
    BY <1>3, <1>4, <2>1
<1>9. \A m \in Mails : Past(m)' \subseteq Past(m)
  BY <1>4, FreeType DEF Past
<1> QED
  BY <1>3, <1>5, <1>6, <1>7, <1>8, <1>9, CopiesKept DEF IInv

LEMMA CrashIInv == ASSUME IInv, Crash PROVE IInv'
<1>1. /\ reader' = [r \in Readers |-> Rest(0)] /\ spent' = [r \in Readers |-> 0] /\ queue' = << >>
      /\ worker' = [w \in Workers |-> Free] /\ Strikes
      /\ abandoned' = abandoned \union {worker[w].conv : w \in {v \in Workers : worker[v].new}}
      /\ UNCHANGED <<mailbox, aged, messages, conversations>>
  BY DEF Crash
<1>2. TypeOK' /\ Distinct' /\ RowsOK'
  <2>1. /\ reader' \in [Readers -> Reader] /\ spent' \in [Readers -> 0..Ingress]
        /\ worker' \in [Workers -> Worker]
    BY <1>1, RestType, FreeType, BoundsAssumption
  <2>2. abandoned' \subseteq Nat
    BY <1>1 DEF IInv, TypeOK, Worker
  <2>3. queue' \in Seq(Mails) /\ Len(queue') <= QueueCap
    BY <1>1, BoundsAssumption
  <2> QED
    BY <1>1, <2>1, <2>2, <2>3, Counts DEF IInv, TypeOK, Distinct, RowsOK
<1>3. Positions'
  BY <1>1, FreeType DEF Positions, Position
<1>4. EmptyExplained'
  <2> SUFFICES ASSUME NEW c \in conversations
               PROVE  \/ \E x \in messages : x.conv = c
                      \/ \E v \in Workers : worker'[v].conv = c
                      \/ c \in abandoned'
    BY <1>1 DEF EmptyExplained
  <2>1. \/ \E x \in messages : x.conv = c
        \/ \E v \in Workers : worker[v].conv = c
        \/ c \in abandoned
    BY DEF IInv, EmptyExplained
  <2>2. ASSUME NEW v \in Workers, worker[v].conv = c
        PROVE  worker[v].new \/ \E x \in messages : x.conv = c
    <3>1. Position(v) /\ c # 0 /\ worker[v] \in Worker
      BY DEF IInv, Positions, TypeOK
    <3> QED
      BY <2>2, <3>1 DEF Position, Worker
  <2> QED
    BY <1>1, <2>1, <2>2
<1>5. \A m \in Mails : Past(m)' \subseteq Past(m)
  BY <1>1, FreeType DEF Past
<1> QED
  BY <1>1, <1>2, <1>3, <1>4, <1>5, CopiesKept DEF IInv

-----------------------------------------------------------------------------
LEMMA InitIInv == Init => IInv
<1> SUFFICES ASSUME Init PROVE IInv
  OBVIOUS
<1>1. TypeOK /\ Distinct
  BY RestType, FreeType, BoundsAssumption DEF Init, TypeOK, Distinct
<1>2. RowsOK /\ Positions /\ EmptyExplained
  BY FreeType, FS_EmptySet DEF Init, RowsOK, Positions, Position, EmptyExplained
<1>3. CopiesBounded
  <2> SUFFICES ASSUME NEW m \in Mails
               PROVE  Cardinality(Copies(m)) + Cardinality(Past(m)) <= Cardinality(Workers)
    BY DEF CopiesBounded
  <2>1. Copies(m) = {}
    BY DEF Init, Copies
  <2> QED
    BY <2>1, FS_EmptySet, PastFinite
<1> QED
  BY <1>1, <1>2, <1>3 DEF IInv

LEMMA NextIInv == ASSUME IInv, [Next]_vars PROVE IInv'
<1>1. CASE UNCHANGED vars
  BY <1>1 DEF vars, IInv, TypeOK, Distinct, RowsOK, Positions, Position, CopiesBounded, Copies,
              Past, EmptyExplained
<1>2. CASE Server
  BY <1>2, ServerIInv
<1>3. ASSUME NEW r \in Readers,
             \/ Read(r) \/ PollFails(r) \/ Reload(r)
             \/ \E n \in DOMAIN reader[r].page : Number(r, n) /\ (MailFails(r, n) \/ BodyFails(r, n))
      PROVE  IInv'
  BY <1>3, ReaderIInv DEF Read
<1>4. ASSUME NEW w \in Workers, Work(w) \/ Drop(w) \/ InsertFails(w) \/ RollbackFails(w)
      PROVE  IInv'
  BY <1>4, TakeIInv, CheckAgainIInv, ThreadIInv, CreateIInv, InsertIInv, RollbackIInv, DropIInv,
     InsertFailsIInv DEF Work
<1>5. CASE Crash
  BY <1>5, CrashIInv
<1>6. CASE Time
  BY <1>6, TimeIInv
<1> QED
  BY <1>1, <1>2, <1>3, <1>4, <1>5, <1>6 DEF Next, Trouble

(* The inductive invariant of mailboxes, readers, workers and rows. *)
THEOREM Invariance == Spec => []IInv
<1>1. IInv /\ [Next]_vars => IInv'
  BY NextIInv
<1> QED
  BY <1>1, InitIInv, PTL DEF Spec

(* The variables of readers, queue, workers and rows keep their types; the *)
(* queue keeps its bound.                                                  *)
THEOREM TypeCorrect == Spec => []TypeOK
BY Invariance, PTL DEF IInv

(* ProcessIncomingMessage stores a mail at most once per worker, however   *)
(* often the readers queue it.                                             *)
THEOREM FewCopies == Spec => []CopiesBounded
BY Invariance, PTL DEF IInv

(* Every conversation without a message is about to get one or to be       *)
(* deleted, unless the deletion failed or the process died.                *)
THEOREM EmptyIsExplained == Spec => []EmptyExplained
BY Invariance, PTL DEF IInv

(* Deleting the conversation of a failed mail deletes no stored message.   *)
THEOREM StoredStays == Spec => NothingLost
<1>1. IInv /\ [Next]_vars => [messages \subseteq messages']_vars
  <2> SUFFICES ASSUME IInv, Next PROVE messages \subseteq messages'
    BY DEF vars
  <2>1. CASE \E w \in Workers : Rollback(w)
    BY <2>1, RollbackKeeps
  <2>2. CASE ~\E w \in Workers : Rollback(w)
    BY <2>2 DEF Next, Server, Deliver, Remove, Time, Age, Expire, Trouble, PollFails, MailFails,
                BodyFails, Reload, Drop, InsertFails, RollbackFails, Crash, Read, Poll, Check, Exhausted,
                OverIngress, FetchBody, Work, Take, CheckAgain, Thread, Create, Insert
  <2> QED
    BY <2>1, <2>2
<1> QED
  BY <1>1, Invariance, PTL DEF Spec, NothingLost
=============================================================================
