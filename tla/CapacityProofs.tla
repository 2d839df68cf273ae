--------------------------- MODULE CapacityProofs ---------------------------
(***************************************************************************)
(* Proofs about the limits that concurrent requests share, for any         *)
(* instance.  Assignment: an agent to whom the engine gives a conversation *)
(* was eligible for its team in this sweep and has room, whatever people   *)
(* do between any two of its statements.  Media: uploads, thumbnails       *)
(* settled later, merges of owners and crashes keep the quotas of the      *)
(* instance and of every owner, and store, rows and messages agree.        *)
(***************************************************************************)
EXTENDS Assignment, Media, FiniteSetTheorems, TLAPS

-----------------------------------------------------------------------------
(* Assignment *)

(* What the engine holds at each place of its sweep. *)
EngineOK ==
  /\ epc \in {"try", "count", "claim"} =>
       job \in Conversations \X Teams /\ tries <= Len(pool[job[2]])
  /\ epc \in {"count", "claim"} =>
       cand \in Agents /\ (job[2] \in loaded => <<job[2], cand>> \in fresh)

(* A move that is under way has its conversation and its team. *)
MovesOK ==
  \A r \in Requests : rpc[r] # "idle" => rconv[r] \in Conversations /\ rteam[r] \in Teams

(* While rotations are loaded, who is eligible has been so in this sweep. *)
FreshOK == epc = "load" => EligiblePairs \subseteq fresh

IInv == TypeOK /\ EngineOK /\ MovesOK /\ FreshOK /\ PoolsAreFresh /\ WithinCapacity

-----------------------------------------------------------------------------
(* Sequences *)

LEMMA OrdersRange ==
  ASSUME NEW S, IsFiniteSet(S), NEW s \in Orders(S)
  PROVE  s \in Seq(S) /\ Range(s) = S
<1>1. Cardinality(S) \in Nat
  BY FS_CardinalityType
<1>2. s \in [1..Cardinality(S) -> S] /\ \A x \in S : \E i \in DOMAIN s : s[i] = x
  BY DEF Orders
<1> QED
  BY <1>1, <1>2 DEF Range

LEMMA ConcatRange ==
  ASSUME NEW S, NEW T, NEW s \in Seq(S), NEW t \in Seq(T)
  PROVE  s \o t \in Seq(S \cup T) /\ Range(s \o t) \subseteq Range(s) \cup Range(t)
BY DEF Range

(* getUserFromPool keeps the members of a rotation and their number. *)
LEMMA RotationKeeps ==
  ASSUME NEW S, NEW s \in Seq(S), Len(s) > 0
  PROVE  /\ Head(s) \in S
         /\ Append(Tail(s), Head(s)) \in Seq(S)
         /\ Len(Append(Tail(s), Head(s))) = Len(s)
         /\ Range(Append(Tail(s), Head(s))) \subseteq Range(s)
BY DEF Range

-----------------------------------------------------------------------------
(* The conversations that count for an agent *)

Of(a) == {c \in Conversations : agent[c] = a /\ status[c] = "open"}

LEMMA ActiveType ==
  ASSUME NEW a
  PROVE  IsFiniteSet(Of(a)) /\ Active(a) = Cardinality(Of(a)) /\ Active(a) \in Nat
BY AssignmentAssumption, FS_Subset, FS_CardinalityType DEF Of, Active

LEMMA ActiveShrinks ==
  ASSUME NEW a, Of(a)' \subseteq Of(a)
  PROVE  Active(a)' <= Active(a) /\ Active(a)' \in Nat
<1>1. Active(a)' = Cardinality(Of(a)')
  BY DEF Of, Active
<1> QED
  BY <1>1, ActiveType, FS_Subset, FS_CardinalityType

-----------------------------------------------------------------------------
LEMMA InitIInv == Init => IInv
<1> SUFFICES ASSUME Init PROVE IInv
  OBVIOUS
<1>1. TypeOK
  BY AssignmentAssumption DEF Init, TypeOK, NoJob, Availability
<1> QED
  BY <1>1 DEF Init, IInv, EngineOK, MovesOK, FreshOK, PoolsAreFresh, WithinCapacity

(* A step that leaves what the engine works on alone. *)
LEMMA EngineKept ==
  ASSUME IInv, TypeOK', MovesOK', FreshOK', WithinCapacity',
         UNCHANGED <<pool, loaded, epc, job, tries, cand>>, fresh \subseteq fresh'
  PROVE  IInv'
BY DEF IInv, EngineOK, PoolsAreFresh

(* A step of the engine that leaves the tables alone and goes on to no     *)
(* claim.                                                                  *)
LEMMA EngineMoves ==
  ASSUME IInv, TypeOK', EngineOK', UNCHANGED <<tables, staff, moves, pool, fresh, loaded>>,
         epc' # "claim", epc' # "load"
  PROVE  IInv'
BY DEF IInv, MovesOK, FreshOK, PoolsAreFresh, WithinCapacity, moves
-----------------------------------------------------------------------------
LEMMA SweepIInv ==
  ASSUME IInv, Tick \/ TickFails \/ Loaded \/ List \/ ListFails \/ GiveUp \/ CountFails
               \/ ClaimFails \/ ClaimTooLate
  PROVE  IInv'
<1> USE DEF tables, staff, moves, history
<1>1. CASE Tick
  BY <1>1, AssignmentAssumption
  DEF Tick, IInv, TypeOK, EngineOK, MovesOK, FreshOK, EligiblePairs, Eligible, PoolsAreFresh,
      WithinCapacity
<1>2. CASE TickFails
  BY <1>2, AssignmentAssumption
  DEF TickFails, Event, IInv, TypeOK, EngineOK, MovesOK, FreshOK, EligiblePairs, Eligible,
      PoolsAreFresh, WithinCapacity
<1>3. CASE Loaded \/ ListFails \/ CountFails \/ ClaimFails \/ GiveUp \/ ClaimTooLate
  <2>1. TypeOK'
    BY <1>3, AssignmentAssumption
    DEF Loaded, ListFails, CountFails, ClaimFails, GiveUp, ClaimTooLate, Event, IInv, TypeOK, NoJob
  <2>2. EngineOK' /\ epc' # "claim" /\ epc' # "load"
    BY <1>3
    DEF Loaded, ListFails, CountFails, ClaimFails, GiveUp, ClaimTooLate, IInv, EngineOK
  <2> QED
    BY <1>3, <2>1, <2>2, EngineMoves
    DEF Loaded, ListFails, CountFails, ClaimFails, GiveUp, ClaimTooLate
<1>4. CASE List
  <2>1. work' \in SUBSET (Conversations \X Teams)
    BY <1>4 DEF List, IInv, TypeOK
  <2>2. TypeOK'
    BY <1>4, <2>1 DEF List, IInv, TypeOK
  <2> QED
    BY <1>4, <2>2, EngineMoves DEF List, EngineOK
<1> QED
  BY <1>1, <1>2, <1>3, <1>4

LEMMA LoadTeamFailsIInv ==
  ASSUME IInv, NEW t \in Teams, LoadTeamFails(t)
  PROVE  IInv'
<1> USE DEF LoadTeamFails, Event, tables, staff, moves, history
<1>1. TypeOK'
  BY AssignmentAssumption DEF IInv, TypeOK
<1>2. MovesOK' /\ FreshOK' /\ WithinCapacity'
  BY DEF IInv, MovesOK, FreshOK, EligiblePairs, Eligible, WithinCapacity
<1> QED
  BY <1>1, <1>2, EngineKept

(* A rotation that is loaded has those who are eligible, and only them. *)
LEMMA LoadTeamIInv ==
  ASSUME IInv, NEW t \in Teams, LoadTeam(t)
  PROVE  IInv'
<1> USE DEF tables, staff, moves, history
<1>1. Eligible(t) \subseteq Agents /\ IsFiniteSet(Eligible(t) \cap Range(pool[t]))
      /\ IsFiniteSet(Eligible(t) \ Range(pool[t]))
  <2>1. Eligible(t) \in SUBSET Agents
    BY DEF Eligible
  <2>2. IsFiniteSet(Eligible(t))
    BY <2>1, AssignmentAssumption, FS_Subset
  <2> QED
    BY <2>1, <2>2, FS_Intersection, FS_Difference
<1>2. PICK kept \in Orders(Eligible(t) \cap Range(pool[t])), new \in Orders(Eligible(t) \ Range(pool[t])) :
        pool' = [pool EXCEPT ![t] = kept \o new]
  BY DEF LoadTeam
<1>3. /\ kept \in Seq(Eligible(t)) /\ new \in Seq(Eligible(t))
      /\ Range(kept) \subseteq Eligible(t) /\ Range(new) \subseteq Eligible(t)
  <2>1. /\ kept \in Seq(Eligible(t) \cap Range(pool[t])) /\ Range(kept) = Eligible(t) \cap Range(pool[t])
        /\ new \in Seq(Eligible(t) \ Range(pool[t])) /\ Range(new) = Eligible(t) \ Range(pool[t])
    BY <1>1, OrdersRange
  <2> QED
    BY <2>1
<1>4. kept \o new \in Seq(Eligible(t)) /\ Range(kept \o new) \subseteq Eligible(t)
  <2>1. Eligible(t) \cup Eligible(t) = Eligible(t)
    OBVIOUS
  <2> QED
    BY <1>3, <2>1, ConcatRange
<1>5. kept \o new \in Seq(Agents)
  BY <1>1, <1>4
<1>6. TypeOK'
  BY <1>2, <1>5 DEF LoadTeam, IInv, TypeOK
<1>7. EngineOK' /\ MovesOK' /\ FreshOK' /\ WithinCapacity'
  BY DEF LoadTeam, IInv, EngineOK, MovesOK, FreshOK, EligiblePairs, Eligible, WithinCapacity
<1>8. PoolsAreFresh'
  <2> SUFFICES ASSUME NEW u \in loaded \cup {t}, NEW a \in Range(pool'[u])
               PROVE  <<u, a>> \in fresh
    BY DEF LoadTeam, PoolsAreFresh
  <2>1. CASE u = t
    <3>1. a \in Eligible(t)
      BY <1>2, <1>4, <2>1 DEF IInv, TypeOK
    <3>2. <<t, a>> \in EligiblePairs
      BY <1>1, <3>1 DEF EligiblePairs
    <3> QED
      BY <2>1, <3>2 DEF LoadTeam, IInv, FreshOK
  <2>2. CASE u # t
    <3>1. u \in loaded /\ pool'[u] = pool[u]
      BY <1>2, <2>2 DEF IInv, TypeOK
    <3> QED
      BY <3>1 DEF IInv, PoolsAreFresh
  <2> QED
    BY <2>1, <2>2
<1> QED
  BY <1>6, <1>7, <1>8 DEF IInv

LEMMA NextJobIInv == ASSUME IInv, NextJob PROVE IInv'
<1> USE DEF tables, staff, moves, history
<1>1. CASE work = {}
  <2>1. TypeOK' /\ EngineOK'
    BY <1>1 DEF NextJob, IInv, TypeOK, EngineOK
  <2> QED
    BY <1>1, <2>1, EngineMoves DEF NextJob
<1>2. CASE work # {}
  <2>1. PICK p \in work : work' = work \ {p} /\ job' = p /\ tries' = Len(pool[p[2]]) /\ epc' = "try"
    BY <1>2 DEF NextJob
  <2>2. p \in Conversations \X Teams /\ pool[p[2]] \in Seq(Agents)
    BY <2>1 DEF IInv, TypeOK
  <2>3. Len(pool[p[2]]) \in Nat
    BY <2>2
  <2>4. TypeOK'
    BY <2>1, <2>2, <2>3 DEF NextJob, IInv, TypeOK
  <2>5. EngineOK'
    BY <2>1, <2>2, <2>3 DEF NextJob, EngineOK
  <2> QED
    BY <2>1, <2>4, <2>5, EngineMoves DEF NextJob
<1> QED
  BY <1>1, <1>2

LEMMA GetIInv == ASSUME IInv, Get PROVE IInv'
<1> USE DEF tables, staff, moves, history
<1> DEFINE t == job[2]
           p == pool[t]
           q == Append(Tail(p), Head(p))
<1>1. job \in Conversations \X Teams /\ p \in Seq(Agents) /\ tries \in Nat /\ Len(p) > 0
      /\ tries <= Len(p) /\ tries > 0
  <2>1. job \in Conversations \X Teams /\ tries > 0 /\ tries <= Len(p) /\ tries \in Nat
    BY DEF Get, IInv, EngineOK, TypeOK
  <2>2. p \in Seq(Agents)
    BY <2>1 DEF IInv, TypeOK
  <2> QED
    BY <2>1, <2>2
<1>2. /\ cand' = Head(p) /\ pool' = [pool EXCEPT ![t] = q] /\ tries' = tries - 1 /\ epc' = "count"
      /\ job' = job
  BY DEF Get
<1>3. Head(p) \in Agents /\ q \in Seq(Agents) /\ Len(q) = Len(p) /\ Range(q) \subseteq Range(p)
  BY <1>1, RotationKeeps
<1>4. t \in Teams
  BY <1>1
<1> HIDE DEF p, q, t
<1>5. TypeOK'
  <2>1. pool' \in [Teams -> Seq(Agents)] /\ tries' \in Nat /\ cand' \in Agents
    BY <1>1, <1>2, <1>3, <1>4 DEF IInv, TypeOK
  <2> QED
    BY <1>2, <2>1 DEF Get, IInv, TypeOK
<1>6. pool'[t] = q
  BY <1>2, <1>4 DEF IInv, TypeOK
<1>7. EngineOK'
  <2>1. t \in loaded => <<t, Head(p)>> \in fresh
    <3>1. Head(p) \in Range(p)
      BY <1>1 DEF Range
    <3> QED
      BY <3>1, <1>4 DEF IInv, PoolsAreFresh, p
  <2>2. job'[2] = t /\ loaded' = loaded /\ fresh' = fresh /\ pool'[job'[2]] = q
    BY <1>2, <1>6 DEF Get, t
  <2>3. tries' \in Nat /\ tries' <= Len(q)
    BY <1>1, <1>2, <1>3
  <2> QED
    BY <1>1, <1>2, <1>3, <2>1, <2>2, <2>3 DEF EngineOK
<1>8. MovesOK' /\ FreshOK' /\ WithinCapacity'
  BY <1>2 DEF Get, IInv, MovesOK, FreshOK, WithinCapacity
<1>9. PoolsAreFresh'
  <2>1. \A u \in Teams : Range(pool'[u]) \subseteq Range(pool[u])
    BY <1>2, <1>3, <1>6 DEF IInv, TypeOK, p
  <2> QED
    BY <2>1 DEF Get, IInv, TypeOK, PoolsAreFresh
<1> QED
  BY <1>5, <1>7, <1>8, <1>9 DEF IInv

(* The engine goes on to claim for an agent who has room by its count. *)
LEMMA CountIInv == ASSUME IInv, Count PROVE IInv'
<1> USE DEF tables, staff, moves, history, Count
<1>1. TypeOK' /\ EngineOK'
  BY DEF IInv, TypeOK, EngineOK
<1>2. MovesOK' /\ FreshOK' /\ PoolsAreFresh'
  BY DEF IInv, MovesOK, FreshOK, PoolsAreFresh
<1>3. WithinCapacity'
  <2>1. Active(cand)' = Cardinality({c \in Conversations : agent[c] = cand' /\ status[c] = "open"})
    BY DEF Active
  <2>2. epc' = "claim" /\ MaxAuto # 0 => cand' = cand /\ ~(Active(cand) >= MaxAuto)
    OBVIOUS
  <2>3. Active(cand) \in Nat /\ MaxAuto \in Nat
    BY ActiveType, AssignmentAssumption
  <2> QED
    BY <2>1, <2>2, <2>3 DEF WithinCapacity, Active
<1> QED
  BY <1>1, <1>2, <1>3 DEF IInv

LEMMA ClaimIInv == ASSUME IInv, Claim PROVE IInv'
<1> USE DEF staff, moves
<1>1. job \in Conversations \X Teams /\ cand \in Agents
  BY DEF Claim, IInv, EngineOK
<1>2. TypeOK'
  BY <1>1 DEF Claim, IInv, TypeOK, NoJob
<1>3. EngineOK' /\ MovesOK' /\ FreshOK' /\ PoolsAreFresh' /\ WithinCapacity'
  BY DEF Claim, IInv, EngineOK, MovesOK, FreshOK, PoolsAreFresh, WithinCapacity
<1> QED
  BY <1>2, <1>3 DEF IInv

-----------------------------------------------------------------------------
(* What people do to the tables gives the candidate more work only if it   *)
(* is recorded.                                                            *)
LEMMA TablesIInv ==
  ASSUME IInv, TypeOK', MovesOK', UNCHANGED <<staff, engine, fresh, loaded>>,
         given \subseteq given',
         \A a \in Agents : Of(a)' \subseteq Of(a) \/ a \in given'
  PROVE  IInv'
<1> USE DEF staff, engine
<1>1. FreshOK'
  BY DEF IInv, FreshOK, EligiblePairs, Eligible
<1>2. WithinCapacity'
  <2> SUFFICES ASSUME epc = "claim", MaxAuto # 0, cand \notin given'
               PROVE  Active(cand)' < MaxAuto
    BY DEF WithinCapacity, Active
  <2>1. cand \in Agents /\ Active(cand) < MaxAuto
    BY DEF IInv, EngineOK, WithinCapacity
  <2>2. Of(cand)' \subseteq Of(cand)
    BY <2>1
  <2> QED
    BY <2>1, <2>2, ActiveShrinks, ActiveType, AssignmentAssumption
<1> QED
  BY <1>1, <1>2, EngineKept

LEMMA UnassignKeeps ==
  ASSUME IInv, NEW C \in SUBSET Conversations, Unassign(C)
  PROVE  /\ agent' \in [Conversations -> Agents \cup {None}]
         /\ claimedFor' \in [Conversations -> Teams \cup {None}]
         /\ \A c \in Conversations : agent'[c] \in {agent[c], None}
BY DEF IInv, TypeOK, Unassign

LEMMA ConversationIInv ==
  ASSUME IInv, NEW c \in Conversations,
         \/ \E a \in Agents : Assign(c, a)
         \/ RemoveAgent(c) \/ RemoveTeam(c) \/ ReOpen(c)
         \/ \E s \in {"open", "waiting", "resolved"} : SetStatus(c, s)
  PROVE  IInv'
<1> USE DEF Event
<1>0. None \notin Agents
  BY AssignmentAssumption
<1>1. ASSUME NEW a \in Agents, Assign(c, a) PROVE IInv'
  <2> USE <1>1 DEF Assign
  <2>1. TypeOK' /\ MovesOK'
    BY AssignmentAssumption DEF IInv, TypeOK, MovesOK, staff, engine, moves
  <2>2. \A b \in Agents : b # a => Of(b)' \subseteq Of(b)
    BY DEF Of, IInv, TypeOK
  <2> QED
    BY <2>1, <2>2, TablesIInv
<1>2. CASE RemoveAgent(c)
  <2> USE <1>2 DEF RemoveAgent
  <2>1. TypeOK' /\ MovesOK'
    BY AssignmentAssumption, UnassignKeeps DEF IInv, TypeOK, MovesOK, staff, engine, moves
  <2>2. \A b \in Agents : Of(b)' \subseteq Of(b)
    BY <1>0, UnassignKeeps DEF Of
  <2> QED
    BY <2>1, <2>2, TablesIInv
<1>3. CASE RemoveTeam(c)
  <2> USE <1>3 DEF RemoveTeam, history
  <2>1. TypeOK' /\ MovesOK'
    BY AssignmentAssumption DEF IInv, TypeOK, MovesOK, staff, engine, moves
  <2>2. \A b \in Agents : Of(b)' \subseteq Of(b)
    BY DEF Of
  <2> QED
    BY <2>1, <2>2, TablesIInv
<1>4. ASSUME NEW s \in {"open", "waiting", "resolved"}, SetStatus(c, s) PROVE IInv'
  <2> USE <1>4 DEF SetStatus
  <2>1. TypeOK' /\ MovesOK'
    BY AssignmentAssumption DEF IInv, TypeOK, MovesOK, staff, engine, moves
  <2>2. \A b \in Agents : Of(b)' \subseteq Of(b) \/ b \in given'
    BY <1>0 DEF Of, IInv, TypeOK
  <2> QED
    BY <2>1, <2>2, TablesIInv
<1>5. CASE ReOpen(c)
  <2> USE <1>5 DEF ReOpen
  <2>1. CASE agent[c] # None /\ available[agent[c]] = "away_and_reassigning"
    <3>1. Unassign({c}) /\ given' = given
      BY <2>1
    <3>2. TypeOK' /\ MovesOK'
      BY <3>1, AssignmentAssumption, UnassignKeeps
      DEF IInv, TypeOK, MovesOK, staff, engine, moves
    <3>3. \A b \in Agents : Of(b)' \subseteq Of(b)
      BY <1>0, <3>1 DEF Of, IInv, TypeOK, Unassign
    <3> QED
      BY <3>1, <3>2, <3>3, TablesIInv
  <2>2. CASE ~(agent[c] # None /\ available[agent[c]] = "away_and_reassigning")
    <3>1. TypeOK' /\ MovesOK'
      BY <2>2, AssignmentAssumption DEF IInv, TypeOK, MovesOK, staff, engine, moves
    <3>2. \A b \in Agents : Of(b)' \subseteq Of(b) \/ b \in given'
      BY <1>0, <2>2 DEF Of, IInv, TypeOK
    <3> QED
      BY <2>2, <3>1, <3>2, TablesIInv
  <2> QED
    BY <2>1, <2>2
<1> QED
  BY <1>1, <1>2, <1>3, <1>4, <1>5

(* Changes of the staff make nobody less fresh. *)
LEMMA StaffIInv ==
  ASSUME IInv, TypeOK', UNCHANGED <<tables, engine, moves, given, loaded>>,
         fresh \subseteq fresh', EligiblePairs' \subseteq fresh' \/ EligiblePairs' \subseteq EligiblePairs
  PROVE  IInv'
<1> USE DEF tables, engine, moves
<1>1. MovesOK' /\ WithinCapacity' /\ FreshOK'
  BY DEF IInv, MovesOK, WithinCapacity, Active, FreshOK
<1> QED
  BY <1>1, EngineKept

LEMMA AgentIInv ==
  ASSUME IInv, NEW a \in Agents,
         \/ \E s \in Availability : SetAvailability(a, s)
         \/ \E t \in Teams : SetMember(t, a)
         \/ DeleteAgent(a) \/ UnassignOpen(a) \/ UnassignOpenFails(a)
  PROVE  IInv'
<1> USE DEF Event
<1>1. ASSUME NEW s \in Availability, SetAvailability(a, s) PROVE IInv'
  <2> USE <1>1 DEF SetAvailability
  <2>1. EligiblePairs' \subseteq Teams \X Agents
    BY DEF EligiblePairs
  <2>2. TypeOK'
    BY <2>1, AssignmentAssumption DEF IInv, TypeOK, tables, engine, moves
  <2> QED
    BY <2>2, StaffIInv
<1>2. ASSUME NEW t \in Teams, SetMember(t, a) PROVE IInv'
  <2> USE <1>2 DEF SetMember
  <2>1. EligiblePairs' \subseteq Teams \X Agents
    BY DEF EligiblePairs
  <2>2. TypeOK'
    BY <2>1, AssignmentAssumption DEF IInv, TypeOK, tables, engine, moves
  <2> QED
    BY <2>2, StaffIInv
<1>3. CASE DeleteAgent(a)
  <2> USE <1>3 DEF DeleteAgent, history
  <2>1. TypeOK'
    BY AssignmentAssumption DEF IInv, TypeOK, tables, engine, moves
  <2>2. EligiblePairs' \subseteq EligiblePairs
    BY DEF EligiblePairs, Eligible
  <2> QED
    BY <2>1, <2>2, StaffIInv
<1>4. CASE UnassignOpenFails(a)
  <2> USE <1>4 DEF UnassignOpenFails, history
  <2>1. TypeOK'
    BY DEF IInv, TypeOK, tables, engine, moves
  <2>2. EligiblePairs' \subseteq EligiblePairs
    BY DEF EligiblePairs, Eligible
  <2> QED
    BY <2>1, <2>2, StaffIInv
<1>5. CASE UnassignOpen(a)
  <2> USE <1>5 DEF UnassignOpen
  <2> DEFINE C == {c \in Conversations : agent[c] = a /\ status[c] # "resolved"}
  <2>1. /\ agent' \in [Conversations -> Agents \cup {None}]
        /\ claimedFor' \in [Conversations -> Teams \cup {None}]
        /\ \A c \in Conversations : agent'[c] \in {agent[c], None}
    <3>1. C \in SUBSET Conversations /\ Unassign(C)
      OBVIOUS
    <3> HIDE DEF C
    <3> QED
      BY <3>1, UnassignKeeps
  <2>2. TypeOK'
    BY <2>1 DEF IInv, TypeOK, engine, moves
  <2>3. \A b \in Agents : Of(b)' \subseteq Of(b)
    BY <2>1, AssignmentAssumption DEF Of
  <2>4. FreshOK' /\ MovesOK'
    BY DEF IInv, FreshOK, EligiblePairs, Eligible, MovesOK, engine, moves
  <2>5. WithinCapacity'
    <3> SUFFICES ASSUME NEW b, b = cand, epc = "claim", MaxAuto # 0, b \notin given
                 PROVE  Active(b)' < MaxAuto
      BY DEF WithinCapacity, Active, engine
    <3>1. b \in Agents /\ Active(b) < MaxAuto
      BY DEF IInv, EngineOK, WithinCapacity
    <3>2. Active(b)' <= Active(b) /\ Active(b)' \in Nat /\ Active(b) \in Nat
      BY <2>3, <3>1, ActiveShrinks, ActiveType
    <3> QED
      BY <3>1, <3>2, AssignmentAssumption
  <2> QED
    BY <2>2, <2>4, <2>5, EngineKept DEF engine
<1> QED
  BY <1>1, <1>2, <1>3, <1>4, <1>5

LEMMA SetAssignmentTypeIInv ==
  ASSUME IInv, NEW t \in Teams, SetAssignmentType(t)
  PROVE  IInv'
<1> USE DEF SetAssignmentType, Event
<1>1. TypeOK'
  BY AssignmentAssumption DEF IInv, TypeOK, tables, engine, moves
<1>2. EligiblePairs' \subseteq EligiblePairs
  BY DEF EligiblePairs, Eligible
<1> QED
  BY <1>1, <1>2, StaffIInv

LEMMA MoveIInv ==
  ASSUME IInv, NEW r \in Requests, Move(r)
  PROVE  IInv'
<1> USE DEF Event, MoveEnds
<1>1. ASSUME NEW c \in Conversations, NEW t \in Teams, MoveRead(r, c, t)
      PROVE  IInv'
  <2> USE <1>1 DEF MoveRead, history
  <2>1. TypeOK' /\ MovesOK'
    BY AssignmentAssumption DEF IInv, TypeOK, MovesOK, staff, engine, tables
  <2>2. \A b \in Agents : Of(b)' \subseteq Of(b)
    BY DEF Of, tables
  <2> QED
    BY <2>1, <2>2, TablesIInv
<1>2. CASE MoveSet(r)
  <2> USE <1>2 DEF MoveSet, history
  <2>1. rconv[r] \in Conversations /\ rteam[r] \in Teams
    BY DEF IInv, MovesOK
  <2>2. TypeOK' /\ MovesOK'
    BY <2>1 DEF IInv, TypeOK, MovesOK, staff, engine
  <2>3. \A b \in Agents : Of(b)' \subseteq Of(b)
    BY DEF Of
  <2> QED
    BY <2>2, <2>3, TablesIInv
<1>3. CASE MoveSetFails(r) \/ MoveRecord(r) \/ MoveRecordFails(r)
  <2> USE <1>3 DEF MoveSetFails, MoveRecord, MoveRecordFails, history
  <2>1. TypeOK'
    BY DEF IInv, TypeOK, staff, engine, tables
  <2>2. MovesOK'
    BY DEF IInv, TypeOK, MovesOK
  <2>3. \A b \in Agents : Of(b)' \subseteq Of(b)
    BY DEF Of, tables
  <2> QED
    BY <2>1, <2>2, <2>3, TablesIInv
<1>4. CASE MoveRemove(r)
  <2> USE <1>4 DEF MoveRemove
  <2>1. {rconv[r]} \in SUBSET Conversations
    BY DEF IInv, MovesOK
  <2>2. /\ agent' \in [Conversations -> Agents \cup {None}]
        /\ claimedFor' \in [Conversations -> Teams \cup {None}]
        /\ \A c \in Conversations : agent'[c] \in {agent[c], None}
    <3>1. CASE Unassign({rconv[r]})
      BY <2>1, <3>1, UnassignKeeps
    <3>2. CASE UNCHANGED <<agent, claimedFor>>
      BY <3>2 DEF IInv, TypeOK
    <3> QED
      BY <3>1, <3>2
  <2>3. TypeOK'
    BY <2>2 DEF IInv, TypeOK, staff, engine
  <2>4. MovesOK'
    BY DEF IInv, TypeOK, MovesOK
  <2>5. \A b \in Agents : Of(b)' \subseteq Of(b)
    BY <2>2, AssignmentAssumption DEF Of
  <2> QED
    BY <2>3, <2>4, <2>5, TablesIInv
<1> QED
  BY <1>1, <1>2, <1>3, <1>4 DEF Move

LEMMA StepIInv == IInv /\ [Next]_vars => IInv'
<1> SUFFICES ASSUME IInv, [Next]_vars PROVE IInv'
  OBVIOUS
<1>1. CASE Engine
  BY <1>1, SweepIInv, LoadTeamIInv, NextJobIInv, GetIInv, CountIInv, ClaimIInv DEF Engine
<1>2. CASE EngineErrors
  BY <1>2, SweepIInv, LoadTeamFailsIInv DEF EngineErrors
<1>3. CASE People
  BY <1>3, ConversationIInv, AgentIInv, SetAssignmentTypeIInv DEF People
<1>4. ASSUME NEW r \in Requests, Move(r) PROVE IInv'
  BY <1>4, MoveIInv
<1>5. CASE UNCHANGED vars
  BY <1>5 DEF vars, tables, staff, engine, moves, history, IInv, TypeOK, EngineOK, MovesOK,
              FreshOK, EligiblePairs, Eligible, PoolsAreFresh, WithinCapacity, Active
<1> QED
  BY <1>1, <1>2, <1>3, <1>4, <1>5 DEF Next

(* The inductive invariant of engine, people and moves holds. *)
THEOREM Invariance == Spec => []IInv
BY InitIInv, StepIInv, PTL DEF Spec

(* The variables of engine, tables and moves keep their types. *)
THEOREM TypeCorrect == Spec => []TypeOK
<1>1. IInv => TypeOK
  BY DEF IInv
<1> QED
  BY <1>1, Invariance, PTL

(* populateTeamBalancer leaves nobody in a rotation who was not eligible   *)
(* in this sweep, and getUserFromPool brings nobody in.                    *)
THEOREM RotationsAreFresh == Spec => []PoolsAreFresh
<1>1. IInv => PoolsAreFresh
  BY DEF IInv
<1> QED
  BY <1>1, Invariance, PTL

(* assignConversations claims for an agent below the limit, unless others  *)
(* gave that agent work since the count.                                   *)
THEOREM LimitIsKept == Spec => []WithinCapacity
<1>1. IInv => WithinCapacity
  BY DEF IInv
<1> QED
  BY <1>1, Invariance, PTL

(* The claim statement tests the team again (queries.sql:418), and the     *)
(* candidate came from that team's rotation: a conversation that was moved *)
(* since it was listed goes to nobody who does not belong to its team.     *)
THEOREM ClaimsSuit == Spec => ClaimsSuitTeam
<1> DEFINE Free(c) == agent'[c] # agent[c] /\ claimedFor'[c] # None /\ team[c] \in loaded
                        => <<team[c], agent'[c]>> \in fresh
<1>1. ASSUME IInv, Next, NEW c \in Conversations
      PROVE  Free(c)
  <2>1. CASE UNCHANGED <<agent, claimedFor>>
    BY <2>1
  <2>2. CASE Claim
    <3>1. job \in Conversations \X Teams
          /\ (job[2] \in loaded => <<job[2], cand>> \in fresh)
      BY <1>1, <2>2 DEF Claim, IInv, EngineOK
    <3> QED
      BY <1>1, <2>2, <3>1 DEF Claim, Claimable, IInv, TypeOK
  <2>3. ASSUME NEW C \in SUBSET Conversations, Unassign(C) PROVE Free(c)
    BY <2>3 DEF Unassign
  <2>4. ASSUME NEW d \in Conversations, NEW a \in Agents, Assign(d, a) PROVE Free(c)
    BY <1>1, <2>4 DEF Assign, IInv, TypeOK
  <2>5. CASE \E r \in Requests : MoveRemove(r)
    <3>1. PICK r \in Requests : MoveRemove(r)
      BY <2>5
    <3>2. {rconv[r]} \in SUBSET Conversations
      BY <1>1, <3>1 DEF MoveRemove, IInv, MovesOK
    <3> QED
      BY <2>1, <2>3, <3>1, <3>2 DEF MoveRemove
  <2>6. CASE \E d \in Conversations : RemoveAgent(d) \/ ReOpen(d)
    <3>1. PICK d \in Conversations : Unassign({d}) \/ UNCHANGED <<agent, claimedFor>>
      BY <2>6 DEF RemoveAgent, ReOpen
    <3>2. {d} \in SUBSET Conversations
      OBVIOUS
    <3> QED
      BY <2>1, <2>3, <3>1, <3>2
  <2>7. CASE \E a \in Agents : UnassignOpen(a)
    <3>1. PICK a \in Agents : Unassign({d \in Conversations : agent[d] = a /\ status[d] # "resolved"})
      BY <2>7 DEF UnassignOpen
    <3>2. {d \in Conversations : agent[d] = a /\ status[d] # "resolved"} \in SUBSET Conversations
      OBVIOUS
    <3> QED
      BY <2>3, <3>1, <3>2
  <2>8. CASE Engine \/ EngineErrors
    <3>1. Claim \/ UNCHANGED <<agent, claimedFor>>
      BY <2>8 DEF Engine, EngineErrors, Tick, LoadTeam, Loaded, List, NextJob, Get, Count,
                  ClaimTooLate, GiveUp, TickFails, LoadTeamFails, ListFails, CountFails,
                  ClaimFails, tables, history
    <3> QED
      BY <2>1, <2>2, <3>1
  <2>9. CASE People
    BY <2>1, <2>4, <2>6, <2>7, <2>9
    DEF People, RemoveTeam, SetStatus, SetAvailability, SetMember, DeleteAgent, UnassignOpenFails,
        SetAssignmentType, tables, history
  <2>10. CASE \E r \in Requests : Move(r)
    BY <2>1, <2>5, <2>10
    DEF Move, MoveRead, MoveSet, MoveSetFails, MoveRecord, MoveRecordFails, tables, history
  <2> QED
    BY <1>1, <2>8, <2>9, <2>10 DEF Next
<1>2. IInv /\ [Next]_vars => [\A c \in Conversations : Free(c)]_vars
  BY <1>1
<1> QED
  BY <1>2, Invariance, PTL DEF Spec, ClaimsSuitTeam

-----------------------------------------------------------------------------
(* Media: quotas *)

(* The objects and the space of the files S whose rows are r. *)
ObjectsOf(r, S) == Cardinality(S) + Cardinality({u \in S : r[u].thumb > 0})
UnitsOf(r, S) == {x \in S \X (0..Reserve) : x[2] <= r[x[1]].thumb}
SizeOf(r, S) == Cardinality(UnitsOf(r, S))

MediaRows == [Uploads -> Row]

LEMMA UploadsFinite ==
  ASSUME NEW r \in MediaRows, NEW S \in SUBSET Uploads
  PROVE  /\ IsFiniteSet(S) /\ IsFiniteSet({u \in S : r[u].thumb > 0}) /\ IsFiniteSet(UnitsOf(r, S))
         /\ ObjectsOf(r, S) \in Nat /\ SizeOf(r, S) \in Nat
<1>1. IsFiniteSet(S)
  <2>1. IsFiniteSet(Uploads)
    BY MediaAssumption
  <2> QED
    BY <2>1, FS_Subset
<1>2. IsFiniteSet({u \in S : r[u].thumb > 0})
  <2>1. {u \in S : r[u].thumb > 0} \in SUBSET S
    OBVIOUS
  <2> QED
    BY <1>1, <2>1, FS_Subset
<1>3. IsFiniteSet(S \X (0..Reserve))
  <2>1. IsFiniteSet(0..Reserve)
    BY FS_Interval, MediaAssumption
  <2> QED
    BY <1>1, <2>1, FS_Product
<1>4. IsFiniteSet(UnitsOf(r, S))
  BY <1>3, FS_Subset DEF UnitsOf
<1> QED
  BY <1>1, <1>2, <1>4, FS_CardinalityType DEF ObjectsOf, SizeOf

(* Fewer files with no larger thumbnails take no more room. *)
LEMMA FewerTakeLess ==
  ASSUME NEW r \in MediaRows, NEW s \in MediaRows, NEW S \in SUBSET Uploads, NEW T \in SUBSET S,
         \A u \in T : s[u].thumb <= r[u].thumb
  PROVE  ObjectsOf(s, T) <= ObjectsOf(r, S) /\ SizeOf(s, T) <= SizeOf(r, S)
<1>1. Cardinality(T) <= Cardinality(S)
  BY UploadsFinite, FS_Subset
<1>2. Cardinality({u \in T : s[u].thumb > 0}) <= Cardinality({u \in S : r[u].thumb > 0})
  <2>1. {u \in T : s[u].thumb > 0} \subseteq {u \in S : r[u].thumb > 0}
    BY MediaAssumption DEF MediaRows, Row
  <2> QED
    BY <2>1, UploadsFinite, FS_Subset
<1>3. UnitsOf(s, T) \subseteq UnitsOf(r, S)
  <2> SUFFICES ASSUME NEW x \in UnitsOf(s, T) PROVE x \in UnitsOf(r, S)
    OBVIOUS
  <2>1. x \in T \X (0..Reserve) /\ x[2] <= s[x[1]].thumb
    BY DEF UnitsOf
  <2>2. x[1] \in T /\ x[2] \in 0..Reserve
    BY <2>1
  <2>3. r[x[1]].thumb \in 0..Reserve /\ s[x[1]].thumb \in 0..Reserve /\ s[x[1]].thumb <= r[x[1]].thumb
    BY <2>2 DEF MediaRows, Row
  <2>4. x[2] <= r[x[1]].thumb
    BY <2>1, <2>2, <2>3, MediaAssumption
  <2> QED
    BY <2>1, <2>4 DEF UnitsOf
<1>4. SizeOf(s, T) <= SizeOf(r, S)
  BY <1>3, UploadsFinite, FS_Subset DEF SizeOf
<1>5. /\ Cardinality(T) \in Nat /\ Cardinality({u \in T : s[u].thumb > 0}) \in Nat
      /\ Cardinality(S) \in Nat /\ Cardinality({u \in S : r[u].thumb > 0}) \in Nat
  BY UploadsFinite, FS_CardinalityType
<1> QED
  BY <1>1, <1>2, <1>4, <1>5 DEF ObjectsOf

(* One file more takes its own room. *)
LEMMA OneMoreTakes ==
  ASSUME NEW r \in MediaRows, NEW s \in MediaRows, NEW S \in SUBSET Uploads, NEW u \in Uploads, u \notin S,
         \A v \in S : s[v] = r[v]
  PROVE  /\ ObjectsOf(s, S \union {u}) = ObjectsOf(r, S) + (IF s[u].thumb > 0 THEN 2 ELSE 1)
         /\ SizeOf(s, S \union {u}) <= SizeOf(r, S) + 1 + s[u].thumb
<1> DEFINE t == s[u].thumb
           L == {v \in S : r[v].thumb > 0}
<1>1. t \in 0..Reserve /\ t \in Nat
  BY MediaAssumption DEF MediaRows, Row
<1>2. Cardinality(S \union {u}) = Cardinality(S) + 1
  BY UploadsFinite, FS_AddElement
<1>3. Cardinality({v \in S \union {u} : s[v].thumb > 0}) = Cardinality(L) + (IF t > 0 THEN 1 ELSE 0)
  <2>1. CASE t > 0
    <3>1. {v \in S \union {u} : s[v].thumb > 0} = L \union {u}
      BY <2>1
    <3> QED
      BY <2>1, <3>1, UploadsFinite, FS_AddElement
  <2>2. CASE ~(t > 0)
    <3>1. {v \in S \union {u} : s[v].thumb > 0} = L
      BY <2>2
    <3>2. Cardinality(L) \in Nat
      BY UploadsFinite, FS_CardinalityType
    <3> QED
      BY <2>2, <3>1, <3>2
  <2> QED
    BY <2>1, <2>2
<1>4. ObjectsOf(s, S \union {u}) = ObjectsOf(r, S) + (IF t > 0 THEN 2 ELSE 1)
  <2>1. Cardinality(S) \in Nat /\ Cardinality(L) \in Nat
    BY UploadsFinite, FS_CardinalityType
  <2> QED
    BY <1>2, <1>3, <2>1 DEF ObjectsOf
<1>5. UnitsOf(s, S \union {u}) = UnitsOf(r, S) \union ({u} \X (0..t))
  <2>1. ASSUME NEW x \in UnitsOf(s, S \union {u})
        PROVE  x \in UnitsOf(r, S) \union ({u} \X (0..t))
    <3>1. x \in (S \union {u}) \X (0..Reserve) /\ x[2] <= s[x[1]].thumb
      BY <2>1 DEF UnitsOf
    <3>2. CASE x[1] = u
      BY <1>1, <3>1, <3>2, MediaAssumption
    <3>3. CASE x[1] # u
      BY <3>1, <3>3 DEF UnitsOf
    <3> QED
      BY <3>2, <3>3
  <2>2. ASSUME NEW x \in UnitsOf(r, S) PROVE x \in UnitsOf(s, S \union {u})
    BY <2>2 DEF UnitsOf
  <2>3. ASSUME NEW x \in {u} \X (0..t) PROVE x \in UnitsOf(s, S \union {u})
    BY <1>1, <2>3, MediaAssumption DEF UnitsOf
  <2> QED
    BY <2>1, <2>2, <2>3
<1>6. IsFiniteSet({u} \X (0..t)) /\ Cardinality({u} \X (0..t)) = t + 1
  <2> DEFINE A == {u}
             B == 0..t
  <2>1. IsFiniteSet(A) /\ Cardinality(A) = 1
    BY FS_Singleton
  <2>2. IsFiniteSet(B) /\ Cardinality(B) = t + 1
    BY <1>1, FS_Interval
  <2> HIDE DEF A, B
  <2>3. IsFiniteSet(A \X B) /\ Cardinality(A \X B) = Cardinality(A) * Cardinality(B)
    BY <2>1, <2>2, FS_Product
  <2>4. Cardinality(A \X B) = t + 1
    BY <1>1, <2>1, <2>2, <2>3
  <2> QED
    BY <2>3, <2>4 DEF A, B
<1>7. SizeOf(s, S \union {u}) <= SizeOf(r, S) + 1 + t
  <2> DEFINE A == UnitsOf(r, S)
             B == {u} \X (0..t)
  <2>1. IsFiniteSet(A) /\ Cardinality(A) \in Nat
    BY UploadsFinite, FS_CardinalityType
  <2>2. Cardinality(A \union B) = Cardinality(A) + Cardinality(B) - Cardinality(A \intersect B)
    BY <1>6, <2>1, FS_Union
  <2>3. Cardinality(A \intersect B) \in Nat
    BY <2>1, FS_Intersection, FS_CardinalityType
  <2> HIDE DEF A, B
  <2>4. Cardinality(A \union B) <= Cardinality(A) + 1 + t
    BY <1>1, <1>6, <2>1, <2>2, <2>3 DEF B
  <2> QED
    BY <1>5, <2>4 DEF A, B, SizeOf
<1> QED
  BY <1>4, <1>7

-----------------------------------------------------------------------------
(* Before its row is inserted a file has none, and is in nobody's hands;  *)
(* the collector takes none whose storing may still be undone.            *)
Early == {"idle", "thumb", "file", "quota", "owner", "insert"}
Late == {"held", "message", "attach", "done"}
InHand == sweep.rest \union ({sweep.file} \ {Nobody})
Stale == {u \in Rows : row[u].stale}
PastOK == /\ \A u \in Rows \union merge.moved : at[u] \notin Early
          /\ \A u \in InHand \union Stale : at[u] \in Late

(* Who has a lock has the room it was taken for; a reserve is as large as  *)
(* what takes its place.                                                   *)
RoomOK ==
  \A u \in Uploads :
    /\ at[u] \in {"owner", "insert"} => quotaLock = u /\ Objects(Rows) + NewObjects(u) <= MaxObjects
    /\ at[u] = "insert" => /\ userLock[Uploader[u]] = u /\ Uploader[u] \in people
                           /\ Size(OwnedBy({Uploader[u]})) + 1 + NewThumb(u) <= MaxOwned
ReserveOK ==
  \A u \in Uploads :
    /\ at[u] = "settle" => u \in Images \ ByAgent
    /\ at[u] \in {"read back", "settle"} /\ u \in Images \ ByAgent => row[u].thumb = Reserve

(* A merge has both owners locked, and what they own together fits. *)
MergeOK ==
  /\ merge.at \in {"move", "commit"} =>
       /\ userLock[Visitor] = Visitor /\ userLock[Contact] = Visitor /\ {Visitor, Contact} \subseteq people
       /\ MergeFits
  /\ merge.at = "commit" =>
       /\ OwnedBy({Visitor}) \subseteq merge.moved
       /\ merge.moved \intersect Rows \subseteq OwnedBy({Visitor})

QuotaIInv == MediaTypeOK /\ PastOK /\ RoomOK /\ ReserveOK /\ MergeOK /\ QuotasKept

(* Room is measured by the rows alone, before and after a step. *)
LEMMA Measures ==
  /\ \A S : Objects(S) = ObjectsOf(row, S) /\ Size(S) = SizeOf(row, S)
  /\ Objects(Rows)' = ObjectsOf(row', Rows')
  /\ \A P : Size(OwnedBy(P))' = SizeOf(row', OwnedBy(P)')
  /\ \A P : OwnedBy(P) \subseteq Rows /\ OwnedBy(P)' \subseteq Rows'
  /\ Rows \subseteq Uploads /\ Rows' \subseteq Uploads
BY DEF Objects, ObjectsOf, Size, Units, SizeOf, UnitsOf, OwnedBy, Rows

LEMMA MediaInitQuota == MediaInit => QuotaIInv
<1> SUFFICES ASSUME MediaInit PROVE QuotaIInv
  OBVIOUS
<1> USE DEF MediaInit
<1>1. MediaTypeOK
  BY MediaAssumption DEF MediaTypeOK, Places, Resting, Row, NoRow
<1>2. Rows = {} /\ \A P : OwnedBy(P) = {}
  BY DEF Rows, NoRow, OwnedBy
<1>3. PastOK /\ RoomOK /\ ReserveOK /\ MergeOK
  BY <1>2 DEF PastOK, RoomOK, ReserveOK, MergeOK, InHand, Stale, Resting
<1>4. ObjectsOf(row, {}) = 0 /\ SizeOf(row, {}) = 0
  <2>1. {u \in {} : row[u].thumb > 0} = {} /\ UnitsOf(row, {}) = {}
    BY DEF UnitsOf
  <2> QED
    BY <2>1, FS_EmptySet DEF ObjectsOf, SizeOf
<1>5. QuotasKept
  BY <1>2, <1>4, Measures, MediaAssumption DEF QuotasKept
<1> QED
  BY <1>1, <1>3, <1>5 DEF QuotaIInv

(* The rows that stay have the same owners, and no larger thumbnails. *)
RowsShrink ==
  /\ row' \in MediaRows /\ Rows' \subseteq Rows
  /\ \A u \in Rows' : row'[u].owner = row[u].owner /\ row'[u].thumb <= row[u].thumb

LEMMA ShrinkTakesLess ==
  ASSUME QuotaIInv, RowsShrink
  PROVE  /\ Objects(Rows)' \in Nat /\ Objects(Rows) \in Nat /\ Objects(Rows)' <= Objects(Rows)
         /\ \A P : /\ OwnedBy(P)' = OwnedBy(P) \intersect Rows'
                   /\ Size(OwnedBy(P))' \in Nat /\ Size(OwnedBy(P)) \in Nat
                   /\ Size(OwnedBy(P))' <= Size(OwnedBy(P))
<1>1. row \in MediaRows
  BY DEF QuotaIInv, MediaTypeOK, MediaRows
<1>2. Rows \in SUBSET Uploads /\ Rows' \in SUBSET Rows /\ row' \in MediaRows
  BY Measures DEF RowsShrink
<1>3. \A u \in Rows' : row'[u].thumb <= row[u].thumb
  BY DEF RowsShrink
<1>4. ObjectsOf(row', Rows') <= ObjectsOf(row, Rows) /\ ObjectsOf(row', Rows') \in Nat /\ ObjectsOf(row, Rows) \in Nat
  BY <1>1, <1>2, <1>3, FewerTakeLess, UploadsFinite
<1>5. ASSUME NEW P
      PROVE  /\ OwnedBy(P)' = OwnedBy(P) \intersect Rows'
             /\ Size(OwnedBy(P))' \in Nat /\ Size(OwnedBy(P)) \in Nat
             /\ Size(OwnedBy(P))' <= Size(OwnedBy(P))
  <2>1. OwnedBy(P)' = OwnedBy(P) \intersect Rows'
    BY DEF OwnedBy, RowsShrink
  <2>2. OwnedBy(P) \in SUBSET Uploads /\ OwnedBy(P)' \in SUBSET OwnedBy(P)
    BY <2>1, Measures
  <2>3. \A u \in OwnedBy(P)' : row'[u].thumb <= row[u].thumb
    BY <1>3, <2>1
  <2>4. SizeOf(row', OwnedBy(P)') <= SizeOf(row, OwnedBy(P))
    BY <1>1, <1>2, <2>2, <2>3, FewerTakeLess
  <2>5. SizeOf(row', OwnedBy(P)') \in Nat /\ SizeOf(row, OwnedBy(P)) \in Nat
    BY <1>1, <1>2, <2>2, UploadsFinite
  <2> QED
    BY <2>1, <2>4, <2>5, Measures
<1> QED
  BY <1>4, <1>5, Measures

(* Steps that take no lock, insert no row and end no merge: most of them. *)
LEMMA QuietQuota ==
  ASSUME QuotaIInv, MediaTypeOK', RowsShrink, ReserveOK',
         \A u \in Uploads : at'[u] \in {"owner", "insert"} =>
           at[u] = at'[u] /\ quotaLock' = quotaLock /\ NewThumb(u)' = NewThumb(u),
         \A p \in Users : userLock'[p] = userLock[p]
           \/ (userLock[p] \in Uploads /\ at'[userLock[p]] \notin {"owner", "insert"}),
         \A u \in Uploads : /\ at[u] \notin Early => at'[u] \notin Early
                            /\ at[u] \in Late => at'[u] \in Late,
         InHand' \union Stale' \subseteq {u \in Uploads : at[u] \in Late},
         UNCHANGED <<people, merge>>
  PROVE  QuotaIInv'
<1>1. PastOK'
  <2>1. Rows \union merge.moved \subseteq Uploads
    <3>1. MediaTypeOK
      BY DEF QuotaIInv
    <3>2. merge.moved \subseteq Uploads
      BY <3>1 DEF MediaTypeOK
    <3> QED
      BY <3>2 DEF Rows
  <2>2. Rows' \union merge'.moved \subseteq Rows \union merge.moved
    BY DEF RowsShrink
  <2>3. PastOK
    BY DEF QuotaIInv
  <2> QED
    BY <2>1, <2>2, <2>3 DEF PastOK
<1>2. MergeOK'
  <2>1. MergeFits => MergeFits'
    <3>1. /\ Size(OwnedBy({Visitor, Contact}))' \in Nat /\ Size(OwnedBy({Visitor, Contact})) \in Nat
          /\ Size(OwnedBy({Visitor, Contact}))' <= Size(OwnedBy({Visitor, Contact}))
      BY ShrinkTakesLess
    <3> QED
      BY <3>1, MediaAssumption DEF MergeFits
  <2>2. OwnedBy({Visitor})' = OwnedBy({Visitor}) \intersect Rows' /\ Rows' \subseteq Rows
    BY ShrinkTakesLess DEF RowsShrink
  <2>3. MergeOK
    BY DEF QuotaIInv
  <2>4. merge.at = "commit" => /\ OwnedBy({Visitor})' \subseteq merge.moved
                               /\ merge.moved \intersect Rows' \subseteq OwnedBy({Visitor})'
    BY <2>2, <2>3 DEF MergeOK
  <2>5. userLock[Visitor] = Visitor => userLock'[Visitor] = Visitor
    BY MediaAssumption
  <2>6. userLock[Contact] = Visitor => userLock'[Contact] = Visitor
    BY MediaAssumption
  <2> QED
    BY <2>1, <2>3, <2>4, <2>5, <2>6 DEF MergeOK
<1>3. QuotasKept'
  <2>1. QuotasKept
    BY DEF QuotaIInv
  <2>2. Objects(Rows)' <= MaxObjects
    BY <2>1, ShrinkTakesLess, MediaAssumption DEF QuotasKept
  <2>3. ASSUME NEW p \in people PROVE Size(OwnedBy({p}))' <= MaxOwned
    <3>1. Size(OwnedBy({p}))' \in Nat /\ Size(OwnedBy({p})) \in Nat /\ Size(OwnedBy({p}))' <= Size(OwnedBy({p}))
      BY ShrinkTakesLess
    <3> QED
      BY <2>1, <3>1, MediaAssumption DEF QuotasKept
  <2>4. \A u \in Rows' : row'[u].owner \in people'
    BY <2>1 DEF QuotasKept, RowsShrink
  <2> QED
    BY <2>2, <2>3, <2>4 DEF QuotasKept
<1>4. RoomOK'
  <2> SUFFICES ASSUME NEW u \in Uploads, at'[u] \in {"owner", "insert"}
               PROVE  /\ quotaLock' = u /\ Objects(Rows)' + NewObjects(u)' <= MaxObjects
                      /\ at'[u] = "insert" => /\ userLock'[Uploader[u]] = u /\ Uploader[u] \in people'
                                              /\ Size(OwnedBy({Uploader[u]}))' + 1 + NewThumb(u)' <= MaxOwned
    BY DEF RoomOK
  <2>1. at[u] = at'[u] /\ quotaLock' = quotaLock /\ NewThumb(u)' = NewThumb(u) /\ NewObjects(u)' = NewObjects(u)
    BY DEF NewObjects
  <2>2. NewThumb(u) \in Nat /\ NewObjects(u) \in {1, 2}
    BY MediaAssumption DEF NewThumb, NewObjects, ThumbSize
  <2>3. quotaLock = u /\ Objects(Rows) + NewObjects(u) <= MaxObjects
    BY <2>1 DEF QuotaIInv, RoomOK
  <2>4. at[u] = "insert" => /\ userLock[Uploader[u]] = u /\ Uploader[u] \in people
                           /\ Size(OwnedBy({Uploader[u]})) + 1 + NewThumb(u) <= MaxOwned
    BY DEF QuotaIInv, RoomOK
  <2>5. Objects(Rows)' + NewObjects(u) <= MaxObjects
    BY <2>2, <2>3, ShrinkTakesLess, MediaAssumption
  <2>6. at[u] = "insert" => Size(OwnedBy({Uploader[u]}))' + 1 + NewThumb(u) <= MaxOwned
    BY <2>2, <2>4, ShrinkTakesLess, MediaAssumption
  <2>7. at[u] = "insert" => userLock'[Uploader[u]] = u
    BY <2>1, <2>4, MediaAssumption
  <2> QED
    BY <2>1, <2>3, <2>4, <2>5, <2>6, <2>7
<1> QED
  BY <1>1, <1>2, <1>3, <1>4 DEF QuotaIInv

(* One upload goes on, and no other is disturbed. *)
LEMMA QuietStep ==
  ASSUME QuotaIInv, MediaTypeOK', RowsShrink,
         NEW u \in Uploads, NEW place, at' = [at EXCEPT ![u] = place],
         place \notin {"owner", "insert"}, at[u] \notin Early => place \notin Early, at[u] \in Late => place \in Late,
         \A v \in Uploads \ {u} : row'[v] = row[v] /\ (v \in thumbs' <=> v \in thumbs),
         row'[u].there /\ row'[u].stale => (at[u] \in Late \/ row[u].stale),
         place = "settle" => u \in Images \ ByAgent,
         place \in {"read back", "settle"} /\ u \in Images \ ByAgent => row'[u].thumb = Reserve,
         quotaLock' = quotaLock \/ quotaLock = u,
         \A p \in Users : userLock'[p] = userLock[p] \/ userLock[p] = u,
         UNCHANGED <<people, merge, sweep>>
  PROVE  QuotaIInv'
<1>0. MediaTypeOK /\ PastOK /\ RoomOK /\ ReserveOK
  BY DEF QuotaIInv
<1>1. at \in [Uploads -> Places] /\ Nobody \notin Uploads
  BY <1>0, MediaAssumption DEF MediaTypeOK
<1>2. at'[u] = place /\ \A v \in Uploads \ {u} : at'[v] = at[v]
  BY <1>1
<1>3. ReserveOK'
  BY <1>0, <1>2 DEF ReserveOK
<1>4. ASSUME NEW v \in Uploads, at'[v] \in {"owner", "insert"}
      PROVE  at[v] = at'[v] /\ quotaLock' = quotaLock /\ NewThumb(v)' = NewThumb(v)
  <2>1. v # u /\ at[v] = at'[v]
    BY <1>2, <1>4
  <2>2. quotaLock = v
    BY <1>0, <1>4, <2>1 DEF RoomOK
  <2>3. NewThumb(v)' = NewThumb(v)
    BY <2>1 DEF NewThumb
  <2> QED
    BY <2>1, <2>2, <2>3
<1>5. InHand' \union Stale' \subseteq {v \in Uploads : at[v] \in Late}
  <2>1. InHand' = InHand
    BY DEF InHand
  <2>2. InHand \union Stale \subseteq Uploads
    BY <1>0 DEF MediaTypeOK, InHand, Stale, Rows
  <2>3. \A v \in Stale' : v \in Stale \/ (v = u /\ at[u] \in Late)
    BY DEF Stale, RowsShrink, Rows
  <2> QED
    BY <1>0, <2>1, <2>2, <2>3 DEF PastOK
<1>6. \A v \in Uploads : (at[v] \notin Early => at'[v] \notin Early) /\ (at[v] \in Late => at'[v] \in Late)
  BY <1>2
<1>7. \A p \in Users : userLock'[p] = userLock[p]
        \/ (userLock[p] \in Uploads /\ at'[userLock[p]] \notin {"owner", "insert"})
  BY <1>2
<1> QED
  BY <1>3, <1>4, <1>5, <1>6, <1>7, QuietQuota

(* The types, action by action. *)
LEMMA MediaTypeStep == MediaTypeOK /\ [MediaNext]_mediaVars => MediaTypeOK'
<1> SUFFICES ASSUME MediaTypeOK, [MediaNext]_mediaVars PROVE MediaTypeOK'
  OBVIOUS
<1>0. /\ NoRow \in Row /\ Nobody \notin Uploads /\ ThumbSize \in 0..Reserve /\ Reserve \in 0..Reserve /\ 0 \in 0..Reserve
      /\ \A u \in Uploads : InsertedRow(u) \in Row
      /\ \A u \in Uploads : Start(u) \in Places
      /\ Resting \in [at : {"idle", "next", "file", "row", "thumb"}, file : Uploads \union {Nobody}, rest : SUBSET Uploads]
  <2>1. NoRow \in Row /\ ThumbSize \in 0..Reserve /\ Reserve \in 0..Reserve /\ 0 \in 0..Reserve
    BY MediaAssumption DEF NoRow, Row, ThumbSize
  <2>2. ASSUME NEW u \in Uploads PROVE NewThumb(u) \in 0..Reserve /\ Uploader[u] \in Users
    BY <2>1, MediaAssumption DEF NewThumb
  <2>3. \A u \in Uploads : InsertedRow(u) \in Row
    BY <2>2 DEF InsertedRow, Row
  <2> QED
    BY <2>1, <2>3, MediaAssumption DEF Start, Places, Resting
<1>r. row \in [Uploads -> Row]
  BY DEF MediaTypeOK
<1>s. /\ sweep \in [at : {"idle", "next", "file", "row", "thumb"}, file : Uploads \union {Nobody}, rest : SUBSET Uploads]
      /\ sweep.at \in {"file", "row", "thumb"} => sweep.file \in Uploads
  BY DEF MediaTypeOK
<1>t. ASSUME Trouble \/ Smooth PROVE troubles' \in 0..MaxTroubles
  BY <1>t, MediaAssumption DEF Trouble, Smooth, MediaTypeOK
<1> USE DEF storeVars, lockVars, peopleVars, messageVars
<1>1. ASSUME NEW u \in Uploads, Begin(u) \/ PutThumb(u) \/ PutFile(u) \/ LockQuota(u) \/ LockOwner(u)
      PROVE MediaTypeOK'
  <2>1. CASE Begin(u)
    BY <2>1, <1>0, <1>t DEF Begin, MediaTypeOK, Go
  <2>2. CASE PutThumb(u)
    BY <2>2, <1>0, <1>t DEF PutThumb, MediaTypeOK, Go, Places
  <2>3. CASE PutFile(u)
    BY <2>3, <1>0, <1>t DEF PutFile, MediaTypeOK, Go, Places, Undo
  <2>4. CASE LockQuota(u)
    BY <2>4, <1>0, <1>t DEF LockQuota, MediaTypeOK, Go, Places, Undo
  <2>5. CASE LockOwner(u)
    <3>1. at' \in [Uploads -> Places]
      BY <2>5 DEF LockOwner, MediaTypeOK, Go, Places, Undo
    <3>2. quotaLock' \in Uploads \union {Nobody} /\ userLock' \in [Users -> Uploads \union {Nobody, Visitor}]
      BY <2>5 DEF LockOwner, MediaTypeOK
    <3> QED
      BY <2>5, <3>1, <3>2, <1>t DEF LockOwner, MediaTypeOK
  <2> QED
    BY <1>1, <2>1, <2>2, <2>3, <2>4, <2>5
<1>2. ASSUME NEW u \in Uploads, Insert(u) \/ ReadBack(u) \/ PutLateThumb(u) \/ SetThumbnailSize(u)
      PROVE MediaTypeOK'
  <2>1. CASE Insert(u)
    <3>1. at' \in [Uploads -> Places]
      BY <2>1 DEF Insert, MediaTypeOK, Go, Places, Undo
    <3>2. quotaLock' \in Uploads \union {Nobody} /\ userLock' \in [Users -> Uploads \union {Nobody, Visitor}]
      BY <2>1 DEF Insert, MediaTypeOK
    <3>3. row' \in [Uploads -> Row]
      BY <2>1, <1>0, <1>r DEF Insert
    <3> QED
      BY <2>1, <3>1, <3>2, <3>3, <1>t DEF Insert, MediaTypeOK
  <2>2. CASE ReadBack(u)
    BY <2>2, <1>0, <1>t DEF ReadBack, MediaTypeOK, Go, Places, Undo
  <2>3. CASE PutLateThumb(u)
    BY <2>3, <1>0, <1>t DEF PutLateThumb, MediaTypeOK
  <2>4. CASE SetThumbnailSize(u)
    <3>1. at' \in [Uploads -> Places]
      BY <2>4 DEF SetThumbnailSize, MediaTypeOK, Go, Places
    <3>2. row' \in [Uploads -> Row]
      BY <2>4, <1>0, <1>r DEF SetThumbnailSize, Row
    <3> QED
      BY <2>4, <3>1, <3>2, <1>t DEF SetThumbnailSize, MediaTypeOK
  <2> QED
    BY <1>2, <2>1, <2>2, <2>3, <2>4
<1>3. ASSUME NEW u \in Uploads, UndoFile(u) \/ UndoRow(u) \/ UndoThumb(u)
      PROVE MediaTypeOK'
  <2>1. CASE UndoFile(u)
    BY <2>1, <1>0, <1>t DEF UndoFile, MediaTypeOK, Go, Places
  <2>2. CASE UndoRow(u)
    <3>1. at' \in [Uploads -> Places]
      BY <2>2 DEF UndoRow, MediaTypeOK, Go, Places
    <3>2. row' \in [Uploads -> Row]
      BY <2>2, <1>0, <1>r DEF UndoRow
    <3> QED
      BY <2>2, <3>1, <3>2, <1>t DEF UndoRow, MediaTypeOK
  <2>3. CASE UndoThumb(u)
    BY <2>3, <1>0, <1>t DEF UndoThumb, MediaTypeOK, Go, Places
  <2> QED
    BY <1>3, <2>1, <2>2, <2>3
<1>4. ASSUME NEW u \in Uploads, InsertMessage(u) \/ Attach(u) \/ Pick(u) \/ NameInline(u) \/ DayPasses(u)
      PROVE MediaTypeOK'
  <2>1. CASE InsertMessage(u)
    BY <2>1, <1>0, <1>t DEF InsertMessage, MediaTypeOK, Go, Places
  <2>2. CASE Attach(u)
    <3>1. at' \in [Uploads -> Places]
      BY <2>2 DEF Attach, MediaTypeOK, Go, Places
    <3>2. row' \in [Uploads -> Row]
      BY <2>2, <1>r DEF Attach, Row
    <3> QED
      BY <2>2, <3>1, <3>2, <1>t DEF Attach, MediaTypeOK
  <2>3. CASE Pick(u)
    BY <2>3, <1>0, <1>t DEF Pick, MediaTypeOK, Go, Places
  <2>5. CASE NameInline(u)
    BY <2>5, <1>0, <1>t DEF NameInline, MediaTypeOK, Go, Places
  <2>4. CASE DayPasses(u)
    BY <2>4, <1>0, <1>t DEF DayPasses, MediaTypeOK, Row
  <2> QED
    BY <1>4, <2>1, <2>2, <2>3, <2>4, <2>5
<1>5. CASE Merge
  <2>1. CASE MergeLock
    BY <2>1, <1>t, MediaAssumption DEF MergeLock, MediaTypeOK
  <2>2. CASE MergeMove
    BY <2>2, <1>t DEF MergeMove, MediaTypeOK, OwnedBy, Rows
  <2>3. CASE MergeCommit
    <3>1. \A u \in Uploads : [row[u] EXCEPT !.owner = NewOwner(u)] \in Row
      BY MediaAssumption DEF NewOwner, MediaTypeOK, Row
    <3>2. row' \in [Uploads -> Row] /\ people' \subseteq Users
      <4>1. CASE UNCHANGED <<row, people>>
        BY <4>1 DEF MediaTypeOK
      <4>2. CASE ~UNCHANGED <<row, people>>
        BY <2>3, <3>1, <4>2 DEF MergeCommit, MediaTypeOK
      <4> QED
        BY <4>1, <4>2
    <3> QED
      BY <2>3, <3>2, <1>t, MediaAssumption DEF MergeCommit, MediaTypeOK, MergeEnd
  <2> QED
    BY <1>5, <2>1, <2>2, <2>3 DEF Merge
<1>6. CASE Sweep
  <2>1. CASE SweepList
    BY <2>1, <1>t DEF SweepList, MediaTypeOK, Unlinked, Rows
  <2>2. CASE SweepNext
    <3>1. /\ sweep' \in [at : {"idle", "next", "file", "row", "thumb"}, file : Uploads \union {Nobody}, rest : SUBSET Uploads]
          /\ sweep'.at \in {"file", "row", "thumb"} => sweep'.file \in Uploads
      <4>1. CASE sweep' = Resting
        BY <4>1, <1>0 DEF Resting
      <4>2. CASE sweep' # Resting
        <5>1. PICK v \in sweep.rest : sweep' = [at |-> "file", file |-> v, rest |-> sweep.rest \ {v}]
          BY <2>2, <4>2 DEF SweepNext
        <5>2. v \in Uploads /\ sweep.rest \ {v} \in SUBSET Uploads
          BY <1>s
        <5> QED
          BY <5>1, <5>2
      <4> QED
        BY <4>1, <4>2
    <3> QED
      BY <2>2, <3>1, <1>t DEF SweepNext, MediaTypeOK
  <2>3. CASE SweepFile
    BY <2>3, <1>t DEF SweepFile, MediaTypeOK, SweepTo, SweepOn
  <2>4. CASE SweepRow
    <3>1. row' \in [Uploads -> Row]
      BY <2>4, <1>0 DEF SweepRow, MediaTypeOK
    <3>2. /\ sweep' \in [at : {"idle", "next", "file", "row", "thumb"}, file : Uploads \union {Nobody}, rest : SUBSET Uploads]
          /\ sweep'.at \in {"file", "row", "thumb"} => sweep'.file \in Uploads
      BY <2>4 DEF SweepRow, MediaTypeOK, SweepTo, SweepOn
    <3>3. raced' \subseteq Uploads
      BY <2>4 DEF SweepRow, MediaTypeOK
    <3> QED
      BY <2>4, <3>1, <3>2, <3>3, <1>t DEF SweepRow, MediaTypeOK
  <2>5. CASE SweepThumb
    <3>1. /\ sweep' \in [at : {"idle", "next", "file", "row", "thumb"}, file : Uploads \union {Nobody}, rest : SUBSET Uploads]
          /\ sweep'.at \in {"file", "row", "thumb"} => sweep'.file \in Uploads
      BY <2>5 DEF SweepThumb, MediaTypeOK, SweepOn
    <3> QED
      BY <2>5, <3>1, <1>t DEF SweepThumb, MediaTypeOK
  <2> QED
    BY <1>6, <2>1, <2>2, <2>3, <2>4, <2>5 DEF Sweep
<1>7. CASE Crash
  <2>1. at' \in [Uploads -> Places] /\ sweep' = Resting
    BY <1>7 DEF Crash, MediaTypeOK, Places
  <2>2. leaked' \subseteq Uploads /\ unattached' \subseteq Uploads /\ raced' \subseteq Uploads
    BY <1>7 DEF Crash, MediaTypeOK
  <2>3. /\ sweep' \in [at : {"idle", "next", "file", "row", "thumb"}, file : Uploads \union {Nobody}, rest : SUBSET Uploads]
        /\ sweep'.at \notin {"file", "row", "thumb"}
    BY <2>1, <1>0 DEF Resting
  <2> QED
    BY <1>7, <2>1, <2>2, <2>3, <1>t DEF Crash, MediaTypeOK
<1>8. CASE UNCHANGED mediaVars
  BY <1>8 DEF mediaVars, MediaTypeOK
<1> QED
  BY <1>1, <1>2, <1>3, <1>4, <1>5, <1>6, <1>7, <1>8 DEF MediaNext, Upload

(* Steps that change no row. *)
LEMMA RowsSame ==
  ASSUME MediaTypeOK, row' = row
  PROVE  RowsShrink /\ Stale' = Stale /\ Rows' = Rows
<1>1. row \in MediaRows
  BY DEF MediaTypeOK, MediaRows
<1>2. Stale' = Stale /\ Rows' = Rows
  BY DEF Stale, Rows
<1>3. \A u \in Rows : row[u].thumb <= row[u].thumb
  BY <1>1, MediaAssumption DEF MediaRows, Row, Rows
<1> QED
  BY <1>1, <1>2, <1>3 DEF RowsShrink

(* A row changes, and takes no more room than before. *)
LEMMA RowShrinks ==
  ASSUME MediaTypeOK, MediaTypeOK', NEW u \in Uploads, NEW r, row' = [row EXCEPT ![u] = r],
         r.there => /\ row[u].there /\ r.owner = row[u].owner
                    /\ r.thumb <= row[u].thumb
  PROVE  RowsShrink
<1>1. row \in MediaRows /\ row' \in MediaRows
  BY DEF MediaTypeOK, MediaRows
<1>2. row'[u] = r /\ \A v \in Uploads \ {u} : row'[v] = row[v]
  BY <1>1 DEF MediaRows
<1>3. \A v \in Uploads : row[v].thumb <= row[v].thumb
  BY <1>1, MediaAssumption DEF MediaRows, Row
<1> QED
  BY <1>1, <1>2, <1>3 DEF RowsShrink, Rows

(* The steps of an upload that neither lock nor insert. *)
LEMMA UploadQuota ==
  ASSUME QuotaIInv, MediaTypeOK', NEW u \in Uploads,
         \/ Begin(u) \/ PutThumb(u) \/ PutFile(u) \/ ReadBack(u) \/ PutLateThumb(u) \/ SetThumbnailSize(u)
         \/ UndoFile(u) \/ UndoRow(u) \/ UndoThumb(u) \/ Pick(u) \/ NameInline(u)
         \/ InsertMessage(u) \/ Attach(u) \/ DayPasses(u)
  PROVE  QuotaIInv'
<1>0. MediaTypeOK /\ PastOK /\ ReserveOK /\ RoomOK
  BY DEF QuotaIInv
<1>1. row \in MediaRows /\ row' \in MediaRows /\ at \in [Uploads -> Places] /\ at[u] \in Places
  BY <1>0 DEF MediaTypeOK, MediaRows
<1> USE DEF storeVars, lockVars, peopleVars, messageVars, Go
<1>2. CASE Begin(u)
  <2>1. RowsShrink
    BY <1>0, <1>2, RowsSame DEF Begin
  <2>2. Start(u) \in {"thumb", "file"}
    BY DEF Start
  <2> QED
    BY <1>2, <2>1, <2>2, QuietStep DEF Begin, Early, Late
<1>3. CASE PutThumb(u)
  <2>1. RowsShrink
    BY <1>0, <1>3, RowsSame DEF PutThumb
  <2>2. PICK place \in {"file", "done"} : at' = [at EXCEPT ![u] = place]
    BY <1>3 DEF PutThumb
  <2> QED
    BY <1>3, <2>1, <2>2, QuietStep DEF PutThumb, Early, Late
<1>4. CASE PutFile(u)
  <2>1. RowsShrink
    BY <1>0, <1>4, RowsSame DEF PutFile
  <2>2. PICK place \in {"quota", "undo file", "done"} : at' = [at EXCEPT ![u] = place]
    BY <1>4 DEF PutFile, Undo
  <2> QED
    BY <1>4, <2>1, <2>2, QuietStep DEF PutFile, Early, Late
<1>5. CASE ReadBack(u)
  <2>1. RowsShrink
    BY <1>0, <1>5, RowsSame DEF ReadBack
  <2>2. PICK place \in {"held", "settle", "message", "undo file"} :
          at' = [at EXCEPT ![u] = place] /\ (place = "settle" => u \in Images \ ByAgent)
    BY <1>5 DEF ReadBack, Undo
  <2>3. u \in Images \ ByAgent => row'[u].thumb = Reserve
    BY <1>0, <1>5 DEF ReserveOK, ReadBack
  <2> QED
    BY <1>5, <2>1, <2>2, <2>3, QuietStep DEF ReadBack, Early, Late
<1>6. CASE PutLateThumb(u)
  <2>1. RowsShrink
    BY <1>0, <1>6, RowsSame DEF PutLateThumb
  <2>2. at' = [at EXCEPT ![u] = "settle"] /\ at[u] = "settle"
    BY <1>1, <1>6 DEF PutLateThumb
  <2>3. u \in Images \ ByAgent /\ row'[u].thumb = Reserve
    BY <1>0, <1>6 DEF ReserveOK, PutLateThumb
  <2> QED
    BY <1>6, <2>1, <2>2, <2>3, QuietStep DEF PutLateThumb, Early, Late
<1>7. CASE SetThumbnailSize(u)
  <2>1. RowsShrink
    <3>1. CASE row' = row
      BY <1>0, <3>1, RowsSame
    <3>2. CASE row' # row
      <4> DEFINE size == IF u \in thumbs THEN ThumbSize ELSE 0
                 r == [row[u] EXCEPT !.thumb = size]
      <4>1. row' = [row EXCEPT ![u] = r]
        BY <1>7, <3>2 DEF SetThumbnailSize
      <4>2. row[u].thumb = Reserve /\ size <= Reserve
        <5>1. row[u].thumb = Reserve
          BY <1>0, <1>7 DEF ReserveOK, SetThumbnailSize
        <5>2. size \in {0, 1} /\ Reserve \in Nat \ {0}
          BY MediaAssumption DEF ThumbSize
        <5> HIDE DEF size
        <5> QED
          BY <5>1, <5>2
      <4>3. r.there = row[u].there /\ r.owner = row[u].owner /\ r.thumb = size
        BY <1>1 DEF MediaRows, Row
      <4> HIDE DEF size, r
      <4> QED
        BY <1>0, <4>1, <4>2, <4>3, RowShrinks
    <3> QED
      BY <3>1, <3>2
  <2>2. (row'[u].stale => row[u].stale) /\ \A v \in Uploads \ {u} : row'[v] = row[v]
    BY <1>1, <1>7 DEF SetThumbnailSize, MediaRows, Row
  <2>3. UNCHANGED <<thumbs, quotaLock, userLock, people, merge, sweep>>
    BY <1>7 DEF SetThumbnailSize
  <2>4. at[u] = "settle" /\ at' = [at EXCEPT ![u] = "message"]
    BY <1>7 DEF SetThumbnailSize
  <2>5. "message" \notin Early /\ "message" \notin {"owner", "insert", "read back", "settle"} /\ "settle" \notin Late
    BY DEF Early, Late
  <2>6. row'[u].there /\ row'[u].stale => (at[u] \in Late \/ row[u].stale)
    BY <2>2
  <2>7. \A v \in Uploads \ {u} : row'[v] = row[v] /\ (v \in thumbs' <=> v \in thumbs)
    BY <2>2, <2>3
  <2> QED
    BY <2>1, <2>3, <2>4, <2>5, <2>6, <2>7, QuietStep
<1>8. CASE UndoFile(u)
  <2>1. RowsShrink
    BY <1>0, <1>8, RowsSame DEF UndoFile
  <2>2. PICK place \in {"undo row", "undo thumb", "done"} : at' = [at EXCEPT ![u] = place]
    BY <1>8 DEF UndoFile
  <2> QED
    BY <1>8, <2>1, <2>2, QuietStep DEF UndoFile, Early, Late
<1>9. CASE UndoRow(u)
  <2>1. RowsShrink
    <3>1. CASE row' = row
      BY <1>0, <3>1, RowsSame
    <3>2. CASE row' # row
      BY <1>0, <1>9, <3>2, RowShrinks DEF UndoRow, NoRow
    <3> QED
      BY <3>1, <3>2
  <2>2. (row'[u].stale => row[u].stale) /\ \A v \in Uploads \ {u} : row'[v] = row[v]
    <3>1. CASE row' = row
      BY <3>1
    <3>2. CASE row' = [row EXCEPT ![u] = NoRow]
      BY <1>1, <3>2 DEF MediaRows, NoRow
    <3> QED
      BY <1>9, <3>1, <3>2 DEF UndoRow
  <2>3. UNCHANGED <<thumbs, quotaLock, userLock, people, merge, sweep>>
    BY <1>9 DEF UndoRow
  <2>4. at[u] = "undo row" /\ at' = [at EXCEPT ![u] = "undo thumb"]
    BY <1>9 DEF UndoRow
  <2> QED
    BY <2>1, <2>2, <2>3, <2>4, QuietStep DEF Early, Late
<1>10. CASE UndoThumb(u)
  <2>1. RowsShrink
    BY <1>0, <1>10, RowsSame DEF UndoThumb
  <2> QED
    BY <1>10, <2>1, QuietStep DEF UndoThumb, Early, Late
<1>11. CASE Pick(u) \/ NameInline(u)
  <2>1. RowsShrink
    BY <1>0, <1>11, RowsSame DEF Pick, NameInline
  <2>2. PICK place \in {"message", "done"} : at' = [at EXCEPT ![u] = place]
    BY <1>11 DEF Pick, NameInline
  <2> QED
    BY <1>11, <2>1, <2>2, QuietStep DEF Pick, NameInline, Early, Late
<1>12. CASE InsertMessage(u)
  <2>1. RowsShrink
    BY <1>0, <1>12, RowsSame DEF InsertMessage
  <2>2. PICK place \in {"attach", "done"} : at' = [at EXCEPT ![u] = place]
    BY <1>12 DEF InsertMessage
  <2> QED
    BY <1>12, <2>1, <2>2, QuietStep DEF InsertMessage, Early, Late
<1>13. CASE Attach(u)
  <2>1. RowsShrink
    <3>1. CASE row' = row
      BY <1>0, <3>1, RowsSame
    <3>2. CASE row' # row
      <4> DEFINE r == [row[u] EXCEPT !.linked = TRUE]
      <4>1. row' = [row EXCEPT ![u] = r]
        BY <1>13, <3>2 DEF Attach
      <4>2. r.there = row[u].there /\ r.owner = row[u].owner /\ r.thumb = row[u].thumb /\ r.thumb <= row[u].thumb
        BY <1>1, MediaAssumption DEF MediaRows, Row
      <4> HIDE DEF r
      <4> QED
        BY <1>0, <4>1, <4>2, RowShrinks
    <3> QED
      BY <3>1, <3>2
  <2>2. (row'[u].there /\ row'[u].stale => row[u].stale) /\ \A v \in Uploads \ {u} : row'[v] = row[v]
    <3>1. CASE row' = row
      BY <3>1
    <3>2. CASE row' = [row EXCEPT ![u].linked = TRUE]
      BY <1>1, <3>2 DEF MediaRows, Row
    <3> QED
      BY <1>13, <3>1, <3>2 DEF Attach
  <2>3. UNCHANGED <<thumbs, quotaLock, userLock, people, merge, sweep>>
    BY <1>13 DEF Attach
  <2>4. at[u] = "attach" /\ at' = [at EXCEPT ![u] = "done"]
    BY <1>13 DEF Attach
  <2> QED
    BY <2>1, <2>2, <2>3, <2>4, QuietStep DEF Early, Late
<1>14. CASE DayPasses(u)
  <2>1. RowsShrink
    <3> DEFINE r == [row[u] EXCEPT !.stale = TRUE]
    <3>1. row' = [row EXCEPT ![u] = r]
      BY <1>14 DEF DayPasses
    <3>2. r.there = row[u].there /\ r.owner = row[u].owner /\ r.thumb = row[u].thumb /\ r.thumb <= row[u].thumb
      BY <1>1, MediaAssumption DEF MediaRows, Row
    <3> HIDE DEF r
    <3> QED
      BY <1>0, <3>1, <3>2, RowShrinks
  <2>2. at' = [at EXCEPT ![u] = at[u]] /\ at[u] \in {"held", "done"}
    BY <1>1, <1>14 DEF DayPasses
  <2>3. \A v \in Uploads \ {u} : row'[v] = row[v]
    BY <1>1, <1>14 DEF DayPasses, MediaRows
  <2> QED
    BY <1>14, <2>1, <2>2, <2>3, QuietStep DEF DayPasses, Early, Late
<1> QED
  BY <1>2, <1>3, <1>4, <1>5, <1>6, <1>7, <1>8, <1>9, <1>10, <1>11, <1>12, <1>13, <1>14

(* The collector only makes room. *)
LEMMA SweepQuota ==
  ASSUME QuotaIInv, MediaTypeOK', Sweep
  PROVE  QuotaIInv'
<1>0. MediaTypeOK /\ PastOK /\ ReserveOK /\ RoomOK
  BY DEF QuotaIInv
<1>1. /\ row \in MediaRows /\ at \in [Uploads -> Places] /\ sweep.file \in Uploads \union {Nobody} /\ sweep.rest \subseteq Uploads
      /\ sweep \in [at : {"idle", "next", "file", "row", "thumb"}, file : Uploads \union {Nobody}, rest : SUBSET Uploads]
      /\ sweep.at \in {"file", "row", "thumb"} => sweep.file \in Uploads
  BY <1>0 DEF MediaTypeOK, MediaRows
<1>2. UNCHANGED <<at, quotaLock, userLock, people, merge>>
  BY DEF Sweep, SweepList, SweepNext, SweepFile, SweepRow, SweepThumb, lockVars, peopleVars
<1>3. RowsShrink /\ Stale' \subseteq Stale /\ ReserveOK'
  <2>1. CASE row' = row
    BY <1>0, <1>2, <2>1, RowsSame DEF ReserveOK
  <2>2. CASE row' # row
    <3>1. sweep.file \in Uploads /\ row' = [row EXCEPT ![sweep.file] = NoRow] /\ sweep.file # Nobody
      BY <1>1, <2>2, MediaAssumption DEF Sweep, SweepList, SweepNext, SweepFile, SweepRow, SweepThumb
    <3>2. at[sweep.file] \in Late
      BY <1>0, <3>1 DEF PastOK, InHand
    <3>3. row'[sweep.file] = NoRow /\ \A v \in Uploads \ {sweep.file} : row'[v] = row[v]
      BY <1>1, <3>1 DEF MediaRows
    <3>4. RowsShrink
      BY <1>0, <3>1, RowShrinks DEF NoRow
    <3>5. Stale' \subseteq Stale
      BY <3>3 DEF Stale, Rows, NoRow
    <3>6. ReserveOK'
      BY <1>0, <1>2, <3>2, <3>3 DEF ReserveOK, Late
    <3> QED
      BY <3>4, <3>5, <3>6
  <2> QED
    BY <2>1, <2>2
<1>4. \A u \in Uploads : at'[u] \in {"owner", "insert"} => NewThumb(u)' = NewThumb(u)
  <2> SUFFICES ASSUME NEW u \in Uploads, at[u] \in {"owner", "insert"} PROVE NewThumb(u)' = NewThumb(u)
    BY <1>2
  <2>1. u # sweep.file
    BY <1>0, MediaAssumption DEF PastOK, InHand, Late
  <2>2. u \in thumbs' <=> u \in thumbs
    BY <2>1 DEF Sweep, SweepList, SweepNext, SweepFile, SweepRow, SweepThumb, storeVars
  <2> QED
    BY <2>2 DEF NewThumb
<1>5. InHand' \subseteq InHand \union Stale
  <2>1. CASE SweepList
    BY <2>1 DEF SweepList, Unlinked, Stale, InHand
  <2>2. CASE SweepNext
    <3>1. CASE sweep' = Resting
      BY <3>1 DEF Resting, InHand
    <3>2. CASE sweep' # Resting
      <4>1. PICK v \in sweep.rest : sweep' = [at |-> "file", file |-> v, rest |-> sweep.rest \ {v}]
        BY <2>2, <3>2 DEF SweepNext
      <4> QED
        BY <4>1 DEF InHand
    <3> QED
      BY <3>1, <3>2
  <2>3. CASE SweepFile \/ SweepRow \/ SweepThumb
    <3>1. sweep'.rest = sweep.rest /\ sweep'.file \in {sweep.file, Nobody}
      BY <1>1, <2>3 DEF SweepFile, SweepRow, SweepThumb, SweepOn, SweepTo
    <3> QED
      BY <3>1 DEF InHand
  <2> QED
    BY <2>1, <2>2, <2>3 DEF Sweep
<1>6. InHand' \union Stale' \subseteq {u \in Uploads : at[u] \in Late}
  <2>1. InHand \union Stale \subseteq Uploads
    BY <1>1 DEF InHand, Stale, Rows
  <2> QED
    BY <1>0, <1>3, <1>5, <2>1 DEF PastOK
<1>7. \A u \in Uploads : at'[u] \in {"owner", "insert"} =>
        at[u] = at'[u] /\ quotaLock' = quotaLock /\ NewThumb(u)' = NewThumb(u)
  BY <1>2, <1>4
<1> QED
  BY <1>2, <1>3, <1>6, <1>7, QuietQuota

(* While no row changes all takes as much room as before. *)
LEMMA SameRoom ==
  ASSUME QuotaIInv, row' = row
  PROVE  /\ Rows' = Rows /\ Stale' = Stale /\ Objects(Rows)' = Objects(Rows)
         /\ \A P : OwnedBy(P)' = OwnedBy(P) /\ Size(OwnedBy(P))' = Size(OwnedBy(P))
         /\ MergeFits' = MergeFits
         /\ people' = people => QuotasKept'
         /\ thumbs' = thumbs => \A u \in Uploads : NewThumb(u)' = NewThumb(u) /\ NewObjects(u)' = NewObjects(u)
<1>1. Rows' = Rows /\ Stale' = Stale /\ \A P : OwnedBy(P)' = OwnedBy(P)
  BY DEF Rows, Stale, OwnedBy
<1>2. Objects(Rows)' = Objects(Rows) /\ \A P : Size(OwnedBy(P))' = Size(OwnedBy(P))
  BY <1>1, Measures
<1>3. MergeFits' = MergeFits
  BY <1>2 DEF MergeFits
<1>4. people' = people => QuotasKept'
  BY <1>1, <1>2 DEF QuotasKept, QuotaIInv
<1>5. thumbs' = thumbs => \A u \in Uploads : NewThumb(u)' = NewThumb(u) /\ NewObjects(u)' = NewObjects(u)
  BY DEF NewThumb, NewObjects
<1> QED
  BY <1>1, <1>2, <1>3, <1>4, <1>5

(* Locks are taken only with room for what they are taken for. *)
LEMMA LockQuotaStep ==
  ASSUME QuotaIInv, MediaTypeOK', NEW u \in Uploads, LockQuota(u) \/ LockOwner(u)
  PROVE  QuotaIInv'
<1>0. MediaTypeOK /\ PastOK /\ ReserveOK /\ RoomOK /\ MergeOK /\ QuotasKept
  BY DEF QuotaIInv
<1>1. /\ at \in [Uploads -> Places] /\ userLock \in [Users -> Uploads \union {Nobody, Visitor}]
      /\ merge.moved \subseteq Uploads /\ sweep.rest \subseteq Uploads /\ sweep.file \in Uploads \union {Nobody}
  BY <1>0 DEF MediaTypeOK
<1>2. UNCHANGED <<row, thumbs, people, merge, sweep>> /\ at[u] \in {"quota", "owner"}
  BY DEF LockQuota, LockOwner, peopleVars, storeVars
<1>3. /\ Rows' = Rows /\ Stale' = Stale /\ Objects(Rows)' = Objects(Rows) /\ QuotasKept' /\ MergeFits' = MergeFits
      /\ \A P : OwnedBy(P)' = OwnedBy(P) /\ Size(OwnedBy(P))' = Size(OwnedBy(P))
      /\ \A v \in Uploads : NewThumb(v)' = NewThumb(v) /\ NewObjects(v)' = NewObjects(v)
  BY <1>2, SameRoom
<1>4. CASE at' = [at EXCEPT ![u] = "undo file"]
  <2>1. RowsShrink
    BY <1>0, <1>2, RowsSame
  <2>2. (quotaLock' = quotaLock \/ quotaLock = u) /\ userLock' = userLock
    <3>1. at'[u] = "undo file"
      BY <1>1, <1>4
    <3>2. CASE LockQuota(u)
      BY <1>1, <3>1, <3>2 DEF LockQuota, Go
    <3>3. CASE LockOwner(u)
      BY <1>0, <1>1, <3>1, <3>3 DEF LockOwner, Go, RoomOK
    <3> QED
      BY <3>2, <3>3
  <2>3. "undo file" \notin Early /\ "undo file" \notin Late /\ at[u] \in Early /\ at[u] \notin Late
    BY <1>2 DEF Early, Late
  <2>4. row'[u].there /\ row'[u].stale => (at[u] \in Late \/ row[u].stale)
    BY <1>2
  <2>5. \A v \in Uploads \ {u} : row'[v] = row[v] /\ (v \in thumbs' <=> v \in thumbs)
    BY <1>2
  <2>6. "undo file" \notin {"owner", "insert", "read back", "settle"}
    OBVIOUS
  <2>7. \A p \in Users : userLock'[p] = userLock[p] \/ userLock[p] = u
    BY <2>2
  <2> QED
    BY <1>2, <1>4, <2>1, <2>2, <2>3, <2>4, <2>5, <2>6, <2>7, QuietStep
<1>5. CASE at' # [at EXCEPT ![u] = "undo file"]
  <2>1. PICK place \in {"owner", "insert"} : at' = [at EXCEPT ![u] = place]
    BY <1>5 DEF LockQuota, LockOwner, Go, Undo
  <2>2. at'[u] = place /\ place \in Early /\ place \notin Late /\ at[u] \in Early /\ \A v \in Uploads \ {u} : at'[v] = at[v]
    BY <1>1, <1>2, <2>1 DEF Early, Late
  <2>3. quotaLock' = u /\ Objects(Rows) + NewObjects(u) <= MaxObjects /\ \A v \in Uploads \ {u} : at[v] \notin {"owner", "insert"}
    <3>1. CASE LockQuota(u)
      BY <1>0, <1>1, <1>5, <3>1, MediaAssumption DEF LockQuota, RoomOK, InstanceHasRoom, Undo, Go
    <3>2. CASE LockOwner(u)
      BY <1>0, <1>1, <1>5, <3>2 DEF LockOwner, RoomOK, Undo, Go
    <3> QED
      BY <3>1, <3>2
  <2>4. place = "insert" => /\ Uploader[u] \in people /\ userLock'[Uploader[u]] = u
                            /\ Size(OwnedBy({Uploader[u]})) + 1 + NewThumb(u) <= MaxOwned
    <3> SUFFICES ASSUME place = "insert" PROVE /\ Uploader[u] \in people /\ userLock'[Uploader[u]] = u
                            /\ Size(OwnedBy({Uploader[u]})) + 1 + NewThumb(u) <= MaxOwned
      OBVIOUS
    <3>1. LockOwner(u)
      BY <1>1, <2>2 DEF LockQuota, Go, Undo
    <3>2. /\ Uploader[u] \in people /\ userLock' = [userLock EXCEPT ![Uploader[u]] = u] /\ OwnerHasRoom(u, 1 + NewThumb(u))
      BY <1>5, <3>1 DEF LockOwner, Undo, Go
    <3>3. userLock'[Uploader[u]] = u
      BY <1>1, <3>2, MediaAssumption
    <3>4. Size(OwnedBy({Uploader[u]})) + (1 + NewThumb(u)) <= MaxOwned
      BY <3>2 DEF OwnerHasRoom
    <3>5. Size(OwnedBy({Uploader[u]})) \in Nat /\ NewThumb(u) \in Nat
      <4>1. OwnedBy({Uploader[u]}) \in SUBSET Uploads /\ row \in MediaRows
        BY <1>0 DEF OwnedBy, Rows, MediaTypeOK, MediaRows
      <4> QED
        BY <4>1, Measures, UploadsFinite, MediaAssumption DEF NewThumb, ThumbSize
    <3> QED
      BY <3>2, <3>3, <3>4, <3>5, MediaAssumption
  <2>5. \A p \in Users : userLock[p] # Nobody => userLock'[p] = userLock[p]
    BY <1>1, MediaAssumption DEF LockQuota, LockOwner
  <2>6. RoomOK'
    BY <1>2, <1>3, <2>2, <2>3, <2>4 DEF RoomOK
  <2>7. PastOK'
    <3>1. InHand' = InHand
      BY <1>2 DEF InHand
    <3>2. Rows \union merge.moved \union InHand \union Stale \subseteq Uploads
      BY <1>1 DEF InHand, Stale, Rows
    <3> QED
      BY <1>0, <1>2, <1>3, <2>2, <3>1, <3>2 DEF PastOK, Late, Early
  <2>8. ReserveOK'
    BY <1>0, <1>2, <2>1, <2>2 DEF ReserveOK
  <2>9. MergeOK'
    BY <1>0, <1>2, <1>3, <2>5, MediaAssumption DEF MergeOK
  <2> QED
    BY <1>3, <2>6, <2>7, <2>8, <2>9 DEF QuotaIInv
<1> QED
  BY <1>4, <1>5

(* What is inserted takes the room that the locks have kept free. *)
LEMMA InsertQuota ==
  ASSUME QuotaIInv, MediaTypeOK', NEW u \in Uploads, Insert(u)
  PROVE  QuotaIInv'
<1>0. MediaTypeOK /\ PastOK /\ ReserveOK /\ RoomOK /\ MergeOK /\ QuotasKept
  BY DEF QuotaIInv
<1>1. /\ at \in [Uploads -> Places] /\ userLock \in [Users -> Uploads \union {Nobody, Visitor}]
      /\ merge.moved \subseteq Uploads /\ sweep.rest \subseteq Uploads /\ sweep.file \in Uploads \union {Nobody}
      /\ row \in MediaRows /\ row' \in MediaRows /\ Uploader[u] \in Users
  BY <1>0, MediaAssumption DEF MediaTypeOK, MediaRows
<1>2. /\ UNCHANGED <<thumbs, people, merge, sweep>> /\ at[u] = "insert" /\ quotaLock = u
      /\ userLock[Uploader[u]] = u /\ userLock' = [userLock EXCEPT ![Uploader[u]] = Nobody]
  BY <1>0 DEF Insert, peopleVars, storeVars, RoomOK
<1>3. \A p \in Users : userLock'[p] = userLock[p] \/ userLock[p] = u
  BY <1>1, <1>2
<1>4. CASE row' = row /\ at' = [at EXCEPT ![u] = "undo file"]
  <2>1. RowsShrink
    BY <1>0, <1>4, RowsSame
  <2>2. row'[u].there /\ row'[u].stale => (at[u] \in Late \/ row[u].stale)
    BY <1>4
  <2>3. \A v \in Uploads \ {u} : row'[v] = row[v] /\ (v \in thumbs' <=> v \in thumbs)
    BY <1>2, <1>4
  <2>4. /\ "undo file" \notin {"owner", "insert", "read back", "settle"} /\ "undo file" \notin Early
        /\ at[u] \notin Late
    BY <1>2 DEF Early, Late
  <2> QED
    BY <1>2, <1>3, <1>4, <2>1, <2>2, <2>3, <2>4, QuietStep
<1>5. CASE row' = [row EXCEPT ![u] = InsertedRow(u)] /\ at' = [at EXCEPT ![u] = "read back"]
  <2>1. /\ row'[u] = InsertedRow(u) /\ at'[u] = "read back"
        /\ \A v \in Uploads \ {u} : row'[v] = row[v] /\ at'[v] = at[v]
    BY <1>1, <1>5 DEF MediaRows
  <2>1a. row'[u].owner = Uploader[u] /\ row'[u].thumb = NewThumb(u) /\ row'[u].stale = FALSE /\ row'[u].there = TRUE
    <3>1. /\ InsertedRow(u).owner = Uploader[u] /\ InsertedRow(u).thumb = NewThumb(u)
          /\ InsertedRow(u).stale = FALSE /\ InsertedRow(u).there = TRUE
      BY DEF InsertedRow
    <3> QED
      BY <2>1, <3>1
  <2>2. u \notin Rows /\ u \notin merge.moved /\ u \notin InHand
    BY <1>0, <1>2 DEF PastOK, Early, Late
  <2>3. Rows' = Rows \union {u} /\ \A P : OwnedBy(P)' = IF Uploader[u] \in P THEN OwnedBy(P) \union {u} ELSE OwnedBy(P)
    <3>1. Rows' = Rows \union {u}
      BY <2>1, <2>1a DEF Rows
    <3>2. ASSUME NEW P PROVE OwnedBy(P)' = IF Uploader[u] \in P THEN OwnedBy(P) \union {u} ELSE OwnedBy(P)
      <4>1. \A v \in Rows : v # u /\ row'[v].owner = row[v].owner
        BY <2>1, <2>2 DEF Rows
      <4> QED
        BY <2>2, <2>1a, <3>1, <4>1 DEF OwnedBy
    <3> QED
      BY <3>1, <3>2
  <2>4. \A v \in Rows : v # u /\ v \in Uploads /\ row'[v] = row[v]
    BY <2>1, <2>2 DEF Rows
  <2>5. Rows \in SUBSET Uploads /\ \A P : OwnedBy(P) \in SUBSET Rows
    BY Measures
  <2>6. row'[u].thumb = NewThumb(u) /\ NewThumb(u) \in Nat
    BY <2>1a, MediaAssumption DEF NewThumb, ThumbSize
  <2>7. Objects(Rows)' <= MaxObjects
    <3>1. ObjectsOf(row', Rows \union {u}) = ObjectsOf(row, Rows) + NewObjects(u)
      BY <1>1, <2>2, <2>4, <2>5, <2>6, OneMoreTakes DEF NewObjects
    <3> QED
      BY <1>0, <1>2, <2>3, <3>1, Measures DEF RoomOK
  <2>8. \A P : Uploader[u] \notin P => Size(OwnedBy(P))' = Size(OwnedBy(P))
    <3> SUFFICES ASSUME NEW P, Uploader[u] \notin P PROVE Size(OwnedBy(P))' = Size(OwnedBy(P))
      OBVIOUS
    <3>1. OwnedBy(P)' = OwnedBy(P) /\ \A v \in OwnedBy(P) : row'[v] = row[v]
      BY <2>3, <2>4, <2>5
    <3>2. UnitsOf(row', OwnedBy(P)) = UnitsOf(row, OwnedBy(P))
      BY <3>1 DEF UnitsOf
    <3> QED
      BY <3>1, <3>2, Measures DEF SizeOf
  <2>9. Size(OwnedBy({Uploader[u]}))' <= MaxOwned
    <3> DEFINE mine == OwnedBy({Uploader[u]})
    <3>1. mine \in SUBSET Uploads /\ u \notin mine /\ mine' = mine \union {u} /\ \A v \in mine : row'[v] = row[v]
      BY <2>2, <2>3, <2>4, <2>5
    <3>2. SizeOf(row', mine \union {u}) <= SizeOf(row, mine) + 1 + row'[u].thumb
      BY <1>1, <3>1, OneMoreTakes
    <3>3. Size(mine) + 1 + NewThumb(u) <= MaxOwned
      BY <1>0, <1>2 DEF RoomOK
    <3>4. SizeOf(row', mine \union {u}) \in Nat /\ SizeOf(row, mine) \in Nat
      <4>1. mine \union {u} \in SUBSET Uploads
        BY <3>1
      <4> QED
        BY <1>1, <3>1, <4>1, UploadsFinite
    <3>5. Size(mine) = SizeOf(row, mine) /\ Size(mine)' = SizeOf(row', mine \union {u})
      BY <3>1, Measures
    <3> HIDE DEF mine
    <3>6. Size(mine)' <= MaxOwned
      BY <2>6, <3>2, <3>3, <3>4, <3>5, MediaAssumption
    <3> QED
      BY <3>6 DEF mine
  <2>10. QuotasKept'
    <3>1. ASSUME NEW p \in people PROVE Size(OwnedBy({p}))' <= MaxOwned
      BY <1>0, <2>8, <2>9 DEF QuotasKept
    <3>2. Uploader[u] \in people
      BY <1>0, <1>2 DEF RoomOK
    <3>3. \A v \in Rows' : row'[v].owner \in people
      BY <1>0, <2>1a, <2>3, <2>4, <3>2 DEF QuotasKept
    <3> QED
      BY <1>2, <2>7, <3>1, <3>3 DEF QuotasKept
  <2>11. RoomOK'
    BY <1>0, <1>2, <2>1 DEF RoomOK
  <2>12. ReserveOK'
    <3>1. u \in Images \ ByAgent => row'[u].thumb = Reserve
      BY <2>6, MediaAssumption DEF NewThumb
    <3> QED
      BY <1>0, <2>1, <3>1 DEF ReserveOK
  <2>13. PastOK'
    <3>1. InHand' = InHand /\ Stale' \subseteq Stale
      BY <1>2, <2>1a, <2>3, <2>4 DEF InHand, Stale
    <3>2. Rows \union merge.moved \union InHand \union Stale \subseteq Uploads
      BY <1>1 DEF InHand, Stale, Rows
    <3>3. u \notin Stale /\ "read back" \notin Early
      BY <2>2 DEF Stale, Early
    <3> QED
      BY <1>0, <1>2, <2>1, <2>2, <2>3, <3>1, <3>2, <3>3 DEF PastOK
  <2>14. MergeOK'
    <3>1. CASE Uploader[u] \in {Visitor, Contact}
      <4>1. merge.at = "idle"
        BY <1>0, <1>2, <3>1, MediaAssumption DEF MergeOK, MediaTypeOK
      <4> QED
        BY <1>2, <4>1 DEF MergeOK
    <3>2. CASE Uploader[u] \notin {Visitor, Contact}
      <4>1. MergeFits' = MergeFits /\ OwnedBy({Visitor})' = OwnedBy({Visitor})
        BY <2>3, <2>8, <3>2 DEF MergeFits
      <4>2. userLock'[Visitor] = userLock[Visitor] /\ userLock'[Contact] = userLock[Contact]
        BY <1>1, <1>2, <3>2, MediaAssumption
      <4>3. merge.moved \intersect Rows' = merge.moved \intersect Rows
        BY <2>2, <2>3
      <4> QED
        BY <1>0, <1>2, <4>1, <4>2, <4>3 DEF MergeOK
    <3> QED
      BY <3>1, <3>2
  <2> QED
    BY <2>10, <2>11, <2>12, <2>13, <2>14 DEF QuotaIInv
<1> QED
  BY <1>4, <1>5 DEF Insert, Go, Undo

(* A merge gives all to one owner, who has room for it. *)
LEMMA MergeQuota ==
  ASSUME QuotaIInv, MediaTypeOK', Merge
  PROVE  QuotaIInv'
<1>0. MediaTypeOK /\ PastOK /\ ReserveOK /\ RoomOK /\ MergeOK /\ QuotasKept
  BY DEF QuotaIInv
<1>1. /\ at \in [Uploads -> Places] /\ userLock \in [Users -> Uploads \union {Nobody, Visitor}]
      /\ merge \in [at : {"idle", "move", "commit"}, moved : SUBSET Uploads]
      /\ row \in MediaRows /\ row' \in MediaRows /\ Nobody \notin Uploads /\ Visitor \notin Uploads
      /\ Visitor \in Users /\ Contact \in Users /\ Visitor # Nobody /\ Visitor # Contact
  BY <1>0, MediaAssumption DEF MediaTypeOK, MediaRows
<1>2. UNCHANGED <<at, quotaLock, sweep, thumbs>>
  BY DEF Merge, MergeLock, MergeMove, MergeCommit, lockVars, storeVars
<1>3. \A p \in Users : userLock[p] \in Uploads => userLock'[p] = userLock[p]
  BY <1>1 DEF Merge, MergeLock, MergeMove, MergeCommit, lockVars, MergeEnd
<1>4. \A u \in Uploads : Uploader[u] \in Users /\ NewThumb(u)' = NewThumb(u) /\ NewObjects(u)' = NewObjects(u)
  BY <1>2, MediaAssumption DEF NewThumb, NewObjects
<1>5. ASSUME row' = row, people' = people, MergeOK', merge'.moved \subseteq Rows \union merge.moved
      PROVE  QuotaIInv'
  <2>1. /\ Rows' = Rows /\ Stale' = Stale /\ Objects(Rows)' = Objects(Rows) /\ QuotasKept'
        /\ \A P : OwnedBy(P)' = OwnedBy(P) /\ Size(OwnedBy(P))' = Size(OwnedBy(P))
    BY <1>5, SameRoom
  <2>2. PastOK'
    <3>1. InHand' = InHand
      BY <1>2 DEF InHand
    <3> QED
      BY <1>0, <1>2, <1>5, <2>1, <3>1 DEF PastOK
  <2>3. RoomOK'
    BY <1>0, <1>2, <1>3, <1>4, <1>5, <2>1 DEF RoomOK
  <2>4. ReserveOK'
    BY <1>0, <1>2, <1>5 DEF ReserveOK
  <2> QED
    BY <1>5, <2>1, <2>2, <2>3, <2>4 DEF QuotaIInv
<1>6. CASE MergeLock
  <2>1. /\ row' = row /\ people' = people /\ merge'.moved = merge.moved /\ merge'.at = "move" /\ MergeFits
        /\ {Visitor, Contact} \subseteq people
        /\ userLock' = [userLock EXCEPT ![Visitor] = Visitor, ![Contact] = Visitor]
    BY <1>1, <1>6 DEF MergeLock
  <2>2. MergeFits' /\ userLock'[Visitor] = Visitor /\ userLock'[Contact] = Visitor
    BY <1>1, <2>1, SameRoom
  <2>3. MergeOK'
    BY <2>1, <2>2 DEF MergeOK
  <2> QED
    BY <1>5, <2>1, <2>3
<1>7. CASE MergeMove
  <2>1. /\ row' = row /\ people' = people /\ userLock' = userLock /\ merge.at = "move"
        /\ merge'.at = "commit" /\ merge'.moved = OwnedBy({Visitor})
    BY <1>7 DEF MergeMove, lockVars
  <2>2. OwnedBy({Visitor}) \subseteq Rows /\ MergeFits' = MergeFits /\ OwnedBy({Visitor})' = OwnedBy({Visitor})
    BY <2>1, Measures, SameRoom
  <2>3. MergeOK'
    BY <1>0, <2>1, <2>2 DEF MergeOK
  <2> QED
    BY <1>5, <2>1, <2>2, <2>3
<1>8. CASE MergeCommit
  <2>1. merge.at = "commit" /\ merge'.at = "idle" /\ merge'.moved = {} /\ MergeOK'
    BY <1>8 DEF MergeCommit, MergeOK
  <2>2. CASE row' = row /\ people' = people
    BY <1>5, <2>1, <2>2
  <2>3. CASE /\ row' = [u \in Uploads |-> IF u \in Rows THEN [row[u] EXCEPT !.owner = NewOwner(u)] ELSE row[u]]
             /\ people' = people \ {Visitor}
    <3>1. /\ userLock[Visitor] = Visitor /\ userLock[Contact] = Visitor /\ Contact \in people'
          /\ OwnedBy({Visitor}) \subseteq merge.moved /\ merge.moved \intersect Rows \subseteq OwnedBy({Visitor})
          /\ Size(OwnedBy({Visitor, Contact})) <= MaxOwned
      BY <1>0, <1>1, <2>1, <2>3 DEF MergeOK, MergeFits
    <3>2. \A u \in Rows : /\ row'[u].thumb = row[u].thumb /\ row'[u].stale = row[u].stale /\ row'[u].there = row[u].there
                          /\ row'[u].owner = IF row[u].owner = Visitor THEN Contact ELSE row[u].owner
      <4> SUFFICES ASSUME NEW u \in Rows
                   PROVE  /\ row'[u].thumb = row[u].thumb /\ row'[u].stale = row[u].stale /\ row'[u].there = row[u].there
                          /\ row'[u].owner = IF row[u].owner = Visitor THEN Contact ELSE row[u].owner
        OBVIOUS
      <4>1. u \in merge.moved <=> row[u].owner = Visitor
        BY <3>1 DEF OwnedBy
      <4>2. NewOwner(u) = IF row[u].owner = Visitor THEN Contact ELSE row[u].owner
        BY <4>1 DEF NewOwner
      <4>3. row'[u] = [row[u] EXCEPT !.owner = NewOwner(u)]
        BY <2>3 DEF Rows
      <4> QED
        BY <1>1, <4>2, <4>3 DEF MediaRows, Row, Rows
    <3>3. \A u \in Uploads \ Rows : row'[u] = row[u]
      BY <2>3
    <3>4. Rows' = Rows /\ Stale' = Stale
      <4>1. Rows' = Rows
        BY <3>2, <3>3 DEF Rows
      <4> QED
        BY <3>2, <4>1 DEF Stale
    <3>5. \A u \in Rows : row'[u].thumb <= row[u].thumb
      BY <1>1, <3>2, MediaAssumption DEF MediaRows, Row, Rows
    <3>6. Rows \in SUBSET Uploads /\ \A P : OwnedBy(P) \in SUBSET Rows
      BY Measures
    <3>7. ASSUME NEW P, NEW Q, OwnedBy(P)' \subseteq OwnedBy(Q)
          PROVE  /\ Size(OwnedBy(P))' <= Size(OwnedBy(Q))
                 /\ Size(OwnedBy(P))' \in Nat /\ Size(OwnedBy(Q)) \in Nat
      <4>1. OwnedBy(Q) \in SUBSET Uploads /\ OwnedBy(P)' \in SUBSET OwnedBy(Q) /\ OwnedBy(P)' \in SUBSET Uploads
        BY <3>6, <3>7
      <4>2. \A u \in OwnedBy(P)' : row'[u].thumb <= row[u].thumb
        BY <3>5, <3>6, <3>7
      <4>3. SizeOf(row', OwnedBy(P)') <= SizeOf(row, OwnedBy(Q))
        BY <1>1, <4>1, <4>2, FewerTakeLess
      <4>4. SizeOf(row', OwnedBy(P)') \in Nat /\ SizeOf(row, OwnedBy(Q)) \in Nat
        BY <1>1, <4>1, UploadsFinite
      <4> QED
        BY <4>3, <4>4, Measures
    <3>8. Objects(Rows)' <= Objects(Rows) /\ Objects(Rows)' \in Nat /\ Objects(Rows) \in Nat
      <4>1. ObjectsOf(row', Rows) <= ObjectsOf(row, Rows)
        BY <1>1, <3>5, <3>6, FewerTakeLess
      <4>2. ObjectsOf(row', Rows) \in Nat /\ ObjectsOf(row, Rows) \in Nat
        BY <1>1, <3>6, UploadsFinite
      <4> QED
        BY <3>4, <4>1, <4>2, Measures
    <3>9. QuotasKept'
      <4>1. Objects(Rows)' <= MaxObjects
        BY <1>0, <3>8, MediaAssumption DEF QuotasKept
      <4>2. ASSUME NEW p \in people' PROVE Size(OwnedBy({p}))' <= MaxOwned
        <5>1. CASE p = Contact
          <6>1. OwnedBy({p})' \subseteq OwnedBy({Visitor, Contact})
            BY <3>2, <3>4, <5>1 DEF OwnedBy
          <6> QED
            BY <3>1, <3>7, <6>1, MediaAssumption
        <5>2. CASE p # Contact
          <6>1. OwnedBy({p})' \subseteq OwnedBy({p})
            BY <3>2, <3>4, <5>2 DEF OwnedBy
          <6>2. Size(OwnedBy({p})) <= MaxOwned
            BY <1>0, <2>3 DEF QuotasKept
          <6> QED
            BY <3>7, <6>1, <6>2, MediaAssumption
        <5> QED
          BY <5>1, <5>2
      <4>3. \A u \in Rows' : row'[u].owner \in people'
        <5> SUFFICES ASSUME NEW u \in Rows PROVE row'[u].owner \in people \ {Visitor}
          BY <2>3, <3>4
        <5>1. row[u].owner \in people /\ Contact \in people \ {Visitor}
          BY <1>0, <1>1, <2>3, <3>1 DEF QuotasKept
        <5> QED
          BY <3>2, <5>1
      <4> QED
        BY <4>1, <4>2, <4>3 DEF QuotasKept
    <3>10. RoomOK'
      <4> SUFFICES ASSUME NEW u \in Uploads, at[u] \in {"owner", "insert"}
                   PROVE  /\ quotaLock = u /\ Objects(Rows)' + NewObjects(u) <= MaxObjects
                          /\ at[u] = "insert" => /\ userLock'[Uploader[u]] = u /\ Uploader[u] \in people'
                                                /\ Size(OwnedBy({Uploader[u]}))' + 1 + NewThumb(u) <= MaxOwned
        BY <1>2, <1>4 DEF RoomOK
      <4>1. quotaLock = u /\ Objects(Rows) + NewObjects(u) <= MaxObjects
        BY <1>0 DEF RoomOK
      <4>2. NewThumb(u) \in Nat /\ NewObjects(u) \in Nat
        BY MediaAssumption DEF NewThumb, NewObjects, ThumbSize
      <4>3. Objects(Rows)' + NewObjects(u) <= MaxObjects
        BY <3>8, <4>1, <4>2, MediaAssumption
      <4>4. ASSUME at[u] = "insert"
            PROVE  /\ userLock'[Uploader[u]] = u /\ Uploader[u] \in people'
                   /\ Size(OwnedBy({Uploader[u]}))' + 1 + NewThumb(u) <= MaxOwned
        <5>1. /\ userLock[Uploader[u]] = u /\ Uploader[u] \in people
              /\ Size(OwnedBy({Uploader[u]})) + 1 + NewThumb(u) <= MaxOwned
          BY <1>0, <4>4 DEF RoomOK
        <5>2. Uploader[u] \notin {Visitor, Contact}
          BY <1>1, <3>1, <5>1
        <5>3. OwnedBy({Uploader[u]})' \subseteq OwnedBy({Uploader[u]})
          BY <3>2, <3>4, <5>2 DEF OwnedBy
        <5>4. Size(OwnedBy({Uploader[u]}))' + 1 + NewThumb(u) <= MaxOwned
          <6> DEFINE before == Size(OwnedBy({Uploader[u]}))
                     after == Size(OwnedBy({Uploader[u]}))'
          <6>1. before \in Nat /\ after \in Nat /\ after <= before /\ before + 1 + NewThumb(u) <= MaxOwned
            BY <3>7, <5>1, <5>3
          <6> HIDE DEF before, after
          <6>2. after + 1 + NewThumb(u) <= MaxOwned
            BY <4>2, <6>1, MediaAssumption
          <6> QED
            BY <6>2 DEF after
        <5>5. userLock'[Uploader[u]] = u
          BY <1>3, <1>4, <5>1
        <5> QED
          BY <2>3, <5>1, <5>2, <5>4, <5>5
      <4> QED
        BY <4>1, <4>3, <4>4
    <3>11. PastOK'
      <4>1. InHand' = InHand
        BY <1>2 DEF InHand
      <4> QED
        BY <1>0, <1>2, <2>1, <3>4, <4>1 DEF PastOK
    <3>12. ReserveOK'
      <4>1. \A u \in Uploads : row'[u].thumb = row[u].thumb
        BY <3>2, <3>3
      <4> QED
        BY <1>0, <1>2, <4>1 DEF ReserveOK
    <3> QED
      BY <2>1, <3>9, <3>10, <3>11, <3>12 DEF QuotaIInv
  <2> QED
    BY <1>8, <2>2, <2>3 DEF MergeCommit
<1> QED
  BY <1>6, <1>7, <1>8 DEF Merge

(* A crash gives up locks and transactions. *)
LEMMA CrashQuota ==
  ASSUME QuotaIInv, MediaTypeOK', Crash
  PROVE  QuotaIInv'
<1>0. MediaTypeOK /\ PastOK /\ ReserveOK
  BY DEF QuotaIInv
<1>1. /\ row' = row /\ people' = people /\ merge'.at = "idle" /\ merge'.moved = {} /\ sweep' = Resting
      /\ \A u \in Uploads : at'[u] = IF at[u] \in {"idle", "held"} THEN at[u] ELSE "done"
  BY DEF Crash
<1>2. Rows' = Rows /\ Stale' = Stale /\ QuotasKept'
  BY <1>1, SameRoom
<1>3. RoomOK' /\ ReserveOK' /\ MergeOK'
  BY <1>1 DEF RoomOK, ReserveOK, MergeOK
<1>4. PastOK'
  <2>1. InHand' = {} /\ Rows \union Stale \subseteq Uploads
    BY <1>1 DEF InHand, Resting, Rows, Stale
  <2> QED
    BY <1>0, <1>1, <1>2, <2>1 DEF PastOK, Early, Late
<1> QED
  BY <1>2, <1>3, <1>4 DEF QuotaIInv

LEMMA MediaQuotaStep == QuotaIInv /\ [MediaNext]_mediaVars => QuotaIInv'
<1> SUFFICES ASSUME QuotaIInv, [MediaNext]_mediaVars PROVE QuotaIInv'
  OBVIOUS
<1>1. MediaTypeOK'
  BY MediaTypeStep DEF QuotaIInv
<1>2. CASE UNCHANGED mediaVars
  <2>1. /\ UNCHANGED <<row, thumbs, people, at, quotaLock, userLock, merge, sweep>>
    BY <1>2 DEF mediaVars, storeVars, lockVars, peopleVars
  <2>2. /\ Rows' = Rows /\ Stale' = Stale /\ Objects(Rows)' = Objects(Rows) /\ QuotasKept' /\ MergeFits' = MergeFits
        /\ \A P : OwnedBy(P)' = OwnedBy(P) /\ Size(OwnedBy(P))' = Size(OwnedBy(P))
        /\ \A v \in Uploads : NewThumb(v)' = NewThumb(v) /\ NewObjects(v)' = NewObjects(v)
    BY <2>1, SameRoom
  <2> QED
    BY <1>1, <2>1, <2>2 DEF QuotaIInv, PastOK, InHand, RoomOK, ReserveOK, MergeOK
<1> QED
  BY <1>1, <1>2, UploadQuota, LockQuotaStep, InsertQuota, MergeQuota, SweepQuota, CrashQuota DEF MediaNext, Upload

-----------------------------------------------------------------------------
(* The collector deletes the file before the row and the row before the    *)
(* thumbnail.                                                              *)
SweepOK ==
  /\ sweep.at \in {"idle", "next"} => sweep.file = Nobody
  /\ sweep.at \in {"row", "thumb"} => sweep.file \notin files
  /\ sweep.at = "thumb" => sweep.file \notin Rows

(* On its way into a message a file is stored, unless the collector has    *)
(* come first.                                                             *)
Stored(u) ==
  /\ at[u] \in {"quota", "owner", "insert", "read back", "settle"} => u \in files
  /\ at[u] \in {"read back", "settle"} => u \in Rows
  /\ at[u] \in {"held", "message", "attach"} /\ u \notin raced => u \in files \/ u \notin Rows \/ (sweep.at = "row" /\ sweep.file = u)
  /\ u \in sent => at[u] \in {"attach", "done"}
  /\ at[u] = "done" /\ u \in sent \ (raced \union unattached) =>
       u \in Rows /\ row[u].linked /\ u \in files /\ u \notin InHand

(* What a request that is over leaves in the store has a row, is counted   *)
(* as leaked or is about to be deleted.                                    *)
Left(u) ==
  /\ u \in thumbs \/ at[u] = "thumb" => u \in Images
  /\ at[u] \in {"idle", "thumb", "file", "undo row"} => u \notin files
  /\ (at[u] = "thumb" => u \in ByAgent) /\ (at[u] \in {"idle", "thumb"} => u \notin thumbs)
  /\ at[u] \in Early \union {"read back", "undo file"} /\ u \notin ByAgent => u \notin thumbs
  /\ at[u] = "undo thumb" => u \notin files \/ u \in Rows \/ u \in leaked
  /\ at[u] \in Late \union {"idle"} /\ u \in files \union thumbs =>
       u \in Rows \/ u \in leaked \/ (sweep.at = "thumb" /\ sweep.file = u)

StoreIInv == SweepOK /\ \A u \in Uploads : Stored(u) /\ Left(u)

LEMMA MediaInitStore == MediaInit => StoreIInv
<1> SUFFICES ASSUME MediaInit PROVE StoreIInv
  OBVIOUS
<1> QED
  BY DEF MediaInit, StoreIInv, SweepOK, Stored, Left, Resting, Early, Late

(* What a step leaves alone is as well stored as it was. *)
LEMMA StoreFrame ==
  ASSUME NEW u \in Uploads, Stored(u), Left(u),
         at'[u] = at[u], row'[u].there <=> row[u].there, row'[u].linked <=> row[u].linked,
         u \in files' <=> u \in files, u \in thumbs' <=> u \in thumbs, u \in leaked => u \in leaked',
         u \in sent' <=> u \in sent, u \in raced => u \in raced', u \in unattached => u \in unattached',
         u \in InHand' => u \in InHand,
         sweep.file = u => sweep' = sweep
  PROVE  Stored(u)' /\ Left(u)'
<1>1. u \in Rows' <=> u \in Rows
  BY DEF Rows
<1>2. Stored(u)'
  BY <1>1 DEF Stored
<1>3. Left(u)'
  BY <1>1 DEF Left
<1> QED
  BY <1>2, <1>3

(* A step of the upload u. *)
LEMMA StoreStep ==
  ASSUME QuotaIInv, StoreIInv, NEW u \in Uploads, NEW place, at' = [at EXCEPT ![u] = place],
         \A v \in Uploads \ {u} :
           /\ row'[v] = row[v] /\ (v \in files' <=> v \in files) /\ (v \in thumbs' <=> v \in thumbs)
           /\ (v \in leaked => v \in leaked') /\ (v \in sent' <=> v \in sent)
           /\ (v \in raced => v \in raced') /\ (v \in unattached => v \in unattached'),
         sweep' = sweep,
         u \in files' => u \in files \/ at[u] \notin Late,
         u \in Rows' => u \in Rows \/ at[u] \notin Late,
         Stored(u)', Left(u)'
  PROVE  StoreIInv'
<1>0. MediaTypeOK /\ PastOK /\ SweepOK
  BY DEF QuotaIInv, StoreIInv
<1>1. at \in [Uploads -> Places] /\ sweep.file \in Uploads \union {Nobody} /\ Nobody \notin Uploads
      /\ (sweep.at \in {"file", "row", "thumb"} => sweep.file \in Uploads)
  BY <1>0, MediaAssumption DEF MediaTypeOK
<1>2. InHand' = InHand
  BY DEF InHand
<1>3. ASSUME NEW v \in Uploads \ {u} PROVE Stored(v)' /\ Left(v)'
  <2>1. Stored(v) /\ Left(v) /\ at'[v] = at[v]
    BY <1>1 DEF StoreIInv
  <2> QED
    BY <1>2, <2>1, StoreFrame
<1>4. SweepOK'
  <2>1. sweep.at \in {"row", "thumb"} => sweep.file \in InHand /\ at[sweep.file] \in Late
    BY <1>0, <1>1 DEF PastOK, InHand
  <2>2. sweep.at \in {"row", "thumb"} => sweep.file \notin files'
    BY <1>0, <1>1, <2>1 DEF SweepOK
  <2>3. sweep.at = "thumb" => sweep.file \notin Rows'
    BY <1>0, <1>1, <2>1 DEF SweepOK, Rows
  <2> QED
    BY <1>0, <2>2, <2>3 DEF SweepOK
<1> QED
  BY <1>3, <1>4 DEF StoreIInv

(* The steps of a request, each for its own upload. *)
LEMMA UploadStore ==
  ASSUME QuotaIInv, QuotaIInv', StoreIInv, NEW u \in Uploads, Upload(u) \/ Begin(u) \/ Pick(u) \/ NameInline(u)
  PROVE  StoreIInv'
<1>0. MediaTypeOK /\ MediaTypeOK' /\ PastOK /\ ReserveOK /\ Stored(u) /\ Left(u)
  BY DEF QuotaIInv, StoreIInv
<1>1. /\ row \in MediaRows /\ row' \in MediaRows /\ at \in [Uploads -> Places] /\ at[u] \in Places
      /\ sweep.file \in Uploads \union {Nobody}
  BY <1>0 DEF MediaTypeOK, MediaRows
<1>2. at[u] \in Early => u \notin Rows
  BY <1>0 DEF PastOK
<1>3. at[u] \notin Late => u \notin InHand /\ (u \in Rows => ~row[u].stale)
  BY <1>0 DEF PastOK, Stale
<1> USE DEF storeVars, lockVars, peopleVars, messageVars, Go
<1>4. CASE Begin(u)
  <2>1. PICK place \in {"thumb", "file"} : at' = [at EXCEPT ![u] = place]
    BY <1>4 DEF Begin, Start
  <2>2. at'[u] = place
    BY <1>1, <2>1
  <2>3. InHand' = InHand /\ sweep' = sweep
    BY <1>4 DEF Begin, InHand
  <2>4. Stored(u)'
    BY <1>0, <1>1, <1>2, <1>3, <1>4, <2>1, <2>2, <2>3 DEF Begin, Start, Stored, Rows
  <2>5. Left(u)'
    BY <1>0, <1>1, <1>2, <1>3, <1>4, <2>1, <2>2, <2>3 DEF Begin, Start, Left, Rows, Early, Late
  <2>6. \A v \in Uploads \ {u} :
           /\ row'[v] = row[v] /\ (v \in files' <=> v \in files) /\ (v \in thumbs' <=> v \in thumbs)
           /\ (v \in leaked => v \in leaked') /\ (v \in sent' <=> v \in sent)
           /\ (v \in raced => v \in raced') /\ (v \in unattached => v \in unattached')
    BY <1>1, <1>4 DEF Begin, MediaRows
  <2>7. (u \in files' => u \in files \/ at[u] \notin Late) /\ (u \in Rows' => u \in Rows \/ at[u] \notin Late)
    BY <1>1, <1>4 DEF Begin, Late, Rows
  <2> QED
    BY <2>1, <2>3, <2>4, <2>5, <2>6, <2>7, StoreStep
<1>5. CASE PutThumb(u)
  <2>1. PICK place \in {"file", "done"} : at' = [at EXCEPT ![u] = place]
    BY <1>5 DEF PutThumb
  <2>2. at'[u] = place
    BY <1>1, <2>1
  <2>3. InHand' = InHand /\ sweep' = sweep
    BY <1>5 DEF PutThumb, InHand
  <2>4. Stored(u)'
    BY <1>0, <1>1, <1>2, <1>3, <1>5, <2>1, <2>2, <2>3 DEF PutThumb, Stored, Rows
  <2>5. Left(u)'
    BY <1>0, <1>1, <1>2, <1>3, <1>5, <2>1, <2>2, <2>3 DEF PutThumb, Left, Rows, Early, Late
  <2>6. \A v \in Uploads \ {u} :
           /\ row'[v] = row[v] /\ (v \in files' <=> v \in files) /\ (v \in thumbs' <=> v \in thumbs)
           /\ (v \in leaked => v \in leaked') /\ (v \in sent' <=> v \in sent)
           /\ (v \in raced => v \in raced') /\ (v \in unattached => v \in unattached')
    BY <1>1, <1>5 DEF PutThumb, MediaRows
  <2>7. (u \in files' => u \in files \/ at[u] \notin Late) /\ (u \in Rows' => u \in Rows \/ at[u] \notin Late)
    BY <1>1, <1>5 DEF PutThumb, Late, Rows
  <2> QED
    BY <2>1, <2>3, <2>4, <2>5, <2>6, <2>7, StoreStep
<1>6. CASE PutFile(u)
  <2>1. PICK place \in {"quota", "undo file", "done"} : at' = [at EXCEPT ![u] = place]
    BY <1>6 DEF PutFile, Undo
  <2>2. at'[u] = place
    BY <1>1, <2>1
  <2>3. InHand' = InHand /\ sweep' = sweep
    BY <1>6 DEF PutFile, InHand
  <2>4. Stored(u)'
    BY <1>0, <1>1, <1>2, <1>3, <1>6, <2>1, <2>2, <2>3 DEF PutFile, Undo, Stored, Rows
  <2>5. Left(u)'
    BY <1>0, <1>1, <1>2, <1>3, <1>6, <2>1, <2>2, <2>3 DEF PutFile, Undo, Left, Rows, Early, Late
  <2>6. \A v \in Uploads \ {u} :
           /\ row'[v] = row[v] /\ (v \in files' <=> v \in files) /\ (v \in thumbs' <=> v \in thumbs)
           /\ (v \in leaked => v \in leaked') /\ (v \in sent' <=> v \in sent)
           /\ (v \in raced => v \in raced') /\ (v \in unattached => v \in unattached')
    BY <1>1, <1>6 DEF PutFile, MediaRows
  <2>7. (u \in files' => u \in files \/ at[u] \notin Late) /\ (u \in Rows' => u \in Rows \/ at[u] \notin Late)
    BY <1>1, <1>6 DEF PutFile, Late, Rows
  <2> QED
    BY <2>1, <2>3, <2>4, <2>5, <2>6, <2>7, StoreStep
<1>7. CASE LockQuota(u)
  <2>1. PICK place \in {"owner", "undo file"} : at' = [at EXCEPT ![u] = place]
    BY <1>7 DEF LockQuota, Undo
  <2>2. at'[u] = place
    BY <1>1, <2>1
  <2>3. InHand' = InHand /\ sweep' = sweep
    BY <1>7 DEF LockQuota, InHand
  <2>4. Stored(u)'
    BY <1>0, <1>1, <1>2, <1>3, <1>7, <2>1, <2>2, <2>3 DEF LockQuota, Undo, Stored, Rows
  <2>5. Left(u)'
    BY <1>0, <1>1, <1>2, <1>3, <1>7, <2>1, <2>2, <2>3 DEF LockQuota, Undo, Left, Rows, Early, Late
  <2>6. \A v \in Uploads \ {u} :
           /\ row'[v] = row[v] /\ (v \in files' <=> v \in files) /\ (v \in thumbs' <=> v \in thumbs)
           /\ (v \in leaked => v \in leaked') /\ (v \in sent' <=> v \in sent)
           /\ (v \in raced => v \in raced') /\ (v \in unattached => v \in unattached')
    BY <1>1, <1>7 DEF LockQuota, MediaRows
  <2>7. (u \in files' => u \in files \/ at[u] \notin Late) /\ (u \in Rows' => u \in Rows \/ at[u] \notin Late)
    BY <1>1, <1>7 DEF LockQuota, Late, Rows
  <2> QED
    BY <2>1, <2>3, <2>4, <2>5, <2>6, <2>7, StoreStep
<1>8. CASE LockOwner(u)
  <2>1. PICK place \in {"insert", "undo file"} : at' = [at EXCEPT ![u] = place]
    BY <1>8 DEF LockOwner, Undo
  <2>2. at'[u] = place
    BY <1>1, <2>1
  <2>3. InHand' = InHand /\ sweep' = sweep
    BY <1>8 DEF LockOwner, InHand
  <2>4. Stored(u)'
    BY <1>0, <1>1, <1>2, <1>3, <1>8, <2>1, <2>2, <2>3 DEF LockOwner, Undo, Stored, Rows
  <2>5. Left(u)'
    BY <1>0, <1>1, <1>2, <1>3, <1>8, <2>1, <2>2, <2>3 DEF LockOwner, Undo, Left, Rows, Early, Late
  <2>6. \A v \in Uploads \ {u} :
           /\ row'[v] = row[v] /\ (v \in files' <=> v \in files) /\ (v \in thumbs' <=> v \in thumbs)
           /\ (v \in leaked => v \in leaked') /\ (v \in sent' <=> v \in sent)
           /\ (v \in raced => v \in raced') /\ (v \in unattached => v \in unattached')
    BY <1>1, <1>8 DEF LockOwner, MediaRows
  <2>7. (u \in files' => u \in files \/ at[u] \notin Late) /\ (u \in Rows' => u \in Rows \/ at[u] \notin Late)
    BY <1>1, <1>8 DEF LockOwner, Late, Rows
  <2> QED
    BY <2>1, <2>3, <2>4, <2>5, <2>6, <2>7, StoreStep
<1>9. CASE Insert(u)
  <2>1. PICK place \in {"read back", "undo file"} : at' = [at EXCEPT ![u] = place]
    BY <1>9 DEF Insert, Undo
  <2>2. at'[u] = place
    BY <1>1, <2>1
  <2>3. InHand' = InHand /\ sweep' = sweep
    BY <1>9 DEF Insert, InHand
  <2>3a. IF place = "read back" THEN u \in Rows' ELSE row' = row
    <3>1. \/ row' = [row EXCEPT ![u] = InsertedRow(u)] /\ at'[u] = "read back"
          \/ row' = row /\ at'[u] = "undo file"
      BY <1>1, <1>9 DEF Insert, Undo
    <3>2. ASSUME row' = [row EXCEPT ![u] = InsertedRow(u)] PROVE u \in Rows'
      <4>1. row'[u] = InsertedRow(u)
        BY <1>1, <3>2 DEF MediaRows
      <4>2. InsertedRow(u).there = TRUE
        BY DEF InsertedRow
      <4> QED
        BY <4>1, <4>2 DEF Rows
    <3> QED
      BY <2>2, <3>1, <3>2
  <2>4. Stored(u)'
    BY <1>0, <1>1, <1>2, <1>3, <1>9, <2>3a, <2>1, <2>2, <2>3 DEF Insert, Undo, Stored, Rows
  <2>5. Left(u)'
    BY <1>0, <1>1, <1>2, <1>3, <1>9, <2>3a, <2>1, <2>2, <2>3 DEF Insert, Undo, Left, Rows, Early, Late
  <2>6. \A v \in Uploads \ {u} :
           /\ row'[v] = row[v] /\ (v \in files' <=> v \in files) /\ (v \in thumbs' <=> v \in thumbs)
           /\ (v \in leaked => v \in leaked') /\ (v \in sent' <=> v \in sent)
           /\ (v \in raced => v \in raced') /\ (v \in unattached => v \in unattached')
    BY <1>1, <1>9 DEF Insert, MediaRows
  <2>7. (u \in files' => u \in files \/ at[u] \notin Late) /\ (u \in Rows' => u \in Rows \/ at[u] \notin Late)
    BY <1>1, <1>9 DEF Insert, Late, Rows
  <2> QED
    BY <2>1, <2>3, <2>4, <2>5, <2>6, <2>7, StoreStep
<1>10. CASE ReadBack(u)
  <2>1. PICK place \in {"held", "settle", "message", "undo file"} : at' = [at EXCEPT ![u] = place]
    BY <1>10 DEF ReadBack, Undo
  <2>2. at'[u] = place
    BY <1>1, <2>1
  <2>3. InHand' = InHand /\ sweep' = sweep
    BY <1>10 DEF ReadBack, InHand
  <2>4. Stored(u)'
    BY <1>0, <1>1, <1>2, <1>3, <1>10, <2>1, <2>2, <2>3 DEF ReadBack, Undo, Stored, Rows
  <2>5. Left(u)'
    BY <1>0, <1>1, <1>2, <1>3, <1>10, <2>1, <2>2, <2>3 DEF ReadBack, Undo, Left, Rows, Early, Late, Stored
  <2>6. \A v \in Uploads \ {u} :
           /\ row'[v] = row[v] /\ (v \in files' <=> v \in files) /\ (v \in thumbs' <=> v \in thumbs)
           /\ (v \in leaked => v \in leaked') /\ (v \in sent' <=> v \in sent)
           /\ (v \in raced => v \in raced') /\ (v \in unattached => v \in unattached')
    BY <1>1, <1>10 DEF ReadBack, MediaRows
  <2>7. (u \in files' => u \in files \/ at[u] \notin Late) /\ (u \in Rows' => u \in Rows \/ at[u] \notin Late)
    BY <1>1, <1>10 DEF ReadBack, Late, Rows
  <2> QED
    BY <2>1, <2>3, <2>4, <2>5, <2>6, <2>7, StoreStep
<1>11. CASE PutLateThumb(u)
  <2>1. PICK place \in {"settle"} : at' = [at EXCEPT ![u] = place]
    BY <1>1, <1>11 DEF PutLateThumb
  <2>2. at'[u] = place
    BY <1>1, <2>1
  <2>3. InHand' = InHand /\ sweep' = sweep
    BY <1>11 DEF PutLateThumb, InHand
  <2>4. Stored(u)'
    BY <1>0, <1>1, <1>2, <1>3, <1>11, <2>1, <2>2, <2>3 DEF PutLateThumb, Stored, Rows
  <2>5. Left(u)'
    BY <1>0, <1>1, <1>2, <1>3, <1>11, <2>1, <2>2, <2>3 DEF PutLateThumb, Left, Rows, Early, Late, Stored, ReserveOK
  <2>6. \A v \in Uploads \ {u} :
           /\ row'[v] = row[v] /\ (v \in files' <=> v \in files) /\ (v \in thumbs' <=> v \in thumbs)
           /\ (v \in leaked => v \in leaked') /\ (v \in sent' <=> v \in sent)
           /\ (v \in raced => v \in raced') /\ (v \in unattached => v \in unattached')
    BY <1>1, <1>11 DEF PutLateThumb, MediaRows
  <2>7. (u \in files' => u \in files \/ at[u] \notin Late) /\ (u \in Rows' => u \in Rows \/ at[u] \notin Late)
    BY <1>1, <1>11 DEF PutLateThumb, Late, Rows
  <2> QED
    BY <2>1, <2>3, <2>4, <2>5, <2>6, <2>7, StoreStep
<1>12. CASE SetThumbnailSize(u)
  <2>1. PICK place \in {"message"} : at' = [at EXCEPT ![u] = place]
    BY <1>12 DEF SetThumbnailSize
  <2>2. at'[u] = place
    BY <1>1, <2>1
  <2>3. InHand' = InHand /\ sweep' = sweep
    BY <1>12 DEF SetThumbnailSize, InHand
  <2>3a. u \in Rows' <=> u \in Rows
    <3>1. CASE row' = row
      BY <3>1 DEF Rows
    <3>2. CASE row' = [row EXCEPT ![u].thumb = IF u \in thumbs THEN ThumbSize ELSE 0]
      <4>1. row'[u].there = row[u].there
        BY <1>1, <3>2 DEF MediaRows, Row
      <4> QED
        BY <4>1 DEF Rows
    <3> QED
      BY <1>12, <3>1, <3>2 DEF SetThumbnailSize
  <2>4. Stored(u)'
    BY <1>0, <1>1, <1>2, <1>3, <1>12, <2>1, <2>2, <2>3, <2>3a DEF SetThumbnailSize, Stored
  <2>5. Left(u)'
    BY <1>0, <1>1, <1>2, <1>3, <1>12, <2>1, <2>2, <2>3, <2>3a DEF SetThumbnailSize, Left, Early, Late, Stored
  <2>6. \A v \in Uploads \ {u} :
           /\ row'[v] = row[v] /\ (v \in files' <=> v \in files) /\ (v \in thumbs' <=> v \in thumbs)
           /\ (v \in leaked => v \in leaked') /\ (v \in sent' <=> v \in sent)
           /\ (v \in raced => v \in raced') /\ (v \in unattached => v \in unattached')
    BY <1>1, <1>12 DEF SetThumbnailSize, MediaRows
  <2>7. (u \in files' => u \in files \/ at[u] \notin Late) /\ (u \in Rows' => u \in Rows \/ at[u] \notin Late)
    BY <1>1, <1>12 DEF SetThumbnailSize, Late, Rows
  <2> QED
    BY <2>1, <2>3, <2>4, <2>5, <2>6, <2>7, StoreStep
<1>13. CASE UndoFile(u)
  <2>1. PICK place \in {"undo row", "undo thumb", "done"} : at' = [at EXCEPT ![u] = place]
    BY <1>13 DEF UndoFile
  <2>2. at'[u] = place
    BY <1>1, <2>1
  <2>3. InHand' = InHand /\ sweep' = sweep
    BY <1>13 DEF UndoFile, InHand
  <2>4. Stored(u)'
    BY <1>0, <1>1, <1>2, <1>3, <1>13, <2>1, <2>2, <2>3 DEF UndoFile, Stored, Rows
  <2>5. Left(u)'
    BY <1>0, <1>1, <1>2, <1>3, <1>13, <2>1, <2>2, <2>3 DEF UndoFile, Left, Rows, Early, Late
  <2>6. \A v \in Uploads \ {u} :
           /\ row'[v] = row[v] /\ (v \in files' <=> v \in files) /\ (v \in thumbs' <=> v \in thumbs)
           /\ (v \in leaked => v \in leaked') /\ (v \in sent' <=> v \in sent)
           /\ (v \in raced => v \in raced') /\ (v \in unattached => v \in unattached')
    BY <1>1, <1>13 DEF UndoFile, MediaRows
  <2>7. (u \in files' => u \in files \/ at[u] \notin Late) /\ (u \in Rows' => u \in Rows \/ at[u] \notin Late)
    BY <1>1, <1>13 DEF UndoFile, Late, Rows
  <2> QED
    BY <2>1, <2>3, <2>4, <2>5, <2>6, <2>7, StoreStep
<1>14. CASE UndoRow(u)
  <2>1. PICK place \in {"undo thumb"} : at' = [at EXCEPT ![u] = place]
    BY <1>14 DEF UndoRow
  <2>2. at'[u] = place
    BY <1>1, <2>1
  <2>3. InHand' = InHand /\ sweep' = sweep
    BY <1>14 DEF UndoRow, InHand
  <2>4. Stored(u)'
    BY <1>0, <1>1, <1>2, <1>3, <1>14, <2>1, <2>2, <2>3 DEF UndoRow, Stored, Rows
  <2>5. Left(u)'
    BY <1>0, <1>1, <1>2, <1>3, <1>14, <2>1, <2>2, <2>3 DEF UndoRow, Left, Rows, Early, Late
  <2>6. \A v \in Uploads \ {u} :
           /\ row'[v] = row[v] /\ (v \in files' <=> v \in files) /\ (v \in thumbs' <=> v \in thumbs)
           /\ (v \in leaked => v \in leaked') /\ (v \in sent' <=> v \in sent)
           /\ (v \in raced => v \in raced') /\ (v \in unattached => v \in unattached')
    BY <1>1, <1>14 DEF UndoRow, MediaRows
  <2>7. (u \in files' => u \in files \/ at[u] \notin Late) /\ (u \in Rows' => u \in Rows \/ at[u] \notin Late)
    BY <1>1, <1>14 DEF UndoRow, Late, Rows
  <2> QED
    BY <2>1, <2>3, <2>4, <2>5, <2>6, <2>7, StoreStep
<1>15. CASE UndoThumb(u)
  <2>1. PICK place \in {"done"} : at' = [at EXCEPT ![u] = place]
    BY <1>15 DEF UndoThumb
  <2>2. at'[u] = place
    BY <1>1, <2>1
  <2>3. InHand' = InHand /\ sweep' = sweep
    BY <1>15 DEF UndoThumb, InHand
  <2>4. Stored(u)'
    BY <1>0, <1>1, <1>2, <1>3, <1>15, <2>1, <2>2, <2>3 DEF UndoThumb, Stored, Rows
  <2>5. Left(u)'
    BY <1>0, <1>1, <1>2, <1>3, <1>15, <2>1, <2>2, <2>3 DEF UndoThumb, Left, Rows, Early, Late
  <2>6. \A v \in Uploads \ {u} :
           /\ row'[v] = row[v] /\ (v \in files' <=> v \in files) /\ (v \in thumbs' <=> v \in thumbs)
           /\ (v \in leaked => v \in leaked') /\ (v \in sent' <=> v \in sent)
           /\ (v \in raced => v \in raced') /\ (v \in unattached => v \in unattached')
    BY <1>1, <1>15 DEF UndoThumb, MediaRows
  <2>7. (u \in files' => u \in files \/ at[u] \notin Late) /\ (u \in Rows' => u \in Rows \/ at[u] \notin Late)
    BY <1>1, <1>15 DEF UndoThumb, Late, Rows
  <2> QED
    BY <2>1, <2>3, <2>4, <2>5, <2>6, <2>7, StoreStep
<1>16. CASE Pick(u) \/ NameInline(u)
  <2>1. PICK place \in {"message", "done"} : at' = [at EXCEPT ![u] = place]
    BY <1>16 DEF Pick, NameInline
  <2>2. at'[u] = place
    BY <1>1, <2>1
  <2>3. InHand' = InHand /\ sweep' = sweep
    BY <1>16 DEF Pick, NameInline, InHand
  <2>4. Stored(u)'
    BY <1>0, <1>1, <1>2, <1>3, <1>16, <2>1, <2>2, <2>3 DEF Pick, NameInline, Stored, Rows
  <2>5. Left(u)'
    BY <1>0, <1>1, <1>2, <1>3, <1>16, <2>1, <2>2, <2>3 DEF Pick, NameInline, Left, Rows, Early, Late
  <2>6. \A v \in Uploads \ {u} :
           /\ row'[v] = row[v] /\ (v \in files' <=> v \in files) /\ (v \in thumbs' <=> v \in thumbs)
           /\ (v \in leaked => v \in leaked') /\ (v \in sent' <=> v \in sent)
           /\ (v \in raced => v \in raced') /\ (v \in unattached => v \in unattached')
    BY <1>1, <1>16 DEF Pick, NameInline, MediaRows
  <2>7. (u \in files' => u \in files \/ at[u] \notin Late) /\ (u \in Rows' => u \in Rows \/ at[u] \notin Late)
    BY <1>1, <1>16 DEF Pick, NameInline, Late, Rows
  <2> QED
    BY <2>1, <2>3, <2>4, <2>5, <2>6, <2>7, StoreStep
<1>17. CASE InsertMessage(u)
  <2>1. PICK place \in {"attach", "done"} : at' = [at EXCEPT ![u] = place]
    BY <1>17 DEF InsertMessage
  <2>2. at'[u] = place
    BY <1>1, <2>1
  <2>3. InHand' = InHand /\ sweep' = sweep
    BY <1>17 DEF InsertMessage, InHand
  <2>4. Stored(u)'
    BY <1>0, <1>1, <1>2, <1>3, <1>17, <2>1, <2>2, <2>3 DEF InsertMessage, Stored, Rows
  <2>5. Left(u)'
    BY <1>0, <1>1, <1>2, <1>3, <1>17, <2>1, <2>2, <2>3 DEF InsertMessage, Left, Rows, Early, Late
  <2>6. \A v \in Uploads \ {u} :
           /\ row'[v] = row[v] /\ (v \in files' <=> v \in files) /\ (v \in thumbs' <=> v \in thumbs)
           /\ (v \in leaked => v \in leaked') /\ (v \in sent' <=> v \in sent)
           /\ (v \in raced => v \in raced') /\ (v \in unattached => v \in unattached')
    BY <1>1, <1>17 DEF InsertMessage, MediaRows
  <2>7. (u \in files' => u \in files \/ at[u] \notin Late) /\ (u \in Rows' => u \in Rows \/ at[u] \notin Late)
    BY <1>1, <1>17 DEF InsertMessage, Late, Rows
  <2> QED
    BY <2>1, <2>3, <2>4, <2>5, <2>6, <2>7, StoreStep
<1>18. CASE Attach(u)
  <2>1. PICK place \in {"done"} : at' = [at EXCEPT ![u] = place]
    BY <1>18 DEF Attach
  <2>2. at'[u] = place
    BY <1>1, <2>1
  <2>3. InHand' = InHand /\ sweep' = sweep
    BY <1>18 DEF Attach, InHand
  <2>3a. (u \in Rows' <=> u \in Rows) /\ (u \in Rows => row'[u].linked \/ u \in unattached')
    <3>1. CASE u \in Rows /\ row' = [row EXCEPT ![u].linked = TRUE]
      <4>1. row'[u].linked = TRUE /\ row'[u].there = row[u].there
        BY <1>1, <3>1 DEF MediaRows, Row
      <4> QED
        BY <3>1, <4>1 DEF Rows
    <3>2. CASE row' = row /\ (u \in Rows => u \in unattached')
      BY <3>2 DEF Rows
    <3> QED
      BY <1>18, <3>1, <3>2 DEF Attach
  <2>3b. (u \in Rows /\ u \notin InHand) \/ u \in raced' \/ u \in unattached'
    BY <1>18 DEF Attach, InHand
  <2>3c. at[u] = "attach" /\ UNCHANGED <<files, sent>> /\ (u \in raced => u \in raced') /\ (u \in InHand => u \in raced' \/ u \in unattached')
    BY <1>18, <2>3b DEF Attach
  <2>3d. place = "done" /\ (sweep.file = u => u \in InHand)
    BY <1>1, <2>1, MediaAssumption DEF InHand
  <2>4. Stored(u)'
    BY <1>0, <1>1, <1>18, <2>2, <2>3, <2>3a, <2>3b, <2>3c, <2>3d DEF Stored
  <2>5. Left(u)'
    BY <1>0, <1>1, <1>2, <1>3, <1>18, <2>3a, <2>1, <2>2, <2>3 DEF Attach, Left, Rows, Early, Late
  <2>6. \A v \in Uploads \ {u} :
           /\ row'[v] = row[v] /\ (v \in files' <=> v \in files) /\ (v \in thumbs' <=> v \in thumbs)
           /\ (v \in leaked => v \in leaked') /\ (v \in sent' <=> v \in sent)
           /\ (v \in raced => v \in raced') /\ (v \in unattached => v \in unattached')
    BY <1>1, <1>18 DEF Attach, MediaRows
  <2>7. (u \in files' => u \in files \/ at[u] \notin Late) /\ (u \in Rows' => u \in Rows \/ at[u] \notin Late)
    BY <1>1, <1>18 DEF Attach, Late, Rows
  <2> QED
    BY <2>1, <2>3, <2>4, <2>5, <2>6, <2>7, StoreStep
<1> QED
  BY <1>4, <1>5, <1>6, <1>7, <1>8, <1>9, <1>10, <1>11, <1>12, <1>13, <1>14, <1>15, <1>16, <1>17, <1>18 DEF Upload

(* Steps that move no file. *)
LEMMA OtherStore ==
  ASSUME QuotaIInv, StoreIInv, (\E u \in Uploads : DayPasses(u)) \/ Merge \/ SweepList \/ SweepNext \/ UNCHANGED mediaVars
  PROVE  StoreIInv'
<1>0. MediaTypeOK /\ PastOK /\ SweepOK /\ \A u \in Uploads : Stored(u) /\ Left(u)
  BY DEF QuotaIInv, StoreIInv
<1>1. row \in MediaRows /\ sweep.file \in Uploads \union {Nobody} /\ Nobody \notin Uploads
      /\ sweep \in [at : {"idle", "next", "file", "row", "thumb"}, file : Uploads \union {Nobody}, rest : SUBSET Uploads]
  BY <1>0, MediaAssumption DEF MediaTypeOK, MediaRows
<1> USE DEF storeVars, lockVars, peopleVars, messageVars
<1>2. UNCHANGED <<files, thumbs, leaked, at, sent, raced, unattached>>
  BY DEF DayPasses, Merge, MergeLock, MergeMove, MergeCommit, SweepList, SweepNext, mediaVars
<1>3. \A u \in Uploads : (row'[u].there <=> row[u].there) /\ (row'[u].linked <=> row[u].linked)
  <2>1. CASE row' = row
    BY <2>1
  <2>2. ASSUME NEW u \in Uploads, row' = [row EXCEPT ![u].stale = TRUE]
        PROVE  \A v \in Uploads : (row'[v].there <=> row[v].there) /\ (row'[v].linked <=> row[v].linked)
    BY <1>1, <2>2 DEF MediaRows, Row
  <2>3. CASE row' = [u \in Uploads |-> IF u \in Rows THEN [row[u] EXCEPT !.owner = NewOwner(u)] ELSE row[u]]
    BY <1>1, <2>3 DEF MediaRows, Row
  <2> QED
    BY <2>1, <2>2, <2>3 DEF DayPasses, Merge, MergeLock, MergeMove, MergeCommit, SweepList, SweepNext, mediaVars
<1>4. SweepOK' /\ \A u \in Uploads : (sweep.file = u => sweep' = sweep)
                                    /\ (u \in InHand' => u \in InHand \/ (u \in Rows /\ ~row[u].linked))
  <2>1. CASE sweep' = sweep
    <3>1. Rows' = Rows
      BY <1>3 DEF Rows
    <3> QED
      BY <1>0, <1>2, <2>1, <3>1 DEF SweepOK, InHand
  <2>2. CASE SweepList
    BY <1>0, <1>1, <2>2 DEF SweepOK, SweepList, InHand, Unlinked
  <2>3. CASE SweepNext
    <3>1. CASE sweep' = Resting
      BY <1>0, <1>1, <2>3, <3>1 DEF SweepOK, SweepNext, InHand, Resting
    <3>2. CASE sweep' # Resting
      <4>1. PICK v \in sweep.rest : sweep' = [at |-> "file", file |-> v, rest |-> sweep.rest \ {v}]
        BY <2>3, <3>2 DEF SweepNext
      <4> QED
        BY <1>0, <1>1, <2>3, <4>1 DEF SweepOK, SweepNext, InHand
    <3> QED
      BY <3>1, <3>2
  <2> QED
    BY <2>1, <2>2, <2>3 DEF DayPasses, Merge, MergeLock, MergeMove, MergeCommit, mediaVars
<1>5. ASSUME NEW u \in Uploads PROVE Stored(u)' /\ Left(u)'
  <2>1. u \in Rows' <=> u \in Rows
    BY <1>3 DEF Rows
  <2>2. Stored(u)'
    BY <1>0, <1>2, <1>3, <1>4, <2>1 DEF Stored
  <2>3. Left(u)'
    BY <1>0, <1>2, <1>4, <2>1 DEF Left
  <2> QED
    BY <2>2, <2>3
<1> QED
  BY <1>4, <1>5 DEF StoreIInv

(* The steps of the collector, each for the file in hand. *)
LEMMA SweepStore ==
  ASSUME QuotaIInv, StoreIInv, SweepFile \/ SweepRow \/ SweepThumb
  PROVE  StoreIInv'
<1>f. PICK f \in Uploads : f = sweep.file
  BY DEF SweepFile, SweepRow, SweepThumb, QuotaIInv, MediaTypeOK
<1>0. MediaTypeOK /\ PastOK /\ SweepOK /\ \A u \in Uploads : Stored(u) /\ Left(u)
  BY DEF QuotaIInv, StoreIInv
<1>1. /\ row \in MediaRows /\ f \in Uploads /\ f # Nobody /\ f \in InHand /\ at[f] \in Late /\ thumbs \subseteq Uploads
      /\ sweep \in [at : {"idle", "next", "file", "row", "thumb"}, file : Uploads \union {Nobody}, rest : SUBSET Uploads]
  BY <1>0, <1>f, MediaAssumption DEF MediaTypeOK, MediaRows, PastOK, InHand
<1> USE DEF storeVars, lockVars, peopleVars, messageVars
<1>2. UNCHANGED <<at, sent, unattached>>
  BY DEF SweepFile, SweepRow, SweepThumb
<1>3. /\ sweep'.rest = sweep.rest /\ InHand' \subseteq InHand
      /\ \/ sweep'.at = "next" /\ sweep'.file = Nobody
         \/ sweep'.at \in {"row", "thumb"} /\ sweep'.file = f
  BY <1>f, <1>1 DEF SweepFile, SweepRow, SweepThumb, SweepTo, SweepOn, InHand
<1>4. ASSUME NEW u \in Uploads, u # f
      PROVE  Stored(u)' /\ Left(u)'
  <2>1. row'[u] = row[u] /\ (u \in files' <=> u \in files) /\ (u \in thumbs' <=> u \in thumbs)
        /\ (u \in leaked => u \in leaked') /\ (u \in raced => u \in raced')
    BY <1>f, <1>1, <1>4 DEF SweepFile, SweepRow, SweepThumb, MediaRows
  <2> QED
    BY <1>f, <1>0, <1>2, <1>3, <1>4, <2>1, StoreFrame
<1>5. SweepOK' /\ Stored(f)' /\ Left(f)'
  <2>0. Stored(f) /\ Left(f) /\ at'[f] = at[f] /\ (f \in Rows => row[f].there)
    BY <1>0, <1>1, <1>2 DEF Rows
  <2>1. f \in sent \ (raced \union unattached) => at[f] # "done"
    BY <1>f, <1>1, <2>0 DEF Stored
  <2>2. CASE SweepFile
    <3>1. /\ row' = row /\ thumbs' = thumbs /\ raced' = raced /\ leaked' = leaked /\ Rows' = Rows /\ sweep.at = "file"
          /\ \/ files' = files \ {f} /\ sweep'.at = "row" /\ sweep'.file = f
             \/ files' = files /\ sweep'.at = "next" /\ sweep'.file = Nobody
      BY <1>f, <1>1, <2>2 DEF SweepFile, SweepTo, SweepOn, Rows
    <3>2. SweepOK'
      BY <1>f, <1>1, <3>1 DEF SweepOK
    <3>3. Stored(f)'
      BY <1>f, <1>1, <1>2, <2>0, <2>1, <3>1 DEF Stored, Late
    <3>4. Left(f)'
      BY <1>f, <1>1, <1>2, <2>0, <3>1 DEF Left, Late
    <3> QED
      BY <3>2, <3>3, <3>4
  <2>3. CASE SweepRow
    <3>1. files' = files /\ thumbs' = thumbs /\ leaked' = leaked /\ f \notin files /\ sweep.at = "row"
      BY <1>f, <1>0, <2>3 DEF SweepRow, SweepOK
    <3>2. \/ row' = [row EXCEPT ![f] = NoRow] /\ sweep'.at = (IF f \in Images THEN "thumb" ELSE "next") /\ raced' = raced
             /\ sweep'.file = (IF f \in Images THEN f ELSE Nobody)
          \/ row' = row /\ sweep'.at = "next" /\ sweep'.file = Nobody /\ f \in raced'
      BY <1>f, <1>1, <2>3 DEF SweepRow, SweepTo, SweepOn
    <3>3. row' = [row EXCEPT ![f] = NoRow] => f \notin Rows'
      BY <1>1 DEF Rows, MediaRows, NoRow
    <3>4. row' = row => Rows' = Rows
      BY DEF Rows
    <3>5. SweepOK'
      BY <1>f, <1>1, <3>1, <3>2, <3>3 DEF SweepOK
    <3>6. Stored(f)'
      BY <1>f, <1>1, <1>2, <2>0, <2>1, <3>1, <3>2, <3>3, <3>4 DEF Stored, Late
    <3>7. Left(f)'
      BY <1>f, <1>1, <1>2, <2>0, <3>1, <3>2, <3>3, <3>4 DEF Left, Late
    <3> QED
      BY <3>5, <3>6, <3>7
  <2>4. CASE SweepThumb
    <3>1. /\ row' = row /\ files' = files /\ raced' = raced /\ Rows' = Rows /\ sweep.at = "thumb" /\ f \notin Rows
          /\ sweep'.at = "next" /\ sweep'.file = Nobody
          /\ (f \in thumbs' => f \in leaked') /\ (f \in thumbs' => f \in thumbs) /\ (f \in leaked => f \in leaked')
      BY <1>f, <1>0, <1>1, <2>4 DEF SweepThumb, SweepOn, Rows, SweepOK
    <3>2. f \notin files
      BY <1>f, <1>0, <3>1 DEF SweepOK
    <3>3. SweepOK'
      BY <1>f, <1>1, <3>1 DEF SweepOK
    <3>4. Stored(f)'
      BY <1>f, <1>1, <1>2, <2>0, <2>1, <3>1 DEF Stored, Late
    <3>5. Left(f)'
      BY <1>f, <1>1, <1>2, <2>0, <3>1, <3>2 DEF Left, Late
    <3> QED
      BY <3>3, <3>4, <3>5
  <2> QED
    BY <2>2, <2>3, <2>4
<1> QED
  BY <1>4, <1>5 DEF StoreIInv

(* A crash leaves what it cut off as leaked, raced or not attached. *)
LEMMA CrashStore ==
  ASSUME QuotaIInv, StoreIInv, Crash
  PROVE  StoreIInv'
<1>0. MediaTypeOK /\ PastOK /\ SweepOK /\ \A u \in Uploads : Stored(u) /\ Left(u)
  BY DEF QuotaIInv, StoreIInv
<1>1. /\ UNCHANGED <<row, files, thumbs, sent>> /\ sweep' = Resting /\ Rows' = Rows
      /\ leaked' = leaked \union ((files \union thumbs) \ Rows)
      /\ unattached' = unattached \union {u \in Uploads : at[u] = "attach"}
      /\ raced \subseteq raced' /\ (sweep.at = "row" => sweep.file \in raced')
      /\ \A u \in Uploads : at'[u] = IF at[u] \in {"idle", "held"} THEN at[u] ELSE "done"
  BY DEF Crash, Rows
<1>2. SweepOK' /\ InHand' = {}
  BY <1>1 DEF SweepOK, InHand, Resting
<1>3. ASSUME NEW u \in Uploads PROVE Stored(u)' /\ Left(u)'
  <2>1. Stored(u) /\ Left(u)
    BY <1>0
  <2>2. sweep.file = u /\ sweep.at = "row" => u \in raced'
    BY <1>1
  <2>3. Stored(u)'
    BY <1>1, <1>2, <2>1, <2>2 DEF Stored
  <2>4. Left(u)'
    BY <1>1, <2>1 DEF Left, Early, Late
  <2> QED
    BY <2>3, <2>4
<1> QED
  BY <1>2, <1>3 DEF StoreIInv

LEMMA MediaStoreStep == QuotaIInv /\ QuotaIInv' /\ StoreIInv /\ [MediaNext]_mediaVars => StoreIInv'
BY UploadStore, OtherStore, SweepStore, CrashStore DEF MediaNext, Sweep

-----------------------------------------------------------------------------

(* The inductive invariant of Media's rows, locks, merge and quotas holds  *)
(* in every reachable state.                                               *)
THEOREM MediaInvariance == MediaSpec => []QuotaIInv
<1>1. MediaInit => QuotaIInv
  BY MediaInitQuota
<1>2. QuotaIInv /\ [MediaNext]_mediaVars => QuotaIInv'
  BY MediaQuotaStep
<1> QED
  BY <1>1, <1>2, PTL DEF MediaSpec

(* The variables of uploads, rows, store, merge and collector keep their   *)
(* types (media.go, user.go).                                              *)
THEOREM MediaTypeCorrect == MediaSpec => []MediaTypeOK
<1>1. QuotaIInv => MediaTypeOK
  BY DEF QuotaIInv
<1> QED
  BY <1>1, MediaInvariance, PTL

(* Whatever is uploaded, settled, merged and deleted at the same time, the *)
(* instance and every owner stay within their quotas, and no file is left  *)
(* to nobody (insertWithQuotas, MergeVisitorToContact).                    *)
THEOREM QuotasStayKept == MediaSpec => []QuotasKept
<1>1. QuotaIInv => QuotasKept
  BY DEF QuotaIInv
<1> QED
  BY <1>1, MediaInvariance, PTL

(* What a message shows is stored, and what lies in the store is known to  *)
(* the database, but for what raced the collector, failed to attach or was *)
(* left by a clean-up that was cut off (InsertMessage, Delete,             *)
(* deleteUnlinkedMedia).                                                   *)
THEOREM StoreStaysInStep == MediaSpec => []StoreAgrees
<1>1. MediaInit => StoreIInv
  BY MediaInitStore
<1>2. QuotaIInv /\ QuotaIInv' /\ StoreIInv /\ [MediaNext]_mediaVars => StoreIInv'
  BY MediaStoreStep
<1>3. QuotaIInv /\ StoreIInv => StoreAgrees
  <2> SUFFICES ASSUME QuotaIInv, StoreIInv PROVE StoreAgrees
    OBVIOUS
  <2>1. /\ at \in [Uploads -> Places] /\ files \subseteq Uploads /\ thumbs \subseteq Uploads /\ sent \subseteq Uploads
        /\ \A u \in Uploads : Stored(u) /\ Left(u)
    BY DEF QuotaIInv, MediaTypeOK, StoreIInv
  <2>2. SentIsStored
    BY <2>1 DEF SentIsStored, Stored
  <2>3. ObjectsAccounted
    BY <2>1 DEF ObjectsAccounted, Left, Late
  <2> QED
    BY <2>2, <2>3 DEF StoreAgrees
<1> QED
  BY <1>1, <1>2, <1>3, MediaInvariance, PTL DEF MediaSpec
=============================================================================
