-------------------------- MODULE AgentCacheProofs --------------------------
(***************************************************************************)
(* Proofs about AgentCache: for all sets of agents, requests and roles and *)
(* for every bound, an outdated entry is about to be invalidated, and the  *)
(* availability handler reads its own write.                               *)
(***************************************************************************)
EXTENDS AgentCache, TLAPS

(* Initially nothing is cached and no request is under way. *)
LEMMA InitIInv == Init => IInv
<1> SUFFICES ASSUME Init PROVE IInv
  OBVIOUS
<1> USE AgentCacheAssumption DEF Init
<1>1. TypeOK
  BY DEF TypeOK, Record, Version, Status, Places
<1>2. Coherent
  BY DEF Coherent
<1>3. ASSUME NEW r \in Requests
      PROVE  ShapeOf(r) /\ VersionOf(r) /\ LoadOf(r) /\ WriteOf(r)
  BY <1>3 DEF ShapeOf, VersionOf, LoadOf, WriteOf, Status
<1> QED
  BY <1>1, <1>2, <1>3 DEF IInv

(* The locals of q are as they were. *)
Kept(q) ==
  /\ pc'[q] = pc[q] /\ target'[q] = target[q] /\ want'[q] = want[q] /\ then'[q] = then[q]
  /\ ver'[q] = ver[q] /\ val'[q] = val[q] /\ mine'[q] = mine[q]

(* What a request with nothing of its own written has to fear: nothing. *)
LEMMA NothingWritten ==
  ASSUME TypeOK', \A q \in Requests : ShapeOf(q)',
         NEW r \in Requests, mine'[r] = 0
  PROVE  WriteOf(r)'
<1>1. ASSUME NEW q \in Requests, pc'[q] \in {"store", "answer"}
      PROVE  val'[q].n >= 0
  BY <1>1 DEF ShapeOf, Record
<1>2. ASSUME target'[r] \in Agents PROVE edition'[target'[r]] >= 0
  BY <1>2 DEF TypeOK
<1>3. ASSUME pc'[r] \in {"get", "read", "store"}, cache'[target'[r]] # NoRecord
      PROVE  cache'[target'[r]].n >= 0
  <2>1. target'[r] \in Agents
    BY <1>3 DEF ShapeOf
  <2> QED
    BY <2>1, <1>3 DEF TypeOK, Record
<1> QED
  BY <1>1, <1>2, <1>3 DEF WriteOf

(* A step that leaves the cache alone, in which the requests of M move: it *)
(* suffices that what changes in the database is going to be invalidated   *)
(* and that what is loaded is what the database holds.                     *)
LEMMA CacheKept ==
  ASSUME IInv, TypeOK', UNCHANGED theCache,
         NEW M \in SUBSET Requests,
         \A q \in Requests \ M : Kept(q),
         \A a \in Agents : edition'[a] >= edition[a],
         \A a \in Agents : Pending(a)' \/ (~Pending(a) /\ Fresh(a)' = Fresh(a)),
         \A r \in M : /\ ShapeOf(r)' /\ VersionOf(r)'
                      /\ pc'[r] = "store" => val'[r] = Fresh(target[r])'
                      /\ mine'[r] = 0 \/ WriteOf(r)'
  PROVE  IInv'
<1> USE DEF theCache
<1>1. Coherent'
  BY DEF IInv, Coherent
<1>2. ASSUME NEW q \in Requests \ M
      PROVE  ShapeOf(q)' /\ VersionOf(q)'
  BY <1>2 DEF IInv, ShapeOf, VersionOf, Kept
<1>3. \A q \in Requests : ShapeOf(q)' /\ VersionOf(q)'
  BY <1>2
<1>4. ASSUME NEW q \in Requests
      PROVE  LoadOf(q)'
  <2>1. CASE q \in M
    BY <2>1 DEF LoadOf
  <2>2. CASE q \notin M
    <3> SUFFICES ASSUME pc'[q] = "store", ver'[q] = Current(target[q])',
                        val'[q] # Fresh(target[q])'
                 PROVE  Pending(target[q])'
      BY DEF LoadOf
    <3>1. Kept(q) /\ target[q] \in Agents
      BY <2>2 DEF IInv, ShapeOf, Kept
    <3>2. PICK a \in Agents : a = target[q] /\ a = target'[q]
      BY <3>1 DEF Kept
    <3>3. Current(target[q])' = Current(target[q])
      BY <3>1 DEF Current, Kept
    <3>4. pc[q] = "store" /\ ver[q] = Current(target[q])
      BY <3>1, <3>3 DEF Kept
    <3>5. CASE ~Pending(a) /\ Fresh(a)' = Fresh(a)
      <4>1. val[q] # Fresh(target[q])
        BY <3>1, <3>2, <3>5 DEF Kept, Fresh
      <4> QED
        BY <4>1, <3>2, <3>4, <3>5 DEF IInv, LoadOf
    <3>6. CASE Pending(a)'
      BY <3>6, <3>2 DEF Pending
    <3> QED
      BY <3>5, <3>6
  <2> QED
    BY <2>1, <2>2
<1>5. ASSUME NEW q \in Requests
      PROVE  WriteOf(q)'
  <2>1. CASE q \in M
    BY <2>1, <1>3, NothingWritten
  <2>2. CASE q \notin M
    <3>1. Kept(q) /\ WriteOf(q) /\ ShapeOf(q)
      BY <2>2 DEF IInv
    <3>2. target'[q] \in Agents => mine'[q] <= edition'[target'[q]]
      BY <3>1 DEF WriteOf, Kept, IInv, TypeOK
    <3>3. ASSUME pc'[q] \in {"get", "read", "store"}, NEW l \in Requests,
                 pc'[l] = "store", target'[l] = target'[q], ver'[l] = Current(target[l])'
          PROVE  val'[l].n >= mine'[q]
      <4>1. target'[q] \in Agents
        BY <3>3, <1>3 DEF ShapeOf
      <4>2. CASE l \in M
        <5>1. val'[l] = Fresh(target[l])'
          BY <4>2, <3>3
        <5>2. val'[l].n = edition'[target'[q]]
          BY <5>1, <3>3 DEF Fresh
        <5> QED
          BY <5>2, <4>1, <3>2 DEF TypeOK
      <4>3. CASE l \notin M
        <5>1. Kept(l)
          BY <4>3
        <5>2. ver[l] = Current(target[l])
          BY <5>1, <3>3 DEF Kept, Current
        <5> QED
          BY <5>1, <5>2, <3>1, <3>3 DEF WriteOf, Kept
      <4> QED
        BY <4>2, <4>3
    <3> QED
      BY <3>1, <3>2, <3>3 DEF WriteOf, Kept
  <2> QED
    BY <2>1, <2>2
<1> QED
  BY <1>1, <1>3, <1>4, <1>5 DEF IInv

-----------------------------------------------------------------------------
(* The steps of a request that change neither database nor cache *)

(* Such a step leaves Pending as it is. *)
LEMMA QuietStep ==
  ASSUME IInv, TypeOK', NEW r \in Requests, UNCHANGED <<database, theCache, swept, missed>>,
         pc[r] \notin {"invalidate", "invalidateAll"},
         then[r] = "invalidate" =>
           "invalidate" \in {pc'[r], then'[r]} /\ target'[r] = target[r],
         \A q \in Requests \ {r} : Kept(q),
         ShapeOf(r)', VersionOf(r)',
         pc'[r] = "store" => val'[r] = Fresh(target[r])',
         mine'[r] = 0 \/ WriteOf(r)'
  PROVE  IInv'
<1>1. ASSUME NEW a \in Agents
      PROVE  /\ edition'[a] >= edition[a] /\ Fresh(a)' = Fresh(a)
             /\ Pending(a) => Pending(a)'
  <2>1. Pending(a) => Pending(a)'
    BY DEF Pending, Kept
  <2> QED
    BY <2>1 DEF database, Fresh, IInv, TypeOK
<1> QED
  BY <1>1, CacheKept, {r} \in SUBSET Requests DEF theCache

(* The part of TypeOK about the requests. *)
LocalsOK ==
  /\ pc \in [Requests -> Places]
  /\ target \in [Requests -> Agents \cup {NoAgent}]
  /\ want \in [Requests -> Status \cup Roles]
  /\ idle \in SUBSET Requests
  /\ then \in [Requests -> {"decide", "answer", "write", "invalidate"}]
  /\ ver \in [Requests -> Version]
  /\ val \in [Requests -> Record \cup {NoRecord}]
  /\ old \in [Requests -> Roles \cup BOOLEAN]
  /\ mine \in [Requests -> Nat]

(* The end of a request keeps the types. *)
LEMMA EndsLocals ==
  ASSUME TypeOK, NEW r \in Requests, Ends(r)
  PROVE  LocalsOK'
BY DEF TypeOK, LocalsOK, Ends, Goto, Places, Status, Version

(* A request that ends leaves nothing behind. *)
LEMMA EndStep ==
  ASSUME IInv, NEW r \in Requests, UNCHANGED <<database, theCache, swept, missed, starts>>,
         pc[r] \notin {"invalidate", "invalidateAll"}, then[r] # "invalidate", Ends(r)
  PROVE  IInv'
<1> USE DEF Ends, Goto, database, theCache
<1>1. TypeOK'
  BY DEF IInv, TypeOK, Places, Status, Version
<1>2. /\ pc'[r] = "start" /\ mine'[r] = 0 /\ want'[r] = "online"
      /\ then'[r] = "answer"
      /\ \A q \in Requests \ {r} : Kept(q)
  BY DEF IInv, TypeOK, Kept
<1>3. ShapeOf(r)' /\ VersionOf(r)'
  BY <1>2 DEF ShapeOf, VersionOf, Status
<1> QED
  BY <1>1, <1>2, <1>3, QuietStep DEF database, theCache

(* A request starts that only asks, or one that will write later. *)
LEMMA StartStep ==
  ASSUME IInv, NEW r \in Requests,
         \/ \E a \in Agents : \/ Ask(r, a) \/ Ping(r, a)
                             \/ \E s \in Wanted : AskAvailability(r, a, s) \/ AskEdit(r, a, s)
         \/ \E p \in Roles : RoleRead(r, p)
  PROVE  IInv'
<1> USE DEF Ask, Ping, AskAvailability, AskEdit, RoleRead, Start, Goto, database, theCache
<1>0. /\ pc[r] = "start" /\ mine[r] = 0 /\ want[r] \in Status /\ TypeOK
      /\ Wanted \subseteq Status /\ then[r] \in {"decide", "answer"}
  <2>1. pc[r] = "start"
    OBVIOUS
  <2> QED
    BY <2>1, AgentCacheAssumption DEF IInv, TypeOK, ShapeOf, WriteOf
<1>1. TypeOK'
  <2>1. CASE \E a \in Agents, s \in Wanted : AskEdit(r, a, s)
    BY <2>1, <1>0, AgentCacheAssumption DEF TypeOK, Places, Current, Version
  <2>2. CASE ~\E a \in Agents, s \in Wanted : AskEdit(r, a, s)
    BY <2>2, <1>0, AgentCacheAssumption DEF TypeOK, Places
  <2> QED
    BY <2>1, <2>2
<1>2. /\ pc'[r] \in {"get", "snapshot", "role", "read"} /\ mine'[r] = 0
      /\ \A q \in Requests \ {r} : Kept(q)
      /\ pc'[r] # "role" => target'[r] \in Agents /\ want'[r] \in Status
      /\ pc'[r] = "role" => want'[r] \in Roles
      /\ UNCHANGED <<database, theCache, swept, missed>>
  BY <1>0 DEF TypeOK, Kept
<1>3. then'[r] # "invalidate" /\ (then'[r] = "write" => pc'[r] = "read")
  BY <1>0 DEF TypeOK
<1>4. VersionOf(r)'
  <2>1. pc'[r] # "read" \/ ver'[r] = Current(target'[r])
    BY <1>0 DEF TypeOK
  <2> QED
    BY <2>1, <1>2, <1>0 DEF VersionOf, Current, TypeOK
<1>5. ShapeOf(r)'
  BY <1>2, <1>3 DEF ShapeOf
<1> QED
  BY <1>0, <1>1, <1>2, <1>4, <1>5, QuietStep

(* A request gets the agent: what it takes from the cache or reads from    *)
(* the database is not older than what it wrote.                           *)
LEMMA GetStep ==
  ASSUME IInv, NEW r \in Requests, Hit(r) \/ Miss(r) \/ Refetch(r) \/ Load(r)
  PROVE  IInv'
<1> USE DEF database, theCache
<1>1. PICK a \in Agents : a = target[r] /\ a = target'[r]
  BY DEF IInv, ShapeOf, Hit, Miss, Refetch, Load
<1>2. /\ \A q \in Requests \ {r} : Kept(q)
      /\ mine'[r] = mine[r] /\ want'[r] = want[r] /\ then'[r] = then[r]
      /\ target'[r] = target[r]
      /\ pc[r] \in {"get", "read", "refetch"} /\ UNCHANGED <<database, theCache, swept, missed>>
  BY DEF Hit, Miss, Refetch, Load, Goto, Kept, IInv, TypeOK
<1>3. /\ TypeOK /\ ShapeOf(r) /\ VersionOf(r) /\ WriteOf(r) /\ want[r] \in Status
      /\ \A q \in Requests : ShapeOf(q)
  BY <1>2 DEF IInv, ShapeOf
<1>4. CASE Hit(r)
  <2>1. TypeOK'
    BY <1>3, <1>4, <1>1 DEF TypeOK, ShapeOf, Hit, Goto, Places
  <2>2. /\ pc'[r] \in {"decide", "answer"} /\ pc'[r] = then[r] /\ val'[r] = cache[a]
        /\ val'[r] \in Record /\ val'[r].n >= mine'[r]
    BY <1>1, <1>2, <1>3, <1>4 DEF TypeOK, ShapeOf, Hit, Goto, WriteOf
  <2>3. ShapeOf(r)' /\ VersionOf(r)'
    BY <2>2, <1>1, <1>2, <1>3 DEF ShapeOf, VersionOf
  <2>4. WriteOf(r)'
    BY <2>2, <1>1, <1>2, <1>3 DEF WriteOf
  <2> QED
    BY <2>1, <2>2, <2>3, <2>4, <1>2, QuietStep
<1>5. CASE Miss(r) \/ Refetch(r)
  <2>1. /\ pc' = [pc EXCEPT ![r] = "read"] /\ ver' = [ver EXCEPT ![r] = Current(a)]
        /\ UNCHANGED <<target, want, idle, then, val, old, mine, starts>>
    BY <1>1, <1>5 DEF Miss, Refetch, Goto
  <2>2. TypeOK'
    BY <2>1, <1>2, <1>3 DEF TypeOK, Places, Current, Version
  <2>3. pc'[r] = "read" /\ pc[r] \in {"get", "refetch"} /\ ver'[r] = Current(a)
    BY <2>1, <1>3, <1>5 DEF TypeOK, Miss, Refetch
  <2>4. ShapeOf(r)'
    BY <2>3, <1>1, <1>2, <1>3 DEF ShapeOf
  <2>5. VersionOf(r)'
    BY <2>3, <1>1, <1>2, <1>3 DEF VersionOf, Current, TypeOK
  <2>6. \A q \in Requests : pc'[q] = "store" => pc[q] = "store" /\ Kept(q)
    BY <2>3, <1>2 DEF Kept
  <2>7. CASE pc[r] = "get"
    <3>1. WriteOf(r)'
      BY <2>3, <2>6, <2>7, <1>1, <1>2, <1>3 DEF WriteOf, ShapeOf, Kept, Current
    <3> QED
      BY <2>2, <2>3, <2>4, <2>5, <3>1, <1>2, QuietStep
  <2>8. CASE pc[r] = "refetch"
    <3>1. mine'[r] = 0
      BY <2>8, <1>2, <1>3 DEF WriteOf
    <3> QED
      BY <2>2, <2>3, <2>4, <2>5, <3>1, <1>2, QuietStep
  <2> QED
    BY <2>3, <2>7, <2>8
<1>6. CASE Load(r)
  <2>1. TypeOK'
    BY <1>3, <1>6, <1>1 DEF TypeOK, Load, Goto, Places, Fresh, Record
  <2>2. /\ pc'[r] = "store" /\ pc[r] = "read" /\ ver'[r] = ver[r]
        /\ val'[r] = Fresh(a) /\ val'[r] \in Record /\ val'[r].n = edition[a]
    BY <1>1, <1>3, <1>6 DEF TypeOK, Load, Goto, Fresh, Record
  <2>3. ShapeOf(r)' /\ VersionOf(r)'
    BY <2>2, <1>1, <1>2, <1>3 DEF ShapeOf, VersionOf
  <2>4. val'[r].n >= mine'[r]
    BY <2>2, <1>1, <1>2, <1>3 DEF WriteOf, TypeOK
  <2>5. \A q \in Requests \ {r} : pc'[q] = "store" => pc[q] = "store" /\ Kept(q)
    BY <1>2 DEF Kept
  <2>6. WriteOf(r)'
    BY <2>2, <2>4, <2>5, <1>1, <1>2, <1>3 DEF WriteOf, Kept, Current
  <2>7. val'[r] = Fresh(target[r])'
    BY <2>2, <1>1, <1>2 DEF Fresh
  <2> QED
    BY <2>1, <2>2, <2>3, <2>6, <2>7, <1>2, QuietStep
<1> QED
  BY <1>4, <1>5, <1>6

(* It decides to write, its ping takes the snapshot, or its edit goes to   *)
(* the last invalidation.                                                  *)
LEMMA OnwardStep ==
  ASSUME IInv, NEW r \in Requests,
         \/ Decide(r) \/ PingSnapshot(r) \/ TeamsFail(r)
         \/ LoadFails(r) /\ then[r] = "invalidate"
  PROVE  IInv'
<1> USE DEF database, theCache, locals
<1>0. TypeOK /\ ShapeOf(r) /\ WriteOf(r)
  BY DEF IInv
<1>1. TypeOK'
  BY <1>0 DEF TypeOK, Decide, PingSnapshot, TeamsFail, LoadFails, Goto, Places
<1>2. /\ \A q \in Requests \ {r} : Kept(q)
      /\ UNCHANGED <<database, theCache, swept, missed, target, want, then, ver, val, mine>>
      /\ \/ pc[r] = "decide" /\ pc'[r] = "write"
         \/ pc[r] = "snapshot" /\ pc'[r] = "touch"
         \/ pc[r] = "teams" /\ pc'[r] = "invalidate"
         \/ pc[r] = "read" /\ pc'[r] = "invalidate" /\ then[r] = "invalidate"
  BY <1>0 DEF TypeOK, Decide, PingSnapshot, TeamsFail, LoadFails, Goto, Kept
<1>3. ShapeOf(r)' /\ VersionOf(r)' /\ WriteOf(r)'
  BY <1>0, <1>2 DEF ShapeOf, VersionOf, WriteOf
<1> QED
  BY <1>1, <1>2, <1>3, QuietStep

-----------------------------------------------------------------------------
(* Loads come to their end *)

(* Only what nobody has invalidated since the version was noted is stored. *)
LEMMA StoreStep ==
  ASSUME IInv, NEW r \in Requests, Store(r)
  PROVE  IInv'
<1> USE DEF database, locals
<1>0. /\ TypeOK /\ Coherent /\ pc[r] = "store"
      /\ \A q \in Requests : ShapeOf(q) /\ VersionOf(q) /\ LoadOf(q) /\ WriteOf(q)
  BY DEF IInv, Store
<1>1. PICK a \in Agents : a = target[r]
  BY <1>0 DEF ShapeOf
<1>2. /\ val[r] \in Record
      /\ cache' = cache \/ (ver[r] = Current(a) /\ cache' = [cache EXCEPT ![a] = val[r]])
      /\ pc'[r] = then[r] /\ pc'[r] \in {"decide", "answer", "write", "invalidate"}
      /\ \A q \in Requests \ {r} : pc'[q] = pc[q]
      /\ UNCHANGED <<database, epoch, generation, locals, swept, missed, starts>>
  <2>1. val[r] \in Record
    BY <1>0 DEF ShapeOf
  <2>2. cache' = cache \/ (ver[r] = Current(a) /\ cache' = [cache EXCEPT ![a] = val[r]])
    BY <1>1 DEF Store
  <2>3. /\ pc'[r] = then[r] /\ pc'[r] \in {"decide", "answer", "write", "invalidate"}
        /\ \A q \in Requests \ {r} : pc'[q] = pc[q]
    BY <1>0 DEF Store, TypeOK, Goto
  <2> QED
    BY <2>1, <2>2, <2>3 DEF Store
<1>3. TypeOK'
  BY <1>0, <1>2 DEF TypeOK, Store, Goto, Places
<1>4. \A b \in Agents : Pending(b) => Pending(b)'
  BY <1>0, <1>2 DEF Pending
<1>5. Coherent'
  <2> SUFFICES ASSUME NEW b \in Agents, cache'[b] # NoRecord, cache'[b] # Fresh(b)
               PROVE  Pending(b)
    BY <1>2, <1>4 DEF Coherent, Fresh
  <2>1. CASE cache'[b] = cache[b]
    BY <2>1, <1>0 DEF Coherent
  <2>2. CASE b = a /\ ver[r] = Current(a) /\ cache'[a] = val[r]
    BY <2>2, <1>0, <1>1 DEF LoadOf
  <2> QED
    BY <2>1, <2>2, <1>0, <1>2 DEF TypeOK
<1>6. ASSUME NEW q \in Requests
      PROVE  ShapeOf(q)' /\ VersionOf(q)'
  <2>1. ShapeOf(q) /\ VersionOf(q)
    BY <1>0
  <2> QED
    BY <2>1, <1>0, <1>2 DEF ShapeOf, VersionOf
<1>7. ASSUME NEW q \in Requests
      PROVE  LoadOf(q)'
  <2> SUFFICES ASSUME q # r, pc[q] = "store", ver[q] = Current(target[q]),
                      val[q] # Fresh(target[q])
               PROVE  Pending(target[q])'
    BY <1>2 DEF LoadOf, Current, Fresh
  <2>1. PICK b \in Agents : b = target[q] /\ b = target'[q]
    BY <1>0, <1>2 DEF ShapeOf
  <2>2. Pending(b)'
    BY <2>1, <1>0, <1>4 DEF LoadOf
  <2> QED
    BY <2>1, <2>2 DEF Pending
<1>8. ASSUME NEW q \in Requests
      PROVE  WriteOf(q)'
  <2>0. WriteOf(q)
    BY <1>0
  <2>1. ASSUME pc'[q] \in {"get", "read", "store"}, cache'[target[q]] # NoRecord
        PROVE  cache'[target[q]].n >= mine[q]
    <3>1. target[q] \in Agents /\ pc[q] = pc'[q]
      BY <2>1, <1>0, <1>2 DEF ShapeOf
    <3>2. CASE cache'[target[q]] = cache[target[q]]
      BY <3>1, <3>2, <2>0, <2>1 DEF WriteOf
    <3>3. CASE target[q] = a /\ ver[r] = Current(a) /\ cache'[a] = val[r]
      BY <3>1, <3>3, <2>0, <2>1, <1>0, <1>1 DEF WriteOf
    <3> QED
      BY <3>1, <3>2, <3>3, <1>0, <1>2 DEF TypeOK
  <2> QED
    BY <2>0, <2>1, <1>0, <1>2 DEF WriteOf, Current
<1> QED
  BY <1>3, <1>5, <1>6, <1>7, <1>8 DEF IInv

-----------------------------------------------------------------------------
(* The database changes *)

(* One agent is written, whose invalidation is to follow: the next step,   *)
(* or the end of the edit.                                                 *)
LEMMA WriteStep ==
  ASSUME IInv, NEW r \in Requests, WriteAvailability(r) \/ WriteTeams(r)
  PROVE  IInv'
<1> USE DEF theCache, Goto
<1>0. /\ TypeOK /\ ShapeOf(r) /\ WriteOf(r)
      /\ pc[r] \in {"teams", "write"} /\ want[r] \in Status
  BY DEF IInv, ShapeOf, WriteAvailability, WriteTeams
<1>1. PICK a \in Agents, s \in Status :
        /\ status' = [status EXCEPT ![a] = s]
        /\ edition' = [edition EXCEPT ![a] = @ + 1]
        /\ target'[r] = a
        /\ mine'[r] = 0 \/ (mine'[r] = edition[a] + 1 /\ pc'[r] = "invalidate")
        /\ "invalidate" \in {pc'[r], then'[r]}
        /\ (pc'[r] = "refetch" /\ then'[r] = "invalidate") \/ pc'[r] = "invalidate"
  <2>1. CASE WriteAvailability(r)
    BY <2>1, <1>0 DEF WriteAvailability, ShapeOf, TypeOK
  <2>2. CASE WriteTeams(r)
    <3>1. PICK a \in Agents : a = target[r]
      BY <2>2, <1>0 DEF WriteTeams, ShapeOf
    <3>2. status' = [status EXCEPT ![a] = status[a]] /\ status[a] \in Status
      BY <2>2, <1>0 DEF WriteTeams, TypeOK
    <3>3. mine'[r] = 0 /\ target'[r] = a /\ then'[r] = "invalidate" /\ pc'[r] = "refetch"
      BY <3>1, <2>2, <1>0 DEF WriteTeams, WriteOf, ShapeOf, TypeOK, locals
    <3>4. edition' = [edition EXCEPT ![a] = @ + 1]
      BY <3>1, <2>2 DEF WriteTeams
    <3> QED
      BY <3>2, <3>3, <3>4
  <2> QED
    BY <2>1, <2>2
<1>2. /\ want' = want /\ then' = then /\ target' = target
      /\ \A q \in Requests \ {r} : Kept(q)
      /\ UNCHANGED theCache
  BY <1>0 DEF WriteAvailability, WriteTeams, Kept, TypeOK, locals
<1>3. TypeOK'
  BY <1>0 DEF TypeOK, WriteAvailability, WriteTeams, ShapeOf, Places, locals
<1>4. \A b \in Agents : edition'[b] >= edition[b]
  BY <1>0, <1>1 DEF TypeOK
<1>5. \A b \in Agents : Pending(b) => Pending(b)'
  BY <1>0, <1>1, <1>2 DEF Pending, WriteAvailability, WriteTeams, Kept
<1>6. ASSUME NEW b \in Agents
      PROVE  Pending(b)' \/ (~Pending(b) /\ Fresh(b)' = Fresh(b))
  <2>1. CASE b = a
    BY <2>1, <1>0, <1>1, <1>2 DEF Pending, TypeOK
  <2>2. CASE b # a
    <3>1. Fresh(b)' = Fresh(b)
      BY <2>2, <1>0, <1>1 DEF Fresh, TypeOK
    <3> QED
      BY <3>1, <1>5
  <2> QED
    BY <2>1, <2>2
<1>7. ShapeOf(r)' /\ VersionOf(r)' /\ WriteOf(r)'
  BY <1>0, <1>1, <1>2 DEF ShapeOf, VersionOf, WriteOf, TypeOK
<1> QED
  BY <1>1, <1>2, <1>3, <1>4, <1>6, <1>7, CacheKept, {r} \in SUBSET Requests

(* A ping that flips an agent will invalidate it or counts it as missed. *)
LEMMA PingWriteStep ==
  ASSUME IInv, NEW r \in Requests, PingWrite(r)
  PROVE  IInv'
<1> USE DEF theCache, Goto
<1>0. TypeOK /\ ShapeOf(r) /\ WriteOf(r) /\ pc[r] = "touch" /\ then[r] \in {"decide", "answer"}
  BY DEF IInv, TypeOK, ShapeOf, PingWrite
<1>1. PICK a \in Agents : a = target[r]
  BY <1>0 DEF ShapeOf
<1>2. /\ swept' = swept /\ missed \subseteq missed' /\ UNCHANGED theCache
      /\ \A q \in Requests \ {r} : Kept(q)
  BY <1>0 DEF PingWrite, Ends, Kept, locals, TypeOK
<1>3. \A b \in Agents : Pending(b) => Pending(b)'
  BY <1>0, <1>2 DEF Pending, Kept
<1>4. /\ mine'[r] = 0 /\ want'[r] \in Status /\ then'[r] \in {"decide", "answer"}
      /\ \/ old[r] = TRUE /\ pc'[r] = "invalidate" /\ target'[r] = a
         \/ old[r] # TRUE /\ pc'[r] = "start"
  <2>1. mine[r] = 0 /\ want[r] \in Status
    BY <1>0 DEF ShapeOf, WriteOf
  <2>2. CASE old[r] = TRUE
    BY <2>1, <2>2, <1>0, <1>1 DEF PingWrite, locals, TypeOK
  <2>3. CASE old[r] # TRUE
    BY <2>3, <1>0 DEF PingWrite, Ends, TypeOK, Status
  <2> QED
    BY <2>2, <2>3
<1>5. ASSUME NEW b \in Agents
      PROVE  /\ edition'[b] >= edition[b]
             /\ Pending(b)' \/ Fresh(b)' = Fresh(b)
  <2>1. CASE b = a /\ status[a] = "offline"
    <3>1. edition'[b] = edition[b] + 1
      BY <2>1, <1>0, <1>1 DEF PingWrite, TypeOK
    <3>2. Pending(b)'
      BY <2>1, <1>1, <1>4 DEF PingWrite, Pending
    <3> QED
      BY <3>1, <3>2, <1>0 DEF TypeOK
  <2>2. CASE ~(b = a /\ status[a] = "offline")
    <3>1. status'[b] = status[b] /\ edition'[b] = edition[b]
      BY <2>2, <1>0, <1>1 DEF PingWrite, TypeOK
    <3> QED
      BY <3>1, <1>0 DEF Fresh, TypeOK
  <2> QED
    BY <2>1, <2>2
<1>6. TypeOK'
  <2>1. CASE old[r] = TRUE
    BY <2>1, <1>0, <1>1 DEF TypeOK, PingWrite, locals, Places, Status
  <2>0. /\ status' \in [Agents -> Status] /\ edition' \in [Agents -> Nat]
        /\ missed' \in SUBSET Agents
    BY <1>0, <1>1 DEF TypeOK, PingWrite, Status
  <2>2. CASE old[r] # TRUE
    <3>1. LocalsOK'
      BY <2>2, <1>0, EndsLocals DEF PingWrite
    <3> QED
      BY <2>0, <3>1, <1>0, <1>2 DEF TypeOK, LocalsOK, PingWrite
  <2> QED
    BY <2>1, <2>2
<1>7. ShapeOf(r)' /\ VersionOf(r)'
  BY <1>4 DEF ShapeOf, VersionOf
<1>8. \A b \in Agents : Pending(b)' \/ (~Pending(b) /\ Fresh(b)' = Fresh(b))
  BY <1>3, <1>5
<1>9. pc'[r] # "store" /\ {r} \in SUBSET Requests
  BY <1>4
<1> QED
  BY <1>2, <1>4, <1>5, <1>6, <1>7, <1>8, <1>9, CacheKept

(* The sweep will invalidate every agent it sets offline. *)
LEMMA SweepStep == ASSUME IInv, Sweep PROVE IInv'
<1> USE DEF theCache, locals
<1>0. TypeOK
  BY DEF IInv
<1>1. PICK S \in SUBSET Agents :
        /\ swept' = S
        /\ status' = [a \in Agents |-> IF a \in S THEN "offline" ELSE status[a]]
        /\ edition' = [a \in Agents |-> IF a \in S THEN edition[a] + 1 ELSE edition[a]]
  BY DEF Sweep
<1>2. /\ swept = {} /\ missed' = missed /\ UNCHANGED theCache
      /\ \A q \in Requests : Kept(q)
  BY DEF Sweep, Kept
<1>3. TypeOK'
  BY <1>0, <1>1, AgentCacheAssumption DEF TypeOK, Sweep, Start, Status
<1>4. ASSUME NEW b \in Agents
      PROVE  /\ edition'[b] >= edition[b]
             /\ Pending(b)' \/ (~Pending(b) /\ Fresh(b)' = Fresh(b))
  <2>1. CASE b \in S
    BY <2>1, <1>0, <1>1 DEF Pending, TypeOK
  <2>2. CASE b \notin S
    <3>1. Fresh(b)' = Fresh(b) /\ edition'[b] = edition[b] /\ edition[b] \in Nat
      BY <2>2, <1>0, <1>1 DEF Fresh, TypeOK
    <3>2. Pending(b) => Pending(b)'
      BY <1>2 DEF Pending, Kept
    <3> QED
      BY <3>1, <3>2
  <2> QED
    BY <2>1, <2>2
<1> QED
  BY <1>2, <1>3, <1>4, CacheKept, {} \in SUBSET Requests

(* A role that changed clears the cache next, or counts all as missed. *)
LEMMA RoleWriteStep ==
  ASSUME IInv, NEW r \in Requests, RoleWrite(r)
  PROVE  IInv'
<1> USE DEF theCache, Goto
<1>0. /\ TypeOK /\ ShapeOf(r) /\ WriteOf(r) /\ pc[r] = "role" /\ want[r] \in Roles
      /\ then[r] \in {"decide", "answer"}
  BY DEF IInv, TypeOK, RoleWrite, ShapeOf
<1>1. /\ swept' = swept /\ missed \subseteq missed' /\ UNCHANGED theCache
      /\ status' = status
      /\ \A q \in Requests \ {r} : Kept(q)
  BY <1>0 DEF RoleWrite, Ends, Kept, locals, TypeOK
<1>2. /\ mine'[r] = 0 /\ then'[r] \in {"decide", "answer"}
      /\ \/ old[r] # want[r] /\ pc'[r] = "invalidateAll"
         \/ old[r] = want[r] /\ pc'[r] = "start" /\ want'[r] = "online"
  <2>1. mine[r] = 0
    BY <1>0 DEF WriteOf
  <2> QED
    BY <2>1, <1>0 DEF RoleWrite, Ends, locals, TypeOK
<1>3. \A b \in Agents : Pending(b) => Pending(b)'
  BY <1>0, <1>1 DEF Pending, Kept
<1>4. ASSUME NEW b \in Agents
      PROVE  /\ edition'[b] >= edition[b]
             /\ Pending(b)' \/ Fresh(b)' = Fresh(b)
  <2>1. CASE role = want[r]
    BY <2>1, <1>0, <1>1 DEF RoleWrite, Fresh, TypeOK
  <2>2. CASE role # want[r]
    <3>1. Pending(b)'
      BY <2>2, <1>2 DEF RoleWrite, Pending
    <3> QED
      BY <3>1, <2>2, <1>0 DEF RoleWrite, TypeOK
  <2> QED
    BY <2>1, <2>2
<1>5. TypeOK'
  <2>1. edition' \in [Agents -> Nat] /\ missed' \in SUBSET Agents /\ role' \in Roles
    BY <1>0 DEF RoleWrite, TypeOK
  <2>2. CASE old[r] # want[r]
    BY <2>1, <2>2, <1>0 DEF TypeOK, RoleWrite, locals, Places
  <2>3. CASE old[r] = want[r]
    <3>1. LocalsOK'
      BY <2>3, <1>0, EndsLocals DEF RoleWrite
    <3> QED
      BY <2>1, <3>1, <1>0, <1>1 DEF TypeOK, LocalsOK, RoleWrite
  <2> QED
    BY <2>2, <2>3
<1>6. ShapeOf(r)' /\ VersionOf(r)'
  BY <1>2 DEF ShapeOf, VersionOf, Status
<1>7. \A b \in Agents : Pending(b)' \/ (~Pending(b) /\ Fresh(b)' = Fresh(b))
  BY <1>3, <1>4
<1>8. pc'[r] # "store" /\ {r} \in SUBSET Requests
  BY <1>2
<1> QED
  BY <1>1, <1>2, <1>4, <1>5, <1>6, <1>7, <1>8, CacheKept

-----------------------------------------------------------------------------
(* Invalidations *)

(* An agent's entry and the versions of the loads in flight for it go: the *)
(* requests of M (the one that invalidates, if any) have nothing cached    *)
(* against their write.                                                    *)
LEMMA DropStep ==
  ASSUME IInv, TypeOK', NEW a \in Agents, Drop(a), UNCHANGED <<database, epoch>>,
         NEW M \in SUBSET Requests,
         \A q \in Requests \ M : Kept(q),
         \A b \in Agents \ {a} : Pending(b) => Pending(b)',
         \A r \in M : /\ ShapeOf(r)' /\ pc'[r] \in {"start", "get", "teams"}
                      /\ \/ mine'[r] = 0
                         \/ pc'[r] = "get" /\ target'[r] = a /\ mine'[r] <= edition[a]
  PROVE  IInv'
<1> USE DEF database
<1>0. /\ TypeOK /\ Coherent
      /\ \A q \in Requests : ShapeOf(q) /\ VersionOf(q) /\ LoadOf(q) /\ WriteOf(q)
  BY DEF IInv
<1>1. /\ generation'[a] = generation[a] + 1 /\ cache'[a] = NoRecord
      /\ \A b \in Agents \ {a} : generation'[b] = generation[b] /\ cache'[b] = cache[b]
      /\ \A b \in Agents : generation'[b] >= generation[b] /\ generation[b] \in Nat
  BY <1>0 DEF Drop, TypeOK
<1>2. Coherent'
  BY <1>0, <1>1 DEF Coherent, Fresh
<1>3. ASSUME NEW q \in Requests
      PROVE  ShapeOf(q)' /\ VersionOf(q)'
  <2>1. CASE q \in M
    BY <2>1 DEF VersionOf
  <2>2. CASE q \notin M
    <3>1. Kept(q) /\ ShapeOf(q) /\ VersionOf(q) /\ ver[q] \in Version
      BY <2>2, <1>0 DEF TypeOK
    <3>2. ShapeOf(q)'
      BY <3>1 DEF ShapeOf, Kept
    <3>3. VersionOf(q)'
      BY <3>1, <1>0, <1>1 DEF ShapeOf, VersionOf, Kept, Version
    <3> QED
      BY <3>2, <3>3
  <2> QED
    BY <2>1, <2>2
<1>4. ASSUME NEW q \in Requests, pc'[q] = "store", ver'[q] = Current(target[q])'
      PROVE  /\ q \notin M /\ pc[q] = "store" /\ target'[q] = target[q]
             /\ target[q] \in Agents \ {a} /\ ver[q] = Current(target[q])
             /\ val'[q] = val[q]
  <2>1. q \notin M /\ Kept(q) /\ pc[q] = "store" /\ target[q] \in Agents
    BY <1>4, <1>0 DEF Kept, ShapeOf
  <2>2. /\ ver[q].generation = generation'[target[q]] /\ ver[q].epoch = epoch
        /\ ver[q] \in Version /\ ver[q].generation <= generation[target[q]]
    BY <2>1, <1>4, <1>0 DEF Kept, Current, VersionOf, TypeOK
  <2>3. target[q] # a
    BY <2>2, <1>1 DEF Version
  <2>4. Current(target[q])' = Current(target[q])
    BY <2>1, <2>3, <1>1 DEF Kept, Current
  <2> QED
    BY <2>1, <2>3, <2>4, <1>4 DEF Kept
<1>5. ASSUME NEW q \in Requests
      PROVE  LoadOf(q)'
  <2> SUFFICES ASSUME pc'[q] = "store", ver'[q] = Current(target[q])',
                      val'[q] # Fresh(target[q])'
               PROVE  Pending(target[q])'
    BY DEF LoadOf
  <2>1. PICK b \in Agents \ {a} : b = target[q] /\ b = target'[q]
    BY <1>4
  <2>2. Pending(b)
    BY <2>1, <1>0, <1>4 DEF LoadOf, Fresh
  <2>3. Pending(b)'
    BY <2>2
  <2> QED
    BY <2>1, <2>3 DEF Pending
<1>6. ASSUME NEW q \in Requests
      PROVE  WriteOf(q)'
  <2>1. CASE q \in M /\ mine'[q] = 0
    BY <2>1, <1>3, NothingWritten
  <2>2. CASE q \in M /\ pc'[q] = "get" /\ target'[q] = a /\ mine'[q] <= edition[a]
    <3>1. \A l \in Requests :
            ~(pc'[l] = "store" /\ target'[l] = a /\ ver'[l] = Current(target[l])')
      BY <1>4
    <3> QED
      BY <2>2, <3>1, <1>1 DEF WriteOf
  <2>3. CASE q \notin M
    <3>1. Kept(q) /\ WriteOf(q) /\ ShapeOf(q)
      BY <2>3, <1>0
    <3>2. ASSUME pc'[q] \in {"get", "read", "store"}, cache'[target'[q]] # NoRecord
          PROVE  cache'[target'[q]].n >= mine'[q]
      <4>1. target[q] \in Agents /\ target[q] # a
        BY <3>1, <3>2, <1>1 DEF ShapeOf, Kept
      <4> QED
        BY <4>1, <3>1, <3>2, <1>1 DEF WriteOf, Kept
    <3>3. ASSUME pc'[q] \in {"get", "read", "store"}, NEW l \in Requests,
                 pc'[l] = "store", target'[l] = target'[q], ver'[l] = Current(target[l])'
          PROVE  val'[l].n >= mine'[q]
      BY <3>1, <3>3, <1>4 DEF WriteOf, Kept
    <3> QED
      BY <3>1, <3>2, <3>3 DEF WriteOf, Kept
  <2> QED
    BY <2>1, <2>2, <2>3
<1> QED
  BY <1>2, <1>3, <1>5, <1>6 DEF IInv

(* The availability handler, the admin's edit and a ping invalidate. *)
LEMMA InvalidateStep ==
  ASSUME IInv, NEW r \in Requests, Invalidate(r)
  PROVE  IInv'
<1> USE DEF database
<1>0. TypeOK /\ ShapeOf(r) /\ WriteOf(r) /\ pc[r] = "invalidate" /\ want[r] \in Status
  BY DEF IInv, Invalidate, ShapeOf
<1>1. PICK a \in Agents : a = target[r] /\ Drop(a)
  BY <1>0 DEF ShapeOf, Invalidate
<1>2. UNCHANGED <<database, epoch, swept>> /\ missed' = missed \ {a}
  BY <1>1 DEF Invalidate, Drop
<1>3. \A q \in Requests \ {r} : Kept(q)
  BY <1>0 DEF Invalidate, Ends, Goto, Kept, TypeOK
<1>4. \A b \in Agents \ {a} : Pending(b) => Pending(b)'
  BY <1>0, <1>1, <1>2, <1>3 DEF Pending, Kept
<1>5. CASE then[r] = "decide"
  <2>1. /\ pc' = [pc EXCEPT ![r] = "get"] /\ then' = [then EXCEPT ![r] = "answer"]
        /\ UNCHANGED <<target, want, idle, ver, val, old, mine, starts>>
    BY <1>5 DEF Invalidate, Goto
  <2>2. TypeOK'
    BY <2>1, <1>0, <1>1, <1>2 DEF TypeOK, Drop, Places
  <2>3. /\ pc'[r] = "get" /\ target'[r] = a /\ mine'[r] <= edition[a] /\ want'[r] \in Status
        /\ then'[r] = "answer"
    BY <2>1, <1>0, <1>1 DEF TypeOK, WriteOf
  <2>4. ShapeOf(r)'
    BY <2>3 DEF ShapeOf
  <2> QED
    BY <2>2, <2>3, <2>4, <1>1, <1>2, <1>3, <1>4, DropStep, {r} \in SUBSET Requests
<1>6. CASE then[r] = "write"
  <2>1. /\ pc' = [pc EXCEPT ![r] = "teams"] /\ then' = [then EXCEPT ![r] = "invalidate"]
        /\ mine' = [mine EXCEPT ![r] = 0]
        /\ UNCHANGED <<target, want, idle, ver, val, old, starts>>
    BY <1>6 DEF Invalidate, Goto
  <2>2. TypeOK'
    BY <2>1, <1>0, <1>1, <1>2 DEF TypeOK, Drop, Places
  <2>3. /\ pc'[r] = "teams" /\ target'[r] = a /\ mine'[r] = 0 /\ want'[r] \in Status
        /\ then'[r] = "invalidate"
    BY <2>1, <1>0, <1>1 DEF TypeOK
  <2>4. ShapeOf(r)'
    BY <2>3 DEF ShapeOf
  <2> QED
    BY <2>2, <2>3, <2>4, <1>1, <1>2, <1>3, <1>4, DropStep, {r} \in SUBSET Requests
<1>7. CASE then[r] \in {"answer", "invalidate"}
  <2>1. Ends(r) /\ starts' = starts
    BY <1>7 DEF Invalidate
  <2>2. TypeOK'
    <3>1. LocalsOK'
      BY <2>1, <1>0, EndsLocals
    <3> QED
      BY <3>1, <2>1, <1>0, <1>1, <1>2 DEF TypeOK, LocalsOK, Drop
  <2>3. pc'[r] = "start" /\ mine'[r] = 0 /\ want'[r] = "online" /\ then'[r] = "answer"
    BY <2>1, <1>0 DEF Ends, Goto, TypeOK
  <2>4. ShapeOf(r)'
    BY <2>3 DEF ShapeOf, Status
  <2> QED
    BY <2>2, <2>3, <2>4, <1>1, <1>2, <1>3, <1>4, DropStep, {r} \in SUBSET Requests
<1> QED
  BY <1>0, <1>5, <1>6, <1>7 DEF TypeOK

(* The sweep invalidates one of its agents. *)
LEMMA SweepInvalidateStep ==
  ASSUME IInv, NEW a \in Agents, SweepInvalidate(a)
  PROVE  IInv'
<1> USE DEF database, locals
<1>1. TypeOK /\ Drop(a) /\ UNCHANGED <<database, epoch>> /\ swept' = swept \ {a}
  BY DEF IInv, SweepInvalidate
<1>2. \A q \in Requests : Kept(q)
  BY DEF SweepInvalidate, Kept
<1>3. TypeOK'
  BY <1>1 DEF TypeOK, SweepInvalidate, Drop
<1>4. \A b \in Agents \ {a} : Pending(b) => Pending(b)'
  BY <1>1, <1>2 DEF Pending, Kept, Drop
<1> QED
  BY <1>1, <1>2, <1>3, <1>4, DropStep, {} \in SUBSET Requests

(* A changed role clears the cache and makes every load in flight late. *)
LEMMA InvalidateAllStep ==
  ASSUME IInv, NEW r \in Requests, InvalidateAll(r)
  PROVE  IInv'
<1> USE DEF database
<1>0. /\ TypeOK /\ \A q \in Requests : ShapeOf(q) /\ VersionOf(q) /\ WriteOf(q)
      /\ pc[r] = "invalidateAll"
  BY DEF IInv, InvalidateAll
<1>1. /\ epoch' = epoch + 1 /\ UNCHANGED <<database, generation, swept, starts>>
      /\ cache' = [a \in Agents |-> NoRecord] /\ missed' = {} /\ Ends(r)
  BY DEF InvalidateAll
<1>2. /\ pc'[r] = "start" /\ mine'[r] = 0 /\ want'[r] = "online" /\ then'[r] = "answer"
      /\ \A q \in Requests \ {r} : Kept(q)
  BY <1>0, <1>1 DEF Ends, Goto, TypeOK, Kept
<1>3. TypeOK'
  <2>1. LocalsOK'
    BY <1>0, <1>1, EndsLocals
  <2> QED
    BY <2>1, <1>0, <1>1 DEF TypeOK, LocalsOK
<1>4. Coherent'
  BY <1>1 DEF Coherent
<1>5. \A q \in Requests : ShapeOf(q)' /\ VersionOf(q)'
  <2> SUFFICES ASSUME NEW q \in Requests PROVE ShapeOf(q)' /\ VersionOf(q)'
    OBVIOUS
  <2>1. CASE q = r
    BY <2>1, <1>2 DEF ShapeOf, VersionOf, Status
  <2>2. CASE q # r
    <3>1. Kept(q) /\ ShapeOf(q) /\ VersionOf(q) /\ ver[q] \in Version
      BY <2>2, <1>0, <1>2 DEF TypeOK
    <3> QED
      BY <3>1, <1>0, <1>1 DEF ShapeOf, VersionOf, Kept, TypeOK, Version
  <2> QED
    BY <2>1, <2>2
<1>6. ASSUME NEW q \in Requests
      PROVE  ~(pc'[q] = "store" /\ ver'[q] = Current(target[q])')
  <2> SUFFICES ASSUME pc'[q] = "store", ver'[q] = Current(target[q])'
               PROVE  FALSE
    OBVIOUS
  <2>1. Kept(q) /\ q # r /\ pc[q] = "store"
    BY <1>2 DEF Kept
  <2>2. ver[q].epoch = epoch' /\ ver[q].epoch <= epoch
    BY <2>1, <1>0 DEF Kept, Current, VersionOf
  <2> QED
    BY <2>2, <1>0, <1>1 DEF TypeOK
<1>7. ASSUME NEW q \in Requests
      PROVE  LoadOf(q)' /\ WriteOf(q)'
  <2>1. LoadOf(q)'
    BY <1>6 DEF LoadOf
  <2>2. CASE q = r
    BY <2>2, <2>1, <1>2, <1>3, <1>5, NothingWritten
  <2>3. CASE q # r
    <3>1. Kept(q) /\ WriteOf(q) /\ ShapeOf(q)
      BY <2>3, <1>0, <1>2
    <3>2. pc'[q] \in {"get", "read", "store"} => cache'[target'[q]] = NoRecord
      BY <3>1, <1>1 DEF ShapeOf, Kept
    <3>3. WriteOf(q)'
      BY <3>1, <3>2, <1>1, <1>6 DEF WriteOf, Kept
    <3> QED
      BY <3>3, <2>1
  <2> QED
    BY <2>1, <2>2, <2>3
<1> QED
  BY <1>3, <1>4, <1>5, <1>7 DEF IInv

-----------------------------------------------------------------------------
(* The theorems *)

(* Every reachable state satisfies the inductive invariant. *)
THEOREM Invariance == Spec => []IInv
<1>1. ASSUME IInv, [Next]_vars PROVE IInv'
  <2>1. CASE UNCHANGED vars
    BY <1>1, <2>1 DEF IInv, TypeOK, Coherent, Pending, Fresh, Current, ShapeOf, VersionOf, LoadOf,
                WriteOf, vars, database, theCache, locals
  <2>2. ASSUME NEW r \in Requests, Request(r) PROVE IInv'
    <3>1. CASE \/ \E a \in Agents : \/ Ask(r, a) \/ Ping(r, a)
                                   \/ \E s \in Wanted : AskAvailability(r, a, s) \/ AskEdit(r, a, s)
               \/ \E p \in Roles : RoleRead(r, p)
      BY <1>1, <3>1, StartStep
    <3>2. CASE Hit(r) \/ Miss(r) \/ Refetch(r) \/ Load(r)
      BY <1>1, <3>2, GetStep
    <3>3. CASE \/ LoadFails(r) /\ then[r] # "invalidate"
               \/ Answer(r) \/ Refuse(r) \/ WriteFails(r) \/ PingFails(r) \/ RoleFails(r)
      <4>1. Ends(r) /\ UNCHANGED <<database, theCache, swept, missed, starts>>
        BY <3>3 DEF LoadFails, Answer, Refuse, WriteFails, PingFails, RoleFails
      <4>2. /\ pc[r] \notin {"invalidate", "invalidateAll"}
            /\ then[r] # "invalidate"
        BY <1>1, <3>3 DEF IInv, ShapeOf, LoadFails, Answer, Refuse, WriteFails, PingFails, RoleFails
      <4> QED
        BY <1>1, <4>1, <4>2, EndStep
    <3>4. CASE \/ Decide(r) \/ PingSnapshot(r) \/ TeamsFail(r)
               \/ LoadFails(r) /\ then[r] = "invalidate"
      BY <1>1, <3>4, OnwardStep
    <3>5. CASE Store(r)
      BY <1>1, <3>5, StoreStep
    <3>6. CASE WriteAvailability(r) \/ WriteTeams(r)
      BY <1>1, <3>6, WriteStep
    <3>7. CASE PingWrite(r)
      BY <1>1, <3>7, PingWriteStep
    <3>8. CASE RoleWrite(r)
      BY <1>1, <3>8, RoleWriteStep
    <3>9. CASE Invalidate(r)
      BY <1>1, <3>9, InvalidateStep
    <3>10. CASE InvalidateAll(r)
      BY <1>1, <3>10, InvalidateAllStep
    <3> QED
      BY <2>2, <3>1, <3>2, <3>3, <3>4, <3>5, <3>6, <3>7, <3>8, <3>9, <3>10, Zenon DEF Request
  <2>3. CASE Sweep
    BY <1>1, <2>3, SweepStep
  <2>4. ASSUME NEW a \in Agents, SweepInvalidate(a) PROVE IInv'
    BY <1>1, <2>4, SweepInvalidateStep
  <2> QED
    BY <1>1, <2>1, <2>2, <2>3, <2>4 DEF Next
<1> QED
  BY InitIInv, <1>1, PTL DEF Spec

(* The variables keep their types. *)
THEOREM TypeCorrect == Spec => []TypeOK
BY Invariance, PTL DEF IInv

(* No load in flight brings back what a writer has invalidated: an entry   *)
(* that differs from the database is about to be invalidated, or was       *)
(* changed by a writer that does not know it.                              *)
THEOREM CacheIsCoherent == Spec => []Coherent
BY Invariance, PTL DEF IInv

(* The availability handler answers with a record at least as new as its   *)
(* write.                                                                  *)
THEOREM HandlerReadsItsWrite == Spec => []ReadYourWrites
<1>1. IInv => ReadYourWrites
  BY DEF IInv, WriteOf, ReadYourWrites
<1> QED
  BY <1>1, Invariance, PTL
=============================================================================
