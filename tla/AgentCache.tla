----------------------------- MODULE AgentCache -----------------------------
(***************************************************************************)
(* The cache of agent records in internal/user and the writes behind it:   *)
(* the availability handler, the pings of websocket clients, the sweep of  *)
(* inactive users, the edits of admins and the updates of roles.  Every    *)
(* writer writes the database and invalidates afterwards; every reader     *)
(* that misses notes the version of the cache (an epoch for all agents, a  *)
(* generation for each), reads the database and stores what it read unless *)
(* the version changed meanwhile.  A record stands for its availability    *)
(* and its edition: how often the database has changed it.                 *)
(***************************************************************************)
EXTENDS Naturals

CONSTANTS
  Agents,
  Requests,    \* goroutines: HTTP requests and websocket clients
  Roles,       \* permission sets a role may be given
  NoAgent,     \* the target of an idle request
  NoRecord,    \* no cache entry, nothing read
  Wanted,      \* bound: the availabilities requests ask for
  MaxStarts    \* bound: writing requests and sweeps started

Status == {"online", "offline", "away", "away_manual", "away_and_reassigning"}
Manual == {"away_manual", "away_and_reassigning"}

Record  == [status : Status, n : Nat]
Version == [epoch : Nat, generation : Nat]

ASSUME AgentCacheAssumption ==
  /\ NoAgent \notin Agents
  /\ NoRecord \notin Record
  /\ Wanted \subseteq Status
  /\ MaxStarts \in Nat

VARIABLES
  status,      \* availability_status of each agent in the database
  role,        \* the permissions of the role all agents have
  edition,     \* how often the database has changed the agent's record
  cache,       \* agentCache
  epoch,       \* agentCacheEpoch
  generation,  \* agentCacheGeneration
  pc,          \* where each request is
  target,      \* the agent it is about
  want,        \* the availability or the permissions it writes
  idle,        \* requests whose source is idle detection
  then,        \* where it goes on with the record
  ver,         \* the version it noted
  val,         \* the record it read
  old,         \* what it read before its write: the role, or "was offline"
  mine,        \* history: the edition its write made
  swept,       \* agents the sweep set offline and has not invalidated yet
  missed,      \* history: agents changed by a writer that will not invalidate
  starts

database == <<status, role, edition>>
theCache == <<cache, epoch, generation>>
locals   == <<target, want, idle, then, ver, val, old, mine>>
vars     == <<database, theCache, pc, locals, swept, missed, starts>>

Places == {"start", "get", "read", "store", "decide", "write", "invalidate", "answer",
           "teams", "refetch", "snapshot", "touch", "role", "invalidateAll"}

TypeOK ==
  /\ status \in [Agents -> Status]
  /\ role \in Roles
  /\ edition \in [Agents -> Nat]
  /\ cache \in [Agents -> Record \cup {NoRecord}]
  /\ epoch \in Nat
  /\ generation \in [Agents -> Nat]
  /\ pc \in [Requests -> Places]
  /\ target \in [Requests -> Agents \cup {NoAgent}]
  /\ want \in [Requests -> Status \cup Roles]
  /\ idle \in SUBSET Requests
  /\ then \in [Requests -> {"decide", "answer", "write", "invalidate"}]
  /\ ver \in [Requests -> Version]
  /\ val \in [Requests -> Record \cup {NoRecord}]
  /\ old \in [Requests -> Roles \cup BOOLEAN]
  /\ mine \in [Requests -> Nat]
  /\ swept \in SUBSET Agents
  /\ missed \in SUBSET Agents
  /\ starts \in 0..MaxStarts

Fresh(a)   == [status |-> status[a], n |-> edition[a]]
Current(a) == [epoch |-> epoch, generation |-> generation[a]]

Init ==
  /\ status \in [Agents -> Status]
  /\ role \in Roles
  /\ edition = [a \in Agents |-> 0]
  /\ cache = [a \in Agents |-> NoRecord]
  /\ epoch = 0
  /\ generation = [a \in Agents |-> 0]
  /\ pc = [r \in Requests |-> "start"]
  /\ target = [r \in Requests |-> NoAgent]
  /\ want = [r \in Requests |-> "online"]
  /\ idle = {}
  /\ then = [r \in Requests |-> "answer"]
  /\ ver = [r \in Requests |-> [epoch |-> 0, generation |-> 0]]
  /\ val = [r \in Requests |-> NoRecord]
  /\ old = [r \in Requests |-> FALSE]
  /\ mine = [r \in Requests |-> 0]
  /\ swept = {}
  /\ missed = {}
  /\ starts = 0

Start == starts < MaxStarts /\ starts' = starts + 1

(* The request goes to place p. *)
Goto(r, p) == pc' = [pc EXCEPT ![r] = p]

(* The request is over. *)
Ends(r) ==
  /\ Goto(r, "start")
  /\ target' = [target EXCEPT ![r] = NoAgent]
  /\ want' = [want EXCEPT ![r] = "online"]
  /\ idle' = idle \ {r}
  /\ then' = [then EXCEPT ![r] = "answer"]
  /\ ver' = [ver EXCEPT ![r] = [epoch |-> 0, generation |-> 0]]
  /\ val' = [val EXCEPT ![r] = NoRecord]
  /\ old' = [old EXCEPT ![r] = FALSE]
  /\ mine' = [mine EXCEPT ![r] = 0]

-----------------------------------------------------------------------------
(* GetAgentCachedOrLoad *)

(* A request that only wants the agent. *)
Ask(r, a) ==
  /\ pc[r] = "start"
  /\ Goto(r, "get")
  /\ target' = [target EXCEPT ![r] = a]
  /\ UNCHANGED <<database, theCache, want, idle, then, ver, val, old, mine, swept, missed,
                 starts>>

Hit(r) ==
  /\ pc[r] = "get"
  /\ cache[target[r]] # NoRecord
  /\ val' = [val EXCEPT ![r] = cache[target[r]]]
  /\ Goto(r, then[r])
  /\ UNCHANGED <<database, theCache, target, want, idle, then, ver, old, mine, swept, missed,
                 starts>>

(* No entry, or one older than agentCacheTTL, which any entry may be:      *)
(* GetAgent notes the version.                                             *)
Miss(r) ==
  /\ pc[r] = "get"
  /\ ver' = [ver EXCEPT ![r] = Current(target[r])]
  /\ Goto(r, "read")
  /\ UNCHANGED <<database, theCache, target, want, idle, then, val, old, mine, swept, missed,
                 starts>>

Load(r) ==
  /\ pc[r] = "read"
  /\ val' = [val EXCEPT ![r] = Fresh(target[r])]
  /\ Goto(r, "store")
  /\ UNCHANGED <<database, theCache, target, want, idle, then, ver, old, mine, swept, missed,
                 starts>>

(* The query fails; an edit still invalidates on its way out. *)
LoadFails(r) ==
  /\ pc[r] = "read"
  /\ IF then[r] = "invalidate" THEN Goto(r, "invalidate") /\ UNCHANGED locals ELSE Ends(r)
  /\ UNCHANGED <<database, theCache, swept, missed, starts>>

(* Mutant: the generation is not compared. *)
StoreIgnoresGeneration(r) ==
  /\ pc[r] = "store"
  /\ cache' = IF ver[r].epoch = epoch THEN [cache EXCEPT ![target[r]] = val[r]] ELSE cache
  /\ Goto(r, then[r])
  /\ UNCHANGED <<database, epoch, generation, locals, swept, missed, starts>>

(* cacheAgentIfCurrent. *)
Store(r) ==
  /\ pc[r] = "store"
  /\ cache' = IF ver[r] = Current(target[r])
              THEN [cache EXCEPT ![target[r]] = val[r]] ELSE cache
  /\ Goto(r, then[r])
  /\ UNCHANGED <<database, epoch, generation, locals, swept, missed, starts>>

Answer(r) ==
  /\ pc[r] = "answer"
  /\ Ends(r)
  /\ UNCHANGED <<database, theCache, swept, missed, starts>>

-----------------------------------------------------------------------------
(* handleUpdateAgentAvailability *)

AskAvailability(r, a, s) ==
  /\ Start
  /\ pc[r] = "start"
  /\ Goto(r, "get")
  /\ target' = [target EXCEPT ![r] = a]
  /\ want' = [want EXCEPT ![r] = s]
  /\ idle' \in {idle, idle \cup {r}}
  /\ then' = [then EXCEPT ![r] = "decide"]
  /\ UNCHANGED <<database, theCache, ver, val, old, mine, swept, missed>>

(* Nothing to change, or idle detection against a manual state. *)
Refuse(r) ==
  /\ pc[r] = "decide"
  /\ \/ val[r].status = want[r]
     \/ r \in idle /\ val[r].status \in Manual
  /\ Ends(r)
  /\ UNCHANGED <<database, theCache, swept, missed, starts>>

Decide(r) ==
  /\ pc[r] = "decide"
  /\ val[r].status # want[r]
  /\ ~(r \in idle /\ val[r].status \in Manual)
  /\ Goto(r, "write")
  /\ UNCHANGED <<database, theCache, locals, swept, missed, starts>>

(* Also the first write of an edit. *)
WriteAvailability(r) ==
  /\ pc[r] = "write"
  /\ status' = [status EXCEPT ![target[r]] = want[r]]
  /\ edition' = [edition EXCEPT ![target[r]] = @ + 1]
  /\ mine' = [mine EXCEPT ![r] = edition[target[r]] + 1]
  /\ Goto(r, "invalidate")
  /\ UNCHANGED <<role, theCache, target, want, idle, then, ver, val, old, swept, missed, starts>>

WriteFails(r) ==
  /\ pc[r] = "write"
  /\ Ends(r)
  /\ UNCHANGED <<database, theCache, swept, missed, starts>>

(* Mutant: the entry goes, the generation stays. *)
DropKeepsGeneration(a) ==
  /\ cache' = [cache EXCEPT ![a] = NoRecord]
  /\ missed' = missed \ {a}
  /\ UNCHANGED generation

(* InvalidateAgentCache of the agent, a missed invalidation made good. *)
Drop(a) ==
  /\ generation' = [generation EXCEPT ![a] = @ + 1]
  /\ cache' = [cache EXCEPT ![a] = NoRecord]
  /\ missed' = missed \ {a}

(* The handler gets the agent again, for its answer; an edit goes on with  *)
(* the teams; the others are done.                                         *)
Invalidate(r) ==
  /\ pc[r] = "invalidate"
  /\ Drop(target[r])
  /\ \/ /\ then[r] = "decide"
        /\ Goto(r, "get")
        /\ then' = [then EXCEPT ![r] = "answer"]
        /\ UNCHANGED <<target, want, idle, ver, val, old, mine>>
     \/ /\ then[r] = "write"
        /\ Goto(r, "teams")
        /\ then' = [then EXCEPT ![r] = "invalidate"]
        /\ mine' = [mine EXCEPT ![r] = 0]
        /\ UNCHANGED <<target, want, idle, ver, val, old>>
     \/ then[r] \in {"answer", "invalidate"} /\ Ends(r)
  /\ UNCHANGED <<database, epoch, swept, starts>>

-----------------------------------------------------------------------------
(* handleUpdateAgent: an admin edits the agent, which is loaded (GetAgent  *)
(* never looks in the cache), written and invalidated; then its teams are  *)
(* written and it is loaded again, and invalidated again in any case.      *)
AskEdit(r, a, s) ==
  /\ Start
  /\ pc[r] = "start"
  /\ Goto(r, "read")
  /\ target' = [target EXCEPT ![r] = a]
  /\ want' = [want EXCEPT ![r] = s]
  /\ then' = [then EXCEPT ![r] = "write"]
  /\ ver' = [ver EXCEPT ![r] = Current(a)]
  /\ UNCHANGED <<database, theCache, idle, val, old, mine, swept, missed>>

WriteTeams(r) ==
  /\ pc[r] = "teams"
  /\ edition' = [edition EXCEPT ![target[r]] = @ + 1]
  /\ Goto(r, "refetch")
  /\ UNCHANGED <<status, role, theCache, locals, swept, missed, starts>>

TeamsFail(r) ==
  /\ pc[r] = "teams"
  /\ Goto(r, "invalidate")
  /\ UNCHANGED <<database, theCache, locals, swept, missed, starts>>

Refetch(r) ==
  /\ pc[r] = "refetch"
  /\ ver' = [ver EXCEPT ![r] = Current(target[r])]
  /\ Goto(r, "read")
  /\ UNCHANGED <<database, theCache, target, want, idle, then, val, old, mine, swept, missed,
                 starts>>

-----------------------------------------------------------------------------
(* UpdateLastActive.  A ping that is skipped (cached online and inside     *)
(* the debounce window) changes nothing and is not a step.  The statement  *)
(* returns the old status of its snapshot, and updates the row as it is    *)
(* when its lock is free (read committed).                                 *)
Ping(r, a) ==
  /\ Start
  /\ pc[r] = "start"
  /\ target' = [target EXCEPT ![r] = a]
  /\ Goto(r, "snapshot")
  /\ UNCHANGED <<database, theCache, want, idle, then, ver, val, old, mine, swept, missed>>

PingSnapshot(r) ==
  /\ pc[r] = "snapshot"
  /\ old' = [old EXCEPT ![r] = status[target[r]] = "offline"]
  /\ Goto(r, "touch")
  /\ UNCHANGED <<database, theCache, target, want, idle, then, ver, val, mine, swept, missed,
                 starts>>

PingFails(r) ==
  /\ pc[r] = "snapshot"
  /\ Ends(r)
  /\ UNCHANGED <<database, theCache, swept, missed, starts>>

(* An offline agent is online; the cache is told if the snapshot says so. *)
PingWrite(r) ==
  /\ pc[r] = "touch"
  /\ IF status[target[r]] = "offline"
     THEN /\ status' = [status EXCEPT ![target[r]] = "online"]
          /\ edition' = [edition EXCEPT ![target[r]] = @ + 1]
          /\ missed' = IF old[r] = TRUE THEN missed ELSE missed \cup {target[r]}
     ELSE UNCHANGED <<status, edition, missed>>
  /\ IF old[r] = TRUE THEN Goto(r, "invalidate") /\ UNCHANGED locals ELSE Ends(r)
  /\ UNCHANGED <<role, theCache, swept, starts>>

-----------------------------------------------------------------------------
(* MarkInactiveUsersOffline: one statement for those who are inactive,     *)
(* which any agent may be; then they are invalidated one by one.           *)
Sweep ==
  /\ Start
  /\ swept = {}
  /\ \E S \in SUBSET {a \in Agents : status[a] \notin Manual \cup {"offline"}} :
       /\ swept' = S
       /\ status' = [a \in Agents |-> IF a \in S THEN "offline" ELSE status[a]]
       /\ edition' = [a \in Agents |-> IF a \in S THEN edition[a] + 1 ELSE edition[a]]
  /\ UNCHANGED <<role, theCache, pc, locals, missed>>

SweepInvalidate(a) ==
  /\ a \in swept
  /\ swept' = swept \ {a}
  /\ Drop(a)
  /\ UNCHANGED <<database, epoch, pc, locals, starts>>

-----------------------------------------------------------------------------
(* handleUpdateRole *)

RoleRead(r, p) ==
  /\ Start
  /\ pc[r] = "start"
  /\ old' = [old EXCEPT ![r] = role]
  /\ want' = [want EXCEPT ![r] = p]
  /\ Goto(r, "role")
  /\ UNCHANGED <<database, theCache, target, idle, then, ver, val, mine, swept, missed>>

(* The new permissions are compared with those read at first. *)
RoleWrite(r) ==
  /\ pc[r] = "role"
  /\ role' = want[r]
  /\ IF role = want[r]
     THEN UNCHANGED <<edition, missed>>
     ELSE /\ edition' = [a \in Agents |-> edition[a] + 1]
          /\ missed' = IF old[r] # want[r] THEN missed ELSE Agents
  /\ IF old[r] # want[r] THEN Goto(r, "invalidateAll") /\ UNCHANGED locals ELSE Ends(r)
  /\ UNCHANGED <<status, theCache, swept, starts>>

RoleFails(r) ==
  /\ pc[r] = "role"
  /\ Ends(r)
  /\ UNCHANGED <<database, theCache, swept, missed, starts>>

(* InvalidateAllAgentCache. *)
InvalidateAll(r) ==
  /\ pc[r] = "invalidateAll"
  /\ epoch' = epoch + 1
  /\ cache' = [a \in Agents |-> NoRecord]
  /\ missed' = {}
  /\ Ends(r)
  /\ UNCHANGED <<database, generation, swept, starts>>

-----------------------------------------------------------------------------
Request(r) ==
  \/ \E a \in Agents :
       \/ Ask(r, a) \/ Ping(r, a)
       \/ \E s \in Wanted : AskAvailability(r, a, s) \/ AskEdit(r, a, s)
  \/ \E p \in Roles : RoleRead(r, p)
  \/ Hit(r) \/ Miss(r) \/ Load(r) \/ LoadFails(r) \/ Store(r) \/ Answer(r)
  \/ Refuse(r) \/ Decide(r) \/ WriteAvailability(r) \/ WriteFails(r) \/ Invalidate(r)
  \/ WriteTeams(r) \/ TeamsFail(r) \/ Refetch(r)
  \/ PingSnapshot(r) \/ PingFails(r) \/ PingWrite(r)
  \/ RoleWrite(r) \/ RoleFails(r) \/ InvalidateAll(r)

Next ==
  \/ \E r \in Requests : Request(r)
  \/ Sweep \/ \E a \in Agents : SweepInvalidate(a)

Spec == Init /\ [][Next]_vars

-----------------------------------------------------------------------------
(* Somebody will still invalidate the agent's entry, or should have.       *)
Pending(a) ==
  \/ \E r \in Requests : "invalidate" \in {pc[r], then[r]} /\ target[r] = a
  \/ \E r \in Requests : pc[r] = "invalidateAll"
  \/ a \in swept
  \/ a \in missed

(* An entry that differs from the database is about to be invalidated: no  *)
(* load in flight brings a record back that a writer has already           *)
(* invalidated.  The exceptions are the changes in missed, whose writer    *)
(* does not know that it made one.                                         *)
Coherent ==
  \A a \in Agents : cache[a] # NoRecord /\ cache[a] # Fresh(a) => Pending(a)

(* The availability handler reads its own write: the record it answers     *)
(* with is not older than what it wrote, whatever was cached, loading or   *)
(* written by others.                                                      *)
ReadYourWrites ==
  \A r \in Requests : pc[r] = "answer" => val[r].n >= mine[r]

-----------------------------------------------------------------------------
(* The inductive invariant behind Coherent and ReadYourWrites. *)

(* What a request has at its place. *)
ShapeOf(r) ==
  /\ pc[r] \notin {"start", "role", "invalidateAll"} => target[r] \in Agents
  /\ pc[r] \in {"store", "decide", "write", "answer"} => val[r] \in Record
  /\ pc[r] \in {"teams", "refetch"} => then[r] = "invalidate"
  /\ then[r] = "invalidate" => pc[r] \in {"teams", "refetch", "read", "store", "invalidate"}
  /\ then[r] = "write" => pc[r] \in {"read", "store", "write", "invalidate"}
  /\ pc[r] = "role" => want[r] \in Roles
  /\ pc[r] \notin {"role", "invalidateAll"} => want[r] \in Status

(* Versions only grow, so that a version once left never comes back. *)
VersionOf(r) ==
  pc[r] \in {"read", "store"} =>
    ver[r].epoch <= epoch /\ ver[r].generation <= generation[target[r]]

(* A load in flight that may still be stored and is outdated will meet an  *)
(* invalidation.                                                           *)
LoadOf(r) ==
  pc[r] = "store" /\ ver[r] = Current(target[r]) /\ val[r] # Fresh(target[r]) =>
    Pending(target[r])

(* After its invalidation nothing older than the write of r is cached or   *)
(* may still be stored.                                                    *)
WriteOf(r) ==
  /\ pc[r] \in {"start", "teams", "refetch", "snapshot", "touch", "role", "invalidateAll"} =>
       mine[r] = 0
  /\ pc[r] \in {"read", "store"} /\ then[r] \in {"write", "invalidate"} => mine[r] = 0
  /\ target[r] \in Agents => mine[r] <= edition[target[r]]
  /\ pc[r] \in {"get", "read", "store"} =>
       /\ cache[target[r]] # NoRecord => cache[target[r]].n >= mine[r]
       /\ \A q \in Requests :
            pc[q] = "store" /\ target[q] = target[r] /\ ver[q] = Current(target[q]) =>
              val[q].n >= mine[r]
  /\ pc[r] \in {"store", "answer"} => val[r].n >= mine[r]

IInv ==
  /\ TypeOK
  /\ Coherent
  /\ \A r \in Requests : ShapeOf(r) /\ VersionOf(r) /\ LoadOf(r) /\ WriteOf(r)
=============================================================================
