----------------------------- MODULE Assignment -----------------------------
(***************************************************************************)
(* Who answers a conversation.  The engine of internal/autoassigner sweeps *)
(* the conversations that have a team and no agent and claims each for a   *)
(* member of that team; meanwhile people assign, unassign, resolve and     *)
(* reopen conversations, move them between teams, change their             *)
(* availability and edit or delete teams and agents.  The engine works on  *)
(* what it read at the start of its sweep; every database statement is     *)
(* atomic, nothing else is.                                                *)
(***************************************************************************)
EXTENDS Naturals, Sequences, FiniteSets, Functions

CONSTANTS
  Conversations,
  Agents,
  Teams,
  Requests,   \* requests that move a conversation to a team
  None,       \* NULL
  MaxAuto,        \* teams.max_auto_assigned_conversations; 0 is unlimited
  MaxEvents   \* bound: steps of people and errors of the engine's statements

ASSUME AssignmentAssumption ==
  /\ None \notin Conversations \cup Agents \cup Teams
  /\ MaxAuto \in Nat
  /\ MaxEvents \in Nat
  /\ IsFiniteSet(Conversations) /\ IsFiniteSet(Agents)

VARIABLES
  team, agent,  \* assigned_team_id and assigned_user_id of each conversation
  status,       \* the category of its status
  roundRobin,   \* teams whose assignment type is 'Round robin'
  member,       \* pairs <<t, a>> of team_members
  available,    \* availability_status of each agent
  leaving,      \* deleted agents whose conversations are not yet unassigned
  events,       \* steps of people and errors of the engine so far
  epc,          \* where the engine is in its sweep
  loading,      \* teams whose members it has not read yet
  pool,         \* roundRobinBalancer: the rotation of each team
  work,         \* pairs <<c, t>> it has read as unassigned
  job,          \* the pair it is working on
  tries,        \* Gets left for that pair
  cand,         \* the agent the pool gave
  rpc, rconv, rteam, rprev, \* each move: place, conversation, target, team read before
  given,        \* history: agents given work by others since the last count
  fresh,        \* history: pairs eligible at some time in this sweep
  loaded,       \* history: teams loaded in this sweep
  claimedFor    \* history: the team for which the engine claimed the conversation

tables  == <<team, agent, status>>
staff   == <<roundRobin, member, available, leaving>>
engine  == <<epc, loading, pool, work, job, tries, cand>>
moves   == <<rpc, rconv, rteam, rprev>>
history == <<given, fresh, loaded, claimedFor>>
vars == <<tables, staff, events, engine, moves, history>>

Availability == {"online", "away_manual", "away_and_reassigning"}
NoJob == <<None, None>>

TypeOK ==
  /\ team \in [Conversations -> Teams \cup {None}]
  /\ agent \in [Conversations -> Agents \cup {None}]
  /\ status \in [Conversations -> {"open", "waiting", "resolved"}]
  /\ roundRobin \in SUBSET Teams
  /\ member \in SUBSET (Teams \X Agents)
  /\ available \in [Agents -> Availability]
  /\ leaving \in SUBSET Agents
  /\ events \in 0..MaxEvents
  /\ epc \in {"idle", "load", "list", "next", "try", "count", "claim"}
  /\ loading \in SUBSET Teams
  /\ pool \in [Teams -> Seq(Agents)]
  /\ work \in SUBSET (Conversations \X Teams)
  /\ job \in (Conversations \X Teams) \cup {NoJob}
  /\ tries \in Nat
  /\ cand \in Agents \cup {None}
  /\ rpc \in [Requests -> {"idle", "set", "record", "remove"}]
  /\ rconv \in [Requests -> Conversations \cup {None}]
  /\ rteam \in [Requests -> Teams \cup {None}]
  /\ rprev \in [Requests -> Teams \cup {None}]
  /\ given \in SUBSET Agents
  /\ fresh \in SUBSET (Teams \X Agents)
  /\ loaded \in SUBSET Teams
  /\ claimedFor \in [Conversations -> Teams \cup {None}]

(* get-user-active-conversations-count. *)
Active(a) == Cardinality({c \in Conversations : agent[c] = a /\ status[c] = "open"})

(* Members that populateTeamBalancer keeps: an agent who is only idle or   *)
(* offline stays in the rotation.                                          *)
Eligible(t) == {a \in Agents : <<t, a>> \in member /\ available[a] = "online"}

EligiblePairs == {p \in Teams \X Agents : p[2] \in Eligible(p[1])}

Init ==
  /\ team \in [Conversations -> Teams \cup {None}]
  /\ agent = [c \in Conversations |-> None]
  /\ status \in [Conversations -> {"open", "resolved"}]
  /\ roundRobin = Teams
  /\ member \in SUBSET (Teams \X Agents)
  /\ available = [a \in Agents |-> "online"]
  /\ leaving = {}
  /\ events = 0
  /\ epc = "idle"
  /\ loading = {}
  /\ pool = [t \in Teams |-> <<>>]
  /\ work = {}
  /\ job = NoJob
  /\ tries = 0
  /\ cand = None
  /\ rpc = [r \in Requests |-> "idle"]
  /\ rconv = [r \in Requests |-> None]
  /\ rteam = [r \in Requests |-> None]
  /\ rprev = [r \in Requests |-> None]
  /\ given = {}
  /\ fresh = {}
  /\ loaded = {}
  /\ claimedFor = [c \in Conversations |-> None]

-----------------------------------------------------------------------------
(* The engine *)

Event == events < MaxEvents /\ events' = events + 1

(* The ticker fires; GetAll reads the teams, of which only those with      *)
(* round robin are loaded.                                                 *)
Tick ==
  /\ epc = "idle"
  /\ loading' = roundRobin
  /\ epc' = "load"
  /\ fresh' = EligiblePairs
  /\ loaded' = {}
  /\ UNCHANGED <<tables, staff, events, pool, work, job, tries, cand, moves, given, claimedFor>>

(* GetAll fails: the sweep goes on with the rotations of the last one. *)
TickFails ==
  /\ Event
  /\ epc = "idle"
  /\ epc' = "list"
  /\ fresh' = EligiblePairs
  /\ loaded' = {}
  /\ UNCHANGED <<tables, staff, loading, pool, work, job, tries, cand, moves, given,
                 claimedFor>>

Orders(S) == {s \in [1..Cardinality(S) -> S] : \A x \in S : \E i \in DOMAIN s : s[i] = x}

(* kept lists its members in the order of p. *)
InOrder(kept, p) ==
  \A i, j \in DOMAIN kept : i < j =>
    \E x, y \in DOMAIN p : x < y /\ p[x] = kept[i] /\ p[y] = kept[j]

(* Mutant: agents who left the team or went away stay in the rotation. *)
LoadTeamKeepsAll(t) ==
  /\ epc = "load"
  /\ t \in loading
  /\ \E new \in Orders(Eligible(t) \ Range(pool[t])) :
       pool' = [pool EXCEPT ![t] = @ \o new]
  /\ loading' = loading \ {t}
  /\ loaded' = loaded \cup {t}
  /\ UNCHANGED <<tables, staff, events, epc, work, job, tries, cand, moves, given, fresh,
                 claimedFor>>

(* The rotation keeps those who are still eligible and gains the others,   *)
(* shuffled.                                                               *)
LoadTeam(t) ==
  /\ epc = "load"
  /\ t \in loading
  /\ \E kept \in Orders(Eligible(t) \cap Range(pool[t])),
        new \in Orders(Eligible(t) \ Range(pool[t])) :
       /\ InOrder(kept, pool[t])
       /\ pool' = [pool EXCEPT ![t] = kept \o new]
  /\ loading' = loading \ {t}
  /\ loaded' = loaded \cup {t}
  /\ UNCHANGED <<tables, staff, events, epc, work, job, tries, cand, moves, given, fresh,
                 claimedFor>>

(* GetMembers fails: the old rotation of the team stays. *)
LoadTeamFails(t) ==
  /\ Event
  /\ epc = "load"
  /\ t \in loading
  /\ loading' = loading \ {t}
  /\ UNCHANGED <<tables, staff, epc, pool, work, job, tries, cand, moves, history>>

Loaded ==
  /\ epc = "load"
  /\ loading = {}
  /\ epc' = "list"
  /\ UNCHANGED <<tables, staff, events, loading, pool, work, job, tries, cand, moves, history>>

(* get-unassigned-conversations, whatever their status. *)
List ==
  /\ epc = "list"
  /\ work' = {<<c, team[c]>> : c \in {d \in Conversations : team[d] # None /\ agent[d] = None}}
  /\ epc' = "next"
  /\ UNCHANGED <<tables, staff, events, loading, pool, job, tries, cand, moves, history>>

ListFails ==
  /\ Event
  /\ epc = "list"
  /\ epc' = "idle"
  /\ UNCHANGED <<tables, staff, loading, pool, work, job, tries, cand, moves, history>>

(* The next conversation, in any order here, gets as many tries as the     *)
(* pool of its team has agents.                                            *)
NextJob ==
  /\ epc = "next"
  /\ IF work = {}
     THEN epc' = "idle" /\ UNCHANGED <<work, job, tries>>
     ELSE \E p \in work :
            /\ work' = work \ {p}
            /\ job' = p
            /\ tries' = Len(pool[p[2]])
            /\ epc' = "try"
  /\ UNCHANGED <<tables, staff, events, loading, pool, cand, moves, history>>

(* Mutant: the head stays the head. *)
GetWithoutRotation ==
  /\ epc = "try"
  /\ tries > 0
  /\ cand' = Head(pool[job[2]])
  /\ UNCHANGED pool
  /\ tries' = tries - 1
  /\ epc' = "count"
  /\ UNCHANGED <<tables, staff, events, loading, work, job, moves, history>>

(* getUserFromPool takes the head of the rotation and moves it to the end. *)
Get ==
  /\ epc = "try"
  /\ LET p == pool[job[2]] IN
     /\ tries > 0
     /\ cand' = Head(p)
     /\ pool' = [pool EXCEPT ![job[2]] = Append(Tail(p), Head(p))]
  /\ tries' = tries - 1
  /\ epc' = "count"
  /\ UNCHANGED <<tables, staff, events, loading, work, job, moves, history>>

(* Mutant: a full agent may take one more. *)
CountOffByOne ==
  /\ epc = "count"
  /\ given' = {}
  /\ IF MaxAuto # 0 /\ Active(cand) > MaxAuto
     THEN epc' = "try" /\ cand' = None
     ELSE epc' = "claim" /\ UNCHANGED cand
  /\ UNCHANGED <<tables, staff, events, loading, pool, work, job, tries, moves, fresh, loaded,
                 claimedFor>>

(* An agent who already has the maximum is skipped. *)
Count ==
  /\ epc = "count"
  /\ given' = {}
  /\ IF MaxAuto # 0 /\ Active(cand) >= MaxAuto
     THEN epc' = "try" /\ cand' = None
     ELSE epc' = "claim" /\ UNCHANGED cand
  /\ UNCHANGED <<tables, staff, events, loading, pool, work, job, tries, moves, fresh, loaded,
                 claimedFor>>

CountFails ==
  /\ Event
  /\ epc = "count"
  /\ epc' = "try"
  /\ cand' = None
  /\ UNCHANGED <<tables, staff, loading, pool, work, job, tries, moves, history>>

(* Mutant: the statement does not test the team again. *)
ClaimableInAnyTeam == agent[job[1]] = None

(* The condition of claim-unassigned-conversation. *)
Claimable == agent[job[1]] = None /\ team[job[1]] = job[2]

(* The conversation is claimed; the hooks behind the update may fail, and  *)
(* the engine then tries the next agent of the pool.                       *)
Claim ==
  /\ epc = "claim"
  /\ Claimable
  /\ agent' = [agent EXCEPT ![job[1]] = cand]
  /\ claimedFor' = [claimedFor EXCEPT ![job[1]] = job[2]]
  /\ epc' \in {"next", "try"}
  /\ job' = IF epc' = "next" THEN NoJob ELSE job
  /\ tries' = IF epc' = "next" THEN 0 ELSE tries
  /\ cand' = None
  /\ UNCHANGED <<team, status, staff, events, loading, pool, work, moves, given, fresh, loaded>>

(* ErrConversationAlreadyAssigned: no more tries. *)
ClaimTooLate ==
  /\ epc = "claim"
  /\ ~Claimable
  /\ epc' = "next"
  /\ job' = NoJob
  /\ tries' = 0
  /\ cand' = None
  /\ UNCHANGED <<tables, staff, events, loading, pool, work, moves, history>>

ClaimFails ==
  /\ Event
  /\ epc = "claim"
  /\ epc' = "try"
  /\ cand' = None
  /\ UNCHANGED <<tables, staff, loading, pool, work, job, tries, moves, history>>

(* No agent of the pool could take it in this sweep. *)
GiveUp ==
  /\ epc = "try"
  /\ tries = 0
  /\ epc' = "next"
  /\ job' = NoJob
  /\ UNCHANGED <<tables, staff, events, loading, pool, work, tries, cand, moves, history>>

-----------------------------------------------------------------------------
(* People *)

(* The conversations of C lose the agent they have. *)
Unassign(C) ==
  /\ agent' = [c \in Conversations |-> IF c \in C THEN None ELSE agent[c]]
  /\ claimedFor' = [c \in Conversations |-> IF c \in C THEN None ELSE claimedFor[c]]

(* UpdateConversationUserAssignee overwrites whoever is there. *)
Assign(c, a) ==
  /\ Event
  /\ agent' = [agent EXCEPT ![c] = a]
  /\ claimedFor' = [claimedFor EXCEPT ![c] = None]
  /\ given' = given \cup {a}
  /\ UNCHANGED <<team, status, staff, engine, moves, fresh, loaded>>

(* RemoveConversationAssignee for the agent ... *)
RemoveAgent(c) ==
  /\ Event
  /\ agent[c] # None
  /\ Unassign({c})
  /\ UNCHANGED <<team, status, staff, engine, moves, given, fresh, loaded>>

(* ... and for the team. *)
RemoveTeam(c) ==
  /\ Event
  /\ team[c] # None
  /\ team' = [team EXCEPT ![c] = None]
  /\ UNCHANGED <<agent, status, staff, engine, moves, history>>

(* UpdateConversationStatus. *)
SetStatus(c, s) ==
  /\ Event
  /\ status[c] # s
  /\ status' = [status EXCEPT ![c] = s]
  /\ given' = IF s = "open" THEN given \cup ({agent[c]} \ {None}) ELSE given
  /\ UNCHANGED <<team, agent, staff, engine, moves, fresh, loaded,
                 claimedFor>>

(* An incoming message reopens the conversation, without its agent if      *)
(* that one is away and reassigning.                                       *)
ReOpen(c) ==
  /\ Event
  /\ status[c] # "open"
  /\ status' = [status EXCEPT ![c] = "open"]
  /\ IF agent[c] # None /\ available[agent[c]] = "away_and_reassigning"
     THEN Unassign({c}) /\ UNCHANGED given
     ELSE UNCHANGED <<agent, claimedFor>> /\ given' = given \cup ({agent[c]} \ {None})
  /\ UNCHANGED <<team, staff, engine, moves, fresh, loaded>>

SetAvailability(a, s) ==
  /\ Event
  /\ available[a] # s
  /\ available' = [available EXCEPT ![a] = s]
  /\ UNCHANGED <<tables, roundRobin, member, leaving, engine, moves, given, loaded,
                 claimedFor>>
  /\ fresh' = fresh \cup EligiblePairs'

SetMember(t, a) ==
  /\ Event
  /\ \/ <<t, a>> \in member /\ member' = member \ {<<t, a>>}
     \/ <<t, a>> \notin member /\ member' = member \cup {<<t, a>>}
  /\ UNCHANGED <<tables, roundRobin, available, leaving, engine, moves, given, loaded,
                 claimedFor>>
  /\ fresh' = fresh \cup EligiblePairs'

(* team.Update changes the assignment type. *)
SetAssignmentType(t) ==
  /\ Event
  /\ \/ t \in roundRobin /\ roundRobin' = roundRobin \ {t}
     \/ t \notin roundRobin /\ roundRobin' = roundRobin \cup {t}
  /\ UNCHANGED <<tables, member, available, leaving, engine, moves, given, fresh, loaded,
                 claimedFor>>

(* handleDeleteAgent takes the agent out of all teams ... *)
DeleteAgent(a) ==
  /\ Event
  /\ member' = {p \in member : p[2] # a}
  /\ leaving' = leaving \cup {a}
  /\ UNCHANGED <<tables, roundRobin, available, engine, moves, history>>

(* ... and then unassigns what is not resolved. *)
UnassignOpen(a) ==
  /\ a \in leaving
  /\ leaving' = leaving \ {a}
  /\ Unassign({c \in Conversations : agent[c] = a /\ status[c] # "resolved"})
  /\ UNCHANGED <<team, status, roundRobin, member, available, events, engine, moves, given, fresh,
                 loaded>>

UnassignOpenFails(a) ==
  /\ a \in leaving
  /\ leaving' = leaving \ {a}
  /\ UNCHANGED <<tables, roundRobin, member, available, events, engine, moves, history>>

-----------------------------------------------------------------------------
(* UpdateConversationTeamAssignee, for an agent's request or a rule *)

MoveRead(r, c, t) ==
  /\ rpc[r] = "idle"
  /\ Event
  /\ rconv' = [rconv EXCEPT ![r] = c]
  /\ rteam' = [rteam EXCEPT ![r] = t]
  /\ rprev' = [rprev EXCEPT ![r] = team[c]]
  /\ rpc' = [rpc EXCEPT ![r] = "set"]
  /\ UNCHANGED <<tables, staff, engine, history>>

(* The request is answered. *)
MoveEnds(r) ==
  /\ rpc' = [rpc EXCEPT ![r] = "idle"]
  /\ rconv' = [rconv EXCEPT ![r] = None]
  /\ rteam' = [rteam EXCEPT ![r] = None]
  /\ rprev' = [rprev EXCEPT ![r] = None]

MoveSet(r) ==
  /\ rpc[r] = "set"
  /\ team' = [team EXCEPT ![rconv[r]] = rteam[r]]
  /\ rpc' = [rpc EXCEPT ![r] = "record"]
  /\ UNCHANGED <<agent, status, staff, events, engine, rconv, rteam, rprev, history>>

MoveSetFails(r) ==
  /\ rpc[r] = "set"
  /\ MoveEnds(r)
  /\ UNCHANGED <<tables, staff, events, engine, history>>

(* RecordAssigneeTeamChange succeeds; only a changed team goes on. *)
MoveRecord(r) ==
  /\ rpc[r] = "record"
  /\ IF rprev[r] # rteam[r]
     THEN rpc' = [rpc EXCEPT ![r] = "remove"] /\ UNCHANGED <<rconv, rteam, rprev>>
     ELSE MoveEnds(r)
  /\ UNCHANGED <<tables, staff, events, engine, history>>

(* It fails: the move returns nil and leaves the agent. *)
MoveRecordFails(r) ==
  /\ rpc[r] = "record"
  /\ MoveEnds(r)
  /\ UNCHANGED <<tables, staff, events, engine, history>>

(* The agent is removed; an error of the statement is ignored. *)
MoveRemove(r) ==
  /\ rpc[r] = "remove"
  /\ \/ Unassign({rconv[r]})
     \/ UNCHANGED <<agent, claimedFor>>
  /\ MoveEnds(r)
  /\ UNCHANGED <<team, status, staff, events, engine, given, fresh, loaded>>

-----------------------------------------------------------------------------
Engine ==
  \/ Tick \/ (\E t \in Teams : LoadTeam(t)) \/ Loaded
  \/ List \/ NextJob \/ Get \/ Count \/ Claim \/ ClaimTooLate \/ GiveUp

EngineErrors ==
  \/ TickFails \/ (\E t \in Teams : LoadTeamFails(t))
  \/ ListFails \/ CountFails \/ ClaimFails

Move(r) ==
  \/ \E c \in Conversations, t \in Teams : MoveRead(r, c, t)
  \/ MoveSet(r) \/ MoveSetFails(r) \/ MoveRecord(r) \/ MoveRecordFails(r) \/ MoveRemove(r)

People ==
  \/ \E c \in Conversations :
       \/ \E a \in Agents : Assign(c, a)
       \/ RemoveAgent(c) \/ RemoveTeam(c) \/ ReOpen(c)
       \/ \E s \in {"open", "waiting", "resolved"} : SetStatus(c, s)
  \/ \E a \in Agents :
       \/ \E s \in Availability : SetAvailability(a, s)
       \/ \E t \in Teams : SetMember(t, a)
       \/ DeleteAgent(a) \/ UnassignOpen(a) \/ UnassignOpenFails(a)
  \/ \E t \in Teams : SetAssignmentType(t)

Next == Engine \/ EngineErrors \/ People \/ \E r \in Requests : Move(r)

Spec == Init /\ [][Next]_vars

(* The engine's goroutine runs; its statements may fail, not for ever. *)
Fairness == WF_vars(Engine)

FairSpec == Spec /\ Fairness

-----------------------------------------------------------------------------
(* The engine never overloads an agent: when it claims, the agent is below *)
(* the maximum unless people gave that agent work since the engine         *)
(* counted.  The count and the claim are two statements; that the engine   *)
(* is one goroutine and counts again for every try is what carries this.   *)
WithinCapacity ==
  epc = "claim" /\ MaxAuto # 0 => Active(cand) < MaxAuto \/ cand \in given

(* A rotation that was loaded in this sweep holds only agents who were     *)
(* eligible for its team at some time of the sweep: nobody who left the    *)
(* team, went away or was deleted before the sweep is given work by it.    *)
PoolsAreFresh ==
  \A t \in loaded : \A a \in Range(pool[t]) : <<t, a>> \in fresh

(* The engine works through a list it read at the start of the sweep, with *)
(* rotations it read before that (autoassigner.go:93-199), while people    *)
(* move conversations and change teams.  Still, whatever team a            *)
(* conversation has by the time it is claimed, the agent it gets was       *)
(* eligible for that team in this sweep, if the sweep loaded that team.    *)
ClaimsSuitTeam ==
  [][\A c \in Conversations :
       agent'[c] # agent[c] /\ claimedFor'[c] # None /\ team[c] \in loaded =>
         <<team[c], agent'[c]>> \in fresh]_vars

(* A conversation does not wait for ever while its team has an agent with  *)
(* room: full agents, agents counted in error and claims that come too     *)
(* late cost tries, not the conversation.                                  *)
HasRoom(t) ==
  /\ t \in roundRobin
  /\ \E a \in Eligible(t) : MaxAuto = 0 \/ Active(a) < MaxAuto

NoStarvation ==
  \A c \in Conversations :
    [](<>(agent[c] # None \/ team[c] = None \/ ~HasRoom(team[c])))
=============================================================================
