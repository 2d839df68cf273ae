------------------------------- MODULE Media -------------------------------
(***************************************************************************)
(* Stored files (internal/media/media.go).  A file lies in the store, its  *)
(* row in the database; no transaction spans the two.  Agents upload first *)
(* and attach to a message later (cmd/media.go, cmd/messages.go); what     *)
(* customers send is uploaded, given a thumbnail and attached within one   *)
(* request (conversation/message.go).  Quotas are kept by a transaction    *)
(* that takes an advisory lock and the row of the owner; a visitor who is  *)
(* recognised as a contact is merged into it, files included               *)
(* (user/user.go); files that no message took within a day are collected.  *)
(***************************************************************************)
EXTENDS Integers, FiniteSets

CONSTANTS Uploads,      \* attempts to store a file
          ByAgent,      \* those of agents, who attach later
          Images,       \* those that get a thumbnail
          Users, Visitor, Contact, \* owners, two of whom may become one
          Uploader,     \* who uploads what
          Nobody,
          Reserve,      \* ThumbnailStorageReserveBytes, in units of a file
          MaxObjects, MaxOwned, MaxUnlinked, \* quotas: of the instance, of an owner, of an owner's unlinked files
          MaxTroubles   \* bound: failing statements and store operations, crashes

ASSUME MediaAssumption ==
  /\ ByAgent \subseteq Uploads /\ Images \subseteq Uploads /\ IsFiniteSet(Uploads)
  /\ {Visitor, Contact} \subseteq Users /\ Visitor # Contact
  /\ Uploader \in [Uploads -> Users] /\ Nobody \notin Users \union Uploads /\ Users \intersect Uploads = {}
  /\ Reserve \in Nat \ {0} /\ {MaxObjects, MaxOwned, MaxUnlinked, MaxTroubles} \subseteq Nat

VARIABLES row,       \* rows of media
          files, thumbs, \* objects in the store
          at,        \* of each upload: the next step of its request
          quotaLock, \* pg_advisory_xact_lock
          userLock,  \* row locks on users
          people,    \* rows of users
          merge,     \* the merge: its step, and the rows it has moved
          sweep,     \* the collector: its step, the file in hand, the rest of its list
          sent,      \* uploads whose message stands
          raced, unattached, leaked, \* histories: attached while or after the collector took the file, attaching failed, objects given up
          troubles

storeVars == <<files, thumbs, leaked>>
lockVars == <<quotaLock, userLock>>
peopleVars == <<people, merge>>
messageVars == <<sent, raced, unattached>>
mediaVars == <<row, storeVars, at, lockVars, peopleVars, sweep, messageVars, troubles>>

NoRow == [owner |-> Nobody, thumb |-> 0, linked |-> FALSE, stale |-> FALSE, there |-> FALSE]
Row == [owner : Users \union {Nobody}, thumb : 0..Reserve, linked : BOOLEAN, stale : BOOLEAN, there : BOOLEAN]
Rows == {u \in Uploads : row[u].there}
ThumbSize == 1
Start(u) == IF u \in ByAgent /\ u \in Images THEN "thumb" ELSE "file"
Resting == [at |-> "idle", file |-> Nobody, rest |-> {}]

MediaInit ==
  /\ row = [u \in Uploads |-> NoRow] /\ files = {} /\ thumbs = {}
  /\ at = [u \in Uploads |-> "idle"]
  /\ quotaLock = Nobody /\ userLock = [p \in Users |-> Nobody]
  /\ people = Users /\ merge = [at |-> "idle", moved |-> {}]
  /\ sweep = Resting
  /\ sent = {} /\ raced = {} /\ unattached = {} /\ leaked = {}
  /\ troubles = 0

Trouble == troubles < MaxTroubles /\ troubles' = troubles + 1
Smooth == UNCHANGED troubles
Go(u, place) == at' = [at EXCEPT ![u] = place]

---------------------------------------------------------------------------
(* Quotas, over the rows there are *)

Objects(S) == Cardinality(S) + Cardinality({u \in S : row[u].thumb > 0})
(* The units of space the files of S take: unit 0 is the file itself, the  *)
(* others are the thumbnail's, or reserved for it.                         *)
Units(S) == {x \in S \X (0..Reserve) : x[2] <= row[x[1]].thumb}
Size(S) == Cardinality(Units(S))
OwnedBy(people_) == {u \in Rows : row[u].owner \in people_}
NewThumb(u) == CASE u \notin Images -> 0
                 [] u \in ByAgent -> IF u \in thumbs THEN ThumbSize ELSE 0
                 [] OTHER -> Reserve
NewObjects(u) == IF NewThumb(u) > 0 THEN 2 ELSE 1
InstanceHasRoom(u) == Objects(Rows) + NewObjects(u) <= MaxObjects
OwnerHasRoom(u, size) == LET mine == OwnedBy({Uploader[u]}) IN
                         /\ Size(mine) + size <= MaxOwned
                         /\ Size({v \in mine : ~row[v].linked}) + size <= MaxUnlinked

---------------------------------------------------------------------------
(* One upload *)

(* The agents' handler looks at the quotas before it reads the file, as    *)
(* the widget's does, but nobody for a mail; the transaction looks again.  *)
Begin(u) == /\ at[u] = "idle" /\ Go(u, Start(u)) /\ Smooth
            /\ u \in ByAgent => Objects(Rows) < MaxObjects /\ OwnerHasRoom(u, 1)
            /\ UNCHANGED <<row, storeVars, lockVars, peopleVars, sweep, messageVars>>

(* A thumbnail that cannot be made (the image workers are busy) is left    *)
(* out; one that cannot be stored ends the request.                        *)
PutThumb(u) ==
  /\ at[u] = "thumb"
  /\ \/ thumbs' = thumbs \union {u} /\ Go(u, "file") /\ Smooth
     \/ UNCHANGED thumbs /\ Go(u, "file") /\ Smooth
     \/ UNCHANGED thumbs /\ Go(u, "done") /\ Trouble
  /\ UNCHANGED <<row, files, leaked, lockVars, peopleVars, sweep, messageVars>>

(* Mutant: a failed request leaves its objects. *)
UndoNothing(u) == Go(u, "done")
(* Customers' uploads (UploadAndInsert) take back only the file, those of  *)
(* agents everything.                                                      *)
Undo(u) == Go(u, "undo file")

PutFile(u) ==
  /\ at[u] = "file"
  /\ \/ files' = files \union {u} /\ Go(u, "quota") /\ Smooth
     \/ UNCHANGED files /\ Trouble /\ IF u \in ByAgent THEN Undo(u) ELSE Go(u, "done")
  /\ UNCHANGED <<row, thumbs, leaked, lockVars, peopleVars, sweep, messageVars>>

LockQuota(u) ==
  /\ at[u] = "quota" /\ quotaLock = Nobody
  /\ IF InstanceHasRoom(u) THEN quotaLock' = u /\ Go(u, "owner")
                           ELSE UNCHANGED quotaLock /\ Undo(u)
  /\ Smooth /\ UNCHANGED <<row, storeVars, userLock, peopleVars, sweep, messageVars>>

LockOwner(u) ==
  /\ at[u] = "owner" /\ userLock[Uploader[u]] = Nobody
  /\ IF Uploader[u] \in people /\ OwnerHasRoom(u, 1 + NewThumb(u))
       THEN userLock' = [userLock EXCEPT ![Uploader[u]] = u] /\ Go(u, "insert") /\ UNCHANGED quotaLock
       ELSE quotaLock' = Nobody /\ Undo(u) /\ UNCHANGED userLock
  /\ Smooth /\ UNCHANGED <<row, storeVars, peopleVars, sweep, messageVars>>

InsertedRow(u) == [owner |-> Uploader[u], thumb |-> NewThumb(u), linked |-> FALSE, stale |-> FALSE, there |-> TRUE]

Insert(u) ==
  /\ at[u] = "insert"
  /\ quotaLock' = Nobody /\ userLock' = [userLock EXCEPT ![Uploader[u]] = Nobody]
  /\ \/ row' = [row EXCEPT ![u] = InsertedRow(u)] /\ Go(u, "read back") /\ Smooth
     \/ UNCHANGED row /\ Undo(u) /\ Trouble
  /\ UNCHANGED <<storeVars, peopleVars, sweep, messageVars>>

(* Insert ends with a Get of the row it has committed, whose error counts  *)
(* as an error of the insertion.                                           *)
ReadBack(u) ==
  /\ at[u] = "read back"
  /\ \/ /\ Go(u, IF u \in ByAgent THEN "held" ELSE IF u \in Images THEN "settle" ELSE "message") /\ Smooth
     \/ Undo(u) /\ Trouble
  /\ UNCHANGED <<row, storeVars, lockVars, peopleVars, sweep, messageVars>>

(* uploadThumbnailForMedia stores the thumbnail and replaces the reserve   *)
(* by what it took, nothing when it failed.                                *)
PutLateThumb(u) ==
  /\ at[u] = "settle" /\ u \notin thumbs
  /\ thumbs' = thumbs \union {u} /\ Smooth
  /\ UNCHANGED <<row, files, leaked, at, lockVars, peopleVars, sweep, messageVars>>

SetThumbnailSize(u) ==
  /\ at[u] = "settle" /\ Go(u, "message")
  /\ \/ row' = [row EXCEPT ![u].thumb = IF u \in thumbs THEN ThumbSize ELSE 0]
        /\ IF u \in thumbs THEN Smooth ELSE Trouble
     \/ UNCHANGED row /\ Trouble
  /\ UNCHANGED <<storeVars, lockVars, peopleVars, sweep, messageVars>>

UndoFile(u) ==
  /\ at[u] = "undo file"
  /\ \/ /\ files' = files \ {u} /\ UNCHANGED leaked /\ Smooth
        /\ Go(u, IF u \in ByAgent THEN "undo row" ELSE "done")
     \/ /\ UNCHANGED files /\ Trouble
        /\ leaked' = IF u \in files /\ u \notin Rows THEN leaked \union {u} ELSE leaked
        /\ Go(u, IF u \in ByAgent THEN "undo thumb" ELSE "done")
  /\ UNCHANGED <<row, thumbs, lockVars, peopleVars, sweep, messageVars>>

UndoRow(u) ==
  /\ at[u] = "undo row" /\ Go(u, "undo thumb")
  /\ \/ row' = [row EXCEPT ![u] = NoRow] /\ Smooth
     \/ UNCHANGED row /\ Trouble
  /\ UNCHANGED <<storeVars, lockVars, peopleVars, sweep, messageVars>>

UndoThumb(u) ==
  /\ at[u] = "undo thumb" /\ Go(u, "done")
  /\ \/ thumbs' = thumbs \ {u} /\ UNCHANGED leaked /\ Smooth
     \/ UNCHANGED thumbs /\ Trouble
        /\ leaked' = IF u \in thumbs /\ u \notin Rows THEN leaked \union {u} ELSE leaked
  /\ UNCHANGED <<row, files, lockVars, peopleVars, sweep, messageVars>>

---------------------------------------------------------------------------
(* Into a message *)

(* getUnassociatedMedia: the row is read, and must be the agent's own and  *)
(* in no message yet.                                                      *)
Pick(u) ==
  /\ at[u] = "held"
  /\ Go(u, IF u \in Rows /\ ~row[u].linked /\ row[u].owner = Uploader[u] THEN "message" ELSE "done")
  /\ Smooth /\ UNCHANGED <<row, storeVars, lockVars, peopleVars, sweep, messageVars>>

(* An image in the body of the message: the body names it, and nobody      *)
(* looks at its row, or asks whose it is, before the message stands.       *)
NameInline(u) == /\ at[u] = "held" /\ Go(u, "message")
                 /\ Smooth /\ UNCHANGED <<row, storeVars, lockVars, peopleVars, sweep, messageVars>>

(* The message needs its sender: a merged visitor sends no more. *)
InsertMessage(u) ==
  /\ at[u] = "message" /\ userLock[Uploader[u]] \in {Nobody, u}
  /\ \/ Uploader[u] \in people /\ sent' = sent \union {u} /\ Go(u, "attach") /\ Smooth
     \/ UNCHANGED sent /\ Go(u, "done") /\ IF Uploader[u] \in people THEN Trouble ELSE Smooth
  /\ UNCHANGED <<row, storeVars, lockVars, peopleVars, sweep, raced, unattached>>

(* InsertMessage ignores the error of Attach, which may also find no row;  *)
(* linkInlineMediaToMessage reads the row of an image first, and leaves it *)
(* when the read fails or finds none.                                      *)
Attach(u) ==
  /\ at[u] = "attach" /\ Go(u, "done")
  /\ \/ /\ row' = IF u \in Rows THEN [row EXCEPT ![u].linked = TRUE] ELSE row
        /\ raced' = IF u \in sweep.rest \union {sweep.file} \/ u \notin Rows THEN raced \union {u} ELSE raced
        /\ UNCHANGED unattached /\ Smooth
     \/ unattached' = unattached \union {u} /\ UNCHANGED <<row, raced>> /\ Trouble
  /\ UNCHANGED <<storeVars, lockVars, peopleVars, sweep, sent>>

---------------------------------------------------------------------------
(* MergeVisitorToContact: one transaction, seen by the others when it      *)
(* commits.  Whoever still owns rows that it did not move leaves them to   *)
(* nobody (ON DELETE SET NULL).                                            *)

MergeEnd == userLock' = [p \in Users |-> IF userLock[p] = Visitor THEN Nobody ELSE userLock[p]]
MergeFits == Size(OwnedBy({Visitor, Contact})) <= MaxOwned

(* Mutant: the merge locks nobody. *)
MergeUnlocked ==
  /\ merge.at = "idle" /\ {Visitor, Contact} \subseteq people
  /\ MergeFits /\ merge' = [merge EXCEPT !.at = "move"]
  /\ Smooth /\ UNCHANGED <<row, storeVars, at, lockVars, people, sweep, messageVars>>

(* Both owners are locked before what they store is added up. *)
MergeLock ==
  /\ merge.at = "idle" /\ {Visitor, Contact} \subseteq people
  /\ userLock[Visitor] = Nobody /\ userLock[Contact] = Nobody
  /\ MergeFits /\ merge' = [merge EXCEPT !.at = "move"]
  /\ userLock' = [userLock EXCEPT ![Visitor] = Visitor, ![Contact] = Visitor]
  /\ Smooth /\ UNCHANGED <<row, storeVars, at, quotaLock, people, sweep, messageVars>>

MergeMove ==
  /\ merge.at = "move" /\ merge' = [at |-> "commit", moved |-> OwnedBy({Visitor})]
  /\ Smooth /\ UNCHANGED <<row, storeVars, at, lockVars, people, sweep, messageVars>>

NewOwner(u) == IF u \in merge.moved THEN Contact ELSE IF row[u].owner = Visitor THEN Nobody ELSE row[u].owner

MergeCommit ==
  /\ merge.at = "commit" /\ merge' = [at |-> "idle", moved |-> {}] /\ MergeEnd
  /\ \/ /\ row' = [u \in Uploads |-> IF u \in Rows THEN [row[u] EXCEPT !.owner = NewOwner(u)] ELSE row[u]]
        /\ people' = people \ {Visitor} /\ Smooth
     \/ UNCHANGED <<row, people>> /\ Trouble
  /\ UNCHANGED <<storeVars, at, quotaLock, sweep, messageVars>>

---------------------------------------------------------------------------
(* deleteUnlinkedMedia *)

(* A day passes for a file nobody attaches meanwhile: requests are over    *)
(* long before.                                                            *)
DayPasses(u) ==
  /\ u \in Rows /\ ~row[u].linked /\ at[u] \in {"held", "done"}
  /\ ~row[u].stale /\ row' = [row EXCEPT ![u].stale = TRUE]
  /\ Smooth /\ UNCHANGED <<storeVars, at, lockVars, peopleVars, sweep, messageVars>>

(* Mutant: attached files are collected too. *)
UnlinkedOrNot == {u \in Rows : row[u].stale}
Unlinked == {u \in Rows : ~row[u].linked /\ row[u].stale}

SweepList ==
  /\ sweep.at = "idle" /\ Unlinked # {}
  /\ sweep' = [at |-> "next", file |-> Nobody, rest |-> Unlinked]
  /\ Smooth /\ UNCHANGED <<row, storeVars, at, lockVars, peopleVars, messageVars>>

SweepNext ==
  /\ sweep.at = "next"
  /\ \/ sweep.rest = {} /\ sweep' = Resting
     \/ \E u \in sweep.rest : sweep' = [at |-> "file", file |-> u, rest |-> sweep.rest \ {u}]
  /\ Smooth /\ UNCHANGED <<row, storeVars, at, lockVars, peopleVars, messageVars>>

SweepTo(place) == sweep' = [sweep EXCEPT !.at = place]
SweepOn == sweep' = [sweep EXCEPT !.at = "next", !.file = Nobody]

(* Mutant: a file that is gone already is an error. *)
SweepFileOnce ==
  /\ sweep.at = "file"
  /\ \/ sweep.file \in files /\ files' = files \ {sweep.file} /\ SweepTo("row") /\ Smooth
     \/ sweep.file \notin files /\ UNCHANGED files /\ SweepOn /\ Smooth
     \/ UNCHANGED files /\ SweepOn /\ Trouble
  /\ UNCHANGED <<row, thumbs, leaked, at, lockVars, peopleVars, messageVars>>

(* A file that is not there is as good as deleted. *)
SweepFile ==
  /\ sweep.at = "file"
  /\ \/ files' = files \ {sweep.file} /\ SweepTo("row") /\ Smooth
     \/ UNCHANGED files /\ SweepOn /\ Trouble
  /\ UNCHANGED <<row, thumbs, leaked, at, lockVars, peopleVars, messageVars>>

SweepRow ==
  /\ sweep.at = "row"
  /\ \/ /\ row' = [row EXCEPT ![sweep.file] = NoRow] /\ UNCHANGED raced /\ Smooth
        /\ IF sweep.file \in Images THEN SweepTo("thumb") ELSE SweepOn
     \/ UNCHANGED row /\ SweepOn /\ Trouble /\ raced' = raced \union {sweep.file}
  /\ UNCHANGED <<storeVars, at, lockVars, peopleVars, sent, unattached>>

SweepThumb ==
  /\ sweep.at = "thumb" /\ SweepOn
  /\ \/ thumbs' = thumbs \ {sweep.file} /\ UNCHANGED leaked /\ Smooth
     \/ UNCHANGED thumbs /\ Trouble
        /\ leaked' = IF sweep.file \in thumbs THEN leaked \union {sweep.file} ELSE leaked
  /\ UNCHANGED <<row, files, at, lockVars, peopleVars, messageVars>>

(* The process ends: requests, transactions and the sweep are over. *)
Crash ==
  /\ Trouble
  /\ at' = [u \in Uploads |-> IF at[u] \in {"idle", "held"} THEN at[u] ELSE "done"]
  /\ quotaLock' = Nobody /\ userLock' = [p \in Users |-> Nobody]
  /\ merge' = [at |-> "idle", moved |-> {}] /\ sweep' = Resting
  /\ leaked' = leaked \union ((files \union thumbs) \ Rows)
  /\ unattached' = unattached \union {u \in Uploads : at[u] = "attach"}
  /\ raced' = IF sweep.at = "row" THEN raced \union {sweep.file} ELSE raced
  /\ UNCHANGED <<row, files, thumbs, people, sent>>

Upload(u) == \/ PutThumb(u) \/ PutFile(u) \/ LockQuota(u) \/ LockOwner(u) \/ Insert(u) \/ ReadBack(u)
             \/ PutLateThumb(u) \/ SetThumbnailSize(u) \/ UndoFile(u) \/ UndoRow(u) \/ UndoThumb(u)
             \/ InsertMessage(u) \/ Attach(u)
Merge == MergeLock \/ MergeMove \/ MergeCommit
Sweep == SweepList \/ SweepNext \/ SweepFile \/ SweepRow \/ SweepThumb

MediaNext == \/ \E u \in Uploads : Begin(u) \/ Upload(u) \/ Pick(u) \/ NameInline(u) \/ DayPasses(u)
             \/ Merge \/ Sweep \/ Crash

MediaSpec == MediaInit /\ [][MediaNext]_mediaVars
MediaFairSpec == /\ MediaSpec
                 /\ \A u \in Uploads : WF_mediaVars(Upload(u))
                 /\ WF_mediaVars(Sweep) /\ WF_mediaVars(MergeMove \/ MergeCommit)

---------------------------------------------------------------------------
Places == {"idle", "thumb", "file", "quota", "owner", "insert", "read back", "settle", "held",
           "undo file", "undo row", "undo thumb", "message", "attach", "done"}
MediaTypeOK ==
  /\ row \in [Uploads -> Row] /\ files \subseteq Uploads /\ thumbs \subseteq Uploads
  /\ at \in [Uploads -> Places]
  /\ quotaLock \in Uploads \union {Nobody} /\ people \subseteq Users
  /\ userLock \in [Users -> Uploads \union {Nobody, Visitor}]
  /\ merge \in [at : {"idle", "move", "commit"}, moved : SUBSET Uploads]
  /\ sweep \in [at : {"idle", "next", "file", "row", "thumb"}, file : Uploads \union {Nobody}, rest : SUBSET Uploads]
  /\ sweep.at \in {"file", "row", "thumb"} => sweep.file \in Uploads
  /\ sent \subseteq Uploads /\ raced \subseteq Uploads /\ unattached \subseteq Uploads /\ leaked \subseteq Uploads
  /\ troubles \in 0..MaxTroubles

(* Concurrent uploads, thumbnails that are settled later and merges keep   *)
(* the quotas of the instance and of every owner, and no file is left to   *)
(* nobody (insertWithQuotas, MergeVisitorToContact).                       *)
QuotasKept ==
  /\ Objects(Rows) <= MaxObjects
  /\ \A p \in people : Size(OwnedBy({p})) <= MaxOwned
  /\ \A u \in Rows : row[u].owner \in people

SentIsStored ==
  \A u \in sent \ (raced \union unattached) : at[u] = "attach" \/ (u \in Rows /\ row[u].linked /\ u \in files)

ObjectsAccounted ==
  \A u \in (files \union thumbs) \ (Rows \union leaked) :
     at[u] \notin {"idle", "held", "done"} \/ sweep.file = u

(* Store, database and messages agree: what a message shows is stored, but *)
(* for a file that the collector had listed a day after its upload and     *)
(* before it was attached, and one whose Attach failed unnoticed           *)
(* (InsertMessage, linkInlineMediaToMessage); and no object lies in the store unknown to the         *)
(* database once its request is over, unless a clean-up was cut off or     *)
(* failed.                                                                 *)
StoreAgrees == SentIsStored /\ ObjectsAccounted

(* What no message took is collected, row and file.                        *)
UnusedGoes == \A u \in Uploads : (u \in Rows /\ row[u].stale) ~> (u \in sent \/ u \notin Rows)
=============================================================================
