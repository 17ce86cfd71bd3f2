------------------------------ MODULE Registry ------------------------------
(***************************************************************************)
(* The registry service over its Postgres tables: registering, updating,   *)
(* reverting, versioning, locking and deleting items of one subtype.       *)
(*                                                                         *)
(* A handler of apps/api/src/services/registryService.ts runs no database  *)
(* transaction of its own.  It reads, checks and writes over a sequence of *)
(* awaits, and only single repository calls are atomic.  Each request is   *)
(* therefore a process whose pc names the await it will perform next; all  *)
(* requests interleave over the shared tables.                             *)
(*                                                                         *)
(* Abstractions.  Domain info is a member of Content.  The role check      *)
(* (describeAccess) is a free choice, since the sidecar it reads is not    *)
(* part of this module; so is every refusal that leaves no trace.  An item *)
(* that is not in the item table has the row NoRow.                        *)
(***************************************************************************)
EXTENDS Integers, Sequences, FiniteSets, FiniteSetsExt

CONSTANTS
  Request,      \* requests in flight; each performs one operation
  Content,      \* the domain infos clients submit
  NoContent,    \* "no satellite row"
  MaxHandle,    \* bound: how many handles the sequence may mint
  Ops,          \* the operations clients use
  Versioning    \* subtypeHasVersioning(subtype)

AllOps == {"seed", "create", "update", "silentUpdate", "revert", "version",
           "lock", "unlock", "delete"}

ASSUME ContentAssumption == NoContent \notin Content /\ Content # {}
ASSUME MaxHandleAssumption == MaxHandle \in Nat \ {0}
ASSUME OpsAssumption == Ops \subseteq AllOps
ASSUME VersioningAssumption == Versioning \in BOOLEAN

VARIABLES
  item,         \* the item table, by handle
  content,      \* the satellite table: current domain info
  history,      \* the item_history table: history id -> domain info
  auth,         \* the handles that have an item_auth row
  locked,       \* the item_lock table
  lockEvents,   \* the lock_event table, per item in order of id
  minted,       \* value of the handle sequence
  sessions,     \* the job_session rows this module creates
  pc,           \* per request: the await it performs next
  req,          \* per request: what the client asked for
  stored,       \* per request: the item as the handler fetched it
  existing,     \* per request: the item as the repository last fetched it
  fresh,        \* per request: the handle it minted
  session,      \* per request: the job session it submitted
  epoch         \* per request: history variable, the number of lock events
                \* of the item when the request passed its lock check

tables == <<item, content, history, auth, locked, lockEvents, minted, sessions>>
locals == <<pc, req, stored, existing, fresh, session, epoch>>
vars == <<tables, locals>>

-----------------------------------------------------------------------------
Handle == 1..MaxHandle
NoHandle == 0
NoSession == 0
HandleOrNone == Handle \cup {NoHandle}
ContentOrNone == Content \cup {NoContent}

\* One row of the item table.  ver = 0 is a null version, as seeds have.
ItemRow == [kind : {"absent", "seed", "complete"},
            prev : HandleOrNone, next : HandleOrNone, ver : Nat,
            createLink : Nat, versionLink : Nat, search : ContentOrNone]

NewRow(kind, prev, ver) ==
  [kind |-> kind, prev |-> prev, next |-> NoHandle, ver |-> ver,
   createLink |-> NoSession, versionLink |-> NoSession, search |-> NoContent]
NoRow == NewRow("absent", NoHandle, 0)

Exists(h) == h \in Handle /\ item[h].kind # "absent"

\* The version number the service computes with: a null version counts as 1.
VersionNumber(h) == IF item[h].ver = 0 THEN 1 ELSE item[h].ver

NoHistory == [i \in {} |-> NoContent]
\* (seeded bug) ids start at 1
NextHistoryId_FromOne(f) == IF DOMAIN f = {} THEN 1 ELSE Max(DOMAIN f) + 1
\* (seeded bug) -1, the "not found" of an index search, for an empty history
NextHistoryId_NotFound(f) == IF DOMAIN f = {} THEN -1 ELSE Max(DOMAIN f) + 1
NextHistoryId(f) == IF DOMAIN f = {} THEN 0 ELSE Max(DOMAIN f) + 1
AddEntry(f, id, c) ==
  [i \in DOMAIN f \cup {id} |-> IF i = id THEN c ELSE f[i]]

\* What fetchItem returns, as far as the handlers look at it.
Snapshot(h) == [kind |-> item[h].kind, next |-> item[h].next,
                ver |-> VersionNumber(h), content |-> content[h],
                nextId |-> NextHistoryId(history[h])]
SnapshotRecord == [kind : {"absent", "seed", "complete"}, next : HandleOrNone,
                   ver : Nat, content : ContentOrNone, nextId : Nat]
NoSnapshot == [kind |-> "absent", next |-> NoHandle, ver |-> 1,
               content |-> NoContent, nextId |-> 0]

ReqRecord == [op : AllOps \cup {"none"}, id : HandleOrNone,
              content : ContentOrNone, histId : Nat, reasoned : BOOLEAN]
Asks(op, id, c, histId, reasoned) ==
  [op |-> op, id |-> id, content |-> c, histId |-> histId,
   reasoned |-> reasoned]
NoReq == Asks("none", NoHandle, NoContent, 0, FALSE)

SessionRecord ==
  [job : {"REGISTER_CREATE_ACTIVITY", "REGISTER_VERSION_ACTIVITY"},
   item : Handle]

InFlight == {"authorise", "mint", "insert", "repoFetch", "commit",
             "refreshRead", "refreshWrite", "sidecars", "linkNext", "submit",
             "linkSession", "setLocked"}
Ended == {"done", "refused", "aborted", "failed"}
\* refused: turned down by a check; aborted: rolled back or not found, nothing
\* written; failed: stopped midway, keeping what it had written.

Goto(r, label) == pc' = [pc EXCEPT ![r] = label]

-----------------------------------------------------------------------------
(* An empty registry, or one whose first item an earlier request seeded or *)
(* registered completely: with its sidecars, and, for a versioned subtype, *)
(* with its create activity session linked.                                *)
FirstItem(kind, c) ==
  LET isComplete == kind = "complete"
      hasSession == isComplete /\ Versioning
  IN  [NewRow(kind, NoHandle, IF hasSession THEN 1 ELSE 0) EXCEPT
         !.createLink = IF hasSession THEN 1 ELSE NoSession,
         !.search = IF isComplete THEN c ELSE NoContent]

InitTables(kind, c) ==
  LET isComplete(h) == h = 1 /\ kind = "complete" IN
  /\ item = [h \in Handle |-> IF h = 1 THEN FirstItem(kind, c) ELSE NoRow]
  /\ content = [h \in Handle |-> IF isComplete(h) THEN c ELSE NoContent]
  /\ history = [h \in Handle |-> IF isComplete(h) THEN [i \in {0} |-> c]
                                 ELSE NoHistory]
  /\ auth = IF kind = "absent" THEN {} ELSE {1}
  /\ minted = IF kind = "absent" THEN 0 ELSE 1
  /\ sessions = IF kind = "complete" /\ Versioning
                THEN <<[job |-> "REGISTER_CREATE_ACTIVITY", item |-> 1]>>
                ELSE <<>>

Init ==
  /\ \E kind \in {"absent", "seed", "complete"}, c \in Content :
       InitTables(kind, c)
  /\ locked = [h \in Handle |-> FALSE]
  /\ lockEvents = [h \in Handle |-> <<>>]
  /\ pc = [r \in Request |-> "idle"]
  /\ req = [r \in Request |-> NoReq]
  /\ stored = [r \in Request |-> NoSnapshot]
  /\ existing = [r \in Request |-> NoSnapshot]
  /\ fresh = [r \in Request |-> NoHandle]
  /\ session = [r \in Request |-> NoSession]
  /\ epoch = [r \in Request |-> 0]

-----------------------------------------------------------------------------
(* The first await of a handler on an existing item: expectItem.           *)

Fetch(r, request) ==
  /\ pc[r] = "idle"
  /\ request.op \in Ops
  /\ Exists(request.id)
  /\ req' = [req EXCEPT ![r] = request]
  /\ stored' = [stored EXCEPT ![r] = Snapshot(request.id)]
  /\ Goto(r, "authorise")
  /\ UNCHANGED <<tables, existing, fresh, session, epoch>>

\* (seeded bug) updates need no reason
BeginUpdate_NoReason(r) ==
  \E h \in Handle, c \in Content, op \in {"update", "silentUpdate"},
     reasoned \in BOOLEAN : Fetch(r, Asks(op, h, c, 0, reasoned))
\* updateItem: a reason is required unless the fetched item is a seed.
BeginUpdate(r) ==
  \E h \in Handle, c \in Content, op \in {"update", "silentUpdate"},
     reasoned \in BOOLEAN :
    /\ item[h].kind = "complete" => reasoned
    /\ Fetch(r, Asks(op, h, c, 0, reasoned))

\* revertItem: the history entry must be in the fetched history.
BeginRevert(r) ==
  \E h \in Handle : \E id \in DOMAIN history[h] :
    Fetch(r, Asks("revert", h, NoContent, id, TRUE))

\* versionItem: only a complete item that the fetch shows as the latest.
BeginVersion(r) ==
  \E h \in Handle :
    /\ Versioning
    /\ item[h].kind = "complete" /\ content[h] # NoContent
    /\ item[h].next = NoHandle
    /\ Fetch(r, Asks("version", h, NoContent, 0, TRUE))

\* (seeded bug) only the existence of the item is checked
CheckNotLocked_Dropped(h) == h \in Handle
CheckNotLocked(h) == ~locked[h]

\* checkNotLocked, then the role check.
Authorise(r) ==
  LET h == req[r].id IN
  /\ pc[r] = "authorise"
  /\ \/ Goto(r, "refused") /\ UNCHANGED epoch
     \/ /\ CheckNotLocked(h)
        /\ epoch' = [epoch EXCEPT ![r] = Len(lockEvents[h])]
        /\ Goto(r, IF req[r].op = "version" THEN "mint" ELSE "repoFetch")
  /\ UNCHANGED <<tables, req, stored, existing, fresh, session>>

-----------------------------------------------------------------------------
(* Repository updateItem (revertItem calls it with a stored entry).        *)

\* fetchItem outside the transaction.  A revert fetches twice in a row, the entry
\* first (items.ts:341) and then what updateItem builds on (items.ts:289): one
\* step here, since an entry that is there stays as it is.
RepoFetch(r) ==
  LET h == req[r].id
      reverts == req[r].op = "revert"
  IN
  /\ pc[r] = "repoFetch"
  /\ IF Exists(h) /\ (reverts => req[r].histId \in DOMAIN history[h])
     THEN /\ existing' = [existing EXCEPT ![r] = Snapshot(h)]
          /\ req' = IF reverts
                    THEN [req EXCEPT ![r].content = history[h][req[r].histId]]
                    ELSE req
          /\ Goto(r, "commit")
     ELSE Goto(r, "aborted") /\ UNCHANGED <<existing, req>>
  /\ UNCHANGED <<tables, stored, fresh, session, epoch>>

\* (seeded bug) history rows are upserted, so that a taken id is no conflict
CommitConflicts_UpsertHistory(r) ==
  LET h == req[r].id IN
  ~Exists(h) \/ (existing[r].kind = "seed" /\ content[h] # NoContent)

\* A primary key or foreign key the transaction would violate: the satellite
\* of an item promoted meanwhile, the next history id taken meanwhile, or the
\* item deleted meanwhile.
CommitConflicts(r) ==
  LET h == req[r].id IN
  \/ ~Exists(h)
  \/ existing[r].kind = "seed" /\ content[h] # NoContent
  \/ req[r].op # "silentUpdate" /\ existing[r].nextId \in DOMAIN history[h]

\* The transaction: base row, satellite row and, unless excluded, history row.
Commit(r) ==
  LET h == req[r].id IN
  /\ pc[r] = "commit"
  /\ IF CommitConflicts(r)
     THEN Goto(r, "aborted") /\ UNCHANGED <<item, content, history>>
     ELSE /\ item' = [item EXCEPT ![h].kind = "complete"]
          /\ content' = [content EXCEPT ![h] = req[r].content]
          /\ history' = IF req[r].op = "silentUpdate" THEN history
                        ELSE [history EXCEPT ![h] =
                                AddEntry(@, existing[r].nextId, req[r].content)]
          /\ Goto(r, "refreshRead")
  /\ UNCHANGED <<auth, locked, lockEvents, minted, sessions, req, stored,
                 existing, fresh, session, epoch>>

-----------------------------------------------------------------------------
(* Registration: seedItem, createItem and the second half of versionItem.  *)

BeginRegister(r) ==
  \E op \in {"seed", "create"} \cap Ops, c \in Content :
    /\ pc[r] = "idle"
    /\ req' = [req EXCEPT ![r] =
                 Asks(op, NoHandle, IF op = "create" THEN c ELSE NoContent, 0,
                      FALSE)]
    /\ Goto(r, "mint")
    /\ UNCHANGED <<tables, stored, existing, fresh, session, epoch>>

\* handles.mint: nextval of the sequence (bound: MaxHandle; too small a bound
\* shows as a deadlock, since a request would hang here).
MintHandle(r) ==
  /\ pc[r] = "mint"
  /\ minted < MaxHandle
  /\ minted' = minted + 1
  /\ fresh' = [fresh EXCEPT ![r] = minted + 1]
  /\ Goto(r, "insert")
  /\ UNCHANGED <<item, content, history, auth, locked, lockEvents, sessions,
                 req, stored, existing, session, epoch>>

\* createSeedItem inserts a base row only.
InsertSeed(r) ==
  /\ pc[r] = "insert" /\ req[r].op = "seed"
  /\ item' = [item EXCEPT ![fresh[r]] = NewRow("seed", NoHandle, 0)]
  /\ Goto(r, "sidecars")
  /\ UNCHANGED <<content, history, auth, locked, lockEvents, minted, sessions,
                 req, stored, existing, fresh, session, epoch>>

\* (seeded bug) the number of the version it was made from
NextVersionNumber_Same(r) == stored[r].ver
NextVersionNumber(r) == stored[r].ver + 1

\* createCompleteItem: base, satellite and history entry 0 in one transaction.
InsertComplete(r) ==
  LET h == fresh[r]
      ofVersion == req[r].op = "version"
      c == IF ofVersion THEN stored[r].content ELSE req[r].content
  IN
  /\ pc[r] = "insert" /\ req[r].op # "seed"
  /\ item' = [item EXCEPT ![h] =
                IF ofVersion
                THEN NewRow("complete", req[r].id, NextVersionNumber(r))
                ELSE NewRow("complete", NoHandle, IF Versioning THEN 1 ELSE 0)]
  /\ content' = [content EXCEPT ![h] = c]
  /\ history' = [history EXCEPT ![h] = [i \in {0} |-> c]]
  /\ Goto(r, "refreshRead")
  /\ UNCHANGED <<auth, locked, lockEvents, minted, sessions, req, stored,
                 existing, fresh, session, epoch>>

\* The item a request has written: the one it minted, or the one it targets.
Written(r) == IF fresh[r] # NoHandle THEN fresh[r] ELSE req[r].id

\* refreshSearchText, first await: read the item back (none: nothing to do).
RefreshRead(r) ==
  LET h == Written(r) IN
  /\ pc[r] = "refreshRead"
  /\ IF Exists(h)
     THEN /\ existing' = [existing EXCEPT ![r] = Snapshot(h)]
          /\ Goto(r, "refreshWrite")
     ELSE Goto(r, "failed") /\ UNCHANGED existing
  /\ UNCHANGED <<tables, req, stored, fresh, session, epoch>>

\* (seeded bug) versions get no sidecars
AfterRefresh_NoSidecars(r) ==
  IF req[r].op = "version" THEN "linkNext"
  ELSE IF fresh[r] # NoHandle THEN "sidecars" ELSE "done"
\* (seeded bug) a promoted seed gets no create activity
AfterRefresh_NoActivity(r) ==
  IF fresh[r] # NoHandle THEN "sidecars" ELSE "done"

\* (seeded bug) every update of a versioned subtype spawns a create activity
AfterRefresh_AlwaysActivity(r) ==
  IF fresh[r] # NoHandle THEN "sidecars"
  ELSE IF req[r].op # "revert" /\ Versioning THEN "submit" ELSE "done"

\* What the handler does once its write is indexed; wasSeed is what its first
\* fetch saw.
AfterRefresh(r) ==
  LET wasSeed == stored[r].kind = "seed"
  IN  IF fresh[r] # NoHandle THEN "sidecars"
      ELSE IF req[r].op # "revert" /\ wasSeed /\ Versioning THEN "submit"
      ELSE "done"

\* (seeded bug) the document of the item as the handler first fetched it
SearchDocument_First(r) == stored[r].content
SearchDocument(r) == existing[r].content

\* Second await: store the search document built from what was read.  The
\* handler then reads the item back once more, and fails if it is gone.
RefreshWrite(r) ==
  LET h == Written(r) IN
  /\ pc[r] = "refreshWrite"
  /\ IF Exists(h)
     THEN /\ item' = [item EXCEPT ![h].search = SearchDocument(r)]
          /\ Goto(r, AfterRefresh(r))
     ELSE Goto(r, "failed") /\ UNCHANGED item
  /\ UNCHANGED <<content, history, auth, locked, lockEvents, minted, sessions,
                 req, stored, existing, fresh, session, epoch>>

\* (seeded bug) the previous version is not told of its successor
AfterSidecars_NoNext(r) ==
  IF req[r].op \in {"version", "create"} /\ Versioning THEN "submit" ELSE "done"
AfterSidecars(r) ==
  CASE req[r].op = "version" -> "linkNext"
    [] req[r].op = "create" /\ Versioning -> "submit"
    [] OTHER -> "done"

\* ensureSidecars: auth and lock rows, kept if present; the foreign key makes
\* it fail when the item is gone.
EnsureSidecars(r) ==
  /\ pc[r] = "sidecars"
  /\ IF Exists(fresh[r])
     THEN /\ auth' = auth \cup {fresh[r]}
          /\ Goto(r, AfterSidecars(r))
     ELSE Goto(r, "failed") /\ UNCHANGED auth
  /\ UNCHANGED <<item, content, history, locked, lockEvents, minted, sessions,
                 req, stored, existing, fresh, session, epoch>>

\* setVersioningNextVersion: an unconditional UPDATE of the previous version.
LinkNext(r) ==
  LET h == req[r].id IN
  /\ pc[r] = "linkNext"
  /\ item' = IF Exists(h) THEN [item EXCEPT ![h].next = fresh[r]] ELSE item
  /\ Goto(r, "submit")
  /\ UNCHANGED <<content, history, auth, locked, lockEvents, minted, sessions,
                 req, stored, existing, fresh, session, epoch>>

\* submitJob of the activity that records the registration.
SubmitActivity(r) ==
  /\ pc[r] = "submit"
  /\ sessions' = Append(sessions,
       [job |-> IF req[r].op = "version" THEN "REGISTER_VERSION_ACTIVITY"
                ELSE "REGISTER_CREATE_ACTIVITY",
        item |-> Written(r)])
  /\ session' = [session EXCEPT ![r] = Len(sessions) + 1]
  /\ Goto(r, "linkSession")
  /\ UNCHANGED <<item, content, history, auth, locked, lockEvents, minted,
                 req, stored, existing, fresh, epoch>>

\* setWorkflowLinks: an UPDATE that touches no row if the item is gone.
LinkSession(r) ==
  LET h == Written(r) IN
  /\ pc[r] = "linkSession"
  /\ item' = IF ~Exists(h) THEN item
             ELSE IF req[r].op = "version"
             THEN [item EXCEPT ![h].versionLink = session[r]]
             ELSE [item EXCEPT ![h].createLink = session[r]]
  /\ Goto(r, "done")
  /\ UNCHANGED <<content, history, auth, locked, lockEvents, minted, sessions,
                 req, stored, existing, fresh, session, epoch>>

-----------------------------------------------------------------------------
(* Locks and deletion.                                                     *)

\* lockItem / unlockItem up to the isLocked check.
BeginLock(r) ==
  \E h \in Handle, op \in {"lock", "unlock"} \cap Ops :
    /\ pc[r] = "idle"
    /\ Exists(h)
    /\ IF op = "lock" THEN ~locked[h] ELSE locked[h]
    /\ req' = [req EXCEPT ![r] = Asks(op, h, NoContent, 0, TRUE)]
    /\ Goto(r, "setLocked")
    /\ UNCHANGED <<tables, stored, existing, fresh, session, epoch>>

\* (seeded bug) every lock event says LOCK
LockEvent_Constant(r) == IF req[r].op = "lock" THEN "LOCK" ELSE "LOCK"
LockEvent(r) == IF req[r].op = "lock" THEN "LOCK" ELSE "UNLOCK"

\* setLocked: the flag and its event in one transaction.
SetLocked(r) ==
  LET h == req[r].id IN
  /\ pc[r] = "setLocked"
  /\ IF Exists(h)
     THEN /\ locked' = [locked EXCEPT ![h] = (req[r].op = "lock")]
          /\ lockEvents' = [lockEvents EXCEPT ![h] = Append(@, LockEvent(r))]
          /\ Goto(r, "done")
     ELSE Goto(r, "aborted") /\ UNCHANGED <<locked, lockEvents>>
  /\ UNCHANGED <<item, content, history, auth, minted, sessions, req, stored,
                 existing, fresh, session, epoch>>

\* deleteItem: one DELETE; every table that refers to the item cascades.
Delete(r) ==
  \E h \in Handle :
    /\ pc[r] = "idle"
    /\ "delete" \in Ops
    /\ Exists(h)
    /\ req' = [req EXCEPT ![r] = Asks("delete", h, NoContent, 0, FALSE)]
    /\ item' = [item EXCEPT ![h] = NoRow]
    /\ content' = [content EXCEPT ![h] = NoContent]
    /\ history' = [history EXCEPT ![h] = NoHistory]
    /\ auth' = auth \ {h}
    /\ locked' = [locked EXCEPT ![h] = FALSE]
    /\ lockEvents' = [lockEvents EXCEPT ![h] = <<>>]
    /\ Goto(r, "done")
    /\ UNCHANGED <<minted, sessions, stored, existing, fresh, session, epoch>>

-----------------------------------------------------------------------------
\* A statement fails or the API process dies: the handler goes no further and
\* nothing it has written is undone.
Fail(r) ==
  /\ pc[r] \in InFlight
  /\ Goto(r, "failed")
  /\ UNCHANGED <<tables, req, stored, existing, fresh, session, epoch>>

\* Every request a client sent has been answered.
Finished ==
  /\ \A r \in Request : pc[r] \in Ended \cup {"idle"}
  /\ UNCHANGED vars

Step(r) ==
  \/ BeginUpdate(r) \/ BeginRevert(r) \/ BeginVersion(r)
  \/ Authorise(r) \/ RepoFetch(r) \/ Commit(r)
  \/ BeginRegister(r) \/ MintHandle(r)
  \/ InsertSeed(r) \/ InsertComplete(r)
  \/ RefreshRead(r) \/ RefreshWrite(r) \/ EnsureSidecars(r)
  \/ LinkNext(r) \/ SubmitActivity(r) \/ LinkSession(r)
  \/ BeginLock(r) \/ SetLocked(r) \/ Delete(r) \/ Fail(r)

Next == (\E r \in Request : Step(r)) \/ Finished

Spec == Init /\ [][Next]_vars

-----------------------------------------------------------------------------
(* Properties.                                                             *)

\* Every table and every local holds values of its type, and the handles in
\* use were minted.
TypeOK ==
  /\ item \in [Handle -> ItemRow]
  /\ content \in [Handle -> ContentOrNone]
  /\ DOMAIN history = Handle
  /\ \A h \in Handle :
       /\ DOMAIN history[h] \subseteq Nat
       /\ history[h] \in [DOMAIN history[h] -> Content]
  /\ auth \subseteq Handle
  /\ locked \in [Handle -> BOOLEAN]
  /\ lockEvents \in [Handle -> Seq({"LOCK", "UNLOCK"})]
  /\ minted \in 0..MaxHandle
  /\ sessions \in Seq(SessionRecord)
  /\ pc \in [Request -> {"idle"} \cup InFlight \cup Ended]
  /\ req \in [Request -> ReqRecord]
  /\ stored \in [Request -> SnapshotRecord]
  /\ existing \in [Request -> SnapshotRecord]
  /\ fresh \in [Request -> HandleOrNone]
  /\ session \in [Request -> Nat]
  /\ epoch \in [Request -> Nat]

\* The history ids of an item are 0, 1, 2, ... without a gap, however updates
\* and reverts that computed their next id from a stale read interleave
\* (repos/items.ts updateItem).
HistoryContiguous ==
  \A h \in Handle : \A i \in DOMAIN history[h] :
    0..i \subseteq DOMAIN history[h]

\* No lost update: while nobody uses exclude_history_update, the domain info
\* an item shows is its newest history entry, and a seed has neither.
ContentIsNewestEntry ==
  "silentUpdate" \notin Ops =>
    \A h \in Handle :
      IF item[h].kind = "complete"
      THEN /\ DOMAIN history[h] # {}
           /\ content[h] = history[h][Max(DOMAIN history[h])]
      ELSE content[h] = NoContent /\ DOMAIN history[h] = {}

\* A history entry, once written, stays as it is for as long as its item does.
HistoryAppendOnly ==
  [][\A h \in Handle : Exists(h) /\ Exists(h)' =>
       \A i \in DOMAIN history[h] :
         i \in DOMAIN history'[h] /\ history'[h][i] = history[h][i]]_vars

\* The item's next_version, when that item still exists, names an item that
\* gives this one as its previous version; versions are numbered one by one
\* from the item they were made from, and a chain never runs in a circle.
VersionLineage ==
  \A h, k \in Handle : Exists(h) /\ Exists(k) =>
    /\ item[h].next = k => item[k].prev = h
    /\ item[k].prev = h => /\ item[k].ver = VersionNumber(h) + 1
                           /\ h < k

\* No request that wrote to h stopped midway or is still running.
Settled(h) ==
  \A r \in Request : Written(r) = h => pc[r] \in Ended \ {"failed"}

\* Once a version request is through, the item it versioned is closed: it has
\* a next version, so that no later request can version it again.
VersionedItemIsClosed ==
  \A h, k \in Handle :
    /\ Exists(h) /\ Exists(k)
    /\ item[k].prev = h
    /\ Settled(k)
    => item[h].next # NoHandle

\* An item whose registration ran to its end has access settings: without them
\* every access check by anyone but an administrator is an internal error.
RegisteredItemIsConfigured ==
  \A h \in Handle : Exists(h) /\ Settled(h) => h \in auth

\* A complete item of a versioned subtype whose writers all ran to their end
\* is linked to a session of its own create or version activity.
ActivityIsLinked ==
  Versioning =>
    \A h \in Handle : item[h].kind = "complete" /\ Settled(h) =>
      \/ /\ item[h].createLink \in DOMAIN sessions
         /\ sessions[item[h].createLink] =
              [job |-> "REGISTER_CREATE_ACTIVITY", item |-> h]
      \/ /\ item[h].versionLink \in DOMAIN sessions
         /\ sessions[item[h].versionLink] =
              [job |-> "REGISTER_VERSION_ACTIVITY", item |-> h]

\* What requests that ran to their end leave is complete: the version closes
\* the item it was made from, the item has access settings and its activity.
SettledItemIsComplete ==
  /\ VersionedItemIsClosed
  /\ RegisteredItemIsConfigured
  /\ ActivityIsLinked

\* An item has one create activity, or, when updates of a seed overlap, at most
\* as many as there are requests that found it a seed: nobody who came after
\* the promotion spawns another.
CreateActivitiesOnlyForSeeds ==
  \A h \in Handle :
    LET spawned == {i \in DOMAIN sessions :
                      sessions[i] = [job |-> "REGISTER_CREATE_ACTIVITY", item |-> h]}
        sawSeed == {r \in Request : req[r].id = h /\ stored[r].kind = "seed"}
    IN  Cardinality(spawned) <= Max({1, Cardinality(sawSeed)})

\* The requests that changed the domain info of h and were answered.
Writers(h) ==
  {r \in Request : /\ pc[r] = "done" /\ Written(r) = h
                   /\ req[r].op \in {"create", "version", "update",
                                     "silentUpdate", "revert"}}

\* The search document is the one of the current domain info, unless several
\* writers' refreshes may have overtaken each other.
SearchTextIsFresh ==
  \A h \in Handle :
    /\ item[h].kind = "complete" /\ Settled(h) /\ Cardinality(Writers(h)) <= 1
    => item[h].search = content[h]

\* The lock flag is what the newest lock event says.
LockTrail ==
  \A h \in Handle :
    locked[h] <=> /\ lockEvents[h] # <<>>
                  /\ lockEvents[h][Len(lockEvents[h])] = "LOCK"

\* What an item shows is what its trails say: the history for the domain info,
\* the lock events for the lock flag, and the history has no gap.
TrailsAgree ==
  /\ HistoryContiguous
  /\ ContentIsNewestEntry
  /\ LockTrail

\* The domain info of a locked item changes only through a request that passed
\* its lock check before the item was locked: whoever checks later is refused.
LockedWriteOverlappedTheLock ==
  [][\A h \in Handle :
       /\ Exists(h) /\ Exists(h)' /\ locked[h]
       /\ content'[h] # content[h] \/ history'[h] # history[h]
       => \E r \in Request : /\ pc[r] = "commit" /\ pc'[r] # "commit"
                             /\ req[r].id = h
                             /\ epoch[r] < Len(lockEvents[h])]_vars

\* A complete item is updated without a reason only by a request that fetched
\* it as a seed, and that another request overtook which did the same.
UnreasonedUpdateWasOvertaken ==
  [][\A r \in Request :
       /\ pc[r] = "commit" /\ pc'[r] = "refreshRead"
       /\ item[req[r].id].kind = "complete" /\ ~req[r].reasoned
       => /\ stored[r].kind = "seed"
          /\ \E q \in Request \ {r} :
               /\ req[q].id = req[r].id
               /\ stored[q].kind = "seed"
               /\ pc[q] \notin {"idle", "authorise", "repoFetch",
                                "commit", "refused", "aborted"}]_vars

-----------------------------------------------------------------------------
(* What the repository says of these handlers, and concurrent requests     *)
(* break.                                                                  *)

\* registryService.ts:484, "Only the latest version can be revised": no item
\* has two versions made from it.
OnlyLatestIsRevised ==
  \A h, k \in Handle :
    Exists(h) /\ Exists(k) /\ item[h].prev = item[k].prev
      => h = k \/ item[h].prev = NoHandle

\* registryService.ts:357, "Must provide a reason when updating an existing
\* complete item".
CompleteItemUpdatedWithReason ==
  [][\A r \in Request :
       /\ pc[r] = "commit" /\ pc'[r] = "refreshRead"
       /\ item[req[r].id].kind = "complete"
       => req[r].reasoned]_vars

\* registryService.ts:386, the step from seed to complete spawns the Create
\* activity: no item has two of them.
OneCreateActivity ==
  \A i, j \in DOMAIN sessions :
    /\ sessions[i].job = "REGISTER_CREATE_ACTIVITY"
    /\ sessions[j] = sessions[i]
    => i = j

\* api.itest.ts:290, "locks block writes".
LocksBlockWrites ==
  [][\A h \in Handle : Exists(h) /\ Exists(h)' /\ locked[h]
       => content'[h] = content[h]]_vars
=============================================================================
