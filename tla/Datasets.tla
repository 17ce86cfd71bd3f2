------------------------------ MODULE Datasets ------------------------------
(***************************************************************************)
(* The data store over the registry: minting, editing, versioning and      *)
(* reviewing datasets, their storage locations, metadata files and write   *)
(* credentials (apps/api/src/services/datasetService.ts).                  *)
(*                                                                         *)
(* The handlers check a dataset as they fetched it and later write its     *)
(* whole domain info back, release state and storage location included.    *)
(* As in Registry, every request is a process with one step per await that *)
(* reads or writes something this module keeps.                            *)
(*                                                                         *)
(* Abstractions.  The collection format is a member of Meta; role checks   *)
(* and other refusals that leave no trace are free choices.  Repository    *)
(* updateItem is its second fetch and its transaction.  History ids are    *)
(* positions in a sequence, as Registry shows them to be without gaps.     *)
(* Left out: search documents, activities and emails, and the deletion of  *)
(* datasets.  There are no seed datasets (no route seeds them).            *)
(***************************************************************************)
EXTENDS Integers, Sequences, FiniteSets, FiniteSetsExt

CONSTANTS
  Request,      \* requests in flight; each performs one operation
  Handle,       \* the numbers datasets may draw from the handle sequence,
                \* which they share with everything else that is registered
  Meta,         \* the collection formats clients submit
  NoMeta,       \* "no metadata file"
  Person,       \* persons that can be reviewers
  NoPerson,     \* release_approver is null
  Ops           \* the operations clients use

AllOps == {"mint", "update", "revert", "version", "request", "decide",
           "grant", "lock", "review"}

ASSUME HandleAssumption == Handle \subseteq Nat \ {0} /\ Handle # {}
ASSUME MetaAssumption == NoMeta \notin Meta
ASSUME PersonAssumption == NoPerson \notin Person
ASSUME OpsAssumption == Ops \subseteq AllOps

VARIABLES
  info,         \* per handle: the domain info of the dataset
  next,         \* per handle: the dataset's next version
  history,      \* per handle: the domain infos its updates recorded
  locked,       \* the lock flags
  reviewers,    \* the dataset_reviewer table
  dropped,      \* history variable: persons that were removed from it
  file,         \* per location: the metadata file there
  grants,       \* the locations someone holds write credentials for
  drawn,        \* handles drawn from the sequence
  pc,           \* per request: the await it performs next
  req,          \* per request: what the client asked for
  seen,         \* per request: the dataset as it fetched it
  out,          \* per request: the domain info it is going to write
  base,         \* per request: length of the history the repository fetched
  fresh         \* per request: the handle it drew

store == <<info, next, history, locked, reviewers, dropped, file, grants, drawn>>
locals == <<pc, req, seen, out, base, fresh>>
vars == <<store, locals>>

-----------------------------------------------------------------------------
NoHandle == 0
HandleOrNone == Handle \cup {NoHandle}
PersonOrNone == Person \cup {NoPerson}

\* An entry of release_history.  meta is a history variable: the collection
\* format the person asking or deciding had in front of them.
Entry == [act : {"REQUEST", "APPROVE", "REJECT"}, by : Person, meta : Meta]

Info == [meta : Meta, path : Handle, approver : PersonOrNone, trail : Seq(Entry),
         status : {"NOT_RELEASED", "PENDING", "RELEASED"}]
NoInfo == [meta |-> NoMeta, path |-> NoHandle, approver |-> NoPerson,
           trail |-> <<>>, status |-> "ABSENT"]
InfoOrNone == Info \cup {NoInfo}

\* buildDatasetDomainInfo without a previous domain info.
NewInfo(m, h) == [meta |-> m, path |-> h, approver |-> NoPerson,
                  trail |-> <<>>, status |-> "NOT_RELEASED"]

Exists(h) == info[h] # NoInfo

ReqRecord == [op : AllOps \cup {"none"}, id : HandleOrNone,
              meta : Meta \cup {NoMeta}, entry : Nat, by : PersonOrNone,
              approve : BOOLEAN]
Asks(op, h) == [op |-> op, id |-> h, meta |-> NoMeta, entry |-> 0,
                by |-> NoPerson, approve |-> FALSE]

InFlight == {"lockCheck", "approver", "fetch", "draw", "construct", "insert",
             "link", "refetch", "repoFetch", "commit", "file", "broker"}
Ended == {"done", "refused", "failed"}

Goto(r, label) == pc' = [pc EXCEPT ![r] = label]

Init ==
  LET h == Min(Handle) IN
  /\ \E m \in Meta :
       /\ info = [k \in Handle |-> IF k = h THEN NewInfo(m, h) ELSE NoInfo]
       /\ history = [k \in Handle |-> IF k = h THEN <<NewInfo(m, h)>> ELSE <<>>]
       /\ file = [k \in Handle |-> IF k = h THEN m ELSE NoMeta]
  /\ next = [k \in Handle |-> NoHandle]
  /\ locked = [k \in Handle |-> FALSE]
  /\ reviewers \in SUBSET Person
  /\ dropped = {}
  /\ grants = {}
  /\ drawn = {h}
  /\ pc = [r \in Request |-> "idle"]
  /\ req = [r \in Request |-> Asks("none", NoHandle)]
  /\ seen = [r \in Request |-> NoInfo]
  /\ out = [r \in Request |-> NoInfo]
  /\ base = [r \in Request |-> 0]
  /\ fresh = [r \in Request |-> NoHandle]

-----------------------------------------------------------------------------
(* Fetching and checking.                                                  *)

Fetch(r, request, label) ==
  /\ pc[r] = "idle"
  /\ request.op \in Ops
  /\ Exists(request.id)
  /\ req' = [req EXCEPT ![r] = request]
  /\ seen' = [seen EXCEPT ![r] = info[request.id]]
  /\ Goto(r, label)
  /\ UNCHANGED <<store, out, base, fresh>>

\* updateDatasetMetadata, revertDatasetMetadata, versionDataset (registry
\* versionItem) and generateCredentials with write.
BeginUpdate(r) ==
  \E h \in Handle, m \in Meta :
    Fetch(r, [Asks("update", h) EXCEPT !.meta = m], "lockCheck")

BeginRevert(r) ==
  \E h \in Handle : \E i \in DOMAIN history[h] :
    Fetch(r, [Asks("revert", h) EXCEPT !.entry = i], "lockCheck")

BeginVersion(r) ==
  \E h \in Handle :
    next[h] = NoHandle /\ Fetch(r, Asks("version", h), "lockCheck")

BeginGrant(r) == \E h \in Handle : Fetch(r, Asks("grant", h), "lockCheck")

\* (seeded bug) a dataset may be edited until it is released
Editable_UntilReleased(i) == i.status # "RELEASED"
\* releaseEditableCheck, and the same test in requestDatasetReview.
Editable(i) == i.status \notin {"PENDING", "RELEASED"}

\* (seeded bug) a revert restores the release history of its entry
Reverted_Trail(r) ==
  LET target == history[req[r].id][req[r].entry]
  IN  [seen[r] EXCEPT !.meta = target.meta, !.trail = target.trail]
\* Reverted domain info keeps the location and the release state fetched.
Reverted(r) == [seen[r] EXCEPT !.meta = history[req[r].id][req[r].entry].meta]

\* Role checks, checkNotLocked and, except for versions, the release check.
CheckLock(r) ==
  LET op == req[r].op
      may == ~locked[req[r].id] /\ (op # "version" => Editable(seen[r]))
  IN
  /\ pc[r] = "lockCheck"
  /\ \/ Goto(r, "refused") /\ UNCHANGED out
     \/ /\ may /\ op = "update"
        /\ out' = [out EXCEPT ![r] = [seen[r] EXCEPT !.meta = req[r].meta]]
        /\ Goto(r, "repoFetch")
     \/ /\ may /\ op = "revert"
        /\ out' = [out EXCEPT ![r] = Reverted(r)]
        /\ Goto(r, "repoFetch")
     \/ may /\ op = "version" /\ Goto(r, "draw") /\ UNCHANGED out
     \/ may /\ op = "grant" /\ Goto(r, "broker") /\ UNCHANGED out
  /\ UNCHANGED <<store, req, seen, base, fresh>>

\* requestDatasetReview up to its status check.
BeginRequest(r) ==
  \E h \in Handle, p \in Person :
    /\ Editable(info[h])
    /\ Fetch(r, [Asks("request", h) EXCEPT !.by = p], "approver")

\* (seeded bug) anybody can be named as the approver
IsReviewer_Anybody(p) == p \in Person
IsReviewer(p) == p \in reviewers

\* Domain info i with one more entry in its release history.
WithEntry(i, p, act, status) ==
  [i EXCEPT !.status = status, !.approver = p,
     !.trail = Append(@, [act |-> act, by |-> p, meta |-> i.meta])]

CheckApprover(r) ==
  /\ pc[r] = "approver"
  /\ \/ Goto(r, "refused") /\ UNCHANGED out
     \/ /\ IsReviewer(req[r].by)
        /\ out' = [out EXCEPT ![r] =
                     WithEntry(seen[r], req[r].by, "REQUEST", "PENDING")]
        /\ Goto(r, "repoFetch")
  /\ UNCHANGED <<store, req, seen, base, fresh>>

\* actionDatasetReview up to its reviewer check.
BeginDecision(r) ==
  \E h \in Handle, p \in Person, approve \in BOOLEAN :
    /\ pc[r] = "idle"
    /\ "decide" \in Ops
    /\ IsReviewer(p)
    /\ req' = [req EXCEPT ![r] =
                 [Asks("decide", h) EXCEPT !.by = p, !.approve = approve]]
    /\ Goto(r, "fetch")
    /\ UNCHANGED <<store, seen, out, base, fresh>>

\* Only a pending dataset, and only its designated approver.
MayDecide(i, p) == i.status = "PENDING" /\ i.approver = p

Decided(i, p, approve) ==
  IF approve THEN WithEntry(i, p, "APPROVE", "RELEASED")
             ELSE WithEntry(i, p, "REJECT", "NOT_RELEASED")

FetchForDecision(r) ==
  LET i == info[req[r].id] IN
  /\ pc[r] = "fetch"
  /\ seen' = [seen EXCEPT ![r] = i]
  /\ \/ Goto(r, "refused") /\ UNCHANGED out
     \/ /\ MayDecide(i, req[r].by)
        /\ out' = [out EXCEPT ![r] = Decided(i, req[r].by, req[r].approve)]
        /\ Goto(r, "repoFetch")
  /\ UNCHANGED <<store, req, base, fresh>>

-----------------------------------------------------------------------------
(* Minting and versioning.                                                 *)

BeginMint(r) ==
  \E m \in Meta :
    /\ pc[r] = "idle"
    /\ "mint" \in Ops
    /\ req' = [req EXCEPT ![r] = [Asks("mint", NoHandle) EXCEPT !.meta = m]]
    /\ Goto(r, "draw")
    /\ UNCHANGED <<store, seen, out, base, fresh>>

\* mintHandle: a later number than any drawn before.
Draw(r) ==
  /\ pc[r] = "draw"
  /\ \E h \in Handle :
       /\ \A k \in drawn : k < h
       /\ drawn' = drawn \cup {h}
       /\ fresh' = [fresh EXCEPT ![r] = h]
  /\ Goto(r, IF req[r].op = "mint" THEN "construct" ELSE "insert")
  /\ UNCHANGED <<info, next, history, locked, reviewers, dropped, file, grants,
                 req, seen, out, base>>

\* In decimal, k begins with h.
StartsWith(k, h) == \E n \in 0..2 : k \div (10 ^ n) = h

\* storage.pathExists lists by the location without its final slash, and so
\* finds the locations whose handle merely begins with h, too.
PathExists(h) == \E k \in Handle : file[k] # NoMeta /\ StartsWith(k, h)

\* (seeded bug) a version keeps the location it was copied with
Location_Kept(r) == IF req[r].op = "version" THEN seen[r].path ELSE fresh[r]
Location(r) == fresh[r]

\* constructS3Path, and the domain info with the location it constructs.
Construct(r) ==
  /\ pc[r] = "construct"
  /\ IF PathExists(fresh[r])
     THEN Goto(r, "failed") /\ UNCHANGED out
     ELSE /\ out' = [out EXCEPT ![r] =
                       IF req[r].op = "mint"
                       THEN NewInfo(req[r].meta, Location(r))
                       ELSE [seen[r] EXCEPT !.path = Location(r)]]
          /\ Goto(r, IF req[r].op = "mint" THEN "insert" ELSE "repoFetch")
  /\ UNCHANGED <<store, req, seen, base, fresh>>

\* createCompleteItem: a minted dataset, or a copy of the one to version.
Insert(r) ==
  LET i == IF req[r].op = "mint" THEN out[r] ELSE seen[r] IN
  /\ pc[r] = "insert"
  /\ info' = [info EXCEPT ![fresh[r]] = i]
  /\ history' = [history EXCEPT ![fresh[r]] = <<i>>]
  /\ Goto(r, IF req[r].op = "mint" THEN "file" ELSE "link")
  /\ UNCHANGED <<next, locked, reviewers, dropped, file, grants, drawn,
                 req, seen, out, base, fresh>>

\* setVersioningNextVersion.
Link(r) ==
  /\ pc[r] = "link"
  /\ next' = [next EXCEPT ![req[r].id] = fresh[r]]
  /\ Goto(r, "refetch")
  /\ UNCHANGED <<info, history, locked, reviewers, dropped, file, grants, drawn,
                 req, seen, out, base, fresh>>

\* versionDataset fetches the new version to give it a location of its own.
Refetch(r) ==
  /\ pc[r] = "refetch"
  /\ seen' = [seen EXCEPT ![r] = info[fresh[r]]]
  /\ Goto(r, "construct")
  /\ UNCHANGED <<store, req, out, base, fresh>>

-----------------------------------------------------------------------------
(* Writing.                                                                *)

\* The dataset a request writes to.
Target(r) == IF fresh[r] # NoHandle THEN fresh[r] ELSE req[r].id

RepoFetch(r) ==
  /\ pc[r] = "repoFetch"
  /\ base' = [base EXCEPT ![r] = Len(history[Target(r)])]
  /\ Goto(r, "commit")
  /\ UNCHANGED <<store, req, seen, out, fresh>>

\* Review requests and decisions exclude the history update.
Audited(r) == req[r].op \in {"update", "revert", "version"}

\* The transaction of repository updateItem; the next history id may be taken.
Commit(r) ==
  LET h == Target(r) IN
  /\ pc[r] = "commit"
  /\ IF Audited(r) /\ Len(history[h]) # base[r]
     THEN Goto(r, "failed") /\ UNCHANGED <<info, history>>
     ELSE /\ info' = [info EXCEPT ![h] = out[r]]
          /\ history' = IF Audited(r)
                        THEN [history EXCEPT ![h] = Append(@, out[r])]
                        ELSE history
          /\ Goto(r, IF Audited(r) THEN "file" ELSE "done")
  /\ UNCHANGED <<next, locked, reviewers, dropped, file, grants, drawn,
                 req, seen, out, base, fresh>>

\* (seeded bug) the file is written with what the request had fetched
FileContent_Fetched(r) == IF req[r].op = "update" THEN seen[r].meta ELSE out[r].meta
FileContent(r) == out[r].meta

\* writeMetadataFile.
WriteFile(r) ==
  /\ pc[r] = "file"
  /\ file' = [file EXCEPT ![out[r].path] = FileContent(r)]
  /\ Goto(r, "done")
  /\ UNCHANGED <<info, next, history, locked, reviewers, dropped, grants, drawn,
                 req, seen, out, base, fresh>>

\* storage.brokerDatasetCredentials for the location fetched.
Broker(r) ==
  /\ pc[r] = "broker"
  /\ grants' = grants \cup {seen[r].path}
  /\ Goto(r, "done")
  /\ UNCHANGED <<info, next, history, locked, reviewers, dropped, file, drawn,
                 req, seen, out, base, fresh>>

-----------------------------------------------------------------------------
(* What happens around the requests.                                       *)

\* lockItem, unlockItem.
SetLocked(h) ==
  /\ "lock" \in Ops
  /\ Exists(h)
  /\ locked' = [locked EXCEPT ![h] = ~@]
  /\ UNCHANGED <<info, next, history, reviewers, dropped, file, grants, drawn, locals>>

\* POST /release/sys-reviewers/add and DELETE /release/sys-reviewers/delete.
AddReviewer(p) ==
  /\ "review" \in Ops
  /\ reviewers' = reviewers \cup {p}
  /\ UNCHANGED <<info, next, history, locked, dropped, file, grants, drawn, locals>>

RemoveReviewer(p) ==
  /\ "review" \in Ops
  /\ p \in reviewers
  /\ reviewers' = reviewers \ {p}
  /\ dropped' = dropped \cup {p}
  /\ UNCHANGED <<info, next, history, locked, file, grants, drawn, locals>>

\* Write credentials run out.
Expire(h) ==
  /\ h \in grants
  /\ grants' = grants \ {h}
  /\ UNCHANGED <<info, next, history, locked, reviewers, dropped, file, drawn, locals>>

\* A statement or a storage call fails, or the process stops.
Fail(r) ==
  /\ pc[r] \in InFlight
  /\ Goto(r, "failed")
  /\ UNCHANGED <<store, req, seen, out, base, fresh>>

Finished ==
  /\ \A r \in Request : pc[r] \in Ended \cup {"idle"}
  /\ UNCHANGED vars

Step(r) ==
  \/ BeginUpdate(r) \/ BeginRevert(r) \/ BeginVersion(r) \/ BeginGrant(r)
  \/ CheckLock(r) \/ BeginRequest(r) \/ CheckApprover(r)
  \/ BeginDecision(r) \/ FetchForDecision(r)
  \/ BeginMint(r) \/ Draw(r) \/ Construct(r) \/ Insert(r)
  \/ Link(r) \/ Refetch(r) \/ RepoFetch(r) \/ Commit(r)
  \/ WriteFile(r) \/ Broker(r) \/ Fail(r)

Next ==
  \/ \E r \in Request : Step(r)
  \/ \E h \in Handle : SetLocked(h) \/ Expire(h)
  \/ \E p \in Person : AddReviewer(p) \/ RemoveReviewer(p)
  \/ Finished

Spec == Init /\ [][Next]_vars

-----------------------------------------------------------------------------
(* Properties.                                                             *)

\* Every variable holds values of its type.
TypeOK ==
  /\ info \in [Handle -> InfoOrNone]
  /\ next \in [Handle -> HandleOrNone]
  /\ history \in [Handle -> Seq(Info)]
  /\ locked \in [Handle -> BOOLEAN]
  /\ reviewers \subseteq Person /\ dropped \subseteq Person
  /\ file \in [Handle -> Meta \cup {NoMeta}]
  /\ grants \subseteq Handle /\ drawn \subseteq Handle
  /\ pc \in [Request -> {"idle"} \cup InFlight \cup Ended]
  /\ req \in [Request -> ReqRecord]
  /\ seen \in [Request -> InfoOrNone]
  /\ out \in [Request -> InfoOrNone]
  /\ base \in [Request -> Nat]
  /\ fresh \in [Request -> HandleOrNone]

\* Requests and decisions take turns, each decision is made by the person the
\* request before it named, and an approval is final.
Alternates(trail) ==
  \A k \in DOMAIN trail :
    /\ trail[k].act = "REQUEST" <=> k % 2 = 1
    /\ k % 2 = 0 => trail[k].by = trail[k - 1].by
    /\ trail[k].act = "APPROVE" => k = Len(trail)

\* The status that comes with a release history.
StatusAfter(act) == CASE act = "REQUEST" -> "PENDING"
                      [] act = "APPROVE" -> "RELEASED"
                      [] act = "REJECT" -> "NOT_RELEASED"

TellsItsState(i) ==
  IF i.trail = <<>> THEN i.status = "NOT_RELEASED" /\ i.approver = NoPerson
  ELSE LET last == i.trail[Len(i.trail)]
       IN  i.status = StatusAfter(last.act) /\ i.approver = last.by

\* Whatever edits, reverts, versions, requests and decisions overtake each
\* other, the release history of a dataset is one that a proper review would
\* leave, and release status and approver are those of its last entry.
ReleaseTrail ==
  \A h \in Handle : Exists(h) =>
    Alternates(info[h].trail) /\ TellsItsState(info[h])

ShowsReviewed(i) ==
  LET n == Len(i.trail) IN
  /\ i.status = "PENDING" => i.meta = i.trail[n].meta
  /\ i.status = "RELEASED" => /\ i.meta = i.trail[n].meta
                              /\ i.meta = i.trail[n - 1].meta

\* What is released is what was reviewed: a dataset that is pending or released
\* shows the collection format that was put up for review, and that the approver
\* had in front of them, although stale edits do get through meanwhile.
ReviewedIsReleased ==
  \A h \in Handle : Exists(h) => ShowsReviewed(info[h])

\* A pending review can be decided: its approver is a reviewer, unless they
\* were removed since.
ApproverWasReviewer ==
  \A h \in Handle :
    info[h].status = "PENDING" => info[h].approver \in reviewers \cup dropped

\* A review is one: by somebody who was a reviewer, of what is then released.
ReviewWasReal ==
  /\ ReviewedIsReleased
  /\ ApproverWasReviewer

\* The requests that write to h, whether or not they are through.
Writers(h) ==
  {r \in Request : Target(r) = h /\ pc[r] # "refused"
                   /\ (req[r].op \notin {"grant", "version"} \/ fresh[r] = h)}
Settled(h) == \A r \in Writers(h) : pc[r] = "done"

\* A dataset whose only writer made it, as a new one or as a version, has a
\* storage location of its own.
OwnStorage ==
  \A h, k \in Handle :
    /\ Exists(h) /\ Exists(k) /\ h # k
    /\ \A g \in {h, k} : Settled(g) /\ Cardinality(Writers(g)) <= 1
    => info[h].path # info[k].path

\* The metadata file at a dataset's location describes the dataset, unless
\* several requests wrote the dataset or one wrote another dataset's metadata
\* there (which happens to versions that have no location of their own yet).
Intruded(h) == \E r \in Request : Target(r) # h /\ out[r].path = info[h].path
MetadataFileIsFresh ==
  \A h \in Handle :
    /\ Exists(h) /\ ~Intruded(h)
    /\ Settled(h) /\ Cardinality(Writers(h)) <= 1
    => file[info[h].path] = info[h].meta

\* A dataset that one request alone wrote has a folder of its own, and the
\* metadata file in it describes it.
FoldersMatchDatasets ==
  /\ OwnStorage
  /\ MetadataFileIsFresh

UnderReviewOrReleased(h) == info[h].status \in {"PENDING", "RELEASED"}

\* Whoever can still write to the files of a dataset that is under review or
\* released got the credentials for that location while it was editable, of
\* this dataset or of a version that did not have its own location yet.
LateWriterSawItEditable ==
  \A h \in Handle :
    UnderReviewOrReleased(h) /\ info[h].path \in grants =>
      \E r \in Request : /\ req[r].op = "grant" /\ pc[r] = "done"
                        /\ seen[r].path = info[h].path
                        /\ seen[r].status = "NOT_RELEASED"

-----------------------------------------------------------------------------
(* What the repository says of these handlers, and concurrent requests     *)
(* break.                                                                  *)

\* datasetService.ts:197, "Cannot modify dataset while a review is ongoing".
UnmodifiedUnderReview ==
  [][\A h \in Handle :
       UnderReviewOrReleased(h) => info'[h].meta = info[h].meta]_vars

\* datasetService.ts:515, only a dataset that is pending is decided on.
DecisionsOnPending ==
  [][\A r \in Request :
       /\ req[r].op = "decide" /\ pc[r] = "commit" /\ pc'[r] = "done"
       => info[req[r].id].status = "PENDING"]_vars

\* docs/api-surface.md:66, revert-metadata "preserves s3/release state".
RevertPreservesReleaseState ==
  [][\A r \in Request :
       /\ req[r].op = "revert" /\ pc[r] = "commit" /\ pc'[r] = "file"
       => \A f \in {"path", "status", "approver", "trail"} :
            info'[req[r].id][f] = info[req[r].id][f]]_vars

\* datasetService.ts:312, "New version gets its own storage location": once
\* everybody is through without a failure, no two datasets share a location.
VersionGetsItsOwnStorage ==
  (\A r \in Request : pc[r] = "done") =>
    \A h, k \in Handle :
      Exists(h) /\ Exists(k) /\ h # k => info[h].path # info[k].path

\* docs/api-surface.md:72, write credentials have "lock + release-state
\* guards": nobody can write to the files of a dataset under review.
NoWriteAccessUnderReview ==
  \A h \in Handle : UnderReviewOrReleased(h) => info[h].path \notin grants
=============================================================================
