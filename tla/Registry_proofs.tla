--------------------------- MODULE Registry_proofs ---------------------------
(* Theorems about Registry, for any set of requests, any contents and any  *)
(* bound on the handles.  Two inductive invariants carry them: Inv, about   *)
(* what the tables and the labels may hold, and on top of it Outcomes, about *)
(* what requests leave behind, whoever overlapped them or stopped midway.   *)
EXTENDS Registry, SequenceTheorems, FiniteSetTheorems, TLAPS

-----------------------------------------------------------------------------
(* The inductive invariant.                                                *)

\* Where a request is decides which operation it performs and which handles
\* and contents it holds.
Local(r) ==
  /\ pc[r] \in {"authorise", "repoFetch", "commit", "setLocked"}
       => req[r].id \in Handle
  /\ pc[r] \in {"idle", "authorise", "repoFetch", "commit", "mint", "setLocked"}
       => fresh[r] = NoHandle
  /\ pc[r] \in {"insert", "sidecars", "linkNext"} => fresh[r] \in Handle
  /\ pc[r] \in {"refreshRead", "refreshWrite", "submit", "linkSession"}
       => Written(r) \in Handle
  /\ pc[r] = "authorise"
       => req[r].op \in {"update", "silentUpdate", "revert", "version"}
  /\ pc[r] \in {"repoFetch", "commit"}
       => req[r].op \in {"update", "silentUpdate", "revert"}
  /\ pc[r] = "commit" => req[r].content \in Content
  /\ pc[r] \in {"mint", "insert"} => req[r].op \in {"seed", "create", "version"}
  /\ pc[r] = "linkNext" => req[r].op = "version"
  /\ pc[r] # "idle" => req[r].op \in Ops
  /\ req[r].op \in {"create", "update", "silentUpdate"}
       => req[r].content \in Content
  /\ req[r].op = "version" => /\ req[r].id \in Handle
                              /\ stored[r].content \in Content

\* Handles come from the sequence: nothing names one that was not minted, no
\* two requests hold the same one, and nothing names one that its request has
\* yet to insert.
Handles ==
  /\ \A h \in Handle :
       /\ Exists(h) => h <= minted
       /\ item[h].next <= minted /\ item[h].prev <= minted
  /\ \A r \in Request : req[r].id <= minted /\ fresh[r] <= minted
  /\ \A r, q \in Request : fresh[r] = fresh[q] => r = q \/ fresh[r] = NoHandle
  /\ \A r \in Request : pc[r] = "insert" =>
       /\ ~Exists(fresh[r])
       /\ \A q \in Request : req[q].id # fresh[r]
       /\ \A h \in Handle : item[h].next # fresh[r] /\ item[h].prev # fresh[r]

\* History ids are an interval from 0, and the next id a transaction under way
\* computed is at most the next free one.
HistoryIds ==
  /\ \A h \in Handle :
       /\ NextHistoryId(history[h]) \in Nat
       /\ DOMAIN history[h] = 0..(NextHistoryId(history[h]) - 1)
  /\ \A r \in Request : pc[r] = "commit" /\ Exists(req[r].id) =>
       existing[r].nextId <= NextHistoryId(history[req[r].id])

\* A version request knows the version number of the item it versions, and the
\* item it inserted points back to it.
Versions ==
  \A r \in Request : req[r].op = "version" =>
    /\ pc[r] = "insert" => req[r].id < fresh[r]
    /\ pc[r] \in {"authorise", "mint", "insert"} /\ Exists(req[r].id)
         => stored[r].ver = VersionNumber(req[r].id)
    /\ pc[r] \in {"refreshRead", "refreshWrite", "sidecars", "linkNext"}
         => /\ fresh[r] \in Handle
            /\ Exists(fresh[r]) => item[fresh[r]].prev = req[r].id

\* A request past its lock check saw the newest lock event of its time, and
\* that was not a LOCK.
LockChecks ==
  \A r \in Request : pc[r] \in {"repoFetch", "commit"} /\ Exists(req[r].id) =>
    /\ epoch[r] <= Len(lockEvents[req[r].id])
    /\ epoch[r] = 0 \/ lockEvents[req[r].id][epoch[r]] # "LOCK"

Inv ==
  /\ TypeOK
  /\ \A r \in Request : Local(r)
  /\ Handles
  /\ HistoryIds
  /\ Versions
  /\ VersionLineage
  /\ LockTrail
  /\ LockChecks

-----------------------------------------------------------------------------
(* Lemmas about the operators.                                             *)

\* The largest element of an interval from 0.
LEMMA MaxOfInterval ==
  ASSUME NEW n \in Nat, n # 0
  PROVE  Max(0..(n - 1)) = n - 1
<1>1. n - 1 \in 0..(n - 1) /\ \A y \in 0..(n - 1) : n - 1 >= y
  OBVIOUS
<1>2. \A x \in 0..(n - 1) : (\A y \in 0..(n - 1) : x >= y) => x = n - 1
  BY <1>1
<1>. QED
  BY <1>1, <1>2 DEF Max

\* The largest history id of an item with a single entry.
LEMMA MaxOfZero == Max({0}) = 0
<1>1. \A x \in {0} : (\A y \in {0} : x >= y) <=> x = 0
  OBVIOUS
<1>. QED
  BY <1>1 DEF Max

\* Over contiguous ids the next history id is the number of entries.
LEMMA NextIdOfInterval ==
  ASSUME NEW f, NEW n \in Nat, DOMAIN f = 0..(n - 1)
  PROVE  NextHistoryId(f) = n
<1>1. CASE n = 0
  BY <1>1 DEF NextHistoryId
<1>2. CASE n # 0
  BY <1>2, MaxOfInterval DEF NextHistoryId
<1>. QED
  BY <1>1, <1>2

\* Appending a lock event adds it at the end and changes no other.
LEMMA AppendFacts ==
  ASSUME NEW s \in Seq({"LOCK", "UNLOCK"}), NEW e \in {"LOCK", "UNLOCK"}
  PROVE  /\ Append(s, e) # <<>>
         /\ Len(Append(s, e)) = Len(s) + 1
         /\ Append(s, e)[Len(Append(s, e))] = e
         /\ \A i \in 1..Len(s) : Append(s, e)[i] = s[i]
BY AppendProperties

-----------------------------------------------------------------------------
(* The initial states satisfy the invariant.                               *)

\* An empty registry, and one with a single item, satisfy the invariant.
LEMMA InitInv == Init => Inv
<1> SUFFICES ASSUME Init PROVE Inv
  OBVIOUS
<1> USE ContentAssumption, MaxHandleAssumption, OpsAssumption,
        VersioningAssumption
<1>1. PICK kind \in {"absent", "seed", "complete"}, c \in Content :
        InitTables(kind, c)
  BY DEF Init
<1>2. TypeOK
  <2>1. item \in [Handle -> ItemRow]
    BY <1>1 DEF InitTables, FirstItem, NewRow, NoRow, ItemRow, Handle, NoHandle,
       HandleOrNone, ContentOrNone, NoSession
  <2>2. /\ content \in [Handle -> ContentOrNone]
        /\ auth \subseteq Handle /\ minted \in 0..MaxHandle
    BY <1>1 DEF InitTables, Handle, ContentOrNone
  <2>3. /\ DOMAIN history = Handle
        /\ \A h \in Handle : /\ DOMAIN history[h] \subseteq Nat
                             /\ history[h] \in [DOMAIN history[h] -> Content]
    BY <1>1 DEF InitTables, NoHistory
  <2>4. sessions \in Seq(SessionRecord)
    <3>1. 1 \in Handle
      BY DEF Handle
    <3>2. [job |-> "REGISTER_CREATE_ACTIVITY", item |-> 1] \in SessionRecord
      BY <3>1 DEF SessionRecord
    <3>3. sessions = <<>> \/
          sessions = <<[job |-> "REGISTER_CREATE_ACTIVITY", item |-> 1]>>
      BY <1>1 DEF InitTables
    <3> DEFINE first == [job |-> "REGISTER_CREATE_ACTIVITY", item |-> 1]
    <3>4. first \in SessionRecord
      BY <3>2
    <3> HIDE DEF first
    <3>5. <<>> \in Seq(SessionRecord) /\ <<first>> \in Seq(SessionRecord)
      BY <3>4
    <3>. QED
      BY <3>3, <3>5 DEF first
  <2>5. /\ locked \in [Handle -> BOOLEAN]
        /\ lockEvents \in [Handle -> Seq({"LOCK", "UNLOCK"})]
    BY DEF Init
  <2>6. /\ pc \in [Request -> {"idle"} \cup InFlight \cup Ended]
        /\ fresh \in [Request -> HandleOrNone]
        /\ session \in [Request -> Nat] /\ epoch \in [Request -> Nat]
    BY DEF Init, HandleOrNone, NoHandle, NoSession
  <2>7. NoReq \in ReqRecord /\ NoSnapshot \in SnapshotRecord
    BY DEF NoReq, Asks, NoSnapshot, ReqRecord, SnapshotRecord, HandleOrNone,
       NoHandle, ContentOrNone
  <2>. QED
    BY <2>1, <2>2, <2>3, <2>4, <2>5, <2>6, <2>7 DEF Init, TypeOK
<1>3. \A r \in Request : Local(r)
  BY DEF Init, Local, NoReq, Asks, NoHandle
<1>4. Handles
  BY <1>1 DEF Init, InitTables, Handles, FirstItem, NewRow, NoRow, NoReq, Asks, NoHandle,
     Handle, Exists
<1>5. HistoryIds
  <2>1. \A h \in Handle : DOMAIN history[h] = {} \/ DOMAIN history[h] = {0}
    BY <1>1 DEF InitTables, NoHistory
  <2>2. ASSUME NEW h \in Handle, DOMAIN history[h] = {}
        PROVE  NextHistoryId(history[h]) = 0
    BY <2>2 DEF NextHistoryId
  <2>3. ASSUME NEW h \in Handle, DOMAIN history[h] = {0}
        PROVE  NextHistoryId(history[h]) = 1
    <3>1. DOMAIN history[h] = 0..(1 - 1)
      BY <2>3
    <3>. QED
      BY <3>1, NextIdOfInterval
  <2>4. \A r \in Request : pc[r] # "commit"
    BY DEF Init
  <2>. QED
    <3>1. {} = 0..(0 - 1) /\ {0} = 0..(1 - 1)
      OBVIOUS
    <3>2. ASSUME NEW h \in Handle
          PROVE  /\ NextHistoryId(history[h]) \in Nat
                 /\ DOMAIN history[h] = 0..(NextHistoryId(history[h]) - 1)
      <4>1. CASE DOMAIN history[h] = {}
        BY <4>1, <2>2, <3>1
      <4>2. CASE DOMAIN history[h] = {0}
        BY <4>2, <2>3, <3>1
      <4>. QED
        BY <4>1, <4>2, <2>1
    <3>. QED
      BY <2>4, <3>2 DEF HistoryIds
<1>6. Versions /\ LockTrail /\ LockChecks
  BY DEF Init, Versions, LockTrail, LockChecks, NoReq, Asks
<1>7. VersionLineage
  BY <1>1 DEF InitTables, VersionLineage, FirstItem, NewRow, NoRow, NoHandle, Handle,
     Exists
<1>. QED
  BY <1>2, <1>3, <1>4, <1>5, <1>6, <1>7 DEF Inv

-----------------------------------------------------------------------------
(* Frame lemmas: what a step of r leaves alone.                            *)

\* A step of r touches the locals of r only.
LEMMA LocalsFrame ==
  ASSUME TypeOK, NEW r \in Request, Step(r), NEW q \in Request, q # r
  PROVE  /\ pc'[q] = pc[q] /\ req'[q] = req[q] /\ stored'[q] = stored[q]
         /\ existing'[q] = existing[q] /\ fresh'[q] = fresh[q]
         /\ epoch'[q] = epoch[q]
<1> USE DEF TypeOK, Goto, locals
<1>1. CASE BeginUpdate(r) \/ BeginRevert(r) \/ BeginVersion(r)
  BY <1>1 DEF BeginUpdate, BeginRevert, BeginVersion, Fetch
<1>2. CASE BeginRegister(r) \/ BeginLock(r) \/ Delete(r)
  <2>1. CASE BeginRegister(r)
    BY <2>1 DEF BeginRegister
  <2>2. CASE BeginLock(r)
    BY <2>2 DEF BeginLock
  <2>3. CASE Delete(r)
    BY <2>3 DEF Delete
  <2>. QED
    BY <1>2, <2>1, <2>2, <2>3
<1>3. CASE Authorise(r) \/ RepoFetch(r) \/ Commit(r) \/ MintHandle(r)
  <2>1. CASE Authorise(r)
    BY <2>1 DEF Authorise
  <2>2. CASE RepoFetch(r)
    BY <2>2 DEF RepoFetch
  <2>3. CASE Commit(r)
    BY <2>3 DEF Commit
  <2>4. CASE MintHandle(r)
    BY <2>4 DEF MintHandle
  <2>. QED
    BY <1>3, <2>1, <2>2, <2>3, <2>4
<1>4. CASE InsertSeed(r) \/ InsertComplete(r) \/ RefreshRead(r) \/ RefreshWrite(r)
  BY <1>4 DEF InsertSeed, InsertComplete, RefreshRead, RefreshWrite
<1>5. CASE EnsureSidecars(r) \/ LinkNext(r) \/ SubmitActivity(r) \/ LinkSession(r)
  BY <1>5 DEF EnsureSidecars, LinkNext, SubmitActivity, LinkSession
<1>6. CASE SetLocked(r) \/ Fail(r)
  BY <1>6 DEF SetLocked, Fail
<1>. QED
  BY <1>1, <1>2, <1>3, <1>4, <1>5, <1>6 DEF Step

\* The steps that touch the item table.
LEMMA ItemFrame ==
  ASSUME NEW r \in Request, Step(r),
         ~Commit(r), ~InsertSeed(r), ~InsertComplete(r), ~RefreshWrite(r),
         ~LinkNext(r), ~LinkSession(r), ~Delete(r)
  PROVE  item' = item
<1>1. CASE BeginUpdate(r) \/ BeginRevert(r) \/ BeginVersion(r)
  BY <1>1 DEF BeginUpdate, BeginRevert, BeginVersion, Fetch, tables
<1>2. CASE Authorise(r) \/ RepoFetch(r) \/ MintHandle(r)
  BY <1>2 DEF Authorise, RepoFetch, MintHandle, tables
<1>3. CASE BeginRegister(r) \/ BeginLock(r)
  BY <1>3 DEF BeginRegister, BeginLock, tables
<1>4. CASE RefreshRead(r) \/ EnsureSidecars(r)
  BY <1>4 DEF RefreshRead, EnsureSidecars, tables
<1>5. CASE SubmitActivity(r) \/ SetLocked(r) \/ Fail(r)
  BY <1>5 DEF SubmitActivity, SetLocked, Fail, tables
<1>. QED
  BY <1>1, <1>2, <1>3, <1>4, <1>5 DEF Step

\* The steps that touch satellites and histories.
LEMMA ContentFrame ==
  ASSUME NEW r \in Request, Step(r),
         ~Commit(r), ~InsertComplete(r), ~Delete(r)
  PROVE  <<content, history>>' = <<content, history>>
<1>1. CASE BeginUpdate(r) \/ BeginRevert(r) \/ BeginVersion(r)
  BY <1>1 DEF BeginUpdate, BeginRevert, BeginVersion, Fetch, tables
<1>2. CASE Authorise(r) \/ RepoFetch(r) \/ MintHandle(r) \/ InsertSeed(r)
  BY <1>2 DEF Authorise, RepoFetch, MintHandle, InsertSeed, tables
<1>3. CASE BeginRegister(r) \/ BeginLock(r)
  BY <1>3 DEF BeginRegister, BeginLock, tables
<1>4. CASE RefreshRead(r) \/ RefreshWrite(r) \/ EnsureSidecars(r)
  BY <1>4 DEF RefreshRead, RefreshWrite, EnsureSidecars, tables
<1>5. CASE LinkNext(r) \/ SubmitActivity(r) \/ LinkSession(r) \/ SetLocked(r) \/ Fail(r)
  BY <1>5 DEF LinkNext, SubmitActivity, LinkSession, SetLocked, Fail, tables
<1>. QED
  BY <1>1, <1>2, <1>3, <1>4, <1>5 DEF Step

\* The steps that touch the auth sidecars.
LEMMA AuthFrame ==
  ASSUME NEW r \in Request, Step(r),
         ~EnsureSidecars(r), ~Delete(r)
  PROVE  auth' = auth
<1>1. CASE BeginUpdate(r) \/ BeginRevert(r) \/ BeginVersion(r)
  BY <1>1 DEF BeginUpdate, BeginRevert, BeginVersion, Fetch, tables
<1>2. CASE Authorise(r) \/ RepoFetch(r) \/ Commit(r) \/ MintHandle(r) \/ InsertSeed(r) \/ InsertComplete(r)
  BY <1>2 DEF Authorise, RepoFetch, Commit, MintHandle, InsertSeed, InsertComplete,
     tables
<1>3. CASE BeginRegister(r) \/ BeginLock(r)
  BY <1>3 DEF BeginRegister, BeginLock, tables
<1>4. CASE RefreshRead(r) \/ RefreshWrite(r)
  BY <1>4 DEF RefreshRead, RefreshWrite, tables
<1>5. CASE LinkNext(r) \/ SubmitActivity(r) \/ LinkSession(r) \/ SetLocked(r) \/ Fail(r)
  BY <1>5 DEF LinkNext, SubmitActivity, LinkSession, SetLocked, Fail, tables
<1>. QED
  BY <1>1, <1>2, <1>3, <1>4, <1>5 DEF Step

\* The steps that touch locks.
LEMMA LockEventsFrame ==
  ASSUME NEW r \in Request, Step(r),
         ~SetLocked(r), ~Delete(r)
  PROVE  <<locked, lockEvents>>' = <<locked, lockEvents>>
<1>1. CASE BeginUpdate(r) \/ BeginRevert(r) \/ BeginVersion(r)
  BY <1>1 DEF BeginUpdate, BeginRevert, BeginVersion, Fetch, tables
<1>2. CASE Authorise(r) \/ RepoFetch(r) \/ Commit(r) \/ MintHandle(r) \/ InsertSeed(r) \/ InsertComplete(r)
  BY <1>2 DEF Authorise, RepoFetch, Commit, MintHandle, InsertSeed, InsertComplete,
     tables
<1>3. CASE BeginRegister(r) \/ BeginLock(r)
  BY <1>3 DEF BeginRegister, BeginLock, tables
<1>4. CASE RefreshRead(r) \/ RefreshWrite(r) \/ EnsureSidecars(r)
  BY <1>4 DEF RefreshRead, RefreshWrite, EnsureSidecars, tables
<1>5. CASE LinkNext(r) \/ SubmitActivity(r) \/ LinkSession(r) \/ Fail(r)
  BY <1>5 DEF LinkNext, SubmitActivity, LinkSession, Fail, tables
<1>. QED
  BY <1>1, <1>2, <1>3, <1>4, <1>5 DEF Step

\* The steps that touch the handle sequence.
LEMMA MintedFrame ==
  ASSUME NEW r \in Request, Step(r),
         ~MintHandle(r)
  PROVE  minted' = minted
<1>1. CASE BeginUpdate(r) \/ BeginRevert(r) \/ BeginVersion(r)
  BY <1>1 DEF BeginUpdate, BeginRevert, BeginVersion, Fetch, tables
<1>2. CASE Authorise(r) \/ RepoFetch(r) \/ Commit(r) \/ InsertSeed(r) \/ InsertComplete(r)
  BY <1>2 DEF Authorise, RepoFetch, Commit, InsertSeed, InsertComplete, tables
<1>3. CASE BeginRegister(r) \/ BeginLock(r) \/ Delete(r)
  BY <1>3 DEF BeginRegister, BeginLock, Delete, tables
<1>4. CASE RefreshRead(r) \/ RefreshWrite(r) \/ EnsureSidecars(r)
  BY <1>4 DEF RefreshRead, RefreshWrite, EnsureSidecars, tables
<1>5. CASE LinkNext(r) \/ SubmitActivity(r) \/ LinkSession(r) \/ SetLocked(r) \/ Fail(r)
  BY <1>5 DEF LinkNext, SubmitActivity, LinkSession, SetLocked, Fail, tables
<1>. QED
  BY <1>1, <1>2, <1>3, <1>4, <1>5 DEF Step

\* The steps that touch job sessions.
LEMMA SessionsFrame ==
  ASSUME NEW r \in Request, Step(r),
         ~SubmitActivity(r)
  PROVE  sessions' = sessions
<1>1. CASE BeginUpdate(r) \/ BeginRevert(r) \/ BeginVersion(r)
  BY <1>1 DEF BeginUpdate, BeginRevert, BeginVersion, Fetch, tables
<1>2. CASE Authorise(r) \/ RepoFetch(r) \/ Commit(r) \/ MintHandle(r) \/ InsertSeed(r) \/ InsertComplete(r)
  BY <1>2 DEF Authorise, RepoFetch, Commit, MintHandle, InsertSeed, InsertComplete,
     tables
<1>3. CASE BeginRegister(r) \/ BeginLock(r) \/ Delete(r)
  BY <1>3 DEF BeginRegister, BeginLock, Delete, tables
<1>4. CASE RefreshRead(r) \/ RefreshWrite(r) \/ EnsureSidecars(r)
  BY <1>4 DEF RefreshRead, RefreshWrite, EnsureSidecars, tables
<1>5. CASE LinkNext(r) \/ LinkSession(r) \/ SetLocked(r) \/ Fail(r)
  BY <1>5 DEF LinkNext, LinkSession, SetLocked, Fail, tables
<1>. QED
  BY <1>1, <1>2, <1>3, <1>4, <1>5 DEF Step

-----------------------------------------------------------------------------
(* Type correctness.                                                       *)

\* The row of an item that is not there is a row.
LEMMA NoRowType == NoRow \in ItemRow
BY DEF NoRow, NewRow, ItemRow, HandleOrNone, NoHandle, NoSession, ContentOrNone

\* An update of one column of one row keeps the item table well typed.
LEMMA RowUpdateType ==
  ASSUME TypeOK, NEW h \in Handle, NEW k \in HandleOrNone, NEW n \in Nat,
         NEW c \in ContentOrNone
  PROVE  /\ [item EXCEPT ![h].kind = "complete"] \in [Handle -> ItemRow]
         /\ [item EXCEPT ![h].next = k] \in [Handle -> ItemRow]
         /\ [item EXCEPT ![h].createLink = n] \in [Handle -> ItemRow]
         /\ [item EXCEPT ![h].versionLink = n] \in [Handle -> ItemRow]
         /\ [item EXCEPT ![h].search = c] \in [Handle -> ItemRow]
<1>1. item \in [Handle -> ItemRow] /\ item[h] \in ItemRow
  BY DEF TypeOK
<1>2. [item[h] EXCEPT !.kind = "complete"] \in ItemRow
  BY <1>1 DEF ItemRow
<1>3. [item[h] EXCEPT !.next = k] \in ItemRow
  BY <1>1 DEF ItemRow
<1>4. [item[h] EXCEPT !.createLink = n] \in ItemRow
  BY <1>1 DEF ItemRow
<1>5. [item[h] EXCEPT !.versionLink = n] \in ItemRow
  BY <1>1 DEF ItemRow
<1>6. [item[h] EXCEPT !.search = c] \in ItemRow
  BY <1>1 DEF ItemRow
<1>. QED
  BY <1>1, <1>2, <1>3, <1>4, <1>5, <1>6

\* There is a next history id.
NextIds == \A h \in Handle : NextHistoryId(history[h]) \in Nat

\* fetchItem returns a snapshot.
LEMMA SnapshotType ==
  ASSUME TypeOK, NextIds, NEW h \in Handle
  PROVE  Snapshot(h) \in SnapshotRecord
<1>1. item[h] \in ItemRow /\ content[h] \in ContentOrNone
  BY DEF TypeOK
<1>2. VersionNumber(h) \in Nat
  BY <1>1 DEF VersionNumber, ItemRow
<1>3. NextHistoryId(history[h]) \in Nat
  BY DEF NextIds
<1>. QED
  BY <1>1, <1>2, <1>3 DEF Snapshot, SnapshotRecord, ItemRow

\* Every step keeps the item table well typed.
LEMMA ItemType ==
  ASSUME TypeOK, NEW r \in Request, Local(r), Step(r)
  PROVE  item' \in [Handle -> ItemRow]
<1> USE DEF TypeOK
<1>0. NoContent \in ContentOrNone /\ NoHandle \in HandleOrNone /\ 0 \in Nat
  BY DEF ContentOrNone, HandleOrNone
<1>1. CASE Commit(r)
  <2>1. req[r].id \in Handle
    BY <1>1 DEF Commit, Local
  <2>2. [item EXCEPT ![req[r].id].kind = "complete"] \in [Handle -> ItemRow]
    BY <2>1, <1>0, RowUpdateType
  <2>3. item' = item \/ item' = [item EXCEPT ![req[r].id].kind = "complete"]
    BY <1>1 DEF Commit
  <2>. QED
    BY <2>2, <2>3
<1>2. CASE InsertSeed(r)
  BY <1>2 DEF InsertSeed, ItemRow, NewRow, HandleOrNone, NoHandle, NoSession,
     ContentOrNone
<1>3. CASE InsertComplete(r)
  <2>1. /\ stored[r].ver + 1 \in Nat
        /\ req[r].id \in HandleOrNone /\ fresh[r] \in HandleOrNone
    BY DEF SnapshotRecord, ReqRecord
  <2>2. /\ NewRow("complete", req[r].id, stored[r].ver + 1) \in ItemRow
        /\ NewRow("complete", NoHandle, IF Versioning THEN 1 ELSE 0) \in ItemRow
    BY <2>1 DEF NewRow, ItemRow, ReqRecord, HandleOrNone, NoHandle, NoSession,
       ContentOrNone
  <2>. QED
    BY <1>3, <2>2 DEF InsertComplete, NextVersionNumber
<1>4. CASE RefreshWrite(r)
  <2>1. existing[r].content \in ContentOrNone
    BY DEF SnapshotRecord
  <2> DEFINE h == Written(r)
             c == existing[r].content
  <2>2. h \in Handle
    BY <1>4 DEF RefreshWrite, SearchDocument, Local
  <2>3. item' = item \/ item' = [item EXCEPT ![h].search = c]
    BY <1>4 DEF RefreshWrite, SearchDocument
  <2>4. c \in ContentOrNone
    BY <2>1
  <2> HIDE DEF h, c
  <2>5. [item EXCEPT ![h].search = c] \in [Handle -> ItemRow]
    BY <1>0, <2>2, <2>4, RowUpdateType
  <2>. QED
    BY <2>3, <2>5
<1>5. CASE LinkNext(r)
  BY <1>5, RowUpdateType, NoContent \in ContentOrNone, 0 \in Nat
  DEF LinkNext, Exists, ContentOrNone
<1>6. CASE LinkSession(r)
  BY <1>6, RowUpdateType DEF LinkSession, Exists, ContentOrNone, HandleOrNone
<1>7. CASE Delete(r)
  BY <1>7, NoRowType DEF Delete
<1>. QED
  BY <1>1, <1>2, <1>3, <1>4, <1>5, <1>6, <1>7, ItemFrame

\* Every step keeps satellites and histories well typed.
LEMMA SatelliteType ==
  ASSUME TypeOK, NEW r \in Request, Local(r), Step(r)
  PROVE  /\ content' \in [Handle -> ContentOrNone]
         /\ DOMAIN history' = Handle
         /\ \A h \in Handle :
              /\ DOMAIN history'[h] \subseteq Nat
              /\ history'[h] \in [DOMAIN history'[h] -> Content]
<1> USE DEF TypeOK
<1>1. CASE Commit(r)
  <2>1. req[r].content \in Content /\ req[r].id \in Handle
    BY <1>1 DEF Commit, Local
  <2>2. existing[r].nextId \in Nat
    BY DEF SnapshotRecord
  <2>3. ASSUME NEW f, DOMAIN f \subseteq Nat, f \in [DOMAIN f -> Content]
        PROVE  LET g == AddEntry(f, existing[r].nextId, req[r].content)
               IN  DOMAIN g \subseteq Nat /\ g \in [DOMAIN g -> Content]
    BY <2>1, <2>2, <2>3 DEF AddEntry
  <2>4. content' \in [Handle -> ContentOrNone]
    BY <1>1, <2>1 DEF Commit, ContentOrNone
  <2>5. history' = history \/
        history' = [history EXCEPT ![req[r].id] =
                      AddEntry(@, existing[r].nextId, req[r].content)]
    BY <1>1 DEF Commit
  <2> DEFINE h == req[r].id
             g == AddEntry(history[h], existing[r].nextId, req[r].content)
  <2>6. DOMAIN g \subseteq Nat /\ g \in [DOMAIN g -> Content]
    BY <2>1, <2>3
  <2>7. history' = history \/ history' = [history EXCEPT ![h] = g]
    BY <2>5
  <2> HIDE DEF g
  <2>8. CASE history' = history
    BY <2>4, <2>8
  <2>9. CASE history' = [history EXCEPT ![h] = g]
    BY <2>4, <2>6, <2>9
  <2>. QED
    BY <2>7, <2>8, <2>9
<1>2. CASE InsertComplete(r)
  <2> DEFINE c == IF req[r].op = "version" THEN stored[r].content
                  ELSE req[r].content
             f == [i \in {0} |-> c]
  <2>1. c \in Content
    BY <1>2 DEF InsertComplete, Local
  <2>2. content' = [content EXCEPT ![fresh[r]] = c]
        /\ history' = [history EXCEPT ![fresh[r]] = f]
    BY <1>2 DEF InsertComplete
  <2>3. DOMAIN f \subseteq Nat /\ f \in [DOMAIN f -> Content]
    BY <2>1
  <2> HIDE DEF c, f
  <2>. QED
    BY <2>1, <2>2, <2>3 DEF ContentOrNone
<1>3. CASE Delete(r)
  BY <1>3 DEF Delete, NoHistory, ContentOrNone
<1>. QED
  BY <1>1, <1>2, <1>3, ContentFrame

\* Every step keeps the sidecars, the handle sequence and the sessions well
\* typed.
LEMMA SidecarsType ==
  ASSUME TypeOK, NEW r \in Request, Local(r), Step(r)
  PROVE  /\ auth' \subseteq Handle
         /\ locked' \in [Handle -> BOOLEAN]
         /\ lockEvents' \in [Handle -> Seq({"LOCK", "UNLOCK"})]
         /\ minted' \in 0..MaxHandle
         /\ sessions' \in Seq(SessionRecord)
<1> USE DEF TypeOK
<1>1. auth' \subseteq Handle
  <2>1. CASE EnsureSidecars(r)
    BY <2>1 DEF EnsureSidecars, Exists
  <2>2. CASE Delete(r)
    BY <2>2 DEF Delete
  <2>. QED
    BY <2>1, <2>2, AuthFrame
<1>2. /\ locked' \in [Handle -> BOOLEAN]
      /\ lockEvents' \in [Handle -> Seq({"LOCK", "UNLOCK"})]
  <2>1. CASE SetLocked(r)
    <3>1. LockEvent(r) \in {"LOCK", "UNLOCK"}
      BY DEF LockEvent
    <3>2. req[r].id \in Handle
      BY <2>1 DEF SetLocked, Local
    <3>3. Append(lockEvents[req[r].id], LockEvent(r)) \in Seq({"LOCK", "UNLOCK"})
      BY <3>1, <3>2
    <3>. QED
      BY <2>1, <3>2, <3>3 DEF SetLocked
  <2>2. CASE Delete(r)
    <3>1. <<>> \in Seq({"LOCK", "UNLOCK"})
      OBVIOUS
    <3>. QED
      BY <2>2, <3>1 DEF Delete
  <2>. QED
    BY <2>1, <2>2, LockEventsFrame
<1>3. minted' \in 0..MaxHandle
  <2>1. CASE MintHandle(r)
    BY <2>1, MaxHandleAssumption DEF MintHandle
  <2>. QED
    BY <2>1, MintedFrame
<1>4. sessions' \in Seq(SessionRecord)
  <2>1. CASE SubmitActivity(r)
    <3>1. Written(r) \in Handle
      BY <2>1 DEF SubmitActivity, Local
    <3> DEFINE new == [job |-> IF req[r].op = "version"
                               THEN "REGISTER_VERSION_ACTIVITY"
                               ELSE "REGISTER_CREATE_ACTIVITY",
                       item |-> Written(r)]
    <3>2. new \in SessionRecord
      BY <3>1 DEF SessionRecord
    <3>3. sessions' = Append(sessions, new)
      BY <2>1 DEF SubmitActivity
    <3> HIDE DEF new
    <3>. QED
      BY <3>2, <3>3
  <2>. QED
    BY <2>1, SessionsFrame
<1>. QED
  BY <1>1, <1>2, <1>3, <1>4

\* Every step keeps the labels well typed.
LEMMA PcType ==
  ASSUME TypeOK, NEW r \in Request, Step(r)
  PROVE  pc' \in [Request -> {"idle"} \cup InFlight \cup Ended]
<1> USE DEF TypeOK, Goto, InFlight, Ended
<1>1. CASE BeginUpdate(r) \/ BeginRevert(r) \/ BeginVersion(r)
  BY <1>1 DEF BeginUpdate, BeginRevert, BeginVersion, Fetch
<1>2. CASE BeginRegister(r)
  BY <1>2 DEF BeginRegister
<1>3. CASE BeginLock(r)
  BY <1>3 DEF BeginLock
<1>4. CASE Delete(r)
  BY <1>4 DEF Delete
<1>5. CASE Authorise(r)
  BY <1>5 DEF Authorise
<1>6. CASE RepoFetch(r)
  BY <1>6 DEF RepoFetch
<1>7. CASE Commit(r) \/ MintHandle(r) \/ InsertSeed(r)
  BY <1>7 DEF Commit, MintHandle, InsertSeed
<1>8. CASE InsertComplete(r) \/ RefreshRead(r)
  BY <1>8 DEF InsertComplete, RefreshRead
<1>9. CASE RefreshWrite(r)
  BY <1>9 DEF RefreshWrite, AfterRefresh
<1>10. CASE EnsureSidecars(r)
  BY <1>10 DEF EnsureSidecars, AfterSidecars
<1>11. CASE LinkNext(r) \/ SubmitActivity(r) \/ LinkSession(r)
  BY <1>11 DEF LinkNext, SubmitActivity, LinkSession
<1>12. CASE SetLocked(r) \/ Fail(r)
  BY <1>12 DEF SetLocked, Fail
<1>. QED
  BY <1>1, <1>2, <1>3, <1>4, <1>5, <1>6, <1>7, <1>8, <1>9, <1>10, <1>11, <1>12
  DEF Step

\* The steps that take a request, and the only others that touch it.
LEMMA ReqFrame ==
  ASSUME NEW r \in Request, Step(r),
         ~BeginUpdate(r), ~BeginRevert(r), ~BeginVersion(r),
         ~BeginRegister(r), ~BeginLock(r), ~Delete(r), ~RepoFetch(r)
  PROVE  req' = req
<1>1. CASE Authorise(r) \/ Commit(r) \/ MintHandle(r) \/ InsertSeed(r)
  BY <1>1 DEF Authorise, Commit, MintHandle, InsertSeed
<1>2. CASE InsertComplete(r) \/ RefreshRead(r) \/ RefreshWrite(r)
  BY <1>2 DEF InsertComplete, RefreshRead, RefreshWrite
<1>3. CASE EnsureSidecars(r) \/ LinkNext(r) \/ SubmitActivity(r)
  BY <1>3 DEF EnsureSidecars, LinkNext, SubmitActivity
<1>4. CASE LinkSession(r) \/ SetLocked(r) \/ Fail(r)
  BY <1>4 DEF LinkSession, SetLocked, Fail
<1>. QED
  BY <1>1, <1>2, <1>3, <1>4 DEF Step

\* Only the first fetch of a handler touches stored.
LEMMA StoredFrame ==
  ASSUME NEW r \in Request, Step(r),
         ~BeginUpdate(r), ~BeginRevert(r), ~BeginVersion(r)
  PROVE  stored' = stored
<1>1. CASE Authorise(r) \/ Commit(r) \/ MintHandle(r) \/ InsertSeed(r)
  BY <1>1 DEF Authorise, Commit, MintHandle, InsertSeed
<1>2. CASE InsertComplete(r) \/ RefreshRead(r) \/ RefreshWrite(r)
  BY <1>2 DEF InsertComplete, RefreshRead, RefreshWrite
<1>3. CASE EnsureSidecars(r) \/ LinkNext(r) \/ SubmitActivity(r)
  BY <1>3 DEF EnsureSidecars, LinkNext, SubmitActivity
<1>4. CASE LinkSession(r) \/ SetLocked(r) \/ Fail(r) \/ RepoFetch(r)
  BY <1>4 DEF LinkSession, SetLocked, Fail, RepoFetch
<1>5. CASE BeginRegister(r) \/ BeginLock(r) \/ Delete(r)
  BY <1>5 DEF BeginRegister, BeginLock, Delete
<1>. QED
  BY <1>1, <1>2, <1>3, <1>4, <1>5 DEF Step

\* Only the fetches of the repository touch existing.
LEMMA ExistingFrame ==
  ASSUME NEW r \in Request, Step(r), ~RepoFetch(r), ~RefreshRead(r)
  PROVE  existing' = existing
<1>1. CASE Authorise(r) \/ Commit(r) \/ MintHandle(r) \/ InsertSeed(r)
  BY <1>1 DEF Authorise, Commit, MintHandle, InsertSeed
<1>2. CASE InsertComplete(r) \/ RefreshWrite(r)
  BY <1>2 DEF InsertComplete, RefreshWrite
<1>3. CASE EnsureSidecars(r) \/ LinkNext(r) \/ SubmitActivity(r)
  BY <1>3 DEF EnsureSidecars, LinkNext, SubmitActivity
<1>4. CASE LinkSession(r) \/ SetLocked(r) \/ Fail(r)
  BY <1>4 DEF LinkSession, SetLocked, Fail
<1>5. CASE BeginRegister(r) \/ BeginLock(r) \/ Delete(r)
  BY <1>5 DEF BeginRegister, BeginLock, Delete
<1>6. CASE BeginUpdate(r) \/ BeginRevert(r) \/ BeginVersion(r)
  BY <1>6 DEF BeginUpdate, BeginRevert, BeginVersion, Fetch
<1>. QED
  BY <1>1, <1>2, <1>3, <1>4, <1>5, <1>6 DEF Step

\* Only MintHandle touches fresh.
LEMMA FreshFrame ==
  ASSUME NEW r \in Request, Step(r), ~MintHandle(r)
  PROVE  fresh' = fresh
<1>1. CASE Authorise(r) \/ Commit(r) \/ RepoFetch(r) \/ InsertSeed(r)
  BY <1>1 DEF Authorise, Commit, RepoFetch, InsertSeed
<1>2. CASE InsertComplete(r) \/ RefreshRead(r) \/ RefreshWrite(r)
  BY <1>2 DEF InsertComplete, RefreshRead, RefreshWrite
<1>3. CASE EnsureSidecars(r) \/ LinkNext(r) \/ SubmitActivity(r)
  BY <1>3 DEF EnsureSidecars, LinkNext, SubmitActivity
<1>4. CASE LinkSession(r) \/ SetLocked(r) \/ Fail(r)
  BY <1>4 DEF LinkSession, SetLocked, Fail
<1>5. CASE BeginRegister(r) \/ BeginLock(r) \/ Delete(r)
  BY <1>5 DEF BeginRegister, BeginLock, Delete
<1>6. CASE BeginUpdate(r) \/ BeginRevert(r) \/ BeginVersion(r)
  BY <1>6 DEF BeginUpdate, BeginRevert, BeginVersion, Fetch
<1>. QED
  BY <1>1, <1>2, <1>3, <1>4, <1>5, <1>6 DEF Step

\* Only Authorise touches epoch, and only SubmitActivity session.
LEMMA EpochFrame ==
  ASSUME NEW r \in Request, Step(r)
  PROVE  /\ ~Authorise(r) => epoch' = epoch
         /\ ~SubmitActivity(r) => session' = session
<1>1. CASE Authorise(r) \/ Commit(r) \/ RepoFetch(r) \/ MintHandle(r)
  BY <1>1 DEF Authorise, Commit, RepoFetch, MintHandle
<1>2. CASE InsertSeed(r) \/ InsertComplete(r) \/ RefreshRead(r) \/ RefreshWrite(r)
  BY <1>2 DEF InsertSeed, InsertComplete, RefreshRead, RefreshWrite
<1>3. CASE EnsureSidecars(r) \/ LinkNext(r) \/ SubmitActivity(r)
  BY <1>3 DEF EnsureSidecars, LinkNext, SubmitActivity
<1>4. CASE LinkSession(r) \/ SetLocked(r) \/ Fail(r)
  BY <1>4 DEF LinkSession, SetLocked, Fail
<1>5. CASE BeginRegister(r) \/ BeginLock(r) \/ Delete(r)
  BY <1>5 DEF BeginRegister, BeginLock, Delete
<1>6. CASE BeginUpdate(r) \/ BeginRevert(r) \/ BeginVersion(r)
  BY <1>6 DEF BeginUpdate, BeginRevert, BeginVersion, Fetch
<1>. QED
  BY <1>1, <1>2, <1>3, <1>4, <1>5, <1>6 DEF Step

\* What a handler that starts with a fetch asks for.
LEMMA FetchFacts ==
  ASSUME TypeOK, NEW r \in Request,
         BeginUpdate(r) \/ BeginRevert(r) \/ BeginVersion(r)
  PROVE  \E q \in ReqRecord :
           /\ Fetch(r, q)
           /\ q.id \in Handle
           /\ q.op \in {"update", "silentUpdate", "revert", "version"}
           /\ q.op \in {"update", "silentUpdate"} => q.content \in Content
           /\ q.op = "version" => content[q.id] \in Content
<1> USE DEF TypeOK
<1>0. NoContent \in ContentOrNone /\ Content \subseteq ContentOrNone
      /\ Handle \subseteq HandleOrNone /\ 0 \in Nat
  BY DEF ContentOrNone, HandleOrNone
<1>1. CASE BeginUpdate(r)
  <2>1. PICK h \in Handle, c \in Content, op \in {"update", "silentUpdate"},
             reasoned \in BOOLEAN : Fetch(r, Asks(op, h, c, 0, reasoned))
    BY <1>1 DEF BeginUpdate
  <2> DEFINE q == Asks(op, h, c, 0, reasoned)
  <2>2. q \in ReqRecord
    BY <1>0 DEF Asks, ReqRecord, AllOps
  <2>3. q.id = h /\ q.op = op /\ q.content = c
    BY DEF Asks
  <2> HIDE DEF q
  <2>4. Fetch(r, q)
    BY <2>1 DEF q
  <2>. QED
    BY <2>2, <2>3, <2>4
<1>2. CASE BeginRevert(r)
  <2>1. PICK h \in Handle : \E id \in DOMAIN history[h] :
               Fetch(r, Asks("revert", h, NoContent, id, TRUE))
    BY <1>2 DEF BeginRevert
  <2>2. PICK id \in DOMAIN history[h] :
               Fetch(r, Asks("revert", h, NoContent, id, TRUE))
    BY <2>1
  <2>0. id \in Nat
    BY <2>2
  <2> DEFINE q == Asks("revert", h, NoContent, id, TRUE)
  <2>3. q \in ReqRecord
    BY <1>0, <2>0 DEF Asks, ReqRecord, AllOps
  <2>4. q.id = h /\ q.op = "revert"
    BY DEF Asks
  <2> HIDE DEF q
  <2>5. Fetch(r, q)
    BY <2>2 DEF q
  <2>. QED
    BY <2>3, <2>4, <2>5
<1>3. CASE BeginVersion(r)
  <2>1. PICK h \in Handle : /\ content[h] # NoContent
                            /\ Fetch(r, Asks("version", h, NoContent, 0, TRUE))
    BY <1>3 DEF BeginVersion
  <2> DEFINE q == Asks("version", h, NoContent, 0, TRUE)
  <2>2. q \in ReqRecord
    BY <1>0 DEF Asks, ReqRecord, AllOps
  <2>3. q.id = h /\ q.op = "version"
    BY DEF Asks
  <2>4. content[h] \in Content
    BY <2>1 DEF ContentOrNone
  <2> HIDE DEF q
  <2>5. Fetch(r, q)
    BY <2>1 DEF q
  <2>. QED
    BY <2>2, <2>3, <2>4, <2>5
<1>. QED
  BY <1>1, <1>2, <1>3

\* Every step keeps the locals well typed.
LEMMA LocalsType ==
  ASSUME TypeOK, NextIds, NEW r \in Request, Local(r), Step(r)
  PROVE  /\ req' \in [Request -> ReqRecord]
         /\ stored' \in [Request -> SnapshotRecord]
         /\ existing' \in [Request -> SnapshotRecord]
         /\ fresh' \in [Request -> HandleOrNone]
         /\ session' \in [Request -> Nat]
         /\ epoch' \in [Request -> Nat]
<1> USE DEF TypeOK
<1>0. NoContent \in ContentOrNone /\ Content \subseteq ContentOrNone
      /\ Handle \subseteq HandleOrNone /\ NoHandle \in HandleOrNone /\ 0 \in Nat
  BY DEF ContentOrNone, HandleOrNone
<1>1. /\ req' \in [Request -> ReqRecord]
      /\ stored' \in [Request -> SnapshotRecord]
  <2>1. CASE BeginUpdate(r) \/ BeginRevert(r) \/ BeginVersion(r)
    <3>1. PICK q \in ReqRecord : q.id \in Handle /\ Fetch(r, q)
      BY <2>1, FetchFacts
    <3>2. Snapshot(q.id) \in SnapshotRecord
      BY <3>1, SnapshotType
    <3>. QED
      BY <3>1, <3>2 DEF Fetch
  <2>2. CASE BeginRegister(r)
    <3>1. PICK op \in {"seed", "create"} \cap Ops, c \in Content :
            req' = [req EXCEPT ![r] =
              Asks(op, NoHandle, IF op = "create" THEN c ELSE NoContent, 0, FALSE)]
      BY <2>2 DEF BeginRegister
    <3> DEFINE d == IF op = "create" THEN c ELSE NoContent
               q == Asks(op, NoHandle, d, 0, FALSE)
    <3>2. d \in ContentOrNone
      BY <1>0
    <3> HIDE DEF d
    <3>3. q \in ReqRecord
      BY <1>0, <3>2 DEF Asks, ReqRecord, AllOps
    <3>4. req' = [req EXCEPT ![r] = q]
      BY <3>1 DEF d
    <3> HIDE DEF q
    <3>5. ~BeginUpdate(r) /\ ~BeginRevert(r) /\ ~BeginVersion(r) => stored' = stored
      BY StoredFrame
    <3>6. stored' = stored
      BY <2>2 DEF BeginRegister
    <3>. QED
      BY <3>3, <3>4, <3>6
  <2>3. CASE BeginLock(r)
    <3>1. PICK h \in Handle, op \in {"lock", "unlock"} \cap Ops :
            req' = [req EXCEPT ![r] = Asks(op, h, NoContent, 0, TRUE)]
      BY <2>3 DEF BeginLock
    <3> DEFINE q == Asks(op, h, NoContent, 0, TRUE)
    <3>2. q \in ReqRecord
      BY <1>0 DEF Asks, ReqRecord, AllOps
    <3>3. req' = [req EXCEPT ![r] = q] /\ stored' = stored
      BY <2>3, <3>1 DEF BeginLock
    <3> HIDE DEF q
    <3>. QED
      BY <3>2, <3>3
  <2>4. CASE Delete(r)
    <3>1. PICK h \in Handle :
            req' = [req EXCEPT ![r] = Asks("delete", h, NoContent, 0, FALSE)]
      BY <2>4 DEF Delete
    <3> DEFINE q == Asks("delete", h, NoContent, 0, FALSE)
    <3>2. q \in ReqRecord
      BY <1>0 DEF Asks, ReqRecord, AllOps
    <3>3. req' = [req EXCEPT ![r] = q] /\ stored' = stored
      BY <2>4, <3>1 DEF Delete
    <3> HIDE DEF q
    <3>. QED
      BY <3>2, <3>3
  <2>5. CASE RepoFetch(r)
    <3> DEFINE c == history[req[r].id][req[r].histId]
    <3>1. req[r].id \in Handle
      BY <2>5 DEF RepoFetch, Local
    <3>5. req[r].histId \in DOMAIN history[req[r].id] => c \in Content
      BY <3>1
    <3>6. \/ req' = req
          \/ /\ req[r].histId \in DOMAIN history[req[r].id]
             /\ req' = [req EXCEPT ![r].content = c]
      <4>1. CASE req[r].op = "revert"
        BY <2>5, <4>1 DEF RepoFetch
      <4>2. CASE req[r].op # "revert"
        BY <2>5, <4>2 DEF RepoFetch
      <4>. QED
        BY <4>1, <4>2
    <3>3. stored' = stored
      BY <2>5 DEF RepoFetch
    <3> HIDE DEF c
    <3>4. c \in Content => [req EXCEPT ![r].content = c] \in [Request -> ReqRecord]
      <4>1. req[r] \in ReqRecord
        OBVIOUS
      <4>2. c \in Content => [req[r] EXCEPT !.content = c] \in ReqRecord
        BY <4>1, <1>0 DEF ReqRecord
      <4>. QED
        BY <4>2
    <3>. QED
      BY <3>3, <3>4, <3>5, <3>6
  <2>. QED
    BY <2>1, <2>2, <2>3, <2>4, <2>5, ReqFrame, StoredFrame
<1>2. existing' \in [Request -> SnapshotRecord]
  <2>1. CASE RepoFetch(r)
    <3>1. Snapshot(req[r].id) \in SnapshotRecord
      BY <2>1, SnapshotType DEF RepoFetch, Local
    <3>. QED
      BY <2>1, <3>1 DEF RepoFetch
  <2>2. CASE RefreshRead(r)
    <3>1. Snapshot(Written(r)) \in SnapshotRecord
      BY <2>2, SnapshotType DEF RefreshRead, Local
    <3>. QED
      BY <2>2, <3>1 DEF RefreshRead
  <2>. QED
    BY <2>1, <2>2, ExistingFrame
<1>3. fresh' \in [Request -> HandleOrNone]
  <2>1. CASE MintHandle(r)
    <3>1. minted + 1 \in HandleOrNone
      BY <2>1, MaxHandleAssumption DEF MintHandle, HandleOrNone, Handle
    <3>. QED
      BY <2>1, <3>1 DEF MintHandle
  <2>. QED
    BY <2>1, FreshFrame
<1>4. session' \in [Request -> Nat]
  <2>1. CASE SubmitActivity(r)
    BY <2>1 DEF SubmitActivity
  <2>. QED
    BY <2>1, EpochFrame
<1>5. epoch' \in [Request -> Nat]
  <2>1. CASE Authorise(r)
    <3>1. Len(lockEvents[req[r].id]) \in Nat
      BY <2>1 DEF Authorise, Local
    <3>. QED
      BY <2>1, <3>1 DEF Authorise
  <2>. QED
    BY <2>1, EpochFrame
<1>. QED
  BY <1>1, <1>2, <1>3, <1>4, <1>5

\* Every step keeps the types.
LEMMA TypeStep ==
  ASSUME TypeOK, NextIds, NEW r \in Request, Local(r), Step(r)
  PROVE  TypeOK'
BY ItemType, SatelliteType, SidecarsType, PcType, LocalsType DEF TypeOK

-----------------------------------------------------------------------------
(* The other conjuncts.                                                    *)

\* Every step keeps what a label says of its request.
LEMMA LocalStep ==
  ASSUME TypeOK, NEW r \in Request, Local(r), Step(r),
         NEW q \in Request, Local(q)
  PROVE  Local(q)'
<1> USE DEF TypeOK, Goto
<1>1. CASE q # r
  BY <1>1, LocalsFrame DEF Local, Written
<1>2. CASE q = r
  <2> SUFFICES Local(r)'
    BY <1>2
  <2>0. NoHandle \notin Handle
    BY DEF NoHandle, Handle
  <2>1. CASE BeginUpdate(r) \/ BeginRevert(r) \/ BeginVersion(r)
    <3>1. PICK q0 \in ReqRecord :
           /\ Fetch(r, q0)
           /\ q0.id \in Handle
           /\ q0.op \in {"update", "silentUpdate", "revert", "version"}
           /\ q0.op \in {"update", "silentUpdate"} => q0.content \in Content
           /\ q0.op = "version" => content[q0.id] \in Content
      BY <2>1, FetchFacts
    <3>2. /\ pc'[r] = "authorise" /\ req'[r] = q0 /\ fresh'[r] = NoHandle
          /\ stored'[r].content = content[q0.id] /\ q0.op \in Ops
      BY <3>1 DEF Fetch, Local, Snapshot
    <3>. QED
      BY <3>1, <3>2 DEF Local
  <2>2. CASE BeginRegister(r)
    <3>1. PICK op \in {"seed", "create"} \cap Ops, c \in Content :
            req' = [req EXCEPT ![r] =
              Asks(op, NoHandle, IF op = "create" THEN c ELSE NoContent, 0, FALSE)]
      BY <2>2 DEF BeginRegister
    <3>2. /\ req'[r].op = op /\ (op = "create" => req'[r].content = c)
      BY <3>1 DEF Asks
    <3>3. pc'[r] = "mint" /\ fresh'[r] = NoHandle
      BY <2>2 DEF BeginRegister, Local
    <3>. QED
      BY <3>1, <3>2, <3>3 DEF Local
  <2>3. CASE BeginLock(r)
    <3>1. PICK h \in Handle, op \in {"lock", "unlock"} \cap Ops :
            req' = [req EXCEPT ![r] = Asks(op, h, NoContent, 0, TRUE)]
      BY <2>3 DEF BeginLock
    <3>2. /\ req'[r].op = op /\ req'[r].id = h
      BY <3>1 DEF Asks
    <3>3. pc'[r] = "setLocked" /\ fresh'[r] = NoHandle
      BY <2>3 DEF BeginLock, Local
    <3>. QED
      BY <3>1, <3>2, <3>3 DEF Local
  <2>4. CASE Delete(r)
    <3>1. PICK h \in Handle :
            req' = [req EXCEPT ![r] = Asks("delete", h, NoContent, 0, FALSE)]
      BY <2>4 DEF Delete
    <3>2. req'[r].op = "delete"
      BY <3>1 DEF Asks
    <3>3. pc'[r] = "done" /\ "delete" \in Ops
      BY <2>4 DEF Delete
    <3>. QED
      BY <3>2, <3>3 DEF Local
  <2>5. CASE Authorise(r)
    <3>1. /\ pc[r] = "authorise" /\ pc'[r] \in {"refused", "mint", "repoFetch"}
          /\ pc'[r] = "mint" => req[r].op = "version"
          /\ pc'[r] = "repoFetch" => req[r].op # "version"
          /\ req' = req /\ fresh' = fresh /\ stored' = stored
      BY <2>5 DEF Authorise
    <3>. QED
      BY <3>1 DEF Local
  <2>6. CASE RepoFetch(r)
    <3>1. /\ pc[r] = "repoFetch" /\ pc'[r] \in {"aborted", "commit"}
          /\ fresh' = fresh /\ stored' = stored
      BY <2>6 DEF RepoFetch
    <3>2. req'[r].id = req[r].id /\ req'[r].op = req[r].op
      BY <2>6 DEF RepoFetch, ReqRecord
    <3>3. req[r].op = "revert" /\ pc'[r] = "commit" => req'[r].content \in Content
      <4>1. req[r].id \in Handle
        BY <2>6 DEF RepoFetch, Local
      <4>. QED
        BY <2>6, <4>1 DEF RepoFetch, ReqRecord
    <3>4. req[r].op # "revert" => req'[r].content = req[r].content
      BY <2>6 DEF RepoFetch
    <3>. QED
      BY <3>1, <3>2, <3>3, <3>4 DEF Local
  <2>7. CASE Commit(r)
    <3>1. /\ pc[r] = "commit" /\ pc'[r] \in {"aborted", "refreshRead"}
          /\ req' = req /\ fresh' = fresh /\ stored' = stored
      BY <2>7 DEF Commit
    <3>. QED
      BY <3>1 DEF Local, Written
  <2>8. CASE MintHandle(r)
    <3>1. /\ pc[r] = "mint" /\ pc'[r] = "insert"
          /\ req' = req /\ stored' = stored /\ fresh'[r] = minted + 1
          /\ minted + 1 \in Handle
      BY <2>8, MaxHandleAssumption DEF MintHandle, Handle
    <3>. QED
      BY <3>1 DEF Local
  <2>9. CASE InsertSeed(r) \/ InsertComplete(r)
    <3>1. /\ pc[r] = "insert" /\ pc'[r] \in {"sidecars", "refreshRead"}
          /\ req' = req /\ fresh' = fresh /\ stored' = stored
      BY <2>9 DEF InsertSeed, InsertComplete
    <3>. QED
      BY <2>0, <3>1 DEF Local, Written
  <2>10. CASE RefreshRead(r)
    <3>1. /\ pc[r] = "refreshRead" /\ pc'[r] \in {"refreshWrite", "failed"}
          /\ req' = req /\ fresh' = fresh /\ stored' = stored
      BY <2>10 DEF RefreshRead
    <3>. QED
      BY <3>1 DEF Local, Written
  <2>11. CASE RefreshWrite(r)
    <3>1. /\ pc[r] = "refreshWrite" /\ pc'[r] \in {"failed", "done", "sidecars", "submit"}
          /\ pc'[r] = "sidecars" => fresh[r] # NoHandle
          /\ req' = req /\ fresh' = fresh /\ stored' = stored
      BY <2>11 DEF RefreshWrite, AfterRefresh
    <3>2. fresh[r] # NoHandle => fresh[r] \in Handle
      BY DEF HandleOrNone
    <3>. QED
      BY <3>1, <3>2 DEF Local, Written
  <2>12. CASE EnsureSidecars(r)
    <3>1. /\ pc[r] = "sidecars" /\ pc'[r] \in {"failed", "done", "linkNext", "submit"}
          /\ pc'[r] = "linkNext" => req[r].op = "version"
          /\ req' = req /\ fresh' = fresh /\ stored' = stored
      BY <2>12 DEF EnsureSidecars, AfterSidecars
    <3>. QED
      BY <2>0, <3>1 DEF Local, Written
  <2>13. CASE LinkNext(r) \/ SubmitActivity(r) \/ LinkSession(r)
    <3>1. /\ pc[r] \in {"linkNext", "submit", "linkSession"}
          /\ pc'[r] \in {"submit", "linkSession", "done"}
          /\ req' = req /\ fresh' = fresh /\ stored' = stored
      BY <2>13 DEF LinkNext, SubmitActivity, LinkSession
    <3>. QED
      BY <2>0, <3>1 DEF Local, Written
  <2>14. CASE SetLocked(r) \/ Fail(r)
    <3>1. /\ pc[r] # "idle" /\ pc'[r] \in {"done", "aborted", "failed"}
          /\ req' = req /\ fresh' = fresh /\ stored' = stored
      BY <2>14 DEF SetLocked, Fail, InFlight
    <3>. QED
      BY <3>1 DEF Local
  <2>. QED
    BY <2>1, <2>2, <2>3, <2>4, <2>5, <2>6, <2>7, <2>8, <2>9, <2>10, <2>11,
       <2>12, <2>13, <2>14 DEF Step
<1>. QED
  BY <1>1, <1>2

\* What a step can do to one row of the item table: keep its existence and its
\* versions but for next, which only LinkNext sets; insert it; or delete it.
LEMMA RowStep ==
  ASSUME TypeOK, NEW r \in Request, Local(r), Step(r), NEW h \in Handle
  PROVE  \/ /\ item'[h].kind # "absent" <=> item[h].kind # "absent"
            /\ item'[h].prev = item[h].prev /\ item'[h].ver = item[h].ver
            /\ \/ item'[h].next = item[h].next
               \/ /\ LinkNext(r) /\ h = req[r].id /\ Exists(h)
                  /\ item'[h].next = fresh[r]
         \/ /\ InsertSeed(r) \/ InsertComplete(r)
            /\ h = fresh[r] /\ item'[h].kind # "absent"
            /\ item'[h].next = NoHandle
            /\ req[r].op = "version" =>
                 item'[h].prev = req[r].id /\ item'[h].ver = stored[r].ver + 1
            /\ req[r].op # "version" => item'[h].prev = NoHandle
         \/ Delete(r) /\ item'[h] = NoRow
<1> USE DEF TypeOK
<1>0. item[h] \in ItemRow
  OBVIOUS
<1>1. CASE Commit(r)
  <2>1. CASE CommitConflicts(r)
    BY <1>1, <2>1 DEF Commit
  <2>2. CASE ~CommitConflicts(r)
    <3>1. /\ item' = [item EXCEPT ![req[r].id].kind = "complete"]
          /\ Exists(req[r].id)
      BY <1>1, <2>2 DEF Commit, CommitConflicts
    <3>2. CASE h = req[r].id
      <4>1. item'[h] = [item[h] EXCEPT !.kind = "complete"]
        BY <3>1, <3>2
      <4>. QED
        BY <1>0, <3>1, <3>2, <4>1 DEF ItemRow, Exists
    <3>3. CASE h # req[r].id
      <4>1. item'[h] = item[h]
        BY <3>1, <3>3
      <4>. QED
        BY <4>1
    <3>. QED
      BY <3>2, <3>3
  <2>. QED
    BY <2>1, <2>2
<1>2. CASE InsertSeed(r)
  <2>1. CASE h = fresh[r]
    BY <1>2, <2>1 DEF InsertSeed, NewRow
  <2>2. CASE h # fresh[r]
    <3>1. item'[h] = item[h]
      BY <1>2, <2>2 DEF InsertSeed
    <3>. QED
      BY <3>1
  <2>. QED
    BY <2>1, <2>2
<1>3. CASE InsertComplete(r)
  <2>1. CASE h = fresh[r]
    BY <1>3, <2>1 DEF InsertComplete, NewRow, NextVersionNumber
  <2>2. CASE h # fresh[r]
    <3>1. item'[h] = item[h]
      BY <1>3, <2>2 DEF InsertComplete
    <3>. QED
      BY <3>1
  <2>. QED
    BY <2>1, <2>2
<1>4. CASE RefreshWrite(r)
  <2> DEFINE w == Written(r)
             c == existing[r].content
  <2>1. item' = item \/ item' = [item EXCEPT ![w].search = c]
    BY <1>4 DEF RefreshWrite, SearchDocument
  <2> HIDE DEF w, c
  <2>2. item'[h] = item[h] \/ item'[h] = [item[h] EXCEPT !.search = c]
    BY <2>1
  <2>. QED
    BY <1>0, <2>2 DEF ItemRow
<1>5. CASE LinkNext(r)
  <2> DEFINE k == fresh[r]
  <2>1. CASE h = req[r].id /\ Exists(h)
    <3>1. item'[h] = [item[h] EXCEPT !.next = k]
      BY <1>5, <2>1 DEF LinkNext
    <3>. QED
      BY <1>0, <1>5, <2>1, <3>1 DEF ItemRow
  <2>2. CASE h # req[r].id \/ ~Exists(h)
    <3>1. item'[h] = item[h]
      BY <1>5, <2>2 DEF LinkNext
    <3>. QED
      BY <3>1
  <2>. QED
    BY <2>1, <2>2
<1>6. CASE LinkSession(r)
  <2> DEFINE w == Written(r)
             s == session[r]
  <2>1. \/ item' = item \/ item' = [item EXCEPT ![w].versionLink = s]
        \/ item' = [item EXCEPT ![w].createLink = s]
    BY <1>6 DEF LinkSession
  <2> HIDE DEF w, s
  <2>2. \/ item'[h] = item[h] \/ item'[h] = [item[h] EXCEPT !.versionLink = s]
        \/ item'[h] = [item[h] EXCEPT !.createLink = s]
    BY <2>1
  <2>. QED
    BY <1>0, <2>2 DEF ItemRow
<1>7. CASE Delete(r)
  <2>1. item'[h] = item[h] \/ item'[h] = NoRow
    BY <1>7 DEF Delete
  <2>. QED
    BY <1>7, <2>1
<1>. QED
  BY <1>1, <1>2, <1>3, <1>4, <1>5, <1>6, <1>7, ItemFrame

\* A request names no item, the one it named, or one that exists.
LEMMA ReqIdStep ==
  ASSUME TypeOK, NEW r \in Request, Step(r), NEW q \in Request
  PROVE  \/ req'[q].id = req[q].id
         \/ req'[q].id = NoHandle
         \/ Exists(req'[q].id)
<1> USE DEF TypeOK
<1>1. CASE q # r
  BY <1>1, LocalsFrame
<1>2. CASE q = r
  <2>1. CASE BeginUpdate(r) \/ BeginRevert(r) \/ BeginVersion(r)
    BY <1>2, <2>1, FetchFacts DEF Fetch
  <2>2. CASE BeginRegister(r)
    BY <1>2, <2>2 DEF BeginRegister, Asks
  <2>3. CASE BeginLock(r)
    BY <1>2, <2>3 DEF BeginLock, Asks
  <2>4. CASE Delete(r)
    BY <1>2, <2>4 DEF Delete, Asks
  <2>5. CASE RepoFetch(r)
    BY <1>2, <2>5 DEF RepoFetch, ReqRecord
  <2>. QED
    BY <2>1, <2>2, <2>3, <2>4, <2>5, ReqFrame
<1>. QED
  BY <1>1, <1>2

\* A request gets to its insert by minting a handle.
LEMMA InsertStep ==
  ASSUME TypeOK, NEW r \in Request, Step(r), pc'[r] = "insert"
  PROVE  MintHandle(r)
<1> USE DEF TypeOK, Goto
<1>1. ~(BeginUpdate(r) \/ BeginRevert(r) \/ BeginVersion(r))
  BY DEF BeginUpdate, BeginRevert, BeginVersion, Fetch
<1>2. ~BeginRegister(r)
  BY DEF BeginRegister
<1>3. ~BeginLock(r)
  BY DEF BeginLock
<1>4. ~Delete(r)
  <2>1. Delete(r) => pc'[r] = "done"
    BY DEF Delete
  <2>. QED
    BY <2>1
<1>5. ~Authorise(r)
  BY DEF Authorise
<1>6. ~RepoFetch(r) /\ ~Commit(r) /\ ~InsertSeed(r) /\ ~InsertComplete(r)
  BY DEF RepoFetch, Commit, InsertSeed, InsertComplete
<1>7. ~RefreshRead(r) /\ ~RefreshWrite(r)
  BY DEF RefreshRead, RefreshWrite, AfterRefresh
<1>8. ~EnsureSidecars(r) /\ ~LinkNext(r)
  BY DEF EnsureSidecars, AfterSidecars, LinkNext
<1>9. ~SubmitActivity(r) /\ ~LinkSession(r) /\ ~SetLocked(r) /\ ~Fail(r)
  BY DEF SubmitActivity, LinkSession, SetLocked, Fail
<1>. QED
  BY <1>1, <1>2, <1>3, <1>4, <1>5, <1>6, <1>7, <1>8, <1>9 DEF Step

\* Every step keeps minted handles apart.
LEMMA HandlesStep ==
  ASSUME TypeOK, Handles, \A q \in Request : Local(q),
         NEW r \in Request, Step(r)
  PROVE  Handles'
<1> USE DEF TypeOK
<1>0. /\ Local(r)
      /\ NoHandle = 0 /\ Handle \subseteq Nat \ {0} /\ HandleOrNone \subseteq Nat
      /\ minted \in Nat
  BY MaxHandleAssumption DEF NoHandle, Handle, HandleOrNone
<1>1. minted' \in Nat /\ minted' >= minted
  <2>1. CASE MintHandle(r)
    BY <1>0, <2>1 DEF MintHandle
  <2>2. CASE ~MintHandle(r)
    BY <1>0, <2>2, MintedFrame
  <2>. QED
    BY <2>1, <2>2
<1>2. \A q \in Request : /\ req[q].id \in HandleOrNone /\ fresh[q] \in HandleOrNone
                         /\ req[q].id \in Nat /\ fresh[q] \in Nat
  BY <1>0 DEF ReqRecord
<1>3. \A h \in Handle : item[h].next \in Nat /\ item[h].prev \in Nat
  BY <1>0 DEF ItemRow
<1>4. ASSUME NEW q \in Request
      PROVE  \/ fresh'[q] = fresh[q]
             \/ /\ q = r /\ MintHandle(r) /\ fresh'[q] = minted + 1
                /\ minted' = minted + 1
  BY FreshFrame DEF MintHandle
<1>5. ASSUME NEW h \in Handle
      PROVE  /\ Exists(h)' => h <= minted'
             /\ item'[h].next <= minted' /\ item'[h].prev <= minted'
  <2>1. /\ Exists(h) => h <= minted
        /\ item[h].next <= minted /\ item[h].prev <= minted
        /\ req[r].id <= minted /\ fresh[r] <= minted
        /\ h \in Nat
    BY <1>0 DEF Handles
  <2>2. /\ NoRow.kind = "absent" /\ NoRow.next = 0 /\ NoRow.prev = 0
    BY DEF NoRow, NewRow, NoHandle
  <2>3. CASE /\ item'[h].kind # "absent" <=> item[h].kind # "absent"
             /\ item'[h].prev = item[h].prev
             /\ item'[h].next = item[h].next \/ item'[h].next = fresh[r]
    BY <1>0, <1>1, <1>2, <1>3, <2>1, <2>3 DEF Exists
  <2>4. CASE /\ h = fresh[r] /\ item'[h].next = NoHandle
             /\ item'[h].prev \in {NoHandle, req[r].id}
    BY <1>0, <1>1, <1>2, <2>1, <2>4 DEF Exists
  <2>5. CASE item'[h] = NoRow
    BY <1>0, <1>1, <2>2, <2>5 DEF Exists
  <2>. QED
    BY <1>0, <2>3, <2>4, <2>5, RowStep
<1>6. ASSUME NEW q \in Request
      PROVE  req'[q].id <= minted' /\ fresh'[q] <= minted'
  <2>1. req[q].id <= minted /\ fresh[q] <= minted
    BY DEF Handles
  <2>2. fresh'[q] <= minted'
    BY <1>0, <1>1, <1>2, <1>4, <2>1
  <2>3. req'[q].id <= minted'
    <3>1. Exists(req'[q].id) => req'[q].id \in Handle /\ req'[q].id <= minted
      BY DEF Exists, Handles
    <3>2. req[q].id <= minted' /\ NoHandle <= minted'
      BY <1>0, <1>1, <1>2, <2>1
    <3>3. Exists(req'[q].id) => req'[q].id <= minted'
      <4>1. \A n \in Handle : n <= minted => n <= minted'
        BY <1>0, <1>1
      <4>. QED
        BY <3>1, <4>1
    <3>. QED
      BY <3>2, <3>3, ReqIdStep
  <2>. QED
    BY <2>2, <2>3
<1>7. ASSUME NEW p \in Request, NEW q \in Request, fresh'[p] = fresh'[q]
      PROVE  p = q \/ fresh'[p] = NoHandle
  <2>1. /\ fresh[p] <= minted /\ fresh[q] <= minted
        /\ fresh[p] = fresh[q] => p = q \/ fresh[p] = NoHandle
    BY DEF Handles
  <2>2. fresh[p] # minted + 1 /\ fresh[q] # minted + 1
    BY <1>0, <1>2, <2>1
  <2>3. CASE fresh'[p] = fresh[p] /\ fresh'[q] = fresh[q]
    BY <1>7, <2>1, <2>3
  <2>4. CASE fresh'[p] # fresh[p]
    BY <1>4, <1>7, <2>2, <2>4
  <2>5. CASE fresh'[q] # fresh[q]
    BY <1>4, <1>7, <2>2, <2>5
  <2>. QED
    BY <2>3, <2>4, <2>5
<1>8. ASSUME NEW q \in Request, pc'[q] = "insert"
      PROVE  /\ ~Exists(fresh[q])' 
             /\ \A p \in Request : req'[p].id # fresh'[q]
             /\ \A h \in Handle : item'[h].next # fresh'[q] /\ item'[h].prev # fresh'[q]
  <2>1. CASE q = r
    <3>1. MintHandle(r)
      BY <1>8, <2>1, InsertStep
    <3>2. /\ fresh'[q] = minted + 1 /\ item' = item /\ req' = req
      BY <2>1, <3>1 DEF MintHandle
    <3>3. /\ \A h \in Handle : /\ Exists(h) => h <= minted
                               /\ item[h].next <= minted /\ item[h].prev <= minted
          /\ \A p \in Request : req[p].id <= minted
      BY DEF Handles
    <3>4. ~Exists(minted + 1)
      BY <1>0, <3>3 DEF Exists
    <3>5. ~Exists(fresh[q])'
      BY <3>2, <3>4 DEF Exists
    <3>. QED
      BY <1>0, <1>2, <1>3, <3>2, <3>3, <3>5
  <2>2. CASE q # r
    <3>1. pc[q] = "insert" /\ fresh'[q] = fresh[q]
      BY <1>8, <2>2, LocalsFrame
    <3>2. /\ ~Exists(fresh[q])
          /\ \A p \in Request : req[p].id # fresh[q]
          /\ \A h \in Handle : item[h].next # fresh[q] /\ item[h].prev # fresh[q]
      BY <3>1 DEF Handles
    <3>3. fresh[q] \in Handle
      BY <3>1 DEF Local
    <3>4. fresh[q] # fresh[r] /\ fresh[q] # NoHandle
      BY <1>0, <2>2, <3>3 DEF Handles
    <3>5. NoRow.kind = "absent" /\ NoRow.next = NoHandle /\ NoRow.prev = NoHandle
      BY DEF NoRow, NewRow
    <3>6. item'[fresh[q]].kind = "absent"
      <4>1. item[fresh[q]].kind = "absent"
        BY <3>2, <3>3 DEF Exists
      <4>. QED
        BY <3>3, <3>4, <3>5, <4>1, <1>0, RowStep
    <3>7. ASSUME NEW p \in Request PROVE req'[p].id # fresh[q]
      BY <3>2, <3>4, ReqIdStep
    <3>8. ASSUME NEW h \in Handle
          PROVE  item'[h].next # fresh[q] /\ item'[h].prev # fresh[q]
      <4>1. item'[h].next \in {item[h].next, fresh[r], NoHandle}
        BY <1>0, <3>5, RowStep
      <4>2. item'[h].prev \in {item[h].prev, req[r].id, NoHandle}
        BY <1>0, <3>5, RowStep
      <4>. QED
        BY <3>2, <3>4, <4>1, <4>2
    <3>. QED
      BY <3>1, <3>6, <3>7, <3>8 DEF Exists
  <2>. QED
    BY <2>1, <2>2
<1>. QED
  BY <1>5, <1>6, <1>7, <1>8 DEF Handles

\* Every step keeps what version requests know of the items they work on.
LEMMA VersionsStep ==
  ASSUME TypeOK, Handles, Versions, \A q \in Request : Local(q),
         NEW r \in Request, Step(r)
  PROVE  Versions'
<1> USE DEF TypeOK, Goto
<1>0. Local(r)
  OBVIOUS
<1>1. ASSUME NEW h \in Handle, item'[h].ver = item[h].ver
      PROVE  VersionNumber(h)' = VersionNumber(h)
  BY <1>1 DEF VersionNumber
<1>2. NoRow.kind = "absent" /\ NoHandle \notin Handle
  BY DEF NoRow, NewRow, NoHandle, Handle
<1>3. InsertSeed(r) \/ InsertComplete(r) => pc[r] = "insert"
  BY DEF InsertSeed, InsertComplete
<1>4. ASSUME NEW q \in Request, q # r, req'[q].op = "version"
      PROVE  /\ pc'[q] = "insert" => req'[q].id < fresh'[q]
             /\ pc'[q] \in {"authorise", "mint", "insert"} /\ Exists(req[q].id)'
                  => stored'[q].ver = VersionNumber(req[q].id)'
             /\ pc'[q] \in {"refreshRead", "refreshWrite", "sidecars", "linkNext"}
                  => /\ fresh'[q] \in Handle
                     /\ Exists(fresh[q])' => item'[fresh'[q]].prev = req'[q].id
  <2>1. /\ pc'[q] = pc[q] /\ req'[q] = req[q] /\ stored'[q] = stored[q]
        /\ fresh'[q] = fresh[q]
    BY <1>4, LocalsFrame
  <2>2. pc'[q] = "insert" => req'[q].id < fresh'[q]
    BY <1>4, <2>1 DEF Versions
  <2>3. ASSUME pc[q] \in {"authorise", "mint", "insert"}, Exists(req[q].id)'
        PROVE  stored'[q].ver = VersionNumber(req[q].id)'
    <3> DEFINE h == req[q].id
    <3>1. h \in Handle /\ item'[h].kind # "absent"
      BY <2>1, <2>3 DEF Exists
    <3>2. pc[r] = "insert" => h # fresh[r]
      BY DEF Handles
    <3>3. item[h].kind # "absent" /\ item'[h].ver = item[h].ver
      BY <1>0, <1>2, <1>3, <3>1, <3>2, RowStep
    <3>4. stored[q].ver = VersionNumber(h)
      BY <1>4, <2>1, <2>3, <3>1, <3>3 DEF Versions, Exists
    <3>5. VersionNumber(h)' = VersionNumber(h)
      BY <2>1, <3>3 DEF VersionNumber
    <3>. QED
      BY <2>1, <3>4, <3>5
  <2>4. ASSUME pc[q] \in {"refreshRead", "refreshWrite", "sidecars", "linkNext"}
        PROVE  /\ fresh'[q] \in Handle
               /\ Exists(fresh[q])' => item'[fresh'[q]].prev = req'[q].id
    <3> DEFINE h == fresh[q]
    <3>1. h \in Handle /\ (Exists(h) => item[h].prev = req[q].id)
      BY <1>4, <2>1, <2>4 DEF Versions
    <3>2. h # fresh[r]
      BY <1>2, <1>4, <3>1 DEF Handles
    <3>3. ASSUME item'[h].kind # "absent"
          PROVE  item'[h].prev = item[h].prev /\ item[h].kind # "absent"
      BY <1>0, <1>2, <3>1, <3>2, <3>3, RowStep
    <3>4. Exists(fresh[q])' => item'[h].kind # "absent"
      BY <2>1 DEF Exists
    <3>. QED
      BY <2>1, <3>1, <3>3, <3>4 DEF Exists
  <2>. QED
    BY <2>1, <2>2, <2>3, <2>4
<1>5. ASSUME req'[r].op = "version"
      PROVE  /\ pc'[r] = "insert" => req'[r].id < fresh'[r]
             /\ pc'[r] \in {"authorise", "mint", "insert"} /\ Exists(req[r].id)'
                  => stored'[r].ver = VersionNumber(req[r].id)'
             /\ pc'[r] \in {"refreshRead", "refreshWrite", "sidecars", "linkNext"}
                  => /\ fresh'[r] \in Handle
                     /\ Exists(fresh[r])' => item'[fresh'[r]].prev = req'[r].id
  <2>1. CASE BeginUpdate(r) \/ BeginRevert(r) \/ BeginVersion(r)
    <3>1. PICK q0 \in ReqRecord : Fetch(r, q0) /\ q0.id \in Handle
      BY <2>1, FetchFacts
    <3>2. /\ pc'[r] = "authorise" /\ item' = item /\ req'[r] = q0
          /\ stored'[r].ver = VersionNumber(q0.id)
      BY <3>1 DEF Fetch, Snapshot, tables
    <3>. QED
      BY <3>2 DEF VersionNumber
  <2>2. CASE BeginRegister(r) \/ BeginLock(r)
    <3>1. CASE BeginRegister(r)
      BY <1>5, <3>1 DEF BeginRegister, Asks
    <3>2. CASE BeginLock(r)
      BY <1>5, <3>2 DEF BeginLock, Asks
    <3>. QED
      BY <2>2, <3>1, <3>2
  <2>3. CASE Authorise(r)
    <3>1. /\ pc'[r] \in {"refused", "mint", "repoFetch"} /\ pc[r] = "authorise"
          /\ item' = item /\ req' = req /\ stored' = stored
      BY <2>3 DEF Authorise, tables
    <3>2. Exists(req[r].id)' => Exists(req[r].id)
      BY <3>1 DEF Exists
    <3>3. VersionNumber(req[r].id)' = VersionNumber(req[r].id)
      BY <3>1 DEF VersionNumber
    <3>4. Exists(req[r].id) => stored[r].ver = VersionNumber(req[r].id)
      BY <1>5, <3>1 DEF Versions
    <3>. QED
      BY <3>1, <3>2, <3>3, <3>4
  <2>4. CASE MintHandle(r)
    <3>1. /\ pc'[r] = "insert" /\ pc[r] = "mint" /\ fresh'[r] = minted + 1
          /\ item' = item /\ req' = req /\ stored' = stored
      BY <2>4 DEF MintHandle
    <3>2. Exists(req[r].id)' => Exists(req[r].id)
      BY <3>1 DEF Exists
    <3>3. VersionNumber(req[r].id)' = VersionNumber(req[r].id)
      BY <3>1 DEF VersionNumber
    <3>4. Exists(req[r].id) => stored[r].ver = VersionNumber(req[r].id)
      BY <1>5, <3>1 DEF Versions
    <3>5. req[r].id < minted + 1
      <4>1. req[r].id \in Nat /\ minted \in Nat
        BY MaxHandleAssumption DEF ReqRecord, HandleOrNone, Handle, NoHandle
      <4>. QED
        BY <4>1 DEF Handles
    <3>. QED
      BY <3>1, <3>2, <3>3, <3>4, <3>5
  <2>5. CASE InsertSeed(r)
    <3>1. req' = req /\ req[r].op = "seed"
      BY <2>5 DEF InsertSeed
    <3>. QED
      BY <1>5, <3>1
  <2>6. CASE InsertComplete(r)
    <3> DEFINE h == fresh[r]
    <3>1. /\ pc'[r] = "refreshRead" /\ req' = req /\ fresh' = fresh
          /\ item' = [item EXCEPT ![h] =
                        NewRow("complete", req[r].id, NextVersionNumber(r))]
      BY <1>5, <2>6 DEF InsertComplete
    <3>2. h \in Handle
      BY <1>0, <2>6 DEF InsertComplete, Local
    <3>3. item'[h].prev = req[r].id
      BY <3>1, <3>2 DEF NewRow
    <3>. QED
      BY <3>1, <3>2, <3>3
  <2>7. CASE RefreshRead(r) \/ RefreshWrite(r) \/ EnsureSidecars(r)
    <3>1. /\ pc[r] \in {"refreshRead", "refreshWrite", "sidecars"}
          /\ pc'[r] \notin {"authorise", "mint", "insert"}
          /\ req' = req /\ fresh' = fresh
      BY <2>7 DEF RefreshRead, RefreshWrite, EnsureSidecars, AfterRefresh,
         AfterSidecars
    <3>2. fresh[r] \in Handle /\ (Exists(fresh[r]) => item[fresh[r]].prev = req[r].id)
      BY <1>5, <3>1 DEF Versions
    <3>3. /\ item'[fresh[r]].kind # "absent" => item[fresh[r]].kind # "absent"
          /\ item'[fresh[r]].prev = item[fresh[r]].prev \/ item'[fresh[r]] = NoRow
      BY <1>0, <1>2, <1>3, <3>1, <3>2, RowStep
    <3>. QED
      BY <1>2, <3>1, <3>2, <3>3 DEF Exists
  <2>8. CASE Commit(r)
    <3>1. req' = req /\ pc[r] = "commit"
      BY <2>8 DEF Commit
    <3>2. req[r].op # "version"
      BY <1>0, <3>1 DEF Local
    <3>. QED
      BY <1>5, <3>1, <3>2
  <2>9. CASE RepoFetch(r)
    <3>1. pc'[r] \in {"commit", "aborted"}
      BY <2>9 DEF RepoFetch
    <3>. QED
      BY <3>1
  <2>10. CASE Delete(r)
    <3>1. pc'[r] = "done"
      BY <2>10 DEF Delete
    <3>. QED
      BY <3>1
  <2>11. CASE LinkNext(r) \/ SubmitActivity(r) \/ LinkSession(r) \/ SetLocked(r)
              \/ Fail(r)
    <3>1. pc'[r] \in {"submit", "linkSession", "done", "aborted", "failed"}
      BY <2>11 DEF LinkNext, SubmitActivity, LinkSession, SetLocked, Fail
    <3>. QED
      BY <3>1
  <2>. QED
    BY <2>1, <2>2, <2>3, <2>4, <2>5, <2>6, <2>7, <2>8, <2>9, <2>10, <2>11 DEF Step
<1>. QED
  BY <1>4, <1>5 DEF Versions

\* Every step keeps versions lined up.
LEMMA LineageStep ==
  ASSUME TypeOK, Handles, Versions, VersionLineage,
         \A q \in Request : Local(q), NEW r \in Request, Step(r)
  PROVE  VersionLineage'
<1> USE DEF TypeOK
<1>0. /\ Local(r)
      /\ NoRow.kind = "absent" /\ NoHandle \notin Handle
  BY DEF NoRow, NewRow, NoHandle, Handle
<1>1. InsertSeed(r) \/ InsertComplete(r) =>
        /\ pc[r] = "insert" /\ ~LinkNext(r) /\ fresh[r] \in Handle
        /\ \A h \in Handle : item[h].next # fresh[r] /\ item[h].prev # fresh[r]
        /\ req[r].id # fresh[r]
  BY <1>0 DEF InsertSeed, InsertComplete, LinkNext, Local, Handles
<1> SUFFICES ASSUME NEW h \in Handle, NEW k \in Handle,
                    item'[h].kind # "absent", item'[k].kind # "absent"
             PROVE  /\ item'[h].next = k => item'[k].prev = h
                    /\ item'[k].prev = h => /\ item'[k].ver = VersionNumber(h)' + 1
                                            /\ h < k
  BY DEF VersionLineage, Exists
<1> DEFINE Inserts(x) ==
             /\ InsertSeed(r) \/ InsertComplete(r)
             /\ x = fresh[r] /\ item'[x].next = NoHandle
             /\ req[r].op = "version" =>
                  item'[x].prev = req[r].id /\ item'[x].ver = stored[r].ver + 1
             /\ req[r].op # "version" => item'[x].prev = NoHandle
           Keeps(x) ==
             /\ item[x].kind # "absent"
             /\ item'[x].prev = item[x].prev /\ item'[x].ver = item[x].ver
             /\ \/ item'[x].next = item[x].next
                \/ LinkNext(r) /\ x = req[r].id /\ item'[x].next = fresh[r]
<1>2. Inserts(h) \/ Keeps(h)
  BY <1>0, RowStep
<1>3. Inserts(k) \/ Keeps(k)
  BY <1>0, RowStep
<1>4. CASE Keeps(h) /\ Keeps(k)
  <2>1. /\ item[h].next = k => item[k].prev = h
        /\ item[k].prev = h => item[k].ver = VersionNumber(h) + 1 /\ h < k
    BY <1>4 DEF VersionLineage, Exists
  <2>2. VersionNumber(h)' = VersionNumber(h)
    BY <1>4 DEF VersionNumber
  <2>3. ASSUME LinkNext(r), h = req[r].id, k = fresh[r]
        PROVE  item[k].prev = h
    <3>1. pc[r] = "linkNext" /\ req[r].op = "version"
      BY <1>0, <2>3 DEF LinkNext, Local
    <3>. QED
      BY <1>4, <2>3, <3>1 DEF Versions, Exists
  <2>. QED
    BY <1>4, <2>1, <2>2, <2>3
<1>5. CASE Keeps(h) /\ Inserts(k)
  <2>1. item'[h].next # k
    BY <1>1, <1>5
  <2>2. ASSUME item'[k].prev = h
        PROVE  item'[k].ver = VersionNumber(h)' + 1 /\ h < k
    <3>1. req[r].op = "version" /\ h = req[r].id /\ pc[r] = "insert"
      BY <1>0, <1>1, <1>5, <2>2
    <3>2. stored[r].ver = VersionNumber(h) /\ h < k
      BY <1>5, <3>1 DEF Versions, Exists
    <3>3. VersionNumber(h)' = VersionNumber(h)
      BY <1>5 DEF VersionNumber
    <3>. QED
      BY <1>5, <3>1, <3>2, <3>3
  <2>. QED
    BY <2>1, <2>2
<1>6. CASE Inserts(h)
  <2>1. item'[h].next # k
    BY <1>0, <1>6
  <2>2. item'[k].prev # h
    BY <1>0, <1>1, <1>3, <1>6
  <2>. QED
    BY <2>1, <2>2
<1>. QED
  BY <1>2, <1>3, <1>4, <1>5, <1>6

\* What a step can do to one history.
LEMMA HistoryRowStep ==
  ASSUME TypeOK, NEW r \in Request, Local(r), Step(r), NEW h \in Handle
  PROVE  \/ history'[h] = history[h]
         \/ /\ Commit(r) /\ pc[r] = "commit"
            /\ h = req[r].id /\ Exists(h)
            /\ existing[r].nextId \notin DOMAIN history[h]
            /\ history'[h] =
                 AddEntry(history[h], existing[r].nextId, req[r].content)
         \/ /\ InsertComplete(r) /\ h = fresh[r]
            /\ \E c \in Content : history'[h] = [i \in {0} |-> c]
         \/ /\ Delete(r) /\ item'[h] = NoRow /\ history'[h] = NoHistory
<1> USE DEF TypeOK
<1>1. CASE Commit(r)
  <2>1. history' = history \/
        /\ ~CommitConflicts(r) /\ req[r].op # "silentUpdate"
        /\ history' = [history EXCEPT ![req[r].id] =
                         AddEntry(@, existing[r].nextId, req[r].content)]
    BY <1>1 DEF Commit
  <2>2. ~CommitConflicts(r) /\ req[r].op # "silentUpdate" =>
          /\ Exists(req[r].id)
          /\ existing[r].nextId \notin DOMAIN history[req[r].id]
    BY DEF CommitConflicts
  <2>3. pc[r] = "commit"
    BY <1>1 DEF Commit
  <2>4. CASE h = req[r].id
    BY <1>1, <2>1, <2>2, <2>3, <2>4
  <2>5. CASE h # req[r].id
    BY <2>1, <2>5
  <2>. QED
    BY <2>4, <2>5
<1>2. CASE InsertComplete(r)
  <2> DEFINE c == IF req[r].op = "version" THEN stored[r].content
                  ELSE req[r].content
             f == [i \in {0} |-> c]
  <2>1. c \in Content
    BY <1>2 DEF InsertComplete, Local
  <2>2. history' = [history EXCEPT ![fresh[r]] = f]
    BY <1>2 DEF InsertComplete
  <2>3. \E d \in Content : f = [i \in {0} |-> d]
    BY <2>1
  <2> HIDE DEF c, f
  <2>4. CASE h = fresh[r]
    BY <1>2, <2>2, <2>3, <2>4
  <2>5. CASE h # fresh[r]
    BY <2>2, <2>5
  <2>. QED
    BY <2>4, <2>5
<1>3. CASE Delete(r)
  <2>1. history'[h] = history[h] \/ (item'[h] = NoRow /\ history'[h] = NoHistory)
    BY <1>3 DEF Delete
  <2>. QED
    BY <1>3, <2>1
<1>. QED
  BY <1>1, <1>2, <1>3, ContentFrame

\* A request gets to its transaction from the repository's fetch.
LEMMA CommitStep ==
  ASSUME TypeOK, NEW r \in Request, Step(r), pc'[r] = "commit"
  PROVE  RepoFetch(r)
<1> USE DEF TypeOK, Goto
<1>1. ~(BeginUpdate(r) \/ BeginRevert(r) \/ BeginVersion(r))
  BY DEF BeginUpdate, BeginRevert, BeginVersion, Fetch
<1>2. ~BeginRegister(r)
  BY DEF BeginRegister
<1>3. ~BeginLock(r)
  BY DEF BeginLock
<1>4. ~Delete(r)
  <2>1. Delete(r) => pc'[r] = "done"
    BY DEF Delete
  <2>. QED
    BY <2>1
<1>5. ~Authorise(r)
  BY DEF Authorise
<1>6. ~MintHandle(r) /\ ~Commit(r) /\ ~InsertSeed(r) /\ ~InsertComplete(r)
  BY DEF MintHandle, Commit, InsertSeed, InsertComplete
<1>7. ~RefreshRead(r) /\ ~RefreshWrite(r)
  BY DEF RefreshRead, RefreshWrite, AfterRefresh
<1>8. ~EnsureSidecars(r) /\ ~LinkNext(r)
  BY DEF EnsureSidecars, AfterSidecars, LinkNext
<1>9. ~SubmitActivity(r) /\ ~LinkSession(r) /\ ~SetLocked(r) /\ ~Fail(r)
  BY DEF SubmitActivity, LinkSession, SetLocked, Fail
<1>. QED
  BY <1>1, <1>2, <1>3, <1>4, <1>5, <1>6, <1>7, <1>8, <1>9 DEF Step

\* A transaction that goes through appends at the next free id.
LEMMA EntryIsNext ==
  ASSUME TypeOK, HistoryIds, NEW r \in Request, pc[r] = "commit",
         NEW h \in Handle, h = req[r].id, Exists(h),
         existing[r].nextId \notin DOMAIN history[h]
  PROVE  existing[r].nextId = NextHistoryId(history[h])
<1>1. existing[r].nextId \in Nat
  BY DEF TypeOK, SnapshotRecord
<1>2. /\ NextHistoryId(history[h]) \in Nat
      /\ DOMAIN history[h] = 0..(NextHistoryId(history[h]) - 1)
      /\ existing[r].nextId <= NextHistoryId(history[h])
  BY DEF HistoryIds
<1>. QED
  BY <1>1, <1>2

\* Every step keeps history ids contiguous.
LEMMA HistoryIdsStep ==
  ASSUME TypeOK, HistoryIds, Handles, \A q \in Request : Local(q),
         NEW r \in Request, Step(r)
  PROVE  HistoryIds'
<1> USE DEF TypeOK
<1>0. Local(r)
  OBVIOUS
<1>1. ASSUME NEW h \in Handle
      PROVE  /\ NextHistoryId(history'[h]) \in Nat
             /\ DOMAIN history'[h] = 0..(NextHistoryId(history'[h]) - 1)
             /\ \/ NextHistoryId(history'[h]) >= NextHistoryId(history[h])
                \/ InsertComplete(r) /\ h = fresh[r]
                \/ item'[h] = NoRow
  <2> DEFINE n == NextHistoryId(history[h])
  <2>0. n \in Nat /\ DOMAIN history[h] = 0..(n - 1)
    BY DEF HistoryIds
  <2>1. CASE history'[h] = history[h]
    BY <2>0, <2>1
  <2>2. CASE /\ pc[r] = "commit" /\ h = req[r].id /\ Exists(h)
             /\ existing[r].nextId \notin DOMAIN history[h]
             /\ history'[h] =
                  AddEntry(history[h], existing[r].nextId, req[r].content)
    <3>1. existing[r].nextId = n
      BY <2>2, EntryIsNext
    <3>2. DOMAIN history'[h] = DOMAIN history[h] \cup {n}
      BY <2>2, <3>1 DEF AddEntry
    <3> HIDE DEF n
    <3>3. DOMAIN history'[h] = 0..((n + 1) - 1) /\ n + 1 \in Nat
      BY <2>0, <3>2
    <3>4. NextHistoryId(history'[h]) = n + 1
      BY <3>3, NextIdOfInterval
    <3>5. NextHistoryId(history'[h]) >= n
      BY <2>0, <3>4
    <3>. QED
      BY <3>3, <3>4, <3>5 DEF n
  <2>3. CASE /\ InsertComplete(r) /\ h = fresh[r]
             /\ \E c \in Content : history'[h] = [i \in {0} |-> c]
    <3>1. DOMAIN history'[h] = 0..(1 - 1)
      BY <2>3
    <3>2. NextHistoryId(history'[h]) = 1
      BY <3>1, NextIdOfInterval
    <3>3. /\ NextHistoryId(history'[h]) \in Nat
          /\ DOMAIN history'[h] = 0..(NextHistoryId(history'[h]) - 1)
      BY <3>1, <3>2
    <3>. QED
      BY <2>3, <3>3
  <2>4. CASE item'[h] = NoRow /\ history'[h] = NoHistory
    <3>1. DOMAIN history'[h] = 0..(0 - 1)
      BY <2>4 DEF NoHistory
    <3>2. NextHistoryId(history'[h]) = 0
      BY <3>1, NextIdOfInterval
    <3>3. /\ NextHistoryId(history'[h]) \in Nat
          /\ DOMAIN history'[h] = 0..(NextHistoryId(history'[h]) - 1)
      BY <3>1, <3>2
    <3>. QED
      BY <2>4, <3>3
  <2>. QED
    BY <1>0, <2>1, <2>2, <2>3, <2>4, HistoryRowStep
<1>2. ASSUME NEW q \in Request, pc'[q] = "commit", Exists(req[q].id)'
      PROVE  existing'[q].nextId <= NextHistoryId(history'[req'[q].id])
  <2>1. CASE q = r
    <3>1. RepoFetch(r)
      BY <1>2, <2>1, CommitStep
    <3>2. req'[r].id = req[r].id
      BY <3>1 DEF RepoFetch, ReqRecord
    <3>3. existing'[r] = Snapshot(req[r].id)
      BY <1>2, <2>1, <3>1 DEF RepoFetch, Goto
    <3>4. existing'[r].nextId = NextHistoryId(history[req[r].id])
      BY <3>3 DEF Snapshot
    <3>5. history' = history /\ req[r].id \in Handle
      BY <3>1, <1>0 DEF RepoFetch, tables, Local
    <3>6. NextHistoryId(history[req[r].id]) \in Nat
      BY <3>5 DEF HistoryIds
    <3>. QED
      BY <2>1, <3>2, <3>4, <3>5, <3>6
  <2>2. CASE q # r
    <3> DEFINE h == req[q].id
    <3>1. pc[q] = "commit" /\ req'[q] = req[q] /\ existing'[q] = existing[q]
      BY <1>2, <2>2, LocalsFrame
    <3>2. h \in Handle /\ item'[h].kind # "absent"
      BY <1>2, <3>1 DEF Exists
    <3>3. NoRow.kind = "absent"
      BY DEF NoRow, NewRow
    <3>4. InsertSeed(r) \/ InsertComplete(r) => h # fresh[r]
      BY DEF InsertSeed, InsertComplete, Handles
    <3>5. item[h].kind # "absent"
      BY <1>0, <3>2, <3>3, <3>4, RowStep
    <3>6. existing[q].nextId <= NextHistoryId(history[h])
      BY <3>1, <3>2, <3>5 DEF HistoryIds, Exists
    <3>7. NextHistoryId(history'[h]) >= NextHistoryId(history[h])
      BY <1>1, <3>2, <3>3, <3>4
    <3>8. /\ existing[q].nextId \in Nat /\ NextHistoryId(history[h]) \in Nat
          /\ NextHistoryId(history'[h]) \in Nat
      BY <1>1, <3>2 DEF SnapshotRecord, HistoryIds
    <3> DEFINE a == existing[q].nextId
               b == NextHistoryId(history[h])
               d == NextHistoryId(history'[h])
    <3>9. a <= b /\ d >= b /\ a \in Nat /\ b \in Nat /\ d \in Nat
      BY <3>6, <3>7, <3>8
    <3> HIDE DEF a, b, d
    <3>10. a <= d
      BY <3>9
    <3>. QED
      BY <3>1, <3>10 DEF a, d
  <2>. QED
    BY <2>1, <2>2
<1>. QED
  BY <1>1, <1>2 DEF HistoryIds

\* Every step keeps the lock flag in step with the lock events.
LEMMA LockTrailStep ==
  ASSUME TypeOK, LockTrail, NEW r \in Request, Local(r), Step(r)
  PROVE  LockTrail'
<1> USE DEF TypeOK
<1>1. CASE SetLocked(r)
  <2> DEFINE h == req[r].id
             new == Append(lockEvents[h], LockEvent(r))
  <2>2. CASE ~Exists(h)
    <3>1. locked' = locked /\ lockEvents' = lockEvents
      BY <1>1, <2>2 DEF SetLocked
    <3>. QED
      BY <3>1 DEF LockTrail
  <2>3. CASE Exists(h)
    <3>1. /\ h \in Handle
          /\ locked' = [locked EXCEPT ![h] = (req[r].op = "lock")]
          /\ lockEvents' = [lockEvents EXCEPT ![h] = new]
      BY <1>1, <2>3 DEF SetLocked, Exists
    <3>2. LockEvent(r) \in {"LOCK", "UNLOCK"} /\ lockEvents[h] \in Seq({"LOCK", "UNLOCK"})
      BY <3>1 DEF LockEvent
    <3>3. new # <<>> /\ new[Len(new)] = LockEvent(r)
      BY <3>2, AppendFacts
    <3>4. LockEvent(r) = "LOCK" <=> req[r].op = "lock"
      BY DEF LockEvent
    <3> HIDE DEF h, new
    <3>5. ASSUME NEW g \in Handle
          PROVE  locked'[g] <=> /\ lockEvents'[g] # <<>>
                                /\ lockEvents'[g][Len(lockEvents'[g])] = "LOCK"
      <4>1. CASE g = h
        <5>1. locked'[g] = (req[r].op = "lock") /\ lockEvents'[g] = new
          BY <3>1, <4>1
        <5>. QED
          BY <3>3, <3>4, <5>1
      <4>2. CASE g # h
        <5>1. locked'[g] = locked[g] /\ lockEvents'[g] = lockEvents[g]
          BY <3>1, <4>2
        <5>. QED
          BY <5>1 DEF LockTrail
      <4>. QED
        BY <4>1, <4>2
    <3>. QED
      BY <3>5 DEF LockTrail
  <2>. QED
    BY <2>2, <2>3
<1>2. CASE Delete(r)
  <2>1. PICK h \in Handle : /\ locked' = [locked EXCEPT ![h] = FALSE]
                            /\ lockEvents' = [lockEvents EXCEPT ![h] = <<>>]
    BY <1>2 DEF Delete
  <2>. QED
    BY <2>1 DEF LockTrail
<1>3. CASE ~SetLocked(r) /\ ~Delete(r)
  BY <1>3, LockEventsFrame DEF LockTrail
<1>. QED
  BY <1>1, <1>2, <1>3

\* What a step can do to the lock events of one item.
LEMMA LockEventsRowStep ==
  ASSUME TypeOK, NEW r \in Request, Step(r), NEW h \in Handle
  PROVE  \/ lockEvents'[h] = lockEvents[h]
         \/ \E e \in {"LOCK", "UNLOCK"} : lockEvents'[h] = Append(lockEvents[h], e)
         \/ item'[h] = NoRow
<1> USE DEF TypeOK
<1>1. CASE SetLocked(r)
  <2>1. LockEvent(r) \in {"LOCK", "UNLOCK"}
    BY DEF LockEvent
  <2>2. \/ lockEvents' = lockEvents
        \/ lockEvents' = [lockEvents EXCEPT ![req[r].id] = Append(@, LockEvent(r))]
    BY <1>1 DEF SetLocked
  <2>. QED
    BY <2>1, <2>2
<1>2. CASE Delete(r)
  BY <1>2 DEF Delete
<1>. QED
  BY <1>1, <1>2, LockEventsFrame

\* A request gets past its lock check by Authorise, and stays there by
\* RepoFetch.
LEMMA CheckedStep ==
  ASSUME TypeOK, NEW r \in Request, Step(r), pc'[r] \in {"repoFetch", "commit"}
  PROVE  Authorise(r) \/ RepoFetch(r)
<1> USE DEF TypeOK, Goto
<1>1. ~(BeginUpdate(r) \/ BeginRevert(r) \/ BeginVersion(r))
  BY DEF BeginUpdate, BeginRevert, BeginVersion, Fetch
<1>2. ~BeginRegister(r)
  BY DEF BeginRegister
<1>3. ~BeginLock(r)
  BY DEF BeginLock
<1>4. ~Delete(r)
  <2>1. Delete(r) => pc'[r] = "done"
    BY DEF Delete
  <2>. QED
    BY <2>1
<1>6. ~MintHandle(r) /\ ~Commit(r) /\ ~InsertSeed(r) /\ ~InsertComplete(r)
  BY DEF MintHandle, Commit, InsertSeed, InsertComplete
<1>7. ~RefreshRead(r) /\ ~RefreshWrite(r)
  BY DEF RefreshRead, RefreshWrite, AfterRefresh
<1>8. ~EnsureSidecars(r) /\ ~LinkNext(r)
  BY DEF EnsureSidecars, AfterSidecars, LinkNext
<1>9. ~SubmitActivity(r) /\ ~LinkSession(r) /\ ~SetLocked(r) /\ ~Fail(r)
  BY DEF SubmitActivity, LinkSession, SetLocked, Fail
<1>. QED
  BY <1>1, <1>2, <1>3, <1>4, <1>6, <1>7, <1>8, <1>9 DEF Step

\* Every step keeps what a checked request saw of the lock.
LEMMA LockChecksStep ==
  ASSUME TypeOK, LockTrail, LockChecks, Handles, \A q \in Request : Local(q),
         NEW r \in Request, Step(r)
  PROVE  LockChecks'
<1> USE DEF TypeOK
<1>0. Local(r) /\ NoRow.kind = "absent"
  BY DEF NoRow, NewRow
<1> SUFFICES ASSUME NEW q \in Request, pc'[q] \in {"repoFetch", "commit"},
                    Exists(req[q].id)'
             PROVE  /\ epoch'[q] <= Len(lockEvents'[req'[q].id])
                    /\ \/ epoch'[q] = 0
                       \/ lockEvents'[req'[q].id][epoch'[q]] # "LOCK"
  BY DEF LockChecks
<1>1. CASE q = r /\ Authorise(r)
  <2> DEFINE h == req[r].id
  <2>1. /\ pc[r] = "authorise" /\ req' = req /\ lockEvents' = lockEvents
        /\ item' = item
    BY <1>1 DEF Authorise, tables
  <2>2. epoch'[r] = Len(lockEvents[h]) /\ ~locked[h]
    BY <1>1 DEF Authorise, Goto, CheckNotLocked
  <2>3. h \in Handle
    BY <1>0, <2>1 DEF Local
  <2>4. lockEvents[h] = <<>> \/ lockEvents[h][Len(lockEvents[h])] # "LOCK"
    BY <2>2, <2>3 DEF LockTrail
  <2>5. Len(lockEvents[h]) \in Nat /\ (lockEvents[h] = <<>> => Len(lockEvents[h]) = 0)
    BY <2>3
  <2>. QED
    BY <1>1, <2>1, <2>2, <2>4, <2>5
<1>2. CASE ~(q = r /\ Authorise(r))
  <2> DEFINE h == req[q].id
             s == lockEvents[h]
             t == lockEvents'[h]
             n == epoch[q]
  <2>1. /\ pc[q] \in {"repoFetch", "commit"} /\ req'[q].id = h /\ epoch'[q] = n
    <3>1. CASE q = r
      <4>1. RepoFetch(r)
        BY <1>2, <3>1, CheckedStep
      <4>. QED
        BY <3>1, <4>1 DEF RepoFetch, ReqRecord
    <3>2. CASE q # r
      BY <3>2, LocalsFrame
    <3>. QED
      BY <3>1, <3>2
  <2>2. h \in Handle /\ item'[h].kind # "absent"
    BY <2>1 DEF Exists
  <2>3. InsertSeed(r) \/ InsertComplete(r) => h # fresh[r]
    BY DEF InsertSeed, InsertComplete, Handles
  <2>4. item[h].kind # "absent"
    BY <1>0, <2>2, <2>3, RowStep
  <2>5. n <= Len(s) /\ (n = 0 \/ s[n] # "LOCK")
    BY <2>1, <2>2, <2>4 DEF LockChecks, Exists
  <2>6. n \in Nat /\ s \in Seq({"LOCK", "UNLOCK"})
    BY <2>2
  <2>7. t = s \/ \E e \in {"LOCK", "UNLOCK"} : t = Append(s, e)
    BY <1>0, <2>2, LockEventsRowStep
  <2> HIDE DEF s, t, n
  <2>8. n <= Len(t) /\ (n = 0 \/ t[n] # "LOCK")
    <3>1. CASE t = s
      BY <2>5, <3>1
    <3>2. CASE \E e \in {"LOCK", "UNLOCK"} : t = Append(s, e)
      <4>1. PICK e \in {"LOCK", "UNLOCK"} : t = Append(s, e)
        BY <3>2
      <4>2. Len(t) = Len(s) + 1 /\ \A i \in 1..Len(s) : t[i] = s[i]
        BY <2>6, <4>1, AppendFacts
      <4>3. Len(s) \in Nat
        BY <2>6
      <4>. QED
        BY <2>5, <2>6, <4>2, <4>3
    <3>. QED
      BY <2>7, <3>1, <3>2
  <2>. QED
    BY <2>1, <2>8 DEF s, t, n
<1>. QED
  BY <1>1, <1>2

-----------------------------------------------------------------------------
(* The invariant, and what follows from it.                                *)

\* Every step of a request keeps the invariant.
LEMMA StepInv ==
  ASSUME Inv, NEW r \in Request, Step(r)
  PROVE  Inv'
<1>1. /\ TypeOK /\ Handles /\ HistoryIds /\ Versions /\ VersionLineage
      /\ LockTrail /\ LockChecks /\ Local(r) /\ \A q \in Request : Local(q)
  BY DEF Inv
<1>2. TypeOK'
  BY <1>1, TypeStep DEF HistoryIds, NextIds
<1>3. (\A q \in Request : Local(q))'
  BY <1>1, LocalStep
<1>4. Handles' /\ HistoryIds'
  BY <1>1, HandlesStep, HistoryIdsStep
<1>5. Versions' /\ VersionLineage'
  BY <1>1, VersionsStep, LineageStep
<1>6. LockTrail' /\ LockChecks'
  BY <1>1, LockTrailStep, LockChecksStep
<1>. QED
  BY <1>2, <1>3, <1>4, <1>5, <1>6 DEF Inv

\* A step that changes nothing keeps it too.
LEMMA StutterInv ==
  ASSUME Inv, UNCHANGED vars
  PROVE  Inv'
<1> USE DEF vars, tables, locals
<1>1. TypeOK'
  BY DEF Inv, TypeOK
<1>2. (\A q \in Request : Local(q))'
  BY DEF Inv, Local, Written
<1>3. Handles'
  BY DEF Inv, Handles, Exists
<1>4. HistoryIds'
  BY DEF Inv, HistoryIds, Exists
<1>5. Versions' /\ VersionLineage'
  BY DEF Inv, Versions, VersionLineage, Exists, VersionNumber
<1>6. LockTrail' /\ LockChecks'
  BY DEF Inv, LockTrail, LockChecks, Exists
<1>. QED
  BY <1>1, <1>2, <1>3, <1>4, <1>5, <1>6 DEF Inv

\* Inv is an invariant.
THEOREM Invariance == Spec => []Inv
<1>1. Inv /\ [Next]_vars => Inv'
  BY StepInv, StutterInv DEF Next, Finished
<1>. QED
  BY <1>1, InitInv, PTL DEF Spec

\* Every table and local keeps its type: in particular no handle beyond the
\* sequence is ever used.
THEOREM TypeCorrectness == Spec => []TypeOK
<1>1. Inv => TypeOK
  BY DEF Inv
<1>. QED
  BY <1>1, Invariance, PTL

\* History ids never have a gap, whatever updates and reverts overlap.
THEOREM HistoryHasNoGap == Spec => []HistoryContiguous
<1>1. Inv => HistoryContiguous
  <2> SUFFICES ASSUME Inv, NEW h \in Handle, NEW i \in DOMAIN history[h]
               PROVE  0..i \subseteq DOMAIN history[h]
    BY DEF HistoryContiguous
  <2>1. /\ NextHistoryId(history[h]) \in Nat
        /\ DOMAIN history[h] = 0..(NextHistoryId(history[h]) - 1)
    BY DEF Inv, HistoryIds
  <2>. QED
    BY <2>1
<1>. QED
  BY <1>1, Invariance, PTL

\* A next version and its previous version name each other and are numbered one
\* after the other, whatever version requests overlap.
THEOREM VersionsLineUp == Spec => []VersionLineage
<1>1. Inv => VersionLineage
  BY DEF Inv
<1>. QED
  BY <1>1, Invariance, PTL

\* The lock flag agrees with the lock history.
THEOREM LockFlagHasATrail == Spec => []LockTrail
<1>1. Inv => LockTrail
  BY DEF Inv
<1>. QED
  BY <1>1, Invariance, PTL

\* An item that r inserts was not there before.
LEMMA InsertIsNew ==
  ASSUME Inv, NEW r \in Request, InsertSeed(r) \/ InsertComplete(r)
  PROVE  ~Exists(fresh[r])
BY DEF Inv, Handles, InsertSeed, InsertComplete

\* A history entry, once written, stays as it is while its item exists.
THEOREM HistoryIsAppendOnly == Spec => HistoryAppendOnly
<1>1. ASSUME Inv, [Next]_vars, NEW h \in Handle, Exists(h), Exists(h)'
      PROVE  \A i \in DOMAIN history[h] :
               i \in DOMAIN history'[h] /\ history'[h][i] = history[h][i]
  <2>1. CASE UNCHANGED vars
    BY <2>1 DEF vars, tables
  <2>2. ASSUME NEW r \in Request, Step(r)
        PROVE  \A i \in DOMAIN history[h] :
                 i \in DOMAIN history'[h] /\ history'[h][i] = history[h][i]
    <3>1. TypeOK /\ Local(r)
      BY <1>1 DEF Inv
    <3>2. item'[h] # NoRow
      BY <1>1 DEF Exists, NoRow, NewRow
    <3>3. InsertComplete(r) => h # fresh[r]
      BY <1>1, InsertIsNew
    <3>4. \/ history'[h] = history[h]
          \/ /\ existing[r].nextId \notin DOMAIN history[h]
             /\ history'[h] =
                  AddEntry(history[h], existing[r].nextId, req[r].content)
      BY <2>2, <3>1, <3>2, <3>3, HistoryRowStep
    <3>. QED
      BY <3>4 DEF AddEntry
  <2>. QED
    BY <1>1, <2>1, <2>2 DEF Next, Finished
<1>2. Inv /\ [Next]_vars =>
        [\A h \in Handle : Exists(h) /\ Exists(h)' =>
           \A i \in DOMAIN history[h] :
             i \in DOMAIN history'[h] /\ history'[h][i] = history[h][i]]_vars
  BY <1>1
<1>. QED
  BY <1>2, Invariance, PTL DEF Spec, HistoryAppendOnly

\* What a step can do to one satellite.
LEMMA ContentRowStep ==
  ASSUME TypeOK, NEW r \in Request, Local(r), Step(r), NEW h \in Handle
  PROVE  \/ content'[h] = content[h]
         \/ /\ Commit(r) /\ pc[r] = "commit" /\ ~CommitConflicts(r)
            /\ h = req[r].id
         \/ InsertComplete(r) /\ h = fresh[r]
         \/ Delete(r) /\ item'[h] = NoRow
<1> USE DEF TypeOK
<1>1. CASE Commit(r)
  <2>1. content' = content \/
        /\ ~CommitConflicts(r)
        /\ content' = [content EXCEPT ![req[r].id] = req[r].content]
    BY <1>1 DEF Commit
  <2>2. pc[r] = "commit"
    BY <1>1 DEF Commit
  <2>. QED
    BY <1>1, <2>1, <2>2
<1>2. CASE InsertComplete(r)
  <2> DEFINE c == IF req[r].op = "version" THEN stored[r].content
                  ELSE req[r].content
  <2>1. content' = [content EXCEPT ![fresh[r]] = c]
    BY <1>2 DEF InsertComplete
  <2> HIDE DEF c
  <2>. QED
    BY <1>2, <2>1
<1>3. CASE Delete(r)
  <2>1. content'[h] = content[h] \/ item'[h] = NoRow
    BY <1>3 DEF Delete
  <2>. QED
    BY <1>3, <2>1
<1>. QED
  BY <1>1, <1>2, <1>3, ContentFrame

\* The domain info of a locked item changes only through a request that passed
\* its lock check before the item was locked.
THEOREM WritesRespectEarlierLocks == Spec => LockedWriteOverlappedTheLock
<1>1. ASSUME Inv, [Next]_vars, NEW h \in Handle, Exists(h), Exists(h)', locked[h],
             content'[h] # content[h] \/ history'[h] # history[h]
      PROVE  \E r \in Request : /\ pc[r] = "commit" /\ pc'[r] # "commit"
                                /\ req[r].id = h
                                /\ epoch[r] < Len(lockEvents[h])
  <2>1. ~UNCHANGED vars
    BY <1>1 DEF vars, tables
  <2>2. PICK r \in Request : Step(r)
    BY <1>1, <2>1 DEF Next, Finished
  <2>3. TypeOK /\ Local(r)
    BY <1>1 DEF Inv
  <2>4. item'[h] # NoRow
    BY <1>1 DEF Exists, NoRow, NewRow
  <2>5. InsertComplete(r) => h # fresh[r]
    BY <1>1, InsertIsNew
  <2>6. Commit(r) /\ pc[r] = "commit" /\ h = req[r].id
    BY <1>1, <2>2, <2>3, <2>4, <2>5, ContentRowStep, HistoryRowStep
  <2>7. pc'[r] # "commit"
    BY <2>3, <2>6 DEF Commit, Goto, TypeOK
  <2>8. /\ epoch[r] <= Len(lockEvents[h])
        /\ epoch[r] = 0 \/ lockEvents[h][epoch[r]] # "LOCK"
    BY <1>1, <2>6 DEF Inv, LockChecks
  <2>9. lockEvents[h] # <<>> /\ lockEvents[h][Len(lockEvents[h])] = "LOCK"
    BY <1>1 DEF Inv, LockTrail
  <2>10. /\ epoch[r] \in Nat /\ lockEvents[h] \in Seq({"LOCK", "UNLOCK"})
         /\ Len(lockEvents[h]) \in Nat
    BY <2>3 DEF TypeOK
  <2>11. Len(lockEvents[h]) # 0
    BY <2>9, <2>10
  <2>12. epoch[r] < Len(lockEvents[h])
    BY <2>8, <2>9, <2>10, <2>11
  <2>. QED
    BY <2>6, <2>7, <2>12
<1>2. Inv /\ [Next]_vars =>
        [\A h \in Handle :
           /\ Exists(h) /\ Exists(h)' /\ locked[h]
           /\ content'[h] # content[h] \/ history'[h] # history[h]
           => \E r \in Request : /\ pc[r] = "commit" /\ pc'[r] # "commit"
                                 /\ req[r].id = h
                                 /\ epoch[r] < Len(lockEvents[h])]_vars
  BY <1>1
<1>. QED
  BY <1>2, Invariance, PTL DEF Spec, LockedWriteOverlappedTheLock

-----------------------------------------------------------------------------
(* No lost update.                                                         *)

\* The initial item shows its newest entry.
LEMMA NewestEntryInit == Init => ContentIsNewestEntry
<1> SUFFICES ASSUME Init, NEW h \in Handle
             PROVE  IF item[h].kind = "complete"
                    THEN /\ DOMAIN history[h] # {}
                         /\ content[h] = history[h][Max(DOMAIN history[h])]
                    ELSE content[h] = NoContent /\ DOMAIN history[h] = {}
  BY DEF ContentIsNewestEntry
<1>1. PICK kind \in {"absent", "seed", "complete"}, c \in Content :
        InitTables(kind, c)
  BY DEF Init
<1>2. CASE h = 1 /\ kind = "complete"
  <2>1. history[h] = [i \in {0} |-> c] /\ content[h] = c
    BY <1>1, <1>2 DEF InitTables
  <2>2. Max({0}) = 0
    BY MaxOfZero
  <2>3. item[h].kind = "complete"
    BY <1>1, <1>2 DEF InitTables, FirstItem, NewRow
  <2>. QED
    BY <2>1, <2>2, <2>3
<1>3. CASE ~(h = 1 /\ kind = "complete")
  <2>1. history[h] = NoHistory /\ content[h] = NoContent
    BY <1>1, <1>3 DEF InitTables
  <2>2. item[h].kind # "complete"
    BY <1>1, <1>3 DEF InitTables, FirstItem, NewRow, NoRow
  <2>. QED
    BY <2>1, <2>2 DEF NoHistory
<1>. QED
  BY <1>2, <1>3

\* Only a commit or an insertion makes an item complete.
LEMMA KindStep ==
  ASSUME TypeOK, NEW r \in Request, Step(r), NEW h \in Handle,
         ~Commit(r), ~InsertSeed(r), ~InsertComplete(r), ~Delete(r)
  PROVE  item'[h].kind = item[h].kind
<1> USE DEF TypeOK
<1>0. item[h] \in ItemRow
  OBVIOUS
<1>1. CASE RefreshWrite(r)
  <2> DEFINE w == Written(r)
             c == existing[r].content
  <2>1. item' = item \/ item' = [item EXCEPT ![w].search = c]
    BY <1>1 DEF RefreshWrite, SearchDocument
  <2> HIDE DEF w, c
  <2>2. item'[h] = item[h] \/ item'[h] = [item[h] EXCEPT !.search = c]
    BY <2>1
  <2>. QED
    BY <1>0, <2>2 DEF ItemRow
<1>2. CASE LinkNext(r)
  <2> DEFINE w == req[r].id
             k == fresh[r]
  <2>1. item' = item \/ item' = [item EXCEPT ![w].next = k]
    BY <1>2 DEF LinkNext
  <2> HIDE DEF w, k
  <2>2. item'[h] = item[h] \/ item'[h] = [item[h] EXCEPT !.next = k]
    BY <2>1
  <2>. QED
    BY <1>0, <2>2 DEF ItemRow
<1>3. CASE LinkSession(r)
  <2> DEFINE w == Written(r)
             s == session[r]
  <2>1. \/ item' = item \/ item' = [item EXCEPT ![w].versionLink = s]
        \/ item' = [item EXCEPT ![w].createLink = s]
    BY <1>3 DEF LinkSession
  <2> HIDE DEF w, s
  <2>2. \/ item'[h] = item[h] \/ item'[h] = [item[h] EXCEPT !.versionLink = s]
        \/ item'[h] = [item[h] EXCEPT !.createLink = s]
    BY <2>1
  <2>. QED
    BY <1>0, <2>2 DEF ItemRow
<1>. QED
  BY <1>1, <1>2, <1>3, ItemFrame

\* While nobody excludes the history update, every step keeps the domain info
\* equal to the newest entry.
LEMMA NewestEntryStep ==
  ASSUME Inv, ContentIsNewestEntry, NEW r \in Request, Step(r)
  PROVE  ContentIsNewestEntry'
<1> SUFFICES ASSUME "silentUpdate" \notin Ops, NEW h \in Handle
             PROVE  IF item'[h].kind = "complete"
                    THEN /\ DOMAIN history'[h] # {}
                         /\ content'[h] = history'[h][Max(DOMAIN history'[h])]
                    ELSE content'[h] = NoContent /\ DOMAIN history'[h] = {}
  BY DEF ContentIsNewestEntry
<1>1. TypeOK /\ Local(r) /\ HistoryIds
  BY DEF Inv
<1> USE DEF TypeOK
<1>2. IF item[h].kind = "complete"
      THEN /\ DOMAIN history[h] # {}
           /\ content[h] = history[h][Max(DOMAIN history[h])]
      ELSE content[h] = NoContent /\ DOMAIN history[h] = {}
  BY DEF ContentIsNewestEntry
<1>3. CASE Commit(r) /\ ~CommitConflicts(r) /\ h = req[r].id
  <2> DEFINE n == NextHistoryId(history[h])
             c == req[r].content
  <2>1. req[r].op # "silentUpdate" /\ pc[r] = "commit"
    BY <1>1, <1>3 DEF Commit, Local
  <2>2. /\ Exists(h) /\ existing[r].nextId \notin DOMAIN history[h]
    BY <1>3, <2>1 DEF CommitConflicts
  <2>3. existing[r].nextId = n
    BY <1>1, <1>3, <2>1, <2>2, EntryIsNext
  <2>4. /\ item'[h].kind = "complete" /\ content'[h] = c
        /\ history'[h] = AddEntry(history[h], n, c)
    <3>1. /\ item' = [item EXCEPT ![h].kind = "complete"]
          /\ content' = [content EXCEPT ![h] = c]
          /\ history' = [history EXCEPT ![h] = AddEntry(@, n, c)]
      BY <1>3, <2>1, <2>3 DEF Commit
    <3>2. item'[h] = [item[h] EXCEPT !.kind = "complete"] /\ item[h] \in ItemRow
      BY <1>1, <3>1
    <3>3. item'[h].kind = "complete"
      BY <3>2 DEF ItemRow
    <3>. QED
      BY <1>1, <3>1, <3>3
  <2>5. n \in Nat /\ DOMAIN history[h] = 0..(n - 1)
    BY <1>1 DEF HistoryIds
  <2> HIDE DEF n, c
  <2>6. /\ DOMAIN AddEntry(history[h], n, c) = 0..((n + 1) - 1)
        /\ AddEntry(history[h], n, c)[n] = c
    BY <2>5 DEF AddEntry
  <2>7. Max(0..((n + 1) - 1)) = (n + 1) - 1
    BY <2>5, MaxOfInterval
  <2>8. (n + 1) - 1 = n /\ 0..((n + 1) - 1) # {}
    BY <2>5
  <2>. QED
    BY <2>4, <2>6, <2>7, <2>8
<1>4. CASE Commit(r) /\ (CommitConflicts(r) \/ h # req[r].id)
  <2>1. item'[h] = item[h] /\ content'[h] = content[h] /\ history'[h] = history[h]
    <3>1. CASE CommitConflicts(r)
      BY <1>4, <3>1 DEF Commit
    <3>2. CASE ~CommitConflicts(r) /\ h # req[r].id
      BY <1>1, <1>4, <3>2 DEF Commit
    <3>. QED
      BY <1>4, <3>1, <3>2
  <2>. QED
    BY <1>2, <2>1
<1>5. CASE InsertSeed(r)
  <2>1. ~Exists(fresh[r]) /\ content' = content /\ history' = history
    BY <1>5, InsertIsNew DEF InsertSeed
  <2>2. CASE h = fresh[r]
    <3>1. item'[h].kind = "seed" /\ item[h].kind = "absent"
      BY <1>1, <1>5, <2>1, <2>2 DEF InsertSeed, NewRow, Exists
    <3>. QED
      BY <1>2, <2>1, <3>1
  <2>3. CASE h # fresh[r]
    <3>1. item'[h] = item[h]
      BY <1>1, <1>5, <2>3 DEF InsertSeed
    <3>. QED
      BY <1>2, <2>1, <3>1
  <2>. QED
    BY <2>2, <2>3
<1>6. CASE InsertComplete(r)
  <2> DEFINE c == IF req[r].op = "version" THEN stored[r].content
                  ELSE req[r].content
             f == [i \in {0} |-> c]
  <2>1. content' = [content EXCEPT ![fresh[r]] = c]
        /\ history' = [history EXCEPT ![fresh[r]] = f]
    BY <1>6 DEF InsertComplete
  <2>2. CASE h = fresh[r]
    <3>1. item'[h].kind = "complete"
      BY <1>1, <1>6, <2>2 DEF InsertComplete, NewRow
    <3>2. content'[h] = c /\ history'[h] = f
      BY <1>1, <2>1, <2>2
    <3>3. DOMAIN f = {0} /\ f[0] = c
      OBVIOUS
    <3> HIDE DEF c, f
    <3>. QED
      BY <3>1, <3>2, <3>3, MaxOfZero
  <2>3. CASE h # fresh[r]
    <3>1. item'[h] = item[h]
      BY <1>1, <1>6, <2>3 DEF InsertComplete
    <3>2. content'[h] = content[h] /\ history'[h] = history[h]
      BY <1>1, <2>1, <2>3
    <3>. QED
      BY <1>2, <3>1, <3>2
  <2>. QED
    BY <2>2, <2>3
<1>7. CASE Delete(r)
  <2>1. \/ item'[h] = item[h] /\ content'[h] = content[h] /\ history'[h] = history[h]
        \/ item'[h] = NoRow /\ content'[h] = NoContent /\ history'[h] = NoHistory
    BY <1>1, <1>7 DEF Delete
  <2>2. NoRow.kind = "absent" /\ DOMAIN NoHistory = {}
    BY DEF NoRow, NewRow, NoHistory
  <2>. QED
    BY <1>2, <2>1, <2>2
<1>8. CASE ~Commit(r) /\ ~InsertSeed(r) /\ ~InsertComplete(r) /\ ~Delete(r)
  <2>1. item'[h].kind = item[h].kind
    BY <1>1, <1>8, KindStep
  <2>2. content'[h] = content[h] /\ history'[h] = history[h]
    BY <1>8, ContentFrame
  <2>. QED
    BY <1>2, <2>1, <2>2
<1>. QED
  BY <1>3, <1>4, <1>5, <1>6, <1>7, <1>8

\* While nobody uses exclude_history_update, no overlap of updates, reverts
\* and promotions of a seed loses an update: what an item shows is its newest
\* history entry.
THEOREM NoLostUpdate == Spec => []ContentIsNewestEntry
<1>1. Inv /\ ContentIsNewestEntry /\ [Next]_vars => ContentIsNewestEntry'
  <2>1. ASSUME ContentIsNewestEntry, UNCHANGED vars PROVE ContentIsNewestEntry'
    BY <2>1 DEF ContentIsNewestEntry, vars, tables
  <2>. QED
    BY <2>1, NewestEntryStep DEF Next, Finished
<1>. QED
  BY <1>1, NewestEntryInit, Invariance, PTL DEF Spec

\* Histories without a gap, contents that are their newest entries and lock
\* flags that are their last events: the trails of every item agree with it.
THEOREM TrailsTheorem == Spec => []TrailsAgree
BY HistoryHasNoGap, NoLostUpdate, LockFlagHasATrail, PTL DEF TrailsAgree

-----------------------------------------------------------------------------
(* How a request moves.                                                    *)

\* What a request that has not started can do.
LEMMA BeginStep ==
  ASSUME TypeOK, NEW r \in Request, Step(r), pc[r] = "idle"
  PROVE  /\ fresh' = fresh /\ session' = session
         /\ \/ /\ pc'[r] = "authorise" /\ UNCHANGED tables
               /\ Exists(req'[r].id)
               /\ stored'[r].kind = item[req'[r].id].kind
               /\ req'[r].op \in {"update", "silentUpdate", "revert", "version"}
               /\ stored'[r].kind = "complete" => req'[r].reasoned
               /\ req'[r].op = "revert" => DOMAIN history[req'[r].id] # {}
               /\ req'[r].op = "version" => stored'[r].kind = "complete"
            \/ /\ pc'[r] = "mint" /\ UNCHANGED <<tables, stored>>
               /\ req'[r].id = NoHandle /\ req'[r].op \in {"seed", "create"}
            \/ /\ pc'[r] = "setLocked" /\ UNCHANGED <<tables, stored>>
               /\ req'[r].op \in {"lock", "unlock"}
            \/ /\ Delete(r) /\ pc'[r] = "done" /\ stored' = stored
               /\ req'[r].op = "delete"
<1> USE DEF TypeOK, Goto
<1>1. CASE BeginUpdate(r)
  <2>1. PICK h \in Handle, c \in Content, op \in {"update", "silentUpdate"},
             reasoned \in BOOLEAN :
          /\ item[h].kind = "complete" => reasoned
          /\ Fetch(r, Asks(op, h, c, 0, reasoned))
    BY <1>1 DEF BeginUpdate
  <2>2. /\ req'[r].id = h /\ req'[r].op = op /\ req'[r].reasoned = reasoned
        /\ stored'[r].kind = item[h].kind /\ Exists(h)
        /\ pc'[r] = "authorise" /\ UNCHANGED <<tables, fresh, session>>
    BY <2>1 DEF Fetch, Asks, Snapshot
  <2>. QED
    BY <2>1, <2>2
<1>2. CASE BeginRevert(r)
  <2>1. PICK h \in Handle : \E id \in DOMAIN history[h] :
               Fetch(r, Asks("revert", h, NoContent, id, TRUE))
    BY <1>2 DEF BeginRevert
  <2>2. /\ req'[r].id = h /\ req'[r].op = "revert" /\ req'[r].reasoned
        /\ stored'[r].kind = item[h].kind /\ Exists(h)
        /\ pc'[r] = "authorise" /\ UNCHANGED <<tables, fresh, session>>
        /\ DOMAIN history[h] # {}
    BY <2>1 DEF Fetch, Asks, Snapshot
  <2>. QED
    BY <2>2
<1>3. CASE BeginVersion(r)
  <2>1. PICK h \in Handle : /\ item[h].kind = "complete"
                            /\ Fetch(r, Asks("version", h, NoContent, 0, TRUE))
    BY <1>3 DEF BeginVersion
  <2>2. /\ req'[r].id = h /\ req'[r].op = "version" /\ req'[r].reasoned
        /\ stored'[r].kind = item[h].kind /\ Exists(h)
        /\ pc'[r] = "authorise" /\ UNCHANGED <<tables, fresh, session>>
    BY <2>1 DEF Fetch, Asks, Snapshot
  <2>. QED
    BY <2>1, <2>2
<1>4. CASE BeginRegister(r)
  BY <1>4 DEF BeginRegister, Asks
<1>5. CASE BeginLock(r)
  BY <1>5 DEF BeginLock, Asks
<1>6. CASE Delete(r)
  <2>1. req'[r].op = "delete"
    BY <1>6 DEF Delete, Asks
  <2>2. pc'[r] = "done" /\ UNCHANGED <<stored, fresh, session>>
    BY <1>6 DEF Delete
  <2>. QED
    BY <1>6, <2>1, <2>2
<1>7. ~Authorise(r) /\ ~RepoFetch(r) /\ ~Commit(r) /\ ~MintHandle(r)
  BY DEF Authorise, RepoFetch, Commit, MintHandle
<1>8. /\ ~InsertSeed(r) /\ ~InsertComplete(r) /\ ~RefreshRead(r)
      /\ ~RefreshWrite(r) /\ ~EnsureSidecars(r)
  BY DEF InsertSeed, InsertComplete, RefreshRead, RefreshWrite, EnsureSidecars
<1>9. /\ ~LinkNext(r) /\ ~SubmitActivity(r) /\ ~LinkSession(r)
      /\ ~SetLocked(r) /\ ~Fail(r)
  BY DEF LinkNext, SubmitActivity, LinkSession, SetLocked, Fail, InFlight
<1>. QED
  BY <1>1, <1>2, <1>3, <1>4, <1>5, <1>6, <1>7, <1>8, <1>9 DEF Step

\* What a request in flight can do.
LEMMA MoveStep ==
  ASSUME TypeOK, NEW r \in Request, Step(r), pc[r] # "idle"
  PROVE  /\ stored' = stored
         /\ req'[r].id = req[r].id /\ req'[r].op = req[r].op
         /\ req'[r].reasoned = req[r].reasoned
         /\ pc[r] # "mint" => fresh' = fresh
         /\ \/ Fail(r) /\ pc[r] \in InFlight /\ pc'[r] = "failed"
            \/ /\ Authorise(r) /\ pc[r] = "authorise"
               /\ \/ pc'[r] = "refused"
                  \/ pc'[r] = "mint" /\ req[r].op = "version"
                  \/ pc'[r] = "repoFetch" /\ req[r].op # "version"
            \/ /\ RepoFetch(r) /\ pc[r] = "repoFetch"
               /\ pc'[r] \in {"aborted", "commit"}
            \/ /\ Commit(r) /\ pc[r] = "commit"
               /\ pc'[r] = IF CommitConflicts(r) THEN "aborted" ELSE "refreshRead"
            \/ MintHandle(r) /\ pc[r] = "mint" /\ pc'[r] = "insert"
            \/ /\ InsertSeed(r) /\ pc[r] = "insert" /\ pc'[r] = "sidecars"
               /\ req[r].op = "seed"
            \/ /\ InsertComplete(r) /\ pc[r] = "insert" /\ pc'[r] = "refreshRead"
               /\ req[r].op # "seed"
            \/ /\ RefreshRead(r) /\ pc[r] = "refreshRead"
               /\ pc'[r] = IF Exists(Written(r)) THEN "refreshWrite" ELSE "failed"
            \/ /\ RefreshWrite(r) /\ pc[r] = "refreshWrite"
               /\ pc'[r] = IF Exists(Written(r)) THEN AfterRefresh(r) ELSE "failed"
            \/ /\ EnsureSidecars(r) /\ pc[r] = "sidecars"
               /\ pc'[r] = IF Exists(fresh[r]) THEN AfterSidecars(r) ELSE "failed"
            \/ LinkNext(r) /\ pc[r] = "linkNext" /\ pc'[r] = "submit"
            \/ SubmitActivity(r) /\ pc[r] = "submit" /\ pc'[r] = "linkSession"
            \/ LinkSession(r) /\ pc[r] = "linkSession" /\ pc'[r] = "done"
            \/ /\ SetLocked(r) /\ pc[r] = "setLocked"
               /\ pc'[r] \in {"done", "aborted"}
<1> USE DEF TypeOK, Goto
<1>1. CASE Fail(r)
  BY <1>1 DEF Fail
<1>2. CASE Authorise(r)
  BY <1>2 DEF Authorise
<1>3. CASE RepoFetch(r)
  BY <1>3 DEF RepoFetch, ReqRecord
<1>4. CASE Commit(r)
  BY <1>4 DEF Commit
<1>5. CASE MintHandle(r)
  BY <1>5 DEF MintHandle
<1>6. CASE InsertSeed(r) \/ InsertComplete(r)
  BY <1>6 DEF InsertSeed, InsertComplete
<1>7. CASE RefreshRead(r) \/ RefreshWrite(r)
  BY <1>7 DEF RefreshRead, RefreshWrite
<1>8. CASE EnsureSidecars(r)
  BY <1>8 DEF EnsureSidecars
<1>9. CASE LinkNext(r) \/ SubmitActivity(r) \/ LinkSession(r) \/ SetLocked(r)
  BY <1>9 DEF LinkNext, SubmitActivity, LinkSession, SetLocked
<1>10. ~(BeginUpdate(r) \/ BeginRevert(r) \/ BeginVersion(r))
  BY DEF BeginUpdate, BeginRevert, BeginVersion, Fetch
<1>11. ~BeginRegister(r) /\ ~BeginLock(r)
  BY DEF BeginRegister, BeginLock
<1>12. ~Delete(r)
  BY DEF Delete
<1>. QED
  BY <1>1, <1>2, <1>3, <1>4, <1>5, <1>6, <1>7, <1>8, <1>9, <1>10, <1>11, <1>12
  DEF Step

\* What a step can do to a row, in full.
LEMMA RowChange ==
  ASSUME TypeOK, NEW r \in Request, Local(r), Step(r), NEW h \in Handle
  PROVE  \/ item'[h] = item[h]
         \/ /\ Commit(r) /\ ~CommitConflicts(r) /\ h = req[r].id
            /\ item'[h].kind = "complete" /\ item'[h].search = item[h].search
            /\ item'[h].createLink = item[h].createLink
            /\ item'[h].versionLink = item[h].versionLink
         \/ InsertSeed(r) /\ h = fresh[r] /\ item'[h].kind = "seed"
         \/ /\ InsertComplete(r) /\ h = fresh[r]
            /\ item'[h].kind = "complete" /\ item'[h].search = NoContent
         \/ /\ RefreshWrite(r) /\ h = Written(r) /\ Exists(h)
            /\ item'[h].kind = item[h].kind
            /\ item'[h].search = existing[r].content
            /\ item'[h].createLink = item[h].createLink
            /\ item'[h].versionLink = item[h].versionLink
         \/ /\ LinkNext(r) /\ h = req[r].id /\ Exists(h)
            /\ item'[h].kind = item[h].kind /\ item'[h].search = item[h].search
            /\ item'[h].createLink = item[h].createLink
            /\ item'[h].versionLink = item[h].versionLink
         \/ /\ LinkSession(r) /\ h = Written(r) /\ Exists(h)
            /\ item'[h].kind = item[h].kind /\ item'[h].search = item[h].search
            /\ IF req[r].op = "version"
               THEN /\ item'[h].versionLink = session[r]
                    /\ item'[h].createLink = item[h].createLink
               ELSE /\ item'[h].versionLink = item[h].versionLink
                    /\ item'[h].createLink = session[r]
         \/ Delete(r) /\ item'[h] = NoRow
<1> USE DEF TypeOK
<1>0. item[h] \in ItemRow
  OBVIOUS
<1>1. CASE Commit(r)
  <2>1. \/ item'[h] = item[h]
        \/ /\ ~CommitConflicts(r) /\ h = req[r].id
           /\ item'[h] = [item[h] EXCEPT !.kind = "complete"]
    <3>1. CASE CommitConflicts(r)
      BY <1>1, <3>1 DEF Commit
    <3>2. CASE ~CommitConflicts(r)
      <4>1. item' = [item EXCEPT ![req[r].id].kind = "complete"]
        BY <1>1, <3>2 DEF Commit
      <4>. QED
        BY <3>2, <4>1
    <3>. QED
      BY <3>1, <3>2
  <2>. QED
    BY <1>0, <1>1, <2>1 DEF ItemRow
<1>2. CASE InsertSeed(r)
  BY <1>2 DEF InsertSeed, NewRow
<1>3. CASE InsertComplete(r)
  <2>1. h = fresh[r] => /\ item'[h].kind = "complete"
                        /\ item'[h].search = NoContent
    BY <1>3 DEF InsertComplete, NewRow
  <2>2. h # fresh[r] => item'[h] = item[h]
    BY <1>3 DEF InsertComplete
  <2>. QED
    BY <1>3, <2>1, <2>2
<1>4. CASE RefreshWrite(r)
  <2> DEFINE w == Written(r)
             c == existing[r].content
  <2>1. item' = item \/ (Exists(w) /\ item' = [item EXCEPT ![w].search = c])
    BY <1>4 DEF RefreshWrite, SearchDocument
  <2>2. item'[h] = item[h]
        \/ (h = w /\ Exists(w) /\ item'[h] = [item[h] EXCEPT !.search = c])
    <3> HIDE DEF w, c
    <3>. QED
      BY <2>1
  <2>. QED
    BY <1>0, <1>4, <2>2 DEF ItemRow
<1>5. CASE LinkNext(r)
  <2>1. \/ item'[h] = item[h]
        \/ /\ h = req[r].id /\ Exists(h)
           /\ item'[h] = [item[h] EXCEPT !.next = fresh[r]]
    BY <1>5 DEF LinkNext
  <2>. QED
    BY <1>0, <1>5, <2>1 DEF ItemRow
<1>6. CASE LinkSession(r)
  <2> DEFINE w == Written(r)
             s == session[r]
             byVersion == req[r].op = "version"
  <2>1. item' = item
        \/ (Exists(w) /\ item' = IF byVersion
                                 THEN [item EXCEPT ![w].versionLink = s]
                                 ELSE [item EXCEPT ![w].createLink = s])
    BY <1>6 DEF LinkSession
  <2>2. item'[h] = item[h]
        \/ (h = w /\ Exists(w) /\ item'[h] = IF byVersion
                                THEN [item[h] EXCEPT !.versionLink = s]
                                ELSE [item[h] EXCEPT !.createLink = s])
    <3> HIDE DEF w, s, byVersion
    <3>. QED
      BY <2>1
  <2>3. CASE byVersion
    BY <1>0, <1>6, <2>2, <2>3 DEF ItemRow
  <2>4. CASE ~byVersion
    BY <1>0, <1>6, <2>2, <2>4 DEF ItemRow
  <2>. QED
    BY <2>3, <2>4
<1>7. CASE Delete(r)
  BY <1>7 DEF Delete
<1>. QED
  BY <1>1, <1>2, <1>3, <1>4, <1>5, <1>6, <1>7, ItemFrame

\* A complete item stays complete while it is there, and an item that comes
\* to be there was minted by the request that inserts it.
LEMMA CompleteStays ==
  ASSUME Inv, NEW r \in Request, Step(r), NEW h \in Handle
  PROVE  /\ item[h].kind = "complete" =>
              item'[h].kind \in {"complete", "absent"}
         /\ item[h].kind = "absent" /\ item'[h].kind # "absent" =>
              /\ h = fresh[r] /\ pc[r] = "insert"
              /\ InsertSeed(r) \/ InsertComplete(r)
<1>1. TypeOK /\ Local(r)
  BY DEF Inv
<1>2. InsertSeed(r) \/ InsertComplete(r) => ~Exists(fresh[r]) /\ pc[r] = "insert"
  BY InsertIsNew DEF InsertSeed, InsertComplete
<1>3. NoRow.kind = "absent"
  BY DEF NoRow, NewRow
<1>4. Commit(r) /\ ~CommitConflicts(r) => Exists(req[r].id)
  BY DEF CommitConflicts
<1>. QED
  BY <1>1, <1>2, <1>3, <1>4, RowChange DEF Exists

-----------------------------------------------------------------------------
(* The course of a request: what its label says of the seed it found and   *)
(* of the session it submitted.                                            *)

\* The activity a request submits for the item it has written.
Activity(r) ==
  [job |-> IF req[r].op = "version" THEN "REGISTER_VERSION_ACTIVITY"
           ELSE "REGISTER_CREATE_ACTIVITY",
   item |-> Written(r)]

\* A request under way that found a complete item has its reason, a revert
\* always found one, and only requests that found a seed, or inserted an item,
\* come to submit an activity: their own.
Course(r) ==
  /\ pc[r] = "idle" => /\ req[r].op = "none" /\ req[r].id = NoHandle
                       /\ stored[r].kind = "absent"
  /\ pc[r] \in {"authorise", "repoFetch", "commit"} =>
       /\ stored[r].kind \in {"seed", "complete"}
       /\ stored[r].kind = "complete" => req[r].reasoned
       /\ req[r].op \in {"revert", "version"} => stored[r].kind = "complete"
  /\ pc[r] = "setLocked" => req[r].op \in {"lock", "unlock"}
  /\ stored[r].kind = "seed" => pc[r] # "mint" /\ fresh[r] = NoHandle
  /\ pc[r] \in {"insert", "sidecars", "linkNext"} =>
       req[r].op \in {"seed", "create", "version"}
  /\ pc[r] \in {"refreshRead", "refreshWrite", "submit", "linkSession"} =>
       IF fresh[r] = NoHandle THEN req[r].op \in {"update", "silentUpdate", "revert"}
       ELSE req[r].op \in {"create", "version"}
  /\ pc[r] \in {"submit", "linkSession"} /\ fresh[r] = NoHandle =>
       stored[r].kind = "seed"
  /\ pc[r] \notin {"linkSession", "done", "failed"} => session[r] = NoSession
  /\ pc[r] = "linkSession" => /\ session[r] \in DOMAIN sessions
                              /\ sessions[session[r]] = Activity(r)

\* An item without domain info has no history.
SeedsAreEmpty ==
  \A h \in Handle : item[h].kind # "complete" => DOMAIN history[h] = {}

\* Submitting adds one session, and no other step touches the sessions.
LEMMA SessionsGrow ==
  ASSUME Inv, NEW r \in Request, Step(r)
  PROVE  /\ DOMAIN sessions = 1..Len(sessions) /\ Len(sessions) \in Nat
         /\ \A i \in DOMAIN sessions : i \in DOMAIN sessions' /\ sessions'[i] = sessions[i]
         /\ ~SubmitActivity(r) => sessions' = sessions /\ session' = session
         /\ SubmitActivity(r) =>
              /\ DOMAIN sessions' = DOMAIN sessions \cup {Len(sessions) + 1}
              /\ sessions'[Len(sessions) + 1] = Activity(r)
              /\ session' = [session EXCEPT ![r] = Len(sessions) + 1]
<1>1. /\ sessions \in Seq(SessionRecord) /\ Local(r)
  BY DEF Inv, TypeOK
<1>2. CASE SubmitActivity(r)
  <2>1. Written(r) \in Handle
    BY <1>1, <1>2 DEF SubmitActivity, Local
  <2>2. Activity(r) \in SessionRecord
    BY <2>1 DEF SessionRecord, Activity
  <2>3. sessions' = Append(sessions, Activity(r))
    BY <1>2 DEF SubmitActivity, Activity
  <2> DEFINE a == Activity(r)
  <2> HIDE DEF a
  <2>4. /\ Len(sessions') = Len(sessions) + 1 /\ sessions' \in Seq(SessionRecord)
        /\ sessions'[Len(sessions) + 1] = a
        /\ \A i \in 1..Len(sessions) : sessions'[i] = sessions[i]
    BY <1>1, <2>2, <2>3, AppendProperties DEF a
  <2>5. /\ DOMAIN sessions = 1..Len(sessions) /\ Len(sessions) \in Nat
        /\ DOMAIN sessions' = 1..(Len(sessions) + 1)
    BY <1>1, <2>4
  <2>6. session' = [session EXCEPT ![r] = Len(sessions) + 1]
    BY <1>2 DEF SubmitActivity
  <2>. QED
    BY <1>2, <2>4, <2>5, <2>6 DEF a
<1>3. CASE ~SubmitActivity(r)
  BY <1>1, <1>3, SessionsFrame, EpochFrame
<1>. QED
  BY <1>2, <1>3

\* Every step keeps seeds without a history.
LEMMA SeedsStep ==
  ASSUME Inv, SeedsAreEmpty, NEW r \in Request, Step(r)
  PROVE  SeedsAreEmpty'
<1> SUFFICES ASSUME NEW h \in Handle, item'[h].kind # "complete"
             PROVE  DOMAIN history'[h] = {}
  BY DEF SeedsAreEmpty
<1>1. TypeOK /\ Local(r)
  BY DEF Inv
<1>2. CASE history'[h] = history[h]
  <2>1. item[h].kind # "complete" => DOMAIN history[h] = {}
    BY DEF SeedsAreEmpty
  <2>2. CASE item[h].kind = "complete"
    <3>1. Delete(r)
      BY <1>1, <2>2, RowChange, InsertIsNew DEF Exists
    <3>2. item'[h] = item[h] \/ history'[h] = NoHistory
      BY <1>1, <3>1 DEF Delete, TypeOK
    <3>. QED
      BY <2>2, <3>2 DEF NoHistory
  <2>. QED
    BY <1>2, <2>1, <2>2
<1>3. CASE Commit(r) /\ h = req[r].id /\ history'[h] # history[h]
  <2>1. ~CommitConflicts(r)
    BY <1>3 DEF Commit
  <2>2. item' = [item EXCEPT ![h].kind = "complete"]
    BY <1>3, <2>1 DEF Commit
  <2>3. item[h] \in ItemRow /\ item'[h] = [item[h] EXCEPT !.kind = "complete"]
    BY <1>1, <2>2 DEF TypeOK
  <2>4. item'[h].kind = "complete"
    BY <2>3 DEF ItemRow
  <2>. QED
    BY <2>4
<1>4. CASE InsertComplete(r) /\ h = fresh[r]
  <2>1. item'[h].kind = "complete"
    BY <1>1, <1>4 DEF InsertComplete, NewRow, TypeOK
  <2>. QED
    BY <2>1
<1>. QED
  BY <1>1, <1>2, <1>3, <1>4, HistoryRowStep DEF NoHistory

\* Every step keeps what a label says of its request's course.
LEMMA CourseStep ==
  ASSUME Inv, SeedsAreEmpty, NEW r \in Request, Step(r), NEW q \in Request, Course(q)
  PROVE  Course(q)'
<1>1. TypeOK /\ Local(r) /\ Local(q)
  BY DEF Inv
<1>2. CASE q # r
  <2>1. /\ pc'[q] = pc[q] /\ req'[q] = req[q] /\ stored'[q] = stored[q]
        /\ fresh'[q] = fresh[q]
    BY <1>1, <1>2, LocalsFrame
  <2>2. session'[q] = session[q]
    BY <1>1, <1>2, SessionsGrow DEF TypeOK
  <2>3. Written(q)' = Written(q) /\ Activity(q)' = Activity(q)
    BY <2>1 DEF Written, Activity
  <2>. QED
    BY <2>1, <2>2, <2>3, SessionsGrow DEF Course
<1>3. CASE q = r /\ pc[r] = "idle"
  <2>1. fresh[r] = NoHandle /\ fresh' = fresh /\ session' = session
    BY <1>1, <1>3, BeginStep DEF Local
  <2>2. CASE pc'[r] = "authorise"
    <3>1. /\ Exists(req'[r].id) /\ stored'[r].kind = item[req'[r].id].kind
          /\ stored'[r].kind = "complete" => req'[r].reasoned
          /\ req'[r].op = "revert" => DOMAIN history[req'[r].id] # {}
          /\ req'[r].op = "version" => stored'[r].kind = "complete"
      BY <1>1, <1>3, <2>2, BeginStep
    <3>2. item[req'[r].id].kind \in {"absent", "seed", "complete"}
      BY <1>1, <3>1 DEF Exists, TypeOK, ItemRow
    <3>3. req'[r].op = "revert" => stored'[r].kind = "complete"
      BY <3>1 DEF SeedsAreEmpty, Exists
    <3>. QED
      BY <1>3, <2>1, <2>2, <3>1, <3>2, <3>3 DEF Course, Exists
  <2>3. CASE pc'[r] # "authorise"
    <3>1. /\ stored'[r] = stored[r] /\ pc'[r] \in {"mint", "setLocked", "done"}
          /\ pc'[r] = "setLocked" => req'[r].op \in {"lock", "unlock"}
      BY <1>1, <1>3, <2>3, BeginStep
    <3>. QED
      BY <1>3, <2>1, <3>1 DEF Course
  <2>. QED
    BY <2>2, <2>3
<1>4. CASE q = r /\ pc[r] # "idle"
  <2>1. /\ stored' = stored /\ req'[r].id = req[r].id /\ req'[r].op = req[r].op
        /\ req'[r].reasoned = req[r].reasoned
        /\ pc[r] # "mint" => fresh' = fresh
    BY <1>1, <1>4, MoveStep
  <2>2. CASE SubmitActivity(r)
    <3>1. /\ pc[r] = "submit" /\ pc'[r] = "linkSession"
          /\ session'[r] \in DOMAIN sessions' /\ sessions'[session'[r]] = Activity(r)
      BY <1>1, <2>2, SessionsGrow DEF SubmitActivity, Goto, TypeOK
    <3>2. Activity(r)' = Activity(r)
      BY <2>1, <3>1 DEF Activity, Written
    <3>. QED
      BY <1>4, <2>1, <3>1, <3>2 DEF Course
  <2>3. CASE ~SubmitActivity(r)
    <3>1. sessions' = sessions /\ session' = session
      BY <2>3, SessionsGrow
    <3>2. pc'[r] # "linkSession" /\ pc'[r] \notin {"idle", "authorise", "setLocked"}
      BY <1>1, <1>4, <2>3, MoveStep DEF AfterRefresh, AfterSidecars
    <3>3. pc'[r] = "commit" => pc[r] = "repoFetch"
      BY <1>1, <1>4, <2>3, MoveStep DEF AfterRefresh, AfterSidecars
    <3>4. pc'[r] = "repoFetch" => pc[r] = "authorise"
      BY <1>1, <1>4, <2>3, MoveStep DEF AfterRefresh, AfterSidecars
    <3>5. pc[r] \in InFlight
      BY <1>1, <1>4, <2>3, MoveStep DEF InFlight
    <3>6. pc'[r] \in {"insert", "sidecars", "linkNext"} =>
            req[r].op \in {"seed", "create", "version"}
      BY <1>1, <1>4, <2>3, MoveStep DEF Course, AfterRefresh, AfterSidecars, Local
    <3>7. pc'[r] \in {"refreshRead", "refreshWrite", "submit"} =>
            IF fresh[r] = NoHandle THEN req[r].op \in {"update", "silentUpdate", "revert"}
            ELSE req[r].op \in {"create", "version"}
      BY <1>1, <1>4, <2>3, MoveStep
      DEF Course, AfterRefresh, AfterSidecars, Local, NoHandle, Handle
    <3>8. pc'[r] = "submit" /\ fresh[r] = NoHandle => stored[r].kind = "seed"
      BY <1>1, <1>4, <2>3, MoveStep
      DEF Course, AfterRefresh, AfterSidecars, Local, NoHandle, Handle
    <3>9. pc'[r] \notin {"linkSession", "done", "failed"} =>
            pc[r] \notin {"linkSession", "done", "failed"}
      BY <1>1, <1>4, <2>3, MoveStep DEF InFlight
    <3>10. pc'[r] = "mint" => stored[r].kind # "seed"
      BY <1>1, <1>4, <2>3, MoveStep DEF Course, AfterRefresh, AfterSidecars
    <3>11. pc[r] = "mint" => pc'[r] \in {"insert", "failed"}
      BY <1>1, <1>4, MoveStep
    <3>. QED
      BY <1>4, <2>1, <3>1, <3>2, <3>3, <3>4, <3>5, <3>6, <3>7, <3>8, <3>9, <3>10,
         <3>11
      DEF Course
  <2>. QED
    BY <2>2, <2>3
<1>. QED
  BY <1>2, <1>3, <1>4

-----------------------------------------------------------------------------
(* What requests leave is complete.                                        *)

\* An item a request found complete is still complete, if it is still there.
FoundComplete ==
  \A r \in Request :
    /\ pc[r] \in {"authorise", "repoFetch", "commit"}
    /\ stored[r].kind = "complete" /\ Exists(req[r].id)
    => item[req[r].id].kind = "complete"

\* r has inserted the version k of h and has yet to close h, or failed to.
Closing(r, h, k) ==
  /\ fresh[r] = k /\ req[r].id = h /\ req[r].op = "version"
  /\ pc[r] \in {"refreshRead", "refreshWrite", "sidecars", "linkNext", "failed"}
VersionsClose ==
  \A h, k \in Handle : Exists(h) /\ Exists(k) /\ item[k].prev = h =>
    item[h].next # NoHandle \/ \E r \in Request : Closing(r, h, k)

\* r has inserted h and has yet to configure it, or failed to.
Configuring(r, h) ==
  fresh[r] = h /\ pc[r] \in {"refreshRead", "refreshWrite", "sidecars", "failed"}
ItemsAreConfigured ==
  \A h \in Handle : Exists(h) => h \in auth \/ \E r \in Request : Configuring(r, h)

\* The item is linked to a session of its own create or version activity.
Linked(h) ==
  \/ /\ item[h].createLink \in DOMAIN sessions
     /\ sessions[item[h].createLink] =
          [job |-> "REGISTER_CREATE_ACTIVITY", item |-> h]
  \/ /\ item[h].versionLink \in DOMAIN sessions
     /\ sessions[item[h].versionLink] =
          [job |-> "REGISTER_VERSION_ACTIVITY", item |-> h]
\* r has made h complete and has yet to link its activity, or failed to.
Linking(r, h) ==
  /\ Written(r) = h
  /\ \/ pc[r] \in {"linkNext", "submit", "linkSession", "failed"}
     \/ pc[r] = "sidecars" /\ req[r].op # "seed"
     \/ /\ pc[r] \in {"refreshRead", "refreshWrite"}
        /\ fresh[r] # NoHandle \/ (req[r].op # "revert" /\ stored[r].kind = "seed")
ItemsAreLinked ==
  Versioning => \A h \in Handle : item[h].kind = "complete" =>
    Linked(h) \/ \E r \in Request : Linking(r, h)

\* A step of a request that takes an item it did not mint is no step that
\* inserts the item.
LEMMA TakenIsNotInserted ==
  ASSUME Inv, NEW r \in Request, Step(r), NEW q \in Request, NEW h \in Handle,
         req[q].id = h, item[h].kind = "absent"
  PROVE  item'[h].kind = "absent"
BY CompleteStays DEF Inv, Handles

\* Every step keeps found items complete.
LEMMA FoundStep ==
  ASSUME Inv, FoundComplete, NEW r \in Request, Step(r)
  PROVE  FoundComplete'
<1> SUFFICES ASSUME NEW q \in Request,
                    pc'[q] \in {"authorise", "repoFetch", "commit"},
                    stored'[q].kind = "complete", Exists(req[q].id)'
             PROVE  item'[req'[q].id].kind = "complete"
  BY DEF FoundComplete, Exists
<1>1. TypeOK /\ Local(q)
  BY DEF Inv
<1>2. CASE q = r /\ pc[r] = "idle"
  BY <1>1, <1>2, BeginStep DEF tables
<1>3. CASE q # r \/ pc[r] # "idle"
  <2>1. stored'[q] = stored[q] /\ req'[q].id = req[q].id
    BY <1>1, <1>3, LocalsFrame, MoveStep
  <2>2. pc[q] \in {"authorise", "repoFetch", "commit"}
    BY <1>1, <1>3, LocalsFrame, MoveStep DEF AfterRefresh, AfterSidecars
  <2>3. req[q].id \in Handle /\ item'[req[q].id].kind # "absent"
    BY <1>1, <2>1, <2>2 DEF Local, Exists
  <2>4. item[req[q].id].kind # "absent"
    BY <2>3, TakenIsNotInserted
  <2>5. item[req[q].id].kind = "complete"
    BY <2>1, <2>2, <2>3, <2>4 DEF FoundComplete, Exists
  <2>. QED
    BY <2>1, <2>3, <2>5, CompleteStays
<1>. QED
  BY <1>2, <1>3

\* Every step keeps versions closing the items they were made from.
LEMMA VersionsCloseStep ==
  ASSUME Inv, VersionsClose, NEW r \in Request, Step(r)
  PROVE  VersionsClose'
<1> SUFFICES ASSUME NEW h \in Handle, NEW k \in Handle,
                    item'[h].kind # "absent", item'[k].kind # "absent",
                    item'[k].prev = h
             PROVE  item'[h].next # NoHandle \/ \E q \in Request : Closing(q, h, k)'
  BY DEF VersionsClose, Exists
<1>1. TypeOK /\ Local(r) /\ Handles
  BY DEF Inv
<1>2. NoHandle \notin Handle /\ NoRow.kind = "absent"
  BY DEF NoHandle, Handle, NoRow, NewRow
<1>3. CASE (InsertSeed(r) \/ InsertComplete(r)) /\ k = fresh[r]
  <2>1. pc[r] = "insert" /\ pc[r] # "idle"
    BY <1>3 DEF InsertSeed, InsertComplete
  <2>2. ~Exists(k)
    BY <1>3, InsertIsNew
  <2>3. req[r].op = "version" /\ req[r].id = h
    BY <1>1, <1>2, <1>3, <2>2, RowStep DEF Exists
  <2>4. /\ InsertComplete(r) /\ pc'[r] = "refreshRead"
        /\ req'[r].id = h /\ req'[r].op = "version" /\ fresh'[r] = k
    <3>1. InsertComplete(r)
      BY <1>3, <2>3 DEF InsertSeed
    <3>. QED
      BY <1>1, <1>3, <2>3, <3>1 DEF InsertComplete, Goto, TypeOK
  <2>. QED
    BY <2>4 DEF Closing
<1>4. CASE ~((InsertSeed(r) \/ InsertComplete(r)) /\ k = fresh[r])
  <2>1. item[k].kind # "absent" /\ item[k].prev = h
    BY <1>1, <1>2, <1>4, RowStep
  <2>2. ~((InsertSeed(r) \/ InsertComplete(r)) /\ h = fresh[r])
    BY <1>1, <2>1 DEF Handles, InsertSeed, InsertComplete
  <2>3. /\ item[h].kind # "absent"
        /\ \/ item'[h].next = item[h].next
           \/ LinkNext(r) /\ item'[h].next = fresh[r]
    BY <1>1, <1>2, <2>2, RowStep
  <2>4. LinkNext(r) => fresh[r] \in Handle
    BY <1>1 DEF LinkNext, Local
  <2>5. CASE item[h].next # NoHandle
    BY <1>2, <2>3, <2>4, <2>5
  <2>6. ASSUME NEW q \in Request, Closing(q, h, k)
        PROVE  item'[h].next # NoHandle \/ Closing(q, h, k)'
    <3>1. CASE q # r
      BY <1>1, <2>6, <3>1, LocalsFrame DEF Closing
    <3>2. CASE q = r /\ LinkNext(r)
      <4>1. item' = [item EXCEPT ![h].next = fresh[r]]
        BY <2>3, <2>6, <3>2 DEF LinkNext, Closing, Exists
      <4>2. item[h] \in ItemRow /\ item'[h] = [item[h] EXCEPT !.next = fresh[r]]
        BY <1>1, <4>1 DEF TypeOK
      <4>. QED
        BY <1>2, <2>4, <3>2, <4>2 DEF ItemRow
    <3>3. CASE q = r /\ ~LinkNext(r)
      <4>1. pc[r] # "idle" /\ pc[r] # "mint"
        BY <2>6, <3>3 DEF Closing
      <4>2. fresh'[r] = k /\ req'[r].id = h /\ req'[r].op = "version"
        BY <1>1, <2>6, <3>3, <4>1, MoveStep DEF Closing
      <4>3. pc'[r] \in {"refreshWrite", "sidecars", "linkNext", "failed"}
        BY <1>1, <1>2, <2>6, <3>3, <4>1, MoveStep
        DEF Closing, AfterRefresh, AfterSidecars, InFlight
      <4>. QED
        BY <3>3, <4>2, <4>3 DEF Closing
    <3>. QED
      BY <3>1, <3>2, <3>3
  <2>. QED
    BY <2>1, <2>3, <2>5, <2>6 DEF VersionsClose, Exists
<1>. QED
  BY <1>3, <1>4

\* Every step keeps items configured, or about to be.
LEMMA ConfiguredStep ==
  ASSUME Inv, ItemsAreConfigured, NEW r \in Request, Step(r)
  PROVE  ItemsAreConfigured'
<1> SUFFICES ASSUME NEW h \in Handle, item'[h].kind # "absent"
             PROVE  h \in auth' \/ \E q \in Request : Configuring(q, h)'
  BY DEF ItemsAreConfigured, Exists
<1>1. TypeOK /\ Local(r)
  BY DEF Inv
<1>2. NoHandle \notin Handle
  BY DEF NoHandle, Handle
<1>3. CASE item[h].kind = "absent"
  <2>1. h = fresh[r] /\ pc[r] = "insert"
    BY <1>3, CompleteStays
  <2>2. fresh'[r] = h /\ pc'[r] \in {"sidecars", "refreshRead", "failed"}
    BY <1>1, <2>1, MoveStep
  <2>. QED
    BY <2>2 DEF Configuring
<1>4. CASE item[h].kind # "absent"
  <2>1. CASE h \in auth
    <3>1. CASE Delete(r)
      <4>1. PICK k \in Handle : /\ item' = [item EXCEPT ![k] = NoRow]
                                /\ auth' = auth \ {k}
        BY <3>1 DEF Delete
      <4>2. k # h
        BY <1>1, <4>1 DEF TypeOK, NoRow, NewRow
      <4>. QED
        BY <2>1, <4>1, <4>2
    <3>2. CASE EnsureSidecars(r)
      BY <2>1, <3>2 DEF EnsureSidecars
    <3>. QED
      BY <2>1, <3>1, <3>2, AuthFrame
  <2>2. ASSUME NEW q \in Request, Configuring(q, h)
        PROVE  h \in auth' \/ Configuring(q, h)'
    <3>1. CASE q # r
      BY <1>1, <2>2, <3>1, LocalsFrame DEF Configuring
    <3>2. CASE q = r
      <4>1. pc[r] # "idle" /\ pc[r] # "mint"
        BY <2>2, <3>2 DEF Configuring
      <4>2. fresh'[r] = h
        BY <1>1, <2>2, <3>2, <4>1, MoveStep DEF Configuring
      <4>3. CASE EnsureSidecars(r) /\ pc[r] = "sidecars"
        BY <1>4, <2>2, <3>2, <4>3 DEF EnsureSidecars, Configuring, Exists
      <4>4. CASE ~(EnsureSidecars(r) /\ pc[r] = "sidecars")
        <5>1. pc'[r] \in {"refreshWrite", "sidecars", "failed"}
          BY <1>1, <1>2, <2>2, <3>2, <4>1, <4>4, MoveStep
          DEF Configuring, AfterRefresh, InFlight
        <5>. QED
          BY <3>2, <4>2, <5>1 DEF Configuring
      <4>. QED
        BY <4>3, <4>4
    <3>. QED
      BY <3>1, <3>2
  <2>. QED
    BY <1>4, <2>1, <2>2 DEF ItemsAreConfigured, Exists
<1>. QED
  BY <1>3, <1>4

\* A request that has yet to link the activity of h goes on until it does.
LEMMA LinkingKept ==
  ASSUME Inv, Versioning, NEW r \in Request, Step(r), NEW h \in Handle,
         NEW q \in Request, Course(q), Linking(q, h), ~(q = r /\ LinkSession(r))
  PROVE  Linking(q, h)'
<1>1. TypeOK /\ Local(q)
  BY DEF Inv
<1>2. CASE q # r
  BY <1>1, <1>2, LocalsFrame DEF Linking, Written
<1>3. CASE q = r
  <2>1. pc[r] # "idle" /\ pc[r] # "mint" /\ pc[r] # "insert"
    BY <1>3 DEF Linking
  <2>2. /\ fresh'[r] = fresh[r] /\ req'[r].id = req[r].id /\ stored'[r] = stored[r]
        /\ req'[r].op = req[r].op
    BY <1>1, <1>3, <2>1, MoveStep
  <2>3. Written(r)' = h
    BY <1>3, <2>2 DEF Linking, Written
  <2>4. CASE pc[r] \in {"linkNext", "submit", "linkSession", "failed"}
    <3>1. pc'[r] \in {"submit", "linkSession", "failed"}
      BY <1>1, <1>3, <2>1, <2>4, MoveStep DEF InFlight
    <3>. QED
      BY <1>3, <2>3, <3>1 DEF Linking
  <2>5. CASE pc[r] = "sidecars" /\ req[r].op # "seed"
    <3>1. req[r].op \in {"create", "version"}
      BY <1>3, <2>5 DEF Course
    <3>2. pc'[r] \in {"linkNext", "submit", "failed"}
      BY <1>1, <1>3, <2>1, <2>5, <3>1, MoveStep DEF AfterSidecars
    <3>. QED
      BY <1>3, <2>3, <3>2 DEF Linking
  <2>6. CASE /\ pc[r] \in {"refreshRead", "refreshWrite"}
             /\ fresh[r] # NoHandle \/ (req[r].op # "revert" /\ stored[r].kind = "seed")
    <3>1. fresh[r] # NoHandle => req[r].op # "seed"
      BY <1>3, <2>6 DEF Course
    <3>2. \/ pc'[r] \in {"refreshWrite", "submit", "failed"}
          \/ pc'[r] = "sidecars" /\ fresh[r] # NoHandle
      BY <1>1, <1>3, <2>1, <2>6, MoveStep DEF AfterRefresh
    <3>. QED
      BY <1>3, <2>2, <2>3, <2>6, <3>1, <3>2 DEF Linking
  <2>. QED
    BY <1>3, <2>4, <2>5, <2>6 DEF Linking
<1>. QED
  BY <1>2, <1>3

\* Every step keeps complete items linked, or about to be.
LEMMA LinkedStep ==
  ASSUME Inv, \A q \in Request : Course(q), FoundComplete, ItemsAreLinked,
         NEW r \in Request, Step(r)
  PROVE  ItemsAreLinked'
<1> SUFFICES ASSUME Versioning, NEW h \in Handle, item'[h].kind = "complete"
             PROVE  Linked(h)' \/ \E q \in Request : Linking(q, h)'
  BY DEF ItemsAreLinked
<1>1. TypeOK /\ Local(r) /\ Course(r)
  BY DEF Inv
<1>2. CASE LinkSession(r) /\ Written(r) = h /\ item[h].kind = "complete"
  <2>1. /\ session[r] \in DOMAIN sessions' /\ sessions'[session[r]] = Activity(r)
    BY <1>1, <1>2, SessionsGrow DEF LinkSession, Course
  <2>2. item[h] \in ItemRow
    BY <1>1 DEF TypeOK
  <2>3. IF req[r].op = "version" THEN item'[h].versionLink = session[r]
                                 ELSE item'[h].createLink = session[r]
    <3> DEFINE w == Written(r)
               s == session[r]
               byVersion == req[r].op = "version"
    <3>1. item' = IF byVersion THEN [item EXCEPT ![w].versionLink = s]
                               ELSE [item EXCEPT ![w].createLink = s]
      BY <1>2 DEF LinkSession, Exists
    <3>2. w = h
      BY <1>2
    <3> HIDE DEF w, s, byVersion
    <3>3. item'[h] = IF byVersion THEN [item[h] EXCEPT !.versionLink = s]
                                  ELSE [item[h] EXCEPT !.createLink = s]
      BY <1>1, <3>1, <3>2 DEF TypeOK
    <3>4. CASE byVersion
      BY <2>2, <3>3, <3>4 DEF ItemRow, byVersion, s
    <3>5. CASE ~byVersion
      BY <2>2, <3>3, <3>5 DEF ItemRow, byVersion, s
    <3>. QED
      BY <3>4, <3>5
  <2>. QED
    BY <1>2, <2>1, <2>3 DEF Linked, Activity
<1>3. CASE /\ item[h].kind = "complete"
           /\ ~(LinkSession(r) /\ Written(r) = h)
  <2>1. Linked(h) \/ \E q \in Request : Linking(q, h)
    BY <1>3 DEF ItemsAreLinked
  <2>2. ASSUME NEW q \in Request, Linking(q, h)
        PROVE  Linking(q, h)'
    BY <1>3, <2>2, LinkingKept DEF Linking
  <2>3. CASE Linked(h)
    <3>1. /\ item'[h].createLink = item[h].createLink
          /\ item'[h].versionLink = item[h].versionLink
      BY <1>1, <1>3, RowChange, InsertIsNew DEF Exists, NoRow, NewRow
    <3>. QED
      BY <2>3, <3>1, SessionsGrow DEF Linked
  <2>. QED
    BY <2>1, <2>2, <2>3
<1>4. CASE item[h].kind # "complete"
  <2>1. CASE Commit(r) /\ ~CommitConflicts(r) /\ h = req[r].id
    <3>1. /\ pc[r] = "commit" /\ Exists(h) /\ fresh[r] = NoHandle
      BY <1>1, <2>1 DEF Commit, CommitConflicts, Local
    <3>2. stored[r].kind = "seed" /\ req[r].op # "revert"
      BY <1>1, <1>4, <2>1, <3>1 DEF Course, FoundComplete
    <3>3. /\ pc'[r] = "refreshRead" /\ stored'[r] = stored[r] /\ fresh'[r] = NoHandle
          /\ req'[r].id = h /\ req'[r].op = req[r].op
      BY <1>1, <2>1, <3>1 DEF Commit, Goto, TypeOK
    <3>. QED
      BY <3>2, <3>3 DEF Linking, Written
  <2>2. CASE InsertComplete(r) /\ h = fresh[r]
    <3>1. pc'[r] = "refreshRead" /\ fresh'[r] = h
      BY <1>1, <2>2 DEF InsertComplete, Goto, TypeOK
    <3>2. h # NoHandle
      BY DEF Handle, NoHandle
    <3>. QED
      BY <3>1, <3>2 DEF Linking, Written
  <2>. QED
    BY <1>1, <1>4, <2>1, <2>2, RowChange DEF NoRow, NewRow
<1>. QED
  BY <1>2, <1>3, <1>4

-----------------------------------------------------------------------------
(* Search documents.                                                       *)

\* r has changed the domain info of h.
Wrote(r, h) ==
  /\ Written(r) = h
  /\ req[r].op \in {"create", "version", "update", "silentUpdate", "revert"}
  /\ pc[r] \in {"refreshRead", "refreshWrite", "sidecars", "linkNext", "submit",
                "linkSession", "done", "failed"}
SoleWriter(r, h) ==
  Wrote(r, h) /\ \A q \in Request : Wrote(q, h) => q = r
\* Where a request is once it has stored the search document.
Indexed == {"sidecars", "linkNext", "submit", "linkSession", "done"}
\* The search document is current unless somebody writes, and a sole writer
\* reads what it wrote.
SoleWritersIndex ==
  \A h \in Handle : item[h].kind = "complete" =>
    /\ (\A r \in Request : ~Wrote(r, h)) => item[h].search = content[h]
    /\ \A r \in Request : SoleWriter(r, h) =>
         /\ pc[r] = "refreshWrite" => existing[r].content = content[h]
         /\ pc[r] \in Indexed => item[h].search = content[h]

\* Only finitely many requests have started.
FinitelyManyStarted == IsFiniteSet({r \in Request : pc[r] # "idle"})

\* Who has written stays a writer.
LEMMA WroteStays ==
  ASSUME Inv, NEW r \in Request, Step(r), NEW q \in Request, Course(q),
         NEW h \in Handle
  PROVE  /\ Wrote(q, h) => Wrote(q, h)'
         /\ Wrote(q, h)' /\ q # r => Wrote(q, h)
<1>1. TypeOK /\ Local(q)
  BY DEF Inv
<1>2. CASE q # r
  BY <1>1, <1>2, LocalsFrame DEF Wrote, Written
<1>3. ASSUME q = r, Wrote(r, h) PROVE Wrote(r, h)'
  <2>1. pc[r] \notin {"idle", "mint", "insert"}
    BY <1>3 DEF Wrote
  <2>2. fresh' = fresh /\ req'[r].id = req[r].id /\ req'[r].op = req[r].op
    BY <1>1, <2>1, MoveStep
  <2>3. pc'[r] \in {"refreshRead", "refreshWrite", "sidecars", "linkNext", "submit",
                    "linkSession", "done", "failed"}
    BY <1>1, <1>3, <2>1, MoveStep DEF Wrote, AfterRefresh, AfterSidecars, InFlight
  <2>. QED
    BY <1>3, <2>2, <2>3 DEF Wrote, Written
<1>. QED
  BY <1>2, <1>3

\* A step that is no writer's leaves domain info and search document alone.
LEMMA UnwrittenKept ==
  ASSUME Inv, NEW r \in Request, Step(r), Course(r), NEW h \in Handle,
         item'[h].kind = "complete", ~Wrote(r, h)'
  PROVE  /\ item[h].kind = "complete"
         /\ content'[h] = content[h] /\ item'[h].search = item[h].search
<1>1. TypeOK /\ Local(r)
  BY DEF Inv
<1>2. NoRow.kind = "absent" /\ h # NoHandle
  BY DEF NoRow, NewRow, Handle, NoHandle
<1>3. ~(Commit(r) /\ ~CommitConflicts(r) /\ h = req[r].id)
  <2> SUFFICES ASSUME Commit(r), ~CommitConflicts(r), h = req[r].id PROVE FALSE
    OBVIOUS
  <2>1. /\ pc[r] = "commit" /\ pc'[r] = "refreshRead" /\ req' = req /\ fresh' = fresh
    BY <1>1 DEF Commit, Goto, TypeOK
  <2>2. fresh[r] = NoHandle /\ req[r].op \in {"update", "silentUpdate", "revert"}
    BY <1>1, <2>1 DEF Local
  <2>. QED
    BY <2>1, <2>2 DEF Wrote, Written
<1>4. ~(InsertComplete(r) /\ h = fresh[r])
  <2> SUFFICES ASSUME InsertComplete(r), h = fresh[r] PROVE FALSE
    OBVIOUS
  <2>1. /\ pc[r] = "insert" /\ pc'[r] = "refreshRead" /\ req' = req /\ fresh' = fresh
        /\ req[r].op # "seed"
    BY <1>1 DEF InsertComplete, Goto, TypeOK
  <2>2. req[r].op \in {"create", "version"}
    BY <1>1, <2>1 DEF Local
  <2>. QED
    BY <1>2, <2>1, <2>2 DEF Wrote, Written
<1>5. ~(RefreshWrite(r) /\ h = Written(r))
  <2> SUFFICES ASSUME RefreshWrite(r), h = Written(r) PROVE FALSE
    OBVIOUS
  <2>1. pc[r] = "refreshWrite"
    BY DEF RefreshWrite
  <2>2. req[r].op \in {"create", "version", "update", "silentUpdate", "revert"}
    BY <2>1 DEF Course
  <2>3. Wrote(r, h)
    BY <2>1, <2>2 DEF Wrote
  <2>. QED
    BY <2>3, WroteStays
<1>6. item'[h].search = item[h].search /\ item[h].kind = "complete"
  BY <1>1, <1>2, <1>3, <1>4, <1>5, RowChange
<1>7. content'[h] = content[h]
  BY <1>1, <1>2, <1>3, <1>4, ContentRowStep
<1>. QED
  BY <1>6, <1>7

\* Every step keeps sole writers indexing what they wrote.
LEMMA IndexStep ==
  ASSUME Inv, \A q \in Request : Course(q), SoleWritersIndex,
         NEW r \in Request, Step(r)
  PROVE  SoleWritersIndex'
<1> SUFFICES ASSUME NEW h \in Handle, item'[h].kind = "complete"
             PROVE  /\ (\A q \in Request : ~Wrote(q, h)') => item'[h].search = content'[h]
                    /\ \A q \in Request : SoleWriter(q, h)' =>
                         /\ pc'[q] = "refreshWrite" => existing'[q].content = content'[h]
                         /\ pc'[q] \in Indexed => item'[h].search = content'[h]
  BY DEF SoleWritersIndex
<1>1. TypeOK /\ Local(r) /\ Course(r)
  BY DEF Inv
<1>2. CASE \A q \in Request : ~Wrote(q, h)'
  BY <1>2, UnwrittenKept, WroteStays DEF SoleWritersIndex, SoleWriter
<1>3. ASSUME NEW q \in Request, q # r, SoleWriter(q, h)'
      PROVE  /\ pc'[q] = "refreshWrite" => existing'[q].content = content'[h]
             /\ pc'[q] \in Indexed => item'[h].search = content'[h]
  <2>1. ~Wrote(r, h)' /\ SoleWriter(q, h)
    BY <1>3, WroteStays DEF SoleWriter
  <2>2. /\ item[h].kind = "complete"
        /\ content'[h] = content[h] /\ item'[h].search = item[h].search
    BY <1>1, <2>1, UnwrittenKept
  <2>3. pc'[q] = pc[q] /\ existing'[q] = existing[q]
    BY <1>1, <1>3, LocalsFrame
  <2>. QED
    BY <2>1, <2>2, <2>3 DEF SoleWritersIndex
<1>4. ASSUME SoleWriter(r, h)'
      PROVE  /\ pc'[r] = "refreshWrite" => existing'[r].content = content'[h]
             /\ pc'[r] \in Indexed => item'[h].search = content'[h]
  <2>1. Wrote(r, h) => SoleWriter(r, h)
    BY <1>4, WroteStays DEF SoleWriter
  <2>2. pc[r] # "idle"
    BY <1>1, <1>4, BeginStep DEF SoleWriter, Wrote
  <2>3. CASE pc'[r] = "refreshWrite"
    <3>1. RefreshRead(r) /\ Exists(Written(r))
      BY <1>1, <2>2, <2>3, MoveStep DEF AfterRefresh, AfterSidecars
    <3>2. /\ existing' = [existing EXCEPT ![r] = Snapshot(Written(r))]
          /\ UNCHANGED <<fresh, req, content>>
      BY <3>1 DEF RefreshRead, tables
    <3>3. Written(r) = h
      BY <1>4, <3>2 DEF SoleWriter, Wrote, Written
    <3>4. existing'[r].content = content'[h]
      BY <1>1, <3>2, <3>3 DEF Snapshot, TypeOK
    <3>. QED
      BY <2>3, <3>4 DEF Indexed
  <2>4. CASE pc'[r] \in Indexed
    <3>1. req'[r].op = req[r].op
      BY <1>1, <2>2, MoveStep
    <3>2. req[r].op \in {"create", "version", "update", "silentUpdate", "revert"}
      BY <1>4, <3>1 DEF SoleWriter, Wrote
    <3>3. pc[r] = "refreshWrite" \/ pc[r] \in Indexed
      BY <1>1, <2>2, <2>4, <3>2, MoveStep DEF Indexed, Course, InFlight
    <3>4. Written(r) = h /\ Wrote(r, h)
      <4>1. fresh'[r] = fresh[r] /\ req'[r].id = req[r].id
        BY <1>1, <2>2, <3>3, MoveStep DEF Indexed
      <4>. QED
        BY <1>4, <3>2, <3>3, <4>1 DEF SoleWriter, Wrote, Written, Indexed
    <3>5. ~Commit(r) /\ ~InsertSeed(r) /\ ~InsertComplete(r) /\ ~Delete(r)
      BY <2>2, <3>3 DEF Commit, InsertSeed, InsertComplete, Delete, Indexed
    <3>6. item[h].kind = "complete" /\ content'[h] = content[h]
      BY <1>1, <3>5, KindStep, ContentFrame
    <3>7. CASE pc[r] = "refreshWrite"
      <4>1. RefreshWrite(r) /\ Exists(Written(r))
        BY <1>1, <2>2, <2>4, <3>7, MoveStep DEF Indexed
      <4> DEFINE c == existing[r].content
      <4>2. item' = [item EXCEPT ![Written(r)].search = c]
        BY <4>1 DEF RefreshWrite, SearchDocument
      <4> HIDE DEF c
      <4>3. item[h] \in ItemRow /\ item'[h] = [item[h] EXCEPT !.search = c]
        BY <1>1, <3>4, <4>2 DEF TypeOK
      <4>4. item'[h].search = c
        BY <4>3 DEF ItemRow
      <4>. QED
        BY <2>1, <2>4, <3>4, <3>6, <3>7, <4>4 DEF SoleWritersIndex, c, Indexed
    <3>8. CASE pc[r] \in Indexed
      <4>1. ~RefreshWrite(r)
        BY <3>8 DEF RefreshWrite, Indexed
      <4>2. item'[h].search = item[h].search
        BY <1>1, <3>5, <4>1, RowChange
      <4>. QED
        BY <2>1, <2>4, <3>4, <3>6, <3>8, <4>2 DEF SoleWritersIndex, Indexed
    <3>. QED
      BY <3>3, <3>7, <3>8
  <2>. QED
    BY <2>3, <2>4 
<1>. QED
  BY <1>2, <1>3, <1>4

\* Every step starts at most one request.
LEMMA StartedStep ==
  ASSUME Inv, FinitelyManyStarted, NEW r \in Request, Step(r)
  PROVE  FinitelyManyStarted'
<1> DEFINE S == {q \in Request : pc[q] # "idle"}
           T == {q \in Request : pc'[q] # "idle"}
<1>1. IsFiniteSet(S \cup {r})
  BY FS_AddElement DEF FinitelyManyStarted
<1>2. T \in SUBSET (S \cup {r})
  BY LocalsFrame DEF Inv
<1> HIDE DEF S
<1>3. IsFiniteSet(T)
  BY <1>1, <1>2, FS_Subset
<1>. QED
  BY <1>3 DEF FinitelyManyStarted

\* A finite set with at most one element has no two.
LEMMA AtMostOne ==
  ASSUME NEW S, IsFiniteSet(S), Cardinality(S) <= 1
  PROVE  \A a, b \in S : a = b
<1> SUFFICES ASSUME NEW a \in S, NEW b \in S, a # b PROVE FALSE
  OBVIOUS
<1>1. IsFiniteSet(S \ {a}) /\ Cardinality(S \ {a}) = Cardinality(S) - 1
  BY FS_RemoveElement
<1>2. Cardinality(S) \in Nat /\ Cardinality(S \ {a}) \in Nat
  BY <1>1, FS_CardinalityType
<1>3. Cardinality(S \ {a}) = 0
  BY <1>1, <1>2
<1>4. S \ {a} = {}
  BY <1>1, <1>3, FS_EmptySet
<1>. QED
  BY <1>4

-----------------------------------------------------------------------------
(* Create activities, and the promotion of seeds.                          *)

SawSeed(h) == {r \in Request : req[r].id = h /\ stored[r].kind = "seed"}
Spawned(h) == {i \in DOMAIN sessions :
                 sessions[i] = [job |-> "REGISTER_CREATE_ACTIVITY", item |-> h]}

\* An item that was seeded: every create activity is of a request that found
\* the seed.  So is an item that was not inserted yet.
SeedBorn(h) ==
  /\ \A i \in Spawned(h) : \E r \in SawSeed(h) : session[r] = i
  /\ \A r \in Request : fresh[r] = h /\ req[r].op = "create" =>
       pc[r] \in {"insert", "failed"}
\* An item that was registered complete: no request ever finds it a seed, and
\* at most one create activity comes of its registration.
CompleteBorn(h) ==
  /\ SawSeed(h) = {} /\ item[h].kind # "seed"
  /\ \A i, j \in Spawned(h) : i = j
  /\ \A r \in Request :
       /\ fresh[r] = h /\ req[r].op = "create"
       /\ pc[r] \in {"refreshRead", "refreshWrite", "sidecars", "submit"}
       => Spawned(h) = {}
\* Sessions are of minted items, none of them of an item yet to be inserted,
\* and every item was seeded or registered complete.
Births ==
  /\ \A i \in DOMAIN sessions : sessions[i].item <= minted
  /\ \A r \in Request : pc[r] = "insert" =>
       \A i \in DOMAIN sessions : sessions[i].item # fresh[r]
  /\ \A h \in Handle : SeedBorn(h) \/ CompleteBorn(h)

\* A complete item that somebody found a seed was promoted by such a request.
Promotions ==
  \A h \in Handle : item[h].kind = "complete" =>
    \/ SawSeed(h) = {}
    \/ \E q \in SawSeed(h) :
         pc[q] \in {"refreshRead", "refreshWrite", "submit", "linkSession",
                    "done", "failed"}

\* Who found a seed has found it for good, and only a seed is found a seed.
LEMMA SawSeedStep ==
  ASSUME Inv, \A q \in Request : Course(q), NEW r \in Request, Step(r),
         NEW h \in Handle
  PROVE  /\ \A q \in SawSeed(h) : q \in SawSeed(h)'
         /\ item[h].kind # "seed" => SawSeed(h)' = SawSeed(h)
<1>1. TypeOK /\ Course(r)
  BY DEF Inv
<1>2. ASSUME NEW q \in Request, q # r \/ pc[r] # "idle"
      PROVE  q \in SawSeed(h)' <=> q \in SawSeed(h)
  BY <1>1, <1>2, LocalsFrame, MoveStep DEF SawSeed
<1>3. ASSUME pc[r] = "idle" PROVE r \notin SawSeed(h)
  BY <1>3, <1>1 DEF Course, SawSeed
<1>4. ASSUME pc[r] = "idle", item[h].kind # "seed" PROVE r \notin SawSeed(h)'
  <2>1. \/ stored'[r].kind = item[req'[r].id].kind
        \/ stored'[r] = stored[r]
    BY <1>1, <1>4, BeginStep
  <2>. QED
    BY <1>1, <1>4, <2>1 DEF Course, SawSeed
<1>5. SawSeed(h) \subseteq Request /\ SawSeed(h)' \subseteq Request
  BY DEF SawSeed
<1>. QED
  BY <1>2, <1>3, <1>4, <1>5

\* A create activity is spawned by a request that found the item a seed or
\* registered it.
LEMMA SpawnStep ==
  ASSUME Inv, NEW r \in Request, Course(r), Step(r), NEW h \in Handle
  PROVE  \/ Spawned(h)' = Spawned(h)
         \/ /\ SubmitActivity(r)
            /\ Spawned(h)' = Spawned(h) \cup {Len(sessions) + 1}
            /\ session'[r] = Len(sessions) + 1
            /\ \/ r \in SawSeed(h) /\ r \in SawSeed(h)'
               \/ fresh[r] = h /\ req[r].op = "create"
<1>1. TypeOK /\ Local(r)
  BY DEF Inv
<1>2. CASE ~SubmitActivity(r)
  BY <1>2, SessionsGrow DEF Spawned
<1>3. CASE SubmitActivity(r)
  <2> DEFINE n == Len(sessions) + 1
             a == [job |-> "REGISTER_CREATE_ACTIVITY", item |-> h]
  <2>1. /\ DOMAIN sessions' = DOMAIN sessions \cup {n} /\ sessions'[n] = Activity(r)
        /\ n \notin DOMAIN sessions
        /\ \A i \in DOMAIN sessions : sessions'[i] = sessions[i]
        /\ session'[r] = n
    <3>1. /\ DOMAIN sessions' = DOMAIN sessions \cup {n} /\ sessions'[n] = Activity(r)
          /\ \A i \in DOMAIN sessions : sessions'[i] = sessions[i]
          /\ session' = [session EXCEPT ![r] = n]
          /\ DOMAIN sessions = 1..Len(sessions) /\ Len(sessions) \in Nat
      BY <1>3, SessionsGrow
    <3>2. n \notin DOMAIN sessions
      BY <3>1
    <3>3. session'[r] = n
      BY <1>1, <3>1 DEF TypeOK
    <3>. QED
      BY <3>1, <3>2, <3>3
  <2>2. pc[r] = "submit" /\ req' = req /\ stored' = stored
    BY <1>3 DEF SubmitActivity
  <2> HIDE DEF n, a
  <2>3. CASE Activity(r) # a
    <3>1. Spawned(h)' = Spawned(h)
      BY <2>1, <2>3 DEF Spawned, a
    <3>. QED
      BY <3>1
  <2>4. CASE Activity(r) = a
    <3>1. Spawned(h)' = Spawned(h) \cup {n}
      BY <2>1, <2>4 DEF Spawned, a
    <3>2. Written(r) = h /\ req[r].op # "version"
      BY <2>4 DEF Activity, a
    <3>3. CASE fresh[r] = NoHandle
      <4>1. r \in SawSeed(h)
        BY <2>2, <3>2, <3>3 DEF SawSeed, Course, Written
      <4>2. r \in SawSeed(h)'
        BY <2>2, <4>1 DEF SawSeed
      <4>. QED
        BY <1>3, <2>1, <3>1, <4>1, <4>2 DEF n
    <3>4. CASE fresh[r] # NoHandle
      <4>1. fresh[r] = h /\ req[r].op = "create"
        BY <2>2, <3>2, <3>4 DEF Course, Written
      <4>. QED
        BY <1>3, <2>1, <3>1, <4>1 DEF n
    <3>. QED
      BY <3>3, <3>4
  <2>. QED
    BY <2>3, <2>4
<1>. QED
  BY <1>2, <1>3

\* Every step keeps sessions to items that were inserted.
LEMMA SessionItemsStep ==
  ASSUME Inv, Births, NEW r \in Request, Step(r)
  PROVE  /\ \A i \in DOMAIN sessions' : sessions'[i].item <= minted'
         /\ \A q \in Request : pc'[q] = "insert" =>
              \A i \in DOMAIN sessions' : sessions'[i].item # fresh'[q]
<1>1. TypeOK /\ Local(r) /\ Handles
  BY DEF Inv
<1>2. minted' >= minted /\ minted \in Nat /\ minted' \in Nat
  <2>1. minted \in Nat
    BY <1>1, MaxHandleAssumption DEF TypeOK
  <2>2. minted' = minted \/ minted' = minted + 1
    BY MintedFrame DEF MintHandle
  <2>. QED
    BY <2>1, <2>2
<1>3. \A i \in DOMAIN sessions : sessions[i].item \in Nat
  <2>1. \A i \in DOMAIN sessions : sessions[i] \in SessionRecord
    BY <1>1 DEF TypeOK
  <2>. QED
    BY <2>1 DEF SessionRecord, Handle
<1>4. CASE SubmitActivity(r)
  <2> DEFINE n == Len(sessions) + 1
  <2>1. /\ DOMAIN sessions' = DOMAIN sessions \cup {n}
        /\ sessions'[n] = Activity(r)
        /\ \A i \in DOMAIN sessions : sessions'[i] = sessions[i]
    BY <1>4, SessionsGrow
  <2> HIDE DEF n
  <2>2. Activity(r).item = Written(r)
    BY DEF Activity
  <2>3. pc[r] = "submit" /\ fresh' = fresh /\ minted' = minted
    BY <1>4 DEF SubmitActivity
  <2>4. Written(r) <= minted
    BY <1>1 DEF Handles, Written
  <2>5. ASSUME NEW q \in Request, pc'[q] = "insert"
        PROVE  pc[q] = "insert" /\ Written(r) # fresh[q]
    <3>1. q # r
      BY <1>1, <1>4, <2>5 DEF SubmitActivity, Goto, TypeOK
    <3>2. pc[q] = "insert"
      BY <1>1, <2>5, <3>1, LocalsFrame
    <3>3. fresh[q] \in Handle /\ Written(r) \in Handle
      BY <1>1, <2>3, <3>2 DEF Local, Inv
    <3>. QED
      BY <1>1, <3>1, <3>2, <3>3 DEF Handles, Written, Handle, NoHandle
  <2>. QED
    BY <2>1, <2>2, <2>3, <2>4, <2>5 DEF Births
<1>5. CASE ~SubmitActivity(r)
  <2>1. sessions' = sessions
    BY <1>5, SessionsGrow
  <2>2. ASSUME NEW q \in Request, pc'[q] = "insert", NEW i \in DOMAIN sessions
        PROVE  sessions[i].item # fresh'[q]
    <3>1. CASE q = r
      <4>1. fresh'[q] = minted + 1
        BY <1>1, <2>2, <3>1, InsertStep DEF MintHandle, TypeOK
      <4>. QED
        BY <1>2, <1>3, <4>1 DEF Births
    <3>2. CASE q # r
      BY <1>1, <2>2, <3>2, LocalsFrame DEF Births
    <3>. QED
      BY <3>1, <3>2
  <2>. QED
    BY <1>2, <1>3, <2>1, <2>2 DEF Births
<1>. QED
  BY <1>4, <1>5

\* Who registers h is in the registration of h.
LEMMA RegistersStep ==
  ASSUME Inv, NEW r \in Request, Step(r), NEW h \in Handle,
         NEW q \in Request, fresh'[q] = h, req'[q].op = "create"
  PROVE  \/ fresh[q] = h /\ req[q].op = "create" /\ pc'[q] = pc[q]
         \/ /\ q = r /\ fresh[q] = h /\ req[q].op = "create"
            /\ pc[q] \notin {"idle", "failed"}
         \/ q = r /\ pc'[q] = "insert"
<1>1. TypeOK /\ Local(q)
  BY DEF Inv
<1>2. h # NoHandle
  BY DEF Handle, NoHandle
<1>3. CASE q # r
  BY <1>1, <1>3, LocalsFrame
<1>4. CASE q = r /\ pc[r] = "idle"
  <2>1. fresh'[r] = NoHandle
    BY <1>1, <1>4, BeginStep DEF Local
  <2>. QED
    BY <1>2, <1>4, <2>1
<1>5. CASE q = r /\ pc[r] = "mint"
  <2>1. pc'[r] = "insert" \/ Fail(r)
    BY <1>1, <1>5, MoveStep
  <2>2. Fail(r) => fresh' = fresh
    BY DEF Fail
  <2>3. fresh[r] = NoHandle
    BY <1>1, <1>5 DEF Local
  <2>. QED
    BY <1>2, <1>5, <2>1, <2>2, <2>3
<1>6. CASE q = r /\ pc[r] # "idle" /\ pc[r] # "mint"
  <2>1. fresh' = fresh /\ req'[r].op = req[r].op /\ pc[r] \in InFlight
    BY <1>1, <1>6, MoveStep DEF InFlight
  <2>. QED
    BY <1>6, <2>1 DEF InFlight
<1>. QED
  BY <1>3, <1>4, <1>5, <1>6

\* Every step keeps items born one way or the other.
LEMMA BirthsStep ==
  ASSUME Inv, \A q \in Request : Course(q), Births, NEW r \in Request, Step(r)
  PROVE  Births'
<1> SUFFICES ASSUME NEW h \in Handle PROVE SeedBorn(h)' \/ CompleteBorn(h)'
  BY SessionItemsStep DEF Births
<1>1. /\ TypeOK /\ Local(r) /\ Handles /\ Course(r)
  BY DEF Inv
<1>2. h # NoHandle /\ NoRow.kind = "absent"
  BY DEF Handle, NoHandle, NoRow, NewRow
<1>3. CASE (InsertSeed(r) \/ InsertComplete(r)) /\ h = fresh[r]
  <2>1. /\ pc[r] = "insert" /\ UNCHANGED <<req, stored, fresh, session, sessions>>
    BY <1>3 DEF InsertSeed, InsertComplete
  <2>2. Spawned(h)' = {}
    BY <1>3, <2>1 DEF Births, Spawned
  <2>3. SawSeed(h)' = {}
    BY <1>1, <1>3, <2>1 DEF Handles, SawSeed
  <2>4. CASE InsertComplete(r)
    <3>1. item'[h].kind = "complete"
      BY <1>1, <1>3, <2>4 DEF InsertComplete, NewRow, TypeOK
    <3>. QED
      BY <2>2, <2>3, <3>1 DEF CompleteBorn
  <2>5. CASE InsertSeed(r)
    <3>1. req[r].op = "seed"
      BY <2>5 DEF InsertSeed
    <3>2. \A q \in Request : fresh'[q] = h => req'[q].op # "create"
      BY <1>1, <1>2, <1>3, <2>1, <3>1 DEF Handles
    <3>. QED
      BY <2>2, <3>2 DEF SeedBorn
  <2>. QED
    BY <1>3, <2>4, <2>5
<1>4. CASE SeedBorn(h) /\ ~((InsertSeed(r) \/ InsertComplete(r)) /\ h = fresh[r])
  <2>1. ASSUME NEW i \in Spawned(h)'
        PROVE  \E q \in SawSeed(h)' : session'[q] = i
    <3>1. CASE i \in Spawned(h)
      <4>1. PICK q \in SawSeed(h) : session[q] = i
        BY <1>4, <3>1 DEF SeedBorn
      <4>2. i # NoSession /\ q \in Request
        BY <3>1, <4>1, SessionsGrow DEF Spawned, NoSession, SawSeed
      <4>3. SubmitActivity(r) => q # r
        BY <1>1, <4>1, <4>2 DEF SubmitActivity, Course
      <4>4. session'[q] = session[q]
        BY <1>1, <4>2, <4>3, SessionsGrow DEF TypeOK
      <4>. QED
        BY <4>1, <4>4, SawSeedStep
    <3>2. CASE i \notin Spawned(h)
      <4>1. /\ SubmitActivity(r) /\ session'[r] = i
            /\ r \in SawSeed(h)' \/ (fresh[r] = h /\ req[r].op = "create")
        BY <1>1, <2>1, <3>2, SpawnStep
      <4>2. ~(fresh[r] = h /\ req[r].op = "create")
        BY <1>4, <4>1 DEF SeedBorn, SubmitActivity
      <4>. QED
        BY <4>1, <4>2
    <3>. QED
      BY <3>1, <3>2
  <2>2. ASSUME NEW q \in Request, fresh'[q] = h, req'[q].op = "create"
        PROVE  pc'[q] \in {"insert", "failed"}
    <3>1. CASE fresh[q] = h /\ req[q].op = "create" /\ pc'[q] = pc[q]
      BY <1>4, <3>1 DEF SeedBorn
    <3>2. CASE /\ q = r /\ fresh[q] = h /\ req[q].op = "create"
               /\ pc[q] \notin {"idle", "failed"}
      <4>1. pc[r] = "insert" /\ pc[r] # "idle"
        BY <1>4, <3>2 DEF SeedBorn
      <4>2. pc'[r] = "failed"
        BY <1>1, <1>4, <3>2, <4>1, MoveStep
      <4>. QED
        BY <3>2, <4>2
    <3>. QED
      BY <2>2, <3>1, <3>2, RegistersStep
  <2>. QED
    BY <2>1, <2>2 DEF SeedBorn
<1>5. CASE CompleteBorn(h) /\ ~((InsertSeed(r) \/ InsertComplete(r)) /\ h = fresh[r])
  <2>1. SawSeed(h)' = {}
    BY <1>5, SawSeedStep DEF CompleteBorn
  <2>2. item'[h].kind # "seed"
    BY <1>1, <1>2, <1>5, RowChange DEF CompleteBorn
  <2>3. Spawned(h)' # Spawned(h) =>
          /\ SubmitActivity(r) /\ fresh[r] = h /\ req[r].op = "create"
          /\ Spawned(h) = {} /\ Spawned(h)' = Spawned(h) \cup {Len(sessions) + 1}
    <3>1. ASSUME Spawned(h)' # Spawned(h)
          PROVE  /\ SubmitActivity(r) /\ fresh[r] = h /\ req[r].op = "create"
                 /\ Spawned(h)' = Spawned(h) \cup {Len(sessions) + 1}
      BY <1>1, <1>5, <3>1, SpawnStep DEF CompleteBorn
    <3>2. ASSUME SubmitActivity(r), fresh[r] = h, req[r].op = "create"
          PROVE  Spawned(h) = {}
      BY <1>5, <3>2 DEF CompleteBorn, SubmitActivity
    <3>. QED
      BY <3>1, <3>2
  <2>4. \A i, j \in Spawned(h)' : i = j
    <3>1. CASE Spawned(h)' = Spawned(h)
      BY <1>5, <3>1 DEF CompleteBorn
    <3>2. CASE Spawned(h)' # Spawned(h)
      <4>1. Spawned(h)' = {Len(sessions) + 1}
        BY <2>3, <3>2
      <4>. QED
        BY <4>1
    <3>. QED
      BY <3>1, <3>2
  <2>5. ASSUME NEW q \in Request, fresh'[q] = h, req'[q].op = "create",
               pc'[q] \in {"refreshRead", "refreshWrite", "sidecars", "submit"}
        PROVE  Spawned(h)' = {}
    <3>1. fresh[q] = h /\ req[q].op = "create" /\ (pc'[q] = pc[q] \/ q = r)
      BY <2>5, RegistersStep
    <3>2. Spawned(h)' = Spawned(h)
      <4> SUFFICES ASSUME Spawned(h)' # Spawned(h) PROVE FALSE
        OBVIOUS
      <4>1. SubmitActivity(r) /\ fresh[r] = h
        BY <2>3
      <4>2. q = r
        BY <1>1, <1>2, <3>1, <4>1 DEF Handles
      <4>3. pc'[r] = "linkSession"
        BY <1>1, <4>1 DEF SubmitActivity, Goto, TypeOK
      <4>. QED
        BY <2>5, <4>2, <4>3
    <3>3. CASE pc'[q] = pc[q]
      BY <1>5, <2>5, <3>1, <3>2, <3>3 DEF CompleteBorn
    <3>4. CASE q = r
      <4>1. pc[r] # "idle"
        BY <1>1, <1>2, <3>1, <3>4 DEF Local
      <4>2. pc[r] \in {"insert", "refreshRead", "refreshWrite", "sidecars"}
        BY <1>1, <2>5, <3>1, <3>4, <4>1, MoveStep DEF Course, Local
      <4>3. pc[r] = "insert" => Spawned(h) = {}
        BY <3>1, <3>4 DEF Births, Spawned
      <4>. QED
        BY <1>5, <3>1, <3>2, <3>4, <4>2, <4>3 DEF CompleteBorn
    <3>. QED
      BY <3>1, <3>3, <3>4
  <2>. QED
    BY <2>1, <2>2, <2>4, <2>5 DEF CompleteBorn
<1>. QED
  BY <1>3, <1>4, <1>5 DEF Births

\* Every step keeps promoted items promoted by who found them a seed.
LEMMA PromotionsStep ==
  ASSUME Inv, \A q \in Request : Course(q), FoundComplete, Promotions,
         NEW r \in Request, Step(r)
  PROVE  Promotions'
<1> DEFINE Past == {"refreshRead", "refreshWrite", "submit", "linkSession",
                    "done", "failed"}
<1> SUFFICES ASSUME NEW h \in Handle, item'[h].kind = "complete"
             PROVE  \/ SawSeed(h)' = {}
                    \/ \E q \in SawSeed(h)' : pc'[q] \in Past
  BY DEF Promotions
<1>1. TypeOK /\ Local(r) /\ Course(r) /\ Handles
  BY DEF Inv
<1>2. CASE item[h].kind = "complete"
  <2>1. SawSeed(h)' = SawSeed(h)
    BY <1>2, SawSeedStep
  <2>2. ASSUME NEW q \in SawSeed(h), pc[q] \in Past PROVE pc'[q] \in Past
    <3>1. q \in Request
      BY DEF SawSeed
    <3>2. CASE q # r
      BY <1>1, <2>2, <3>1, <3>2, LocalsFrame
    <3>3. CASE q = r
      <4>1. fresh[r] = NoHandle /\ stored[r].kind = "seed"
        BY <1>1, <3>3 DEF SawSeed, Course
      <4>2. pc'[r] \in Past
        BY <1>1, <2>2, <3>3, <4>1, MoveStep DEF AfterRefresh, InFlight
      <4>. QED
        BY <3>3, <4>2
    <3>. QED
      BY <3>2, <3>3
  <2>. QED
    BY <1>2, <2>1, <2>2 DEF Promotions
<1>3. CASE item[h].kind # "complete"
  <2>1. CASE Commit(r) /\ ~CommitConflicts(r) /\ h = req[r].id
    <3>1. /\ pc[r] = "commit" /\ Exists(h)
      BY <2>1 DEF Commit, CommitConflicts
    <3>2. stored[r].kind = "seed"
      BY <1>1, <1>3, <2>1, <3>1 DEF Course, FoundComplete
    <3>3. pc'[r] = "refreshRead" /\ stored'[r] = stored[r] /\ req'[r].id = h
      BY <1>1, <2>1 DEF Commit, Goto, TypeOK
    <3>4. r \in SawSeed(h)'
      BY <3>2, <3>3 DEF SawSeed
    <3>. QED
      BY <3>3, <3>4
  <2>2. CASE InsertComplete(r) /\ h = fresh[r]
    <3>1. pc[r] = "insert" /\ UNCHANGED <<req, stored>>
      BY <2>2 DEF InsertComplete
    <3>2. SawSeed(h)' = {}
      BY <1>1, <2>2, <3>1 DEF Handles, SawSeed
    <3>. QED
      BY <3>2
  <2>. QED
    BY <1>1, <1>3, <2>1, <2>2, RowChange DEF NoRow, NewRow
<1>. QED
  BY <1>2, <1>3

-----------------------------------------------------------------------------
(* The second invariant, on top of Inv.                                    *)

Outcomes ==
  /\ \A r \in Request : Course(r)
  /\ SeedsAreEmpty
  /\ FoundComplete
  /\ VersionsClose
  /\ ItemsAreConfigured
  /\ ItemsAreLinked
  /\ SoleWritersIndex
  /\ FinitelyManyStarted
  /\ Births
  /\ Promotions

\* An empty registry, and one with a single item, satisfy it.
LEMMA InitOutcomes == Init => Outcomes
<1> SUFFICES ASSUME Init PROVE Outcomes
  OBVIOUS
<1>1. PICK kind \in {"absent", "seed", "complete"}, c \in Content :
        InitTables(kind, c)
  BY DEF Init
<1>2. /\ \A r \in Request : /\ pc[r] = "idle" /\ req[r].op = "none"
                            /\ req[r].id = NoHandle /\ fresh[r] = NoHandle
                            /\ stored[r].kind = "absent" /\ session[r] = NoSession
  BY DEF Init, NoReq, Asks, NoSnapshot
<1>3. \A r \in Request : Course(r)
  BY <1>2 DEF Course
<1>4. \A h \in Handle :
        /\ item[h].kind = "complete" <=> h = 1 /\ kind = "complete"
        /\ item[h].kind = "seed" <=> h = 1 /\ kind = "seed"
        /\ item[h].prev = NoHandle
        /\ item[h].kind \in {"absent", "seed", "complete"}
  BY <1>1 DEF InitTables, FirstItem, NewRow, NoRow
<1>5. SeedsAreEmpty
  BY <1>1, <1>4 DEF SeedsAreEmpty, InitTables, NoHistory
<1>6. FoundComplete /\ VersionsClose
  BY <1>2, <1>4 DEF FoundComplete, VersionsClose, Handle, NoHandle
<1>7. ItemsAreConfigured
  BY <1>1, <1>4 DEF InitTables, ItemsAreConfigured, Exists
<1> DEFINE first == [job |-> "REGISTER_CREATE_ACTIVITY", item |-> 1]
<1>8. /\ kind = "complete" /\ Versioning => sessions = <<first>>
      /\ ~(kind = "complete" /\ Versioning) => sessions = <<>>
  BY <1>1 DEF InitTables
<1>9. ItemsAreLinked
  <2> SUFFICES ASSUME Versioning, NEW h \in Handle, item[h].kind = "complete"
               PROVE  Linked(h)
    BY DEF ItemsAreLinked
  <2>1. h = 1 /\ kind = "complete" /\ sessions = <<first>>
    BY <1>4, <1>8
  <2>2. item[h].createLink = 1
    BY <1>1, <2>1 DEF InitTables, FirstItem, NewRow
  <2>3. 1 \in DOMAIN sessions /\ sessions[1] = first
    BY <2>1
  <2>. QED
    BY <2>1, <2>2, <2>3 DEF Linked
<1>10. SoleWritersIndex
  <2>1. \A r \in Request, h \in Handle : ~Wrote(r, h)
    BY <1>2 DEF Wrote
  <2>2. \A h \in Handle : item[h].kind = "complete" => item[h].search = content[h]
    BY <1>1, <1>4 DEF InitTables, FirstItem, NewRow
  <2>. QED
    BY <2>1, <2>2 DEF SoleWritersIndex, SoleWriter
<1>11. FinitelyManyStarted
  <2>1. {r \in Request : pc[r] # "idle"} = {}
    BY <1>2
  <2>. QED
    BY <2>1, FS_EmptySet DEF FinitelyManyStarted
<1>12. \A h \in Handle : SawSeed(h) = {}
  BY <1>2 DEF SawSeed
<1>13. Births
  <2>1. \A i \in DOMAIN sessions : i = 1 /\ sessions[i] = first /\ minted = 1
    <3>1. CASE kind = "complete" /\ Versioning
      BY <1>1, <1>8, <3>1 DEF InitTables
    <3>2. CASE ~(kind = "complete" /\ Versioning)
      BY <1>8, <3>2
    <3>. QED
      BY <3>1, <3>2
  <2>2. ASSUME NEW h \in Handle PROVE SeedBorn(h) \/ CompleteBorn(h)
    <3>1. CASE item[h].kind = "seed"
      <4>1. sessions = <<>>
        BY <1>4, <1>8, <3>1
      <4>. QED
        BY <1>2, <4>1 DEF SeedBorn, Spawned, Handle, NoHandle
    <3>2. CASE item[h].kind # "seed"
      BY <1>2, <1>12, <2>1, <3>2 DEF CompleteBorn, Spawned
    <3>. QED
      BY <3>1, <3>2
  <2>. QED
    BY <1>2, <2>1, <2>2 DEF Births
<1>14. Promotions
  BY <1>12 DEF Promotions
<1>. QED
  BY <1>3, <1>5, <1>6, <1>7, <1>9, <1>10, <1>11, <1>13, <1>14 DEF Outcomes

\* Every step of a request keeps it.
LEMMA StepOutcomes ==
  ASSUME Inv, Outcomes, NEW r \in Request, Step(r)
  PROVE  Outcomes'
<1>1. /\ \A q \in Request : Course(q)
      /\ SeedsAreEmpty /\ FoundComplete /\ VersionsClose /\ ItemsAreConfigured
      /\ ItemsAreLinked /\ SoleWritersIndex /\ FinitelyManyStarted
      /\ Births /\ Promotions
  BY DEF Outcomes
<1>2. \A q \in Request : Course(q)'
  BY <1>1, CourseStep
<1>3. SeedsAreEmpty' /\ FoundComplete'
  BY <1>1, SeedsStep, FoundStep
<1>4. VersionsClose' /\ ItemsAreConfigured'
  BY <1>1, VersionsCloseStep, ConfiguredStep
<1>5. ItemsAreLinked' /\ SoleWritersIndex'
  BY <1>1, LinkedStep, IndexStep
<1>6. FinitelyManyStarted' /\ Births' /\ Promotions'
  BY <1>1, StartedStep, BirthsStep, PromotionsStep
<1>. QED
  BY <1>2, <1>3, <1>4, <1>5, <1>6 DEF Outcomes

\* A step that changes nothing keeps it too.
LEMMA StutterOutcomes ==
  ASSUME Outcomes, UNCHANGED vars
  PROVE  Outcomes'
<1> USE DEF vars, tables, locals
<1>1. (\A r \in Request : Course(r))'
  BY DEF Outcomes, Course, Activity, Written
<1>2. SeedsAreEmpty' /\ FoundComplete'
  BY DEF Outcomes, SeedsAreEmpty, FoundComplete, Exists
<1>3. VersionsClose' /\ ItemsAreConfigured'
  BY DEF Outcomes, VersionsClose, ItemsAreConfigured, Closing, Configuring, Exists
<1>4. ItemsAreLinked'
  BY DEF Outcomes, ItemsAreLinked, Linked, Linking, Written
<1>5. SoleWritersIndex'
  BY DEF Outcomes, SoleWritersIndex, SoleWriter, Wrote, Written
<1>6. FinitelyManyStarted'
  BY DEF Outcomes, FinitelyManyStarted
<1>7. \A h \in Handle : SawSeed(h)' = SawSeed(h) /\ Spawned(h)' = Spawned(h)
  BY DEF SawSeed, Spawned
<1>8. Births' /\ Promotions'
  BY <1>7 DEF Outcomes, Births, SeedBorn, CompleteBorn, Promotions
<1>. QED
  BY <1>1, <1>2, <1>3, <1>4, <1>5, <1>6, <1>8 DEF Outcomes

\* Outcomes is an invariant.
THEOREM OutcomesInvariance == Spec => []Outcomes
<1>1. Inv /\ Outcomes /\ [Next]_vars => Outcomes'
  BY StepOutcomes, StutterOutcomes DEF Next, Finished
<1>. QED
  BY <1>1, InitOutcomes, Invariance, PTL DEF Spec

\* Once a version request is through, the item it versioned has a next version.
LEMMA VersionsCloseFact == Outcomes => VersionedItemIsClosed
<1> SUFFICES ASSUME Outcomes, NEW h \in Handle, NEW k \in Handle,
                    Exists(h), Exists(k), item[k].prev = h, Settled(k)
             PROVE  item[h].next # NoHandle
  BY DEF VersionedItemIsClosed
<1>1. ASSUME NEW r \in Request, Closing(r, h, k) PROVE FALSE
  BY <1>1 DEF Closing, Settled, Written, Ended, Handle, NoHandle
<1>. QED
  BY <1>1 DEF Outcomes, VersionsClose

\* An item whose requests are through has its access settings.
LEMMA ConfiguredFact == Outcomes => RegisteredItemIsConfigured
<1> SUFFICES ASSUME Outcomes, NEW h \in Handle, Exists(h), Settled(h)
             PROVE  h \in auth
  BY DEF RegisteredItemIsConfigured
<1>1. ASSUME NEW r \in Request, Configuring(r, h) PROVE FALSE
  BY <1>1 DEF Configuring, Settled, Written, Ended, Handle, NoHandle
<1>. QED
  BY <1>1 DEF Outcomes, ItemsAreConfigured

\* A complete item whose requests are through is linked to its activity.
LEMMA LinkedFact == Outcomes => ActivityIsLinked
<1> SUFFICES ASSUME Outcomes, Versioning, NEW h \in Handle,
                    item[h].kind = "complete", Settled(h)
             PROVE  Linked(h)
  BY DEF ActivityIsLinked, Linked
<1>1. ASSUME NEW r \in Request, Linking(r, h) PROVE FALSE
  BY <1>1 DEF Linking, Settled, Ended
<1>. QED
  BY <1>1 DEF Outcomes, ItemsAreLinked

\* What requests that ran to their end leave is complete, whatever overlapped
\* them and whoever stopped midway.
THEOREM SettledItemsAreComplete == Spec => []SettledItemIsComplete
<1>1. Outcomes => SettledItemIsComplete
  BY VersionsCloseFact, ConfiguredFact, LinkedFact DEF SettledItemIsComplete
<1>. QED
  BY <1>1, OutcomesInvariance, PTL

\* The search document of a settled item with at most one writer is that of its
\* current domain info.
THEOREM SearchDocumentsAreFresh == Spec => []SearchTextIsFresh
<1>1. ASSUME Outcomes, NEW h \in Handle, item[h].kind = "complete", Settled(h),
             Cardinality(Writers(h)) <= 1
      PROVE  item[h].search = content[h]
  <2>1. \A r \in Request : Wrote(r, h) => r \in Writers(h) /\ pc[r] = "done"
    BY <1>1 DEF Wrote, Settled, Ended, Writers
  <2>2. \A q, r \in Writers(h) : q = r
    <3>1. Writers(h) \in SUBSET {r \in Request : pc[r] # "idle"}
      BY DEF Writers
    <3>2. IsFiniteSet(Writers(h))
      BY <1>1, <3>1, FS_Subset DEF Outcomes, FinitelyManyStarted
    <3>. QED
      BY <1>1, <3>2, AtMostOne
  <2>3. CASE \A r \in Request : ~Wrote(r, h)
    BY <1>1, <2>3 DEF Outcomes, SoleWritersIndex
  <2>4. ASSUME NEW r \in Request, Wrote(r, h) PROVE item[h].search = content[h]
    <3>1. SoleWriter(r, h) /\ pc[r] \in Indexed
      BY <2>1, <2>2, <2>4 DEF SoleWriter, Indexed
    <3>. QED
      BY <1>1, <3>1 DEF Outcomes, SoleWritersIndex
  <2>. QED
    BY <2>3, <2>4
<1>2. Outcomes => SearchTextIsFresh
  BY <1>1 DEF SearchTextIsFresh
<1>. QED
  BY <1>2, OutcomesInvariance, PTL

\* The larger of two numbers is at least each of them.
LEMMA MaxOfTwo ==
  ASSUME NEW m \in Nat, NEW n \in Nat
  PROVE  Max({m, n}) \in Nat /\ Max({m, n}) >= m /\ Max({m, n}) >= n
<1>1. \E x \in {m, n} : \A y \in {m, n} : x >= y
  <2>1. CASE m >= n
    BY <2>1
  <2>2. CASE n >= m
    BY <2>2
  <2>. QED
    BY <2>1, <2>2
<1>2. Max({m, n}) \in {m, n} /\ \A y \in {m, n} : Max({m, n}) >= y
  BY <1>1 DEF Max
<1>. QED
  BY <1>2

\* There are at most as many create activities of an item as requests that
\* found it a seed, and one if it was registered complete.
LEMMA SpawnedCount ==
  ASSUME Inv, Outcomes, NEW h \in Handle
  PROVE  Cardinality(Spawned(h)) <= Max({1, Cardinality(SawSeed(h))})
<1>1. IsFiniteSet(Spawned(h))
  <2>1. DOMAIN sessions = 1..Len(sessions) /\ Len(sessions) \in Nat
    BY DEF Inv, TypeOK
  <2>2. IsFiniteSet(1..Len(sessions))
    BY <2>1, FS_Interval
  <2>3. Spawned(h) \in SUBSET (1..Len(sessions))
    BY <2>1 DEF Spawned
  <2>. QED
    BY <2>2, <2>3, FS_Subset
<1>2. IsFiniteSet(SawSeed(h))
  <2>1. SawSeed(h) \in SUBSET {r \in Request : pc[r] # "idle"}
    BY DEF SawSeed, Outcomes, Course
  <2>. QED
    BY <2>1, FS_Subset DEF Outcomes, FinitelyManyStarted
<1> DEFINE n == Cardinality(Spawned(h))
           m == Cardinality(SawSeed(h))
<1>3. n \in Nat /\ m \in Nat
  BY <1>1, <1>2, FS_CardinalityType
<1>4. Max({1, m}) \in Nat /\ Max({1, m}) >= 1 /\ Max({1, m}) >= m
  BY <1>3, MaxOfTwo
<1>5. CASE SeedBorn(h)
  <2>1. n <= m
    <3> SUFFICES ASSUME ~(n <= m) PROVE FALSE
      OBVIOUS
    <3> DEFINE f == [i \in Spawned(h) |-> CHOOSE r \in SawSeed(h) : session[r] = i]
    <3>1. \A i \in Spawned(h) : f[i] \in SawSeed(h) /\ session[f[i]] = i
      BY <1>5 DEF SeedBorn
    <3>2. f \in [Spawned(h) -> SawSeed(h)]
      BY <3>1
    <3>3. m < n
      BY <1>3
    <3> HIDE DEF f
    <3>4. \E i, j \in Spawned(h) : i # j /\ f[i] = f[j]
      BY <1>1, <1>2, <3>2, <3>3, FS_PigeonHole
    <3>. QED
      BY <3>1, <3>4
  <2>. QED
    BY <1>3, <1>4, <2>1
<1>6. CASE CompleteBorn(h)
  <2>1. CASE Spawned(h) = {}
    BY <1>3, <1>4, <2>1, FS_EmptySet
  <2>2. ASSUME NEW i \in Spawned(h) PROVE n = 1
    <3>1. Spawned(h) = {i}
      BY <1>6, <2>2 DEF CompleteBorn
    <3>. QED
      BY <3>1, FS_Singleton
  <2>. QED
    BY <1>3, <1>4, <2>1, <2>2
<1>. QED
  BY <1>5, <1>6 DEF Outcomes, Births

\* Only updates that overlapped the promotion of a seed spawn a second create
\* activity.
THEOREM CreateActivitiesAreCounted == Spec => []CreateActivitiesOnlyForSeeds
<1>1. Inv /\ Outcomes => CreateActivitiesOnlyForSeeds
  BY SpawnedCount DEF CreateActivitiesOnlyForSeeds, Spawned, SawSeed
<1>. QED
  BY <1>1, Invariance, OutcomesInvariance, PTL

\* An update without a reason reaches a complete item only if another request
\* that found the seed too promoted it first.
THEOREM UnreasonedUpdatesWereOvertaken == Spec => UnreasonedUpdateWasOvertaken
<1>1. ASSUME Inv, Outcomes, NEW r \in Request,
             pc[r] = "commit", pc'[r] = "refreshRead",
             item[req[r].id].kind = "complete", ~req[r].reasoned
      PROVE  /\ stored[r].kind = "seed"
             /\ \E q \in Request \ {r} :
                  /\ req[q].id = req[r].id
                  /\ stored[q].kind = "seed"
                  /\ pc[q] \notin {"idle", "authorise", "repoFetch",
                                   "commit", "refused", "aborted"}
  <2>1. Course(r) /\ Local(r)
    BY <1>1 DEF Inv, Outcomes
  <2>2. stored[r].kind = "seed" /\ req[r].id \in Handle
    BY <1>1, <2>1 DEF Course, Local
  <2>3. r \in SawSeed(req[r].id)
    BY <2>2 DEF SawSeed
  <2>4. PICK q \in SawSeed(req[r].id) :
               pc[q] \in {"refreshRead", "refreshWrite", "submit", "linkSession",
                          "done", "failed"}
    BY <1>1, <2>2, <2>3 DEF Outcomes, Promotions
  <2>5. q # r
    BY <1>1, <2>4
  <2>. QED
    BY <2>2, <2>4, <2>5 DEF SawSeed
<1>2. Inv /\ Outcomes /\ [Next]_vars =>
        [\A r \in Request :
           /\ pc[r] = "commit" /\ pc'[r] = "refreshRead"
           /\ item[req[r].id].kind = "complete" /\ ~req[r].reasoned
           => /\ stored[r].kind = "seed"
              /\ \E q \in Request \ {r} :
                   /\ req[q].id = req[r].id
                   /\ stored[q].kind = "seed"
                   /\ pc[q] \notin {"idle", "authorise", "repoFetch",
                                    "commit", "refused", "aborted"}]_vars
  BY <1>1
<1>. QED
  BY <1>2, Invariance, OutcomesInvariance, PTL DEF Spec, UnreasonedUpdateWasOvertaken
=============================================================================
