-------------------------- MODULE AdminImport_proofs --------------------------
(* Theorems about AdminImport, for any set of requests, any contents, any  *)
(* file and any bound on the handles.  Imports break much of what is proved *)
(* of the registry; the lemmas of Registry_proofs that say what a step of a *)
(* request does hold nevertheless, and are cited here as R!...              *)
EXTENDS AdminImport, FiniteSetTheorems, TLAPS

R == INSTANCE Registry_proofs

-----------------------------------------------------------------------------
(* The registry of AdminImport is that of Registry_proofs.                 *)

LEMMA SameHandles ==
  /\ R!Handle = Handle /\ R!NoHandle = NoHandle
  /\ \A h : Exists(h) <=> R!Exists(h)
  /\ \A S : R!Max(S) = Max(S)
BY DEF R!Handle, Handle, R!NoHandle, NoHandle, Exists, Reg!Exists, R!Exists, Reg!Handle,
   R!Max, Max

LEMMA SameRows ==
  /\ \A k, p, n : Reg!NewRow(k, p, n) = R!NewRow(k, p, n)
  /\ Reg!NoRow = R!NoRow
  /\ Reg!NoHistory = R!NoHistory
  /\ \A f, i, c : Reg!AddEntry(f, i, c) = R!AddEntry(f, i, c)
BY DEF Reg!NewRow, R!NewRow, Reg!NoRow, R!NoRow, Reg!NoHistory, R!NoHistory,
   Reg!AddEntry, R!AddEntry, Reg!NoHandle, R!NoHandle, Reg!NoSession, R!NoSession

LEMMA SameIds ==
  /\ \A f : Reg!NextHistoryId(f) = R!NextHistoryId(f)
  /\ \A h : Reg!Snapshot(h) = R!Snapshot(h)
  /\ \A h : Reg!VersionNumber(h) = R!VersionNumber(h)
  /\ \A r : Reg!Written(r) = R!Written(r)
BY DEF Reg!NextHistoryId, R!NextHistoryId, Reg!Max, R!Max, Reg!Snapshot, R!Snapshot,
   Reg!VersionNumber, R!VersionNumber, Reg!Written, R!Written, Reg!NoHandle, R!NoHandle

LEMMA SameConflicts ==
  \A r : Reg!CommitConflicts(r) <=> R!CommitConflicts(r)
BY DEF Reg!CommitConflicts, R!CommitConflicts, Reg!Exists, R!Exists, Reg!Handle, R!Handle

LEMMA SameTypes == Reg!TypeOK <=> R!TypeOK
BY DEF Reg!TypeOK, R!TypeOK, Reg!Handle, R!Handle, Reg!ItemRow, R!ItemRow,
   Reg!HandleOrNone, R!HandleOrNone, Reg!NoHandle, R!NoHandle, Reg!ContentOrNone,
   R!ContentOrNone, Reg!SessionRecord, R!SessionRecord, Reg!InFlight, R!InFlight,
   Reg!Ended, R!Ended, Reg!ReqRecord, R!ReqRecord, Reg!AllOps, R!AllOps,
   Reg!SnapshotRecord, R!SnapshotRecord

\* Every step of a request.
LEMMA SameSteps == ASSUME NEW r \in Request, Reg!Step(r) PROVE R!Step(r)
<1>1. Reg!BeginUpdate(r) => R!BeginUpdate(r)
  <2>1. \A q : Reg!Fetch(r, q) => R!Fetch(r, q)
    BY SameIds DEF Reg!Fetch, R!Fetch, Reg!tables, R!tables, Reg!Goto, R!Goto, Reg!Exists,
       R!Exists, Reg!Handle, R!Handle
  <2>2. \A op, h, c, n, b : Reg!Asks(op, h, c, n, b) = R!Asks(op, h, c, n, b)
    BY DEF Reg!Asks, R!Asks
  <2>. QED
    BY <2>1, <2>2 DEF Reg!BeginUpdate, R!BeginUpdate, Reg!Handle, R!Handle
<1> USE DEF Reg!tables, R!tables, Reg!Goto, R!Goto, Reg!Fetch, R!Fetch, Reg!Asks, R!Asks,
    Reg!Exists, R!Exists, Reg!Handle, R!Handle, Reg!NoHandle, R!NoHandle, Reg!Written,
    R!Written
<1>2. Reg!BeginRevert(r) => R!BeginRevert(r)
  BY SameIds DEF Reg!BeginRevert, R!BeginRevert
<1>3. Reg!BeginVersion(r) => R!BeginVersion(r)
  BY SameIds DEF Reg!BeginVersion, R!BeginVersion
<1>4. Reg!Authorise(r) => R!Authorise(r)
  BY DEF Reg!Authorise, R!Authorise, Reg!CheckNotLocked, R!CheckNotLocked
<1>5. Reg!RepoFetch(r) => R!RepoFetch(r)
  BY SameIds DEF Reg!RepoFetch, R!RepoFetch
<1>6. Reg!Commit(r) => R!Commit(r)
  BY SameConflicts, SameRows DEF Reg!Commit, R!Commit
<1>7. Reg!BeginRegister(r) => R!BeginRegister(r)
  BY DEF Reg!BeginRegister, R!BeginRegister
<1>8. Reg!MintHandle(r) => R!MintHandle(r)
  BY DEF Reg!MintHandle, R!MintHandle
<1>9. Reg!InsertSeed(r) => R!InsertSeed(r)
  BY SameRows DEF Reg!InsertSeed, R!InsertSeed
<1>10. Reg!InsertComplete(r) => R!InsertComplete(r)
  BY SameRows DEF Reg!InsertComplete, R!InsertComplete, Reg!NextVersionNumber,
     R!NextVersionNumber
<1>11. Reg!RefreshRead(r) => R!RefreshRead(r)
  BY SameIds DEF Reg!RefreshRead, R!RefreshRead
<1>12. Reg!RefreshWrite(r) => R!RefreshWrite(r)
  BY DEF Reg!RefreshWrite, R!RefreshWrite, Reg!AfterRefresh, R!AfterRefresh,
     Reg!SearchDocument, R!SearchDocument
<1>13. Reg!EnsureSidecars(r) => R!EnsureSidecars(r)
  BY DEF Reg!EnsureSidecars, R!EnsureSidecars, Reg!AfterSidecars, R!AfterSidecars
<1>14. Reg!LinkNext(r) => R!LinkNext(r)
  BY DEF Reg!LinkNext, R!LinkNext
<1>15. Reg!SubmitActivity(r) => R!SubmitActivity(r)
  BY DEF Reg!SubmitActivity, R!SubmitActivity
<1>16. Reg!LinkSession(r) => R!LinkSession(r)
  BY DEF Reg!LinkSession, R!LinkSession
<1>17. Reg!BeginLock(r) => R!BeginLock(r)
  BY DEF Reg!BeginLock, R!BeginLock
<1>18. Reg!SetLocked(r) => R!SetLocked(r)
  BY DEF Reg!SetLocked, R!SetLocked, Reg!LockEvent, R!LockEvent
<1>19. Reg!Delete(r) => R!Delete(r)
  BY SameRows DEF Reg!Delete, R!Delete
<1>20. Reg!Fail(r) => R!Fail(r)
  BY DEF Reg!Fail, R!Fail, Reg!InFlight, R!InFlight
<1> HIDE DEF Reg!tables, R!tables, Reg!Goto, R!Goto, Reg!Fetch, R!Fetch, Reg!Asks, R!Asks,
    Reg!Exists, R!Exists, Reg!Handle, R!Handle, Reg!NoHandle, R!NoHandle, Reg!Written,
    R!Written
<1>21. Reg!Step(r) <=>
         \/ Reg!BeginUpdate(r) \/ Reg!BeginRevert(r) \/ Reg!BeginVersion(r)
         \/ Reg!Authorise(r) \/ Reg!RepoFetch(r) \/ Reg!Commit(r)
         \/ Reg!BeginRegister(r) \/ Reg!MintHandle(r)
         \/ Reg!InsertSeed(r) \/ Reg!InsertComplete(r)
         \/ Reg!RefreshRead(r) \/ Reg!RefreshWrite(r) \/ Reg!EnsureSidecars(r)
         \/ Reg!LinkNext(r) \/ Reg!SubmitActivity(r) \/ Reg!LinkSession(r)
         \/ Reg!BeginLock(r) \/ Reg!SetLocked(r) \/ Reg!Delete(r) \/ Reg!Fail(r)
  BY DEF Reg!Step
<1>. QED
  BY <1>1, <1>2, <1>3, <1>4, <1>5, <1>6, <1>7, <1>8, <1>9, <1>10, <1>11, <1>12, <1>13,
     <1>14, <1>15, <1>16, <1>17, <1>18, <1>19, <1>20, <1>21 DEF R!Step

\* What the registry asks of its constants.
LEMMA RegistryAssumptions ==
  /\ NoContent \notin Content /\ Content # {}
  /\ MaxHandle \in Nat \ {0}
  /\ Ops \subseteq R!AllOps
  /\ Versioning \in BOOLEAN
BY ContentAssumption, MaxHandleAssumption, OpsAssumption, VersioningAssumption
   DEF R!AllOps

-----------------------------------------------------------------------------
(* The inductive invariant.                                                *)

BeforeImport == {"idle", "export", "exportLock", "exported", "refused"}
Restoring == {"refreshRead", "refreshWrite", "sidecars", "settings", "lockCheck",
              "lockSet"}

\* History ids that are an interval from 0, and those with a newest one.
Numbered(f) == \E n \in Nat : DOMAIN f = 0..(n - 1)
HasNewest(f) == DOMAIN f = {} \/ \E m \in DOMAIN f : \A i \in DOMAIN f : i <= m

\* A bundle as an export makes it, or as it was edited.
IsBundle(b) ==
  /\ b = Bundle(b.row, b.content, b.history, b.locked)
  /\ b.row \in R!ItemRow /\ b.row.kind # "absent" /\ b.row.search = NoContent
  /\ b.content \in R!ContentOrNone
  /\ b.history \in [DOMAIN b.history -> Content]
  /\ b.locked \in BOOLEAN
  /\ Numbered(b.history)
  /\ "silentUpdate" \notin Ops /\ b.content # NoContent =>
       \E m \in DOMAIN b.history : /\ b.content = b.history[m]
                                   /\ \A i \in DOMAIN b.history : i <= m

FileInv ==
  /\ DOMAIN file = Handle
  /\ \A h \in Handle : IsBundle(file[h]) \/ file[h] \in {NoBundle, Malformed}
  /\ apc = "exportLock" => at \in Parsed

\* What an import under way has still to do is what its mode lets it do.
PlanInv ==
  /\ apc \in Importing \cup BeforeImport \cup {"done", "failed"}
  /\ settings \in Settings
  /\ listed \subseteq Handle /\ deleting \subseteq listed
  /\ todo \subseteq Handle
  /\ at \in Handle \cup {NoHandle}
  /\ read \in R!ContentOrNone
  /\ newSize \in Int
  /\ apc \in BeforeImport => deleting = {}
  /\ apc \in Importing =>
       /\ ~settings.trial
       /\ todo \subseteq Parsed
       /\ settings.mode = "OVERWRITE_ONLY" => Parsed \subseteq listed
       /\ settings.mode = "ADD_ONLY" => Parsed \cap listed = {}
       /\ deleting \cap Parsed = {}
       /\ deleting # {} => settings.mode = "SYNC_DELETION_ALLOWED" /\ settings.deletion
  /\ apc \in Restoring => at \in Parsed \ todo

\* The tables, and what the labels of requests say of them.
RegistryInv ==
  /\ R!TypeOK
  /\ \A r \in Request : /\ R!Local(r)
                        /\ pc[r] = "setLocked" => req[r].op \in {"lock", "unlock"}

\* Handles come from the sequence or from the file.
HandlesInv ==
  /\ \A h \in Handle \ Replaced : Exists(h) => h <= minted
  /\ \A r \in Request : /\ fresh[r] <= minted
                        /\ req[r].id <= minted \/ req[r].id \in Replaced
  /\ \A r, q \in Request : fresh[r] = fresh[q] => r = q \/ fresh[r] = NoHandle
  /\ \A r \in Request : pc[r] = "insert" /\ fresh[r] \notin Replaced =>
       ~Exists(fresh[r]) /\ \A q \in Request : req[q].id # fresh[r]

\* Histories are numbered without a gap until an import has replaced the item
\* and an update that straddled the import has written.
HistoryInv ==
  /\ \A h \in Handle :
       /\ HasNewest(history[h])
       /\ h \notin Replaced \/ Updaters(h) = {} => Numbered(history[h])
  /\ \A r \in Request :
       pc[r] = "commit" /\ Exists(req[r].id) /\ req[r].id \notin Replaced =>
         existing[r].nextId <= R!NextHistoryId(history[req[r].id])

\* An item without access settings is new, or the one that the import is at.
Unconfigured == {"refreshRead", "refreshWrite", "sidecars", "failed"}
AuthInv ==
  \A h \in Handle : Exists(h) /\ h \notin auth =>
    \/ \E r \in Request : fresh[r] = h /\ pc[r] \in Unconfigured
    \/ h = at /\ apc \in Unconfigured

AdminInv ==
  /\ RegistryInv
  /\ PlanInv
  /\ FileInv
  /\ HandlesInv
  /\ HistoryInv
  /\ ShownContentIsNewestEntry
  /\ AuthInv
  /\ R!LockTrail

-----------------------------------------------------------------------------
(* What holds for as long as nobody else writes.                           *)

\* The item of a bundle is back, and then all that goes with it.
Restored(h) ==
  /\ Exists(h) /\ [item[h] EXCEPT !.search = NoContent] = file[h].row
  /\ content[h] = file[h].content /\ history[h] = file[h].history
Imported(h) ==
  Restored(h) /\ locked[h] = file[h].locked /\ h \in auth /\ item[h].search = content[h]

\* An export has the items it has passed, the one it is at without its lock.
ExportFaithful ==
  /\ \A h \in todo : Exists(h)
  /\ apc = "exported" => todo = {}
  /\ apc = "exportLock" => at \in Handle \ todo /\ Exists(at)
  /\ \A h \in Handle :
       file[h] = IF ~Exists(h) \/ h \in todo THEN NoBundle
                 ELSE IF apc = "exportLock" /\ h = at
                 THEN Bundle([item[h] EXCEPT !.search = NoContent], content[h], history[h],
                             FALSE)
                 ELSE BundleOf(h)

\* An import has made the items it has passed, and deletes one by one those it may.
Deletable == IF settings.mode = "SYNC_DELETION_ALLOWED" THEN listed \ Parsed ELSE {}
ImportFaithful ==
  /\ newSize = Cardinality(listed) + Cardinality(Parsed \ listed) - Cardinality(Deletable)
  /\ \A h \in Handle \ Parsed :
       /\ Exists(h) <=> h \in listed /\ (h \in Deletable => h \in deleting)
       /\ \/ item[h] = before.item[h] /\ content[h] = before.content[h]
          \/ settings.mode = "SYNC_DELETION_ALLOWED" /\ settings.deletion
  /\ \A h \in Parsed \ todo : Imported(h) \/ (apc \in Restoring /\ h = at)
  /\ apc \in Restoring => Restored(at)
  /\ apc = "refreshWrite" => read = content[at]
  /\ apc \in {"sidecars", "settings", "lockCheck", "lockSet"} => item[at].search = content[at]
  /\ apc \in {"settings", "lockCheck", "lockSet"} => at \in auth
  /\ apc \in {"delete", "done"} => todo = {}
  /\ apc = "done" => deleting = {}

Faithful ==
  before # NoSnapshot =>
    /\ apc \in {"export", "exportLock", "exported"} => ExportFaithful
    /\ apc \in Importing \cup {"done"} /\ ~settings.trial => ImportFaithful
    /\ apc = "refused" \/ (apc = "done" /\ settings.trial) => Snapshot = before

-----------------------------------------------------------------------------
(* History ids.                                                            *)

LEMMA MaxIsNewest ==
  ASSUME NEW S, S \subseteq Nat, NEW m \in S, \A i \in S : i <= m
  PROVE  Max(S) = m
<1>1. \A x \in S : (\A y \in S : x >= y) => x = m
  OBVIOUS
<1>2. \A y \in S : m >= y
  OBVIOUS
<1>. QED
  BY <1>1, <1>2 DEF Max

\* With a newest entry there is a next id.
LEMMA NextIdIsNumber ==
  ASSUME NEW f, DOMAIN f \subseteq Nat, HasNewest(f)
  PROVE  /\ R!NextHistoryId(f) \in Nat
         /\ \A i \in DOMAIN f : i < R!NextHistoryId(f)
<1>1. CASE DOMAIN f = {}
  BY <1>1 DEF R!NextHistoryId
<1>2. CASE DOMAIN f # {}
  <2>1. PICK m \in DOMAIN f : \A i \in DOMAIN f : i <= m
    BY <1>2 DEF HasNewest
  <2>2. R!NextHistoryId(f) = m + 1
    BY <1>2, <2>1, MaxIsNewest, SameHandles DEF R!NextHistoryId
  <2>. QED
    BY <2>1, <2>2
<1>. QED
  BY <1>1, <1>2

LEMMA NumberedFacts ==
  ASSUME NEW f, Numbered(f)
  PROVE  /\ DOMAIN f \subseteq Nat /\ HasNewest(f)
         /\ DOMAIN f = 0..(R!NextHistoryId(f) - 1)
         /\ R!NextHistoryId(f) \in Nat
<1>1. PICK n \in Nat : DOMAIN f = 0..(n - 1)
  BY DEF Numbered
<1>2. HasNewest(f)
  <2>1. CASE n = 0
    BY <1>1, <2>1 DEF HasNewest
  <2>2. CASE n # 0
    <3>1. n - 1 \in DOMAIN f /\ \A i \in DOMAIN f : i <= n - 1
      BY <1>1, <2>2
    <3>. QED
      BY <3>1 DEF HasNewest
  <2>. QED
    BY <2>1, <2>2
<1>3. R!NextHistoryId(f) = n
  BY <1>1, R!NextIdOfInterval, RegistryAssumptions
<1>. QED
  BY <1>1, <1>2, <1>3

\* A new entry keeps a newest one, and at the next id it leaves no gap.
LEMMA AddEntryFacts ==
  ASSUME NEW f, DOMAIN f \subseteq Nat, NEW n \in Nat, NEW c
  PROVE  /\ DOMAIN R!AddEntry(f, n, c) = DOMAIN f \cup {n}
         /\ R!AddEntry(f, n, c)[n] = c
         /\ \A i \in DOMAIN f \ {n} : R!AddEntry(f, n, c)[i] = f[i]
         /\ HasNewest(f) => HasNewest(R!AddEntry(f, n, c))
         /\ Numbered(f) /\ n = R!NextHistoryId(f) => Numbered(R!AddEntry(f, n, c))
<1> DEFINE g == R!AddEntry(f, n, c)
<1>1. /\ DOMAIN g = DOMAIN f \cup {n} /\ g[n] = c
      /\ \A i \in DOMAIN f \ {n} : g[i] = f[i]
  BY DEF R!AddEntry
<1> HIDE DEF g
<1>2. ASSUME HasNewest(f) PROVE HasNewest(g)
  <2>1. CASE DOMAIN f = {}
    BY <1>1, <2>1 DEF HasNewest
  <2>2. CASE DOMAIN f # {}
    <3>1. PICK m \in DOMAIN f : \A i \in DOMAIN f : i <= m
      BY <1>2, <2>2 DEF HasNewest
    <3>2. CASE n <= m
      BY <1>1, <3>1, <3>2 DEF HasNewest
    <3>3. CASE m < n
      <4>1. \A i \in DOMAIN g : i <= n
        BY <1>1, <3>1, <3>3
      <4>. QED
        BY <1>1, <4>1 DEF HasNewest
    <3>. QED
      BY <3>1, <3>2, <3>3
  <2>. QED
    BY <2>1, <2>2
<1>3. ASSUME Numbered(f), n = R!NextHistoryId(f) PROVE Numbered(g)
  <2>1. DOMAIN f = 0..(n - 1)
    BY <1>3, NumberedFacts
  <2>2. DOMAIN g = 0..((n + 1) - 1) /\ n + 1 \in Nat
    BY <1>1, <2>1
  <2>. QED
    BY <2>2 DEF Numbered
<1>. QED
  BY <1>1, <1>2, <1>3 DEF g

-----------------------------------------------------------------------------
(* What the steps of the administrator do.                                 *)

\* The requests do not move.
LEMMA AdminFrame == AdminStep => UNCHANGED others
<1>1. BeginExport \/ ExportItem \/ ExportLock => UNCHANGED others
  BY DEF BeginExport, ExportItem, ExportLock
<1>2. BeginImport \/ FailImport => UNCHANGED others
  BY DEF BeginImport, FailImport
<1>3. Replace \/ RefreshRead \/ RefreshWrite \/ PutSidecars => UNCHANGED others
  BY DEF Replace, RefreshRead, RefreshWrite, PutSidecars, Locally
<1>4. CheckLock \/ SetLock \/ DeleteUnmatched => UNCHANGED others
  BY DEF CheckLock, SetLock, DeleteUnmatched, Locally
<1>. QED
  BY <1>1, <1>2, <1>3, <1>4 DEF AdminStep

\* Nothing is replaced before the import, and then one item at a time.
LEMMA ReplacedStep ==
  ASSUME PlanInv, AdminStep
  PROVE  /\ Replace => at' \in todo /\ Replaced' = Replaced \cup {at'}
         /\ ~Replace => Replaced' = Replaced
<1> USE DEF Replaced, BeforeImport
<1>0. ASSUME Replace PROVE at' \in todo /\ Replaced' = Replaced \cup {at'}
  <2>1. PICK h \in todo : at' = h /\ todo' = todo \ {h}
    BY <1>0 DEF Replace
  <2>2. apc = "replace" /\ apc' = "refreshRead" /\ file' = file /\ settings' = settings
    BY <1>0 DEF Replace, Locally
  <2>3. todo \subseteq Parsed /\ ~settings.trial
    BY <2>2 DEF PlanInv, Importing
  <2>4. Parsed' = Parsed
    BY <2>2 DEF Parsed
  <2>5. Replaced' = Replaced \cup {h}
    BY <2>1, <2>2, <2>3, <2>4
  <2>. QED
    BY <2>1, <2>5
<1> SUFFICES ASSUME ~Replace PROVE Replaced' = Replaced
  BY <1>0
<1>1. CASE BeginExport \/ ExportItem \/ ExportLock
  <2>1. CASE BeginExport
    BY <2>1 DEF BeginExport
  <2>2. CASE ExportItem
    <3>1. apc = "export" /\ apc' \in {"exportLock", "exported", "export"}
      BY <2>2 DEF ExportItem
    <3>. QED
      BY <3>1
  <2>3. CASE ExportLock
    BY <2>3 DEF ExportLock
  <2>. QED
    BY <1>1, <2>1, <2>2, <2>3
<1>2. CASE BeginImport
  <2>1. Replaced = {}
    BY <1>2 DEF BeginImport
  <2>2. file' = file
    BY <1>2 DEF BeginImport
  <2>3. \/ apc' = "refused" \/ settings'.trial \/ todo' = Parsed
    BY <1>2 DEF BeginImport
  <2>4. Parsed' = Parsed
    BY <2>2 DEF Parsed
  <2>. QED
    BY <2>1, <2>3, <2>4
<1>4. CASE /\ apc \in Importing /\ apc' \in Importing \cup {"done", "failed"}
           /\ UNCHANGED <<file, settings, todo>>
  <2>1. Parsed' = Parsed
    BY <1>4 DEF Parsed
  <2>. QED
    BY <1>4, <2>1 DEF Importing
<1>5. CASE RefreshRead \/ RefreshWrite \/ PutSidecars
  <2>1. CASE RefreshRead
    BY <2>1, <1>4 DEF RefreshRead, AfterRefresh, Locally, Importing
  <2>2. CASE RefreshWrite
    BY <2>2, <1>4 DEF RefreshWrite, AfterRefresh, Locally, Importing
  <2>3. CASE PutSidecars
    BY <2>3, <1>4 DEF PutSidecars, Locally, Importing
  <2>. QED
    BY <1>5, <2>1, <2>2, <2>3
<1>6. CASE CheckLock \/ SetLock \/ DeleteUnmatched \/ FailImport
  <2>1. CASE CheckLock
    BY <2>1, <1>4 DEF CheckLock, Continue, Locally, Importing
  <2>2. CASE SetLock
    BY <2>2, <1>4 DEF SetLock, Continue, Locally, Importing
  <2>3. CASE DeleteUnmatched
    BY <2>3, <1>4 DEF DeleteUnmatched, Continue, Locally, Importing
  <2>4. CASE FailImport
    BY <2>4, <1>4 DEF FailImport, Importing
  <2>. QED
    BY <1>6, <2>1, <2>2, <2>3, <2>4
<1>. QED
  BY <1>1, <1>2, <1>5, <1>6 DEF AdminStep

\* What an import step may do to the rows of one item: nothing, write its
\* search document, put the file's in their place, or delete them.
Leaves(h) == item'[h] = item[h] /\ content'[h] = content[h] /\ history'[h] = history[h]
Indexes(h) ==
  /\ RefreshWrite /\ h = at /\ Exists(h)
  /\ item'[h] = [item[h] EXCEPT !.search = read]
  /\ content'[h] = content[h] /\ history'[h] = history[h]
Puts(h) ==
  /\ Replace /\ h \in todo /\ at' = h /\ apc' = "refreshRead" /\ todo' = todo \ {h}
  /\ IsBundle(file[h])
  /\ item'[h] = file[h].row /\ content'[h] = file[h].content
  /\ history'[h] = file[h].history
  /\ auth' = auth \ {h}
Removes(h) ==
  /\ DeleteUnmatched /\ h \in deleting
  /\ item'[h] = R!NoRow /\ content'[h] = NoContent /\ history'[h] = R!NoHistory
  /\ auth' = auth \ {h}

LEMMA AdminRowStep ==
  ASSUME RegistryInv, PlanInv, FileInv, AdminStep, NEW h \in Handle
  PROVE  Leaves(h) \/ Indexes(h) \/ Puts(h) \/ Removes(h)
<1>0. /\ DOMAIN item = Handle /\ DOMAIN content = Handle /\ DOMAIN history = Handle
  BY SameHandles DEF RegistryInv, R!TypeOK
<1>1. CASE Replace
  <2>1. PICK k \in todo :
          /\ at' = k /\ todo' = todo \ {k}
          /\ item' = [item EXCEPT ![k] = file[k].row]
          /\ content' = [content EXCEPT ![k] = file[k].content]
          /\ history' = [history EXCEPT ![k] = file[k].history]
          /\ auth' = auth \ {k} /\ apc' = "refreshRead"
    BY <1>1 DEF Replace, ImportedHistory
  <2>2. k \in Handle /\ file[k].ok
    BY <1>1 DEF PlanInv, Replace, Importing, Parsed
  <2>3. IsBundle(file[k])
    BY <2>2 DEF FileInv, NoBundle, Malformed
  <2>4. CASE h = k
    BY <1>0, <1>1, <2>1, <2>3, <2>4 DEF Puts
  <2>5. CASE h # k
    BY <1>0, <2>1, <2>5 DEF Leaves
  <2>. QED
    BY <2>4, <2>5
<1>2. CASE RefreshWrite
  <2>1. content' = content /\ history' = history
    BY <1>2 DEF RefreshWrite
  <2>2. CASE Exists(at)
    <3>1. item' = [item EXCEPT ![at].search = read]
      BY <1>2, <2>2 DEF RefreshWrite
    <3>2. CASE h = at
      BY <1>0, <1>2, <2>1, <2>2, <3>1, <3>2 DEF Indexes
    <3>3. CASE h # at
      BY <1>0, <2>1, <3>1, <3>3 DEF Leaves
    <3>. QED
      BY <3>2, <3>3
  <2>3. CASE ~Exists(at)
    BY <1>2, <2>1, <2>3 DEF RefreshWrite, Leaves
  <2>. QED
    BY <2>2, <2>3
<1>3. CASE DeleteUnmatched
  <2>1. PICK k \in deleting :
          /\ item' = [item EXCEPT ![k] = R!NoRow]
          /\ content' = [content EXCEPT ![k] = NoContent]
          /\ history' = [history EXCEPT ![k] = R!NoHistory]
          /\ auth' = auth \ {k}
    BY <1>3, SameRows DEF DeleteUnmatched
  <2>2. CASE h = k
    BY <1>0, <1>3, <2>1, <2>2 DEF Removes
  <2>3. CASE h # k
    BY <1>0, <2>1, <2>3 DEF Leaves
  <2>. QED
    BY <2>2, <2>3
<1>4. CASE BeginExport \/ ExportItem \/ ExportLock \/ BeginImport \/ FailImport
  BY <1>4 DEF BeginExport, ExportItem, ExportLock, BeginImport, FailImport, tables, Leaves
<1>5. CASE RefreshRead \/ PutSidecars \/ CheckLock \/ SetLock
  BY <1>5 DEF RefreshRead, PutSidecars, CheckLock, SetLock, tables, Leaves
<1>. QED
  BY <1>1, <1>2, <1>3, <1>4, <1>5 DEF AdminStep

\* An import step keeps the tables well typed.
LEMMA AdminTypes ==
  ASSUME RegistryInv, PlanInv, FileInv, AdminStep
  PROVE  RegistryInv'
<1>0. R!TypeOK /\ UNCHANGED others /\ R!Handle = Handle
  BY AdminFrame, SameHandles DEF RegistryInv
<1>1. \A q \in Request : /\ R!Local(q)'
                         /\ pc'[q] = "setLocked" => req'[q].op \in {"lock", "unlock"}
  BY <1>0 DEF RegistryInv, others, R!Local, R!Written
<1>2. \/ UNCHANGED <<item, content, history>>
      \/ \E h \in Handle :
           \E row \in R!ItemRow, c \in R!ContentOrNone : \E f :
             /\ DOMAIN f \subseteq Nat /\ f \in [DOMAIN f -> Content]
             /\ item' = [item EXCEPT ![h] = row]
             /\ content' = [content EXCEPT ![h] = c]
             /\ history' = [history EXCEPT ![h] = f]
      \/ \E h \in Handle :
           /\ item' = [item EXCEPT ![h].search = read]
           /\ UNCHANGED <<content, history>>
  <2>1. CASE Replace
    <3>1. PICK k \in todo :
            /\ item' = [item EXCEPT ![k] = file[k].row]
            /\ content' = [content EXCEPT ![k] = file[k].content]
            /\ history' = [history EXCEPT ![k] = file[k].history]
      BY <2>1 DEF Replace, ImportedHistory
    <3>2. k \in Handle /\ file[k].ok
      BY <2>1 DEF PlanInv, Replace, Importing, Parsed
    <3>3. IsBundle(file[k])
      BY <3>2 DEF FileInv, NoBundle, Malformed
    <3>4. /\ file[k].row \in R!ItemRow /\ file[k].content \in R!ContentOrNone
          /\ DOMAIN file[k].history \subseteq Nat
          /\ file[k].history \in [DOMAIN file[k].history -> Content]
      BY <3>3, NumberedFacts DEF IsBundle
    <3>. QED
      BY <3>1, <3>2, <3>4
  <2>2. CASE RefreshWrite
    BY <2>2 DEF RefreshWrite, Exists, Reg!Exists, Reg!Handle, Handle
  <2>3. CASE DeleteUnmatched
    <3>1. PICK k \in deleting :
            /\ item' = [item EXCEPT ![k] = R!NoRow]
            /\ content' = [content EXCEPT ![k] = NoContent]
            /\ history' = [history EXCEPT ![k] = R!NoHistory]
      BY <2>3, SameRows DEF DeleteUnmatched
    <3>2. k \in Handle /\ R!NoRow \in R!ItemRow /\ NoContent \in R!ContentOrNone
      BY RegistryAssumptions, R!NoRowType DEF PlanInv, R!ContentOrNone
    <3>3. DOMAIN R!NoHistory = {} /\ R!NoHistory \in [DOMAIN R!NoHistory -> Content]
      BY DEF R!NoHistory
    <3>4. DOMAIN R!NoHistory \subseteq Nat
      BY <3>3
    <3>. QED
      BY <3>1, <3>2, <3>3, <3>4
  <2>4. CASE BeginExport \/ ExportItem \/ ExportLock \/ BeginImport \/ FailImport
    BY <2>4 DEF BeginExport, ExportItem, ExportLock, BeginImport, FailImport, tables
  <2>5. CASE RefreshRead \/ PutSidecars \/ CheckLock \/ SetLock
    BY <2>5 DEF RefreshRead, PutSidecars, CheckLock, SetLock, tables
  <2>. QED
    BY <2>1, <2>2, <2>3, <2>4, <2>5 DEF AdminStep
<1>3. /\ item' \in [Handle -> R!ItemRow]
      /\ content' \in [Handle -> R!ContentOrNone]
      /\ DOMAIN history' = Handle
      /\ \A h \in Handle : /\ DOMAIN history'[h] \subseteq Nat
                           /\ history'[h] \in [DOMAIN history'[h] -> Content]
  <2>1. ASSUME NEW h \in Handle, item' = [item EXCEPT ![h].search = read]
        PROVE  item' \in [Handle -> R!ItemRow]
    <3>1. h \in R!Handle /\ read \in R!ContentOrNone /\ 0 \in Nat
          /\ NoHandle \in R!HandleOrNone
      BY <1>0, SameHandles DEF PlanInv, R!HandleOrNone
    <3>. QED
      BY <1>0, <2>1, <3>1, RegistryAssumptions, R!RowUpdateType
  <2>2. /\ item \in [Handle -> R!ItemRow] /\ content \in [Handle -> R!ContentOrNone]
        /\ DOMAIN history = Handle
        /\ \A h \in Handle : /\ DOMAIN history[h] \subseteq Nat
                             /\ history[h] \in [DOMAIN history[h] -> Content]
    BY <1>0 DEF R!TypeOK
  <2>3. CASE UNCHANGED <<item, content, history>>
    BY <2>2, <2>3
  <2>4. ASSUME NEW h \in Handle, NEW row \in R!ItemRow, NEW c \in R!ContentOrNone, NEW f,
               DOMAIN f \subseteq Nat, f \in [DOMAIN f -> Content],
               item' = [item EXCEPT ![h] = row],
               content' = [content EXCEPT ![h] = c],
               history' = [history EXCEPT ![h] = f]
        PROVE  /\ item' \in [Handle -> R!ItemRow]
               /\ content' \in [Handle -> R!ContentOrNone]
               /\ DOMAIN history' = Handle
               /\ \A k \in Handle : /\ DOMAIN history'[k] \subseteq Nat
                                    /\ history'[k] \in [DOMAIN history'[k] -> Content]
    BY <2>2, <2>4
  <2>. QED
    BY <1>2, <2>1, <2>2, <2>3, <2>4
<1>4. /\ auth' \subseteq Handle
      /\ locked' \in [Handle -> BOOLEAN]
      /\ lockEvents' \in [Handle -> Seq({"LOCK", "UNLOCK"})]
  <2>0. /\ auth \subseteq Handle
        /\ locked \in [Handle -> BOOLEAN]
        /\ lockEvents \in [Handle -> Seq({"LOCK", "UNLOCK"})]
    BY <1>0 DEF R!TypeOK
  <2>1. CASE Replace \/ DeleteUnmatched
    <3>1. PICK k \in Handle : /\ auth' = auth \ {k}
                              /\ locked' = [locked EXCEPT ![k] = FALSE]
                              /\ lockEvents' = [lockEvents EXCEPT ![k] = <<>>]
      <4>1. CASE Replace
        BY <4>1 DEF Replace, PlanInv
      <4>2. CASE DeleteUnmatched
        BY <4>2 DEF DeleteUnmatched, PlanInv
      <4>. QED
        BY <2>1, <4>1, <4>2
    <3>2. <<>> \in Seq({"LOCK", "UNLOCK"})
      OBVIOUS
    <3>. QED
      BY <2>0, <3>1, <3>2
  <2>2. CASE PutSidecars
    <3>1. Exists(at) => at \in Handle
      BY DEF Exists, Reg!Exists, Reg!Handle, Handle
    <3>. QED
      BY <2>0, <2>2, <3>1 DEF PutSidecars
  <2>3. CASE SetLock
    <3>1. CASE Exists(at)
      <4>1. at \in Handle /\ file[at].ok
        BY <2>3 DEF SetLock, PlanInv, Restoring, Parsed
      <4>2. file[at].locked \in BOOLEAN
        BY <4>1 DEF FileInv, IsBundle, NoBundle, Malformed
      <4> DEFINE e == IF file[at].locked THEN "LOCK" ELSE "UNLOCK"
      <4>3. Append(lockEvents[at], e) \in Seq({"LOCK", "UNLOCK"})
        BY <2>0, <4>1
      <4>4. /\ locked' = [locked EXCEPT ![at] = file[at].locked]
            /\ lockEvents' = [lockEvents EXCEPT ![at] = Append(lockEvents[at], e)]
            /\ auth' = auth
        BY <2>0, <2>3, <3>1, <4>1 DEF SetLock, ImportLockEvent
      <4> HIDE DEF e
      <4>. QED
        BY <2>0, <4>1, <4>2, <4>3, <4>4
    <3>2. CASE ~Exists(at)
      BY <2>0, <2>3, <3>2 DEF SetLock
    <3>. QED
      BY <3>1, <3>2
  <2>4. CASE BeginExport \/ ExportItem \/ ExportLock \/ BeginImport \/ FailImport
    BY <2>0, <2>4 DEF BeginExport, ExportItem, ExportLock, BeginImport, FailImport, tables
  <2>5. CASE RefreshRead \/ RefreshWrite \/ CheckLock
    BY <2>0, <2>5 DEF RefreshRead, RefreshWrite, CheckLock, tables
  <2>. QED
    BY <2>1, <2>2, <2>3, <2>4, <2>5 DEF AdminStep
<1>5. R!TypeOK'
  BY <1>0, <1>3, <1>4 DEF R!TypeOK, others
<1>. QED
  BY <1>1, <1>5 DEF RegistryInv

\* The registry's items, and any set of them, can be counted.
LEMMA Countable ==
  ASSUME NEW S, S \subseteq Handle
  PROVE  IsFiniteSet(S) /\ Cardinality(S) \in Nat
<1>1. IsFiniteSet(Handle)
  BY FS_Interval, MaxHandleAssumption DEF Handle
<1>. QED
  BY <1>1, FS_Subset, FS_CardinalityType

\* What the first step of an import decides.
LEMMA BeginImportStep ==
  ASSUME PlanInv, BeginImport
  PROVE  PlanInv'
<1>1. /\ apc \in {"idle", "exported"} /\ listed' = Present /\ Present \subseteq Handle
      /\ file' = file /\ at' = at /\ read' = read
  BY DEF BeginImport, Present
<1>2. Parsed' = Parsed /\ Parsed \subseteq Handle
  BY <1>1 DEF Parsed
<1> DEFINE new == Parsed \ Present
           overwritten == Parsed \cap Present
           unmatched == Present \ Parsed
<1>3. PICK s \in Settings :
        \E parseItems \in BOOLEAN :
          LET gone == IF s.mode = "SYNC_DELETION_ALLOWED" THEN unmatched ELSE {}
          IN  /\ settings' = s
              /\ IF \/ parseItems /\ Unparsed # {}
                    \/ Refuses(s, new, overwritten, unmatched)
                 THEN apc' = "refused" /\ UNCHANGED <<todo, deleting, newSize>>
                 ELSE /\ todo' = IF s.trial THEN {} ELSE Parsed
                      /\ deleting' = IF s.trial THEN {} ELSE gone
                      /\ newSize' = NewSize(new, overwritten, gone)
                      /\ Continue(todo', deleting')
  BY DEF BeginImport
<1> DEFINE gone == IF s.mode = "SYNC_DELETION_ALLOWED" THEN unmatched ELSE {}
<1>4. deleting = {}
  BY <1>1 DEF PlanInv, BeforeImport
<1>5. CASE apc' = "refused" /\ UNCHANGED <<todo, deleting, newSize>>
  <2>1. settings' \in Settings
    BY <1>3
  <2>. QED
    BY <1>1, <1>4, <1>5, <2>1 DEF PlanInv, Importing, BeforeImport, Restoring
<1>6. CASE /\ ~Refuses(s, new, overwritten, unmatched)
           /\ todo' = IF s.trial THEN {} ELSE Parsed
           /\ deleting' = IF s.trial THEN {} ELSE gone
           /\ newSize' = NewSize(new, overwritten, gone)
           /\ Continue(todo', deleting')
  <2>1. gone \subseteq Present \ Parsed /\ gone \subseteq Handle /\ new \subseteq Handle
    BY <1>1, <1>2
  <2>2. newSize' \in Int
    BY <1>1, <1>6, <2>1, Countable DEF NewSize
  <2>3. /\ s.mode = "OVERWRITE_ONLY" => Parsed \subseteq Present
        /\ s.mode = "ADD_ONLY" => Parsed \cap Present = {}
        /\ gone # {} => s.mode = "SYNC_DELETION_ALLOWED" /\ s.deletion
    BY <1>6 DEF Refuses
  <2>4. settings' = s
    BY <1>3
  <2>5. apc' \in {"replace", "delete", "done"} /\ (s.trial => apc' = "done")
    BY <1>6 DEF Continue
  <2>6. todo' \subseteq Parsed /\ deleting' \subseteq gone
    BY <1>6
  <2> HIDE DEF new, overwritten, unmatched, gone
  <2>. QED
    BY <1>1, <1>2, <2>1, <2>2, <2>3, <2>4, <2>5, <2>6
       DEF PlanInv, Importing, BeforeImport, Restoring
<1>. QED
  BY <1>3, <1>5, <1>6

\* Every import step keeps to the plan.
LEMMA PlanStep ==
  ASSUME RegistryInv, PlanInv, FileInv, AdminStep
  PROVE  PlanInv'
<1>1. CASE BeginExport
  <2>1. /\ apc' \in {"export", "exported"} /\ todo' \subseteq Handle /\ apc = "idle"
        /\ UNCHANGED <<settings, listed, deleting, at, read, newSize>>
    BY <1>1 DEF BeginExport, Present
  <2>. QED
    BY <2>1 DEF PlanInv, BeforeImport, Importing, Restoring
<1>2. CASE ExportItem \/ ExportLock
  <2>1. /\ apc \in {"export", "exportLock"} /\ apc' \in {"export", "exportLock", "exported"}
        /\ todo' \subseteq todo /\ at' \in todo \cup {NoHandle}
        /\ UNCHANGED <<settings, listed, deleting, read, newSize>>
    BY <1>2 DEF ExportItem, ExportLock
  <2>. QED
    BY <2>1 DEF PlanInv, BeforeImport, Importing, Restoring
<1>3. CASE BeginImport
  BY <1>3, BeginImportStep
<1>4. CASE /\ apc \in Importing
           /\ apc' \in Importing \cup {"done", "failed"}
           /\ UNCHANGED <<file, settings, listed, newSize>>
           /\ todo' \subseteq todo /\ deleting' \subseteq deleting
           /\ at' \in Handle \cup {NoHandle}
           /\ apc' \in Restoring => at' \in Parsed \ todo'
           /\ read' \in R!ContentOrNone
  <2>1. Parsed' = Parsed
    BY <1>4 DEF Parsed
  <2>. QED
    BY <1>4, <2>1 DEF PlanInv, Importing, BeforeImport
<1>5. CASE Replace
  <2>1. PICK h \in todo : at' = h /\ todo' = todo \ {h}
    BY <1>5 DEF Replace
  <2>2. /\ apc = "replace" /\ apc' = "refreshRead"
        /\ UNCHANGED <<file, settings, listed, newSize, deleting, read>>
    BY <1>5 DEF Replace, Locally
  <2>. QED
    BY <1>4, <2>1, <2>2 DEF PlanInv, Importing, Restoring
<1>6. CASE RefreshRead
  <2>1. /\ apc = "refreshRead" /\ apc' \in {"refreshWrite", "sidecars"}
        /\ UNCHANGED <<file, settings, listed, newSize, todo, deleting, at>>
        /\ \/ read' = content[at] /\ Exists(at)
           \/ read' = read
    BY <1>6 DEF RefreshRead, AfterRefresh, Locally
  <2>2. Exists(at) => content[at] \in R!ContentOrNone
    BY SameHandles DEF RegistryInv, R!TypeOK, Exists, Reg!Exists, Reg!Handle, Handle
  <2>. QED
    BY <1>4, <2>1, <2>2 DEF PlanInv, Importing, Restoring
<1>7. CASE RefreshWrite
  <2>1. /\ apc = "refreshWrite" /\ apc' = "sidecars"
        /\ UNCHANGED <<file, settings, listed, newSize, todo, deleting, at>>
        /\ read' = NoContent
    BY <1>7 DEF RefreshWrite, AfterRefresh, Locally
  <2>. QED
    BY <1>4, <2>1 DEF PlanInv, Importing, Restoring, R!ContentOrNone
<1>8. CASE PutSidecars
  <2>1. /\ apc \in {"sidecars", "settings"} /\ apc' \in {"settings", "lockCheck", "failed"}
        /\ UNCHANGED <<file, settings, listed, newSize, todo, deleting, at, read>>
    BY <1>8 DEF PutSidecars, Locally
  <2>. QED
    BY <1>4, <2>1 DEF PlanInv, Importing, Restoring
<1>9. CASE CheckLock
  <2>1. /\ apc = "lockCheck"
        /\ UNCHANGED <<file, settings, listed, newSize, todo, deleting, read>>
        /\ \/ apc' = "lockSet" /\ at' = at
           \/ apc' \in {"replace", "delete", "done"} /\ at' = NoHandle
    BY <1>9 DEF CheckLock, Locally, Continue
  <2>. QED
    BY <1>4, <2>1 DEF PlanInv, Importing, Restoring
<1>10. CASE SetLock
  <2>1. /\ apc = "lockSet" /\ apc' \in {"replace", "delete", "done", "failed"}
        /\ UNCHANGED <<file, settings, listed, newSize, todo, deleting, read>>
        /\ at' = NoHandle
    BY <1>10 DEF SetLock, Locally, Continue
  <2>. QED
    BY <1>4, <2>1 DEF PlanInv, Importing, Restoring
<1>11. CASE DeleteUnmatched
  <2>1. /\ apc = "delete" /\ apc' \in {"delete", "done"}
        /\ UNCHANGED <<file, settings, listed, newSize, todo, read, at>>
        /\ deleting' \subseteq deleting
    BY <1>11 DEF DeleteUnmatched, Locally, Continue
  <2>. QED
    BY <1>4, <2>1 DEF PlanInv, Importing, Restoring
<1>12. CASE FailImport
  <2>1. /\ apc \in Importing /\ apc' = "failed"
        /\ UNCHANGED <<file, settings, listed, newSize, todo, deleting, at, read>>
    BY <1>12 DEF FailImport
  <2>. QED
    BY <1>4, <2>1 DEF PlanInv, Restoring
<1>. QED
  BY <1>1, <1>2, <1>3, <1>5, <1>6, <1>7, <1>8, <1>9, <1>10, <1>11, <1>12 DEF AdminStep

\* Exports make bundles, and nobody else touches the file.
LEMMA FileStep ==
  ASSUME RegistryInv, PlanInv, FileInv, HistoryInv, ShownContentIsNewestEntry, AdminStep
  PROVE  FileInv'
<1>1. CASE BeginExport
  <2>1. file' = [h \in Handle |-> NoBundle] /\ apc' # "exportLock"
    BY <1>1 DEF BeginExport
  <2>. QED
    BY <2>1 DEF FileInv
<1>2. CASE ExportItem
  <2>1. PICK h \in todo :
          /\ at' = h
          /\ IF Exists(h)
             THEN /\ file' = [file EXCEPT ![h] =
                               Bundle([item[h] EXCEPT !.search = NoContent],
                                      content[h], history[h], FALSE)]
                  /\ apc' = "exportLock"
             ELSE apc' # "exportLock" /\ UNCHANGED file
    BY <1>2 DEF ExportItem
  <2>2. h \in Handle /\ Replaced = {}
    BY <1>2 DEF PlanInv, ExportItem, Replaced
  <2>3. CASE ~Exists(h)
    BY <2>1, <2>3 DEF FileInv
  <2>4. CASE Exists(h)
    <3> DEFINE row == [item[h] EXCEPT !.search = NoContent]
               b == Bundle(row, content[h], history[h], FALSE)
    <3>1. /\ item[h] \in R!ItemRow /\ content[h] \in R!ContentOrNone
          /\ DOMAIN history[h] \subseteq Nat
          /\ history[h] \in [DOMAIN history[h] -> Content]
      BY <2>2, SameHandles DEF RegistryInv, R!TypeOK
    <3>2. row \in R!ItemRow /\ row.kind # "absent" /\ row.search = NoContent
      BY <2>4, <3>1 DEF R!ItemRow, R!ContentOrNone, Exists, Reg!Exists
    <3>3. Numbered(history[h]) /\ HasNewest(history[h])
      BY <2>2 DEF HistoryInv
    <3>4. ASSUME "silentUpdate" \notin Ops, content[h] # NoContent
          PROVE  \E m \in DOMAIN history[h] : /\ content[h] = history[h][m]
                                             /\ \A i \in DOMAIN history[h] : i <= m
      <4>1. PICK m \in DOMAIN history[h] :
                   history[h][m] = content[h] /\ m = Max(DOMAIN history[h])
        BY <2>2, <3>4 DEF ShownContentIsNewestEntry
      <4>2. PICK n \in DOMAIN history[h] : \A i \in DOMAIN history[h] : i <= n
        BY <3>3, <4>1 DEF HasNewest
      <4>. QED
        BY <3>1, <4>1, <4>2, MaxIsNewest
    <3> HIDE DEF row
    <3>5. /\ b.row = row /\ b.content = content[h] /\ b.history = history[h]
          /\ b.locked = FALSE /\ b.ok
      BY DEF Bundle
    <3>6. b = Bundle(b.row, b.content, b.history, b.locked)
      BY <3>5
    <3> HIDE DEF b
    <3>7. IsBundle(b)
      BY <3>1, <3>2, <3>3, <3>4, <3>5, <3>6 DEF IsBundle
    <3>8. file' = [file EXCEPT ![h] = b] /\ apc' = "exportLock"
      BY <2>1, <2>4 DEF b, row
    <3>. QED
      BY <2>1, <2>2, <3>5, <3>7, <3>8 DEF FileInv, Parsed
  <2>. QED
    BY <2>3, <2>4
<1>3. CASE ExportLock
  <2>1. /\ file' = [file EXCEPT ![at].locked = locked[at]]
        /\ apc = "exportLock" /\ apc' # "exportLock"
    BY <1>3 DEF ExportLock, ExportedLock
  <2>2. at \in Handle /\ file[at].ok
    BY <2>1 DEF FileInv, Parsed
  <2>3. IsBundle(file[at])
    BY <2>2 DEF FileInv, NoBundle, Malformed
  <2>4. locked[at] \in BOOLEAN
    BY <2>2, SameHandles DEF RegistryInv, R!TypeOK
  <2> DEFINE b == file[at]
             c == Bundle(b.row, b.content, b.history, locked[at])
  <2>5. [b EXCEPT !.locked = locked[at]] = c
    <3>1. \A ok, row, d, f, l, m :
            [[ok |-> ok, row |-> row, content |-> d, history |-> f, locked |-> l]
               EXCEPT !.locked = m]
            = [ok |-> ok, row |-> row, content |-> d, history |-> f, locked |-> m]
      OBVIOUS
    <3>2. b = Bundle(b.row, b.content, b.history, b.locked)
      BY <2>3 DEF IsBundle
    <3>3. PICK t : t = TRUE
      OBVIOUS
    <3>4. \A row, d, f, l : Bundle(row, d, f, l)
            = [ok |-> t, row |-> row, content |-> d, history |-> f, locked |-> l]
      BY <3>3 DEF Bundle
    <3>. QED
      BY <3>1, <3>2, <3>4
  <2>6. /\ c.row = b.row /\ c.content = b.content /\ c.history = b.history
        /\ c.locked = locked[at]
    BY DEF Bundle
  <2>7. c = Bundle(c.row, c.content, c.history, c.locked)
    BY <2>6
  <2>8. file' = [file EXCEPT ![at] = c]
    BY <2>1, <2>5
  <2> HIDE DEF c
  <2>9. IsBundle(c)
    BY <2>3, <2>4, <2>6, <2>7 DEF IsBundle
  <2>. QED
    BY <2>1, <2>2, <2>8, <2>9 DEF FileInv
<1>4. CASE file' = file /\ apc' # "exportLock"
  BY <1>4 DEF FileInv
<1>5. CASE BeginImport
  <2>1. file' = file /\ apc' # "exportLock"
    BY <1>5 DEF BeginImport, Continue
  <2>. QED
    BY <1>4, <2>1
<1>6. CASE Replace \/ RefreshRead \/ RefreshWrite \/ PutSidecars
  BY <1>4, <1>6 DEF Replace, RefreshRead, RefreshWrite, PutSidecars, AfterRefresh, Locally
<1>7. CASE CheckLock \/ SetLock \/ DeleteUnmatched \/ FailImport
  BY <1>4, <1>7 DEF CheckLock, SetLock, DeleteUnmatched, FailImport, Continue, Locally
<1>. QED
  BY <1>1, <1>2, <1>3, <1>5, <1>6, <1>7 DEF AdminStep

\* No import step makes an item of an id it has not replaced.
LEMMA AdminUnreplaced ==
  ASSUME RegistryInv, PlanInv, FileInv, AdminStep, NEW h \in Handle, h \notin Replaced'
  PROVE  /\ h \notin Replaced
         /\ Exists(h)' => Exists(h) /\ history'[h] = history[h]
<1>1. h \notin Replaced /\ ~(Replace /\ h = at')
  BY ReplacedStep
<1>2. \A k : Exists(k)' <=> k \in Handle /\ item'[k].kind # "absent"
  BY DEF Exists, Reg!Exists, Reg!Handle, Handle
<1>3. \A k : Exists(k) <=> k \in Handle /\ item[k].kind # "absent"
  BY DEF Exists, Reg!Exists, Reg!Handle, Handle
<1>4. CASE Leaves(h)
  BY <1>1, <1>2, <1>3, <1>4 DEF Leaves
<1>5. CASE Indexes(h)
  <2>1. item[h] \in R!ItemRow
    BY SameHandles DEF RegistryInv, R!TypeOK
  <2>2. item'[h].kind = item[h].kind
    BY <1>5, <2>1 DEF Indexes, R!ItemRow
  <2>. QED
    BY <1>1, <1>2, <1>3, <1>5, <2>2 DEF Indexes
<1>6. CASE Puts(h)
  BY <1>1, <1>6 DEF Puts
<1>7. CASE Removes(h)
  BY <1>1, <1>2, <1>7 DEF Removes, R!NoRow, R!NewRow
<1>. QED
  BY <1>4, <1>5, <1>6, <1>7, AdminRowStep

LEMMA AdminHandles ==
  ASSUME RegistryInv, PlanInv, FileInv, HandlesInv, AdminStep
  PROVE  HandlesInv'
<1>1. UNCHANGED <<minted, pc, req, fresh>>
  BY AdminFrame DEF others
<1>2. Replaced \subseteq Replaced'
  BY ReplacedStep
<1>3. \A h \in Handle \ Replaced' : h \notin Replaced /\ (Exists(h)' => Exists(h))
  BY AdminUnreplaced
<1>4. \A r \in Request : pc[r] = "insert" => fresh[r] \in Handle
  BY SameHandles DEF RegistryInv, R!Local
<1>5. \A h : Exists(h)' => h \in Handle
  BY DEF Exists, Reg!Exists, Reg!Handle, Handle
<1>6. \A h \in Handle \ Replaced' : Exists(h)' => h <= minted'
  BY <1>1, <1>3 DEF HandlesInv
<1>7. \A r \in Request : /\ fresh'[r] <= minted'
                         /\ req'[r].id <= minted' \/ req'[r].id \in Replaced'
  BY <1>1, <1>2 DEF HandlesInv
<1>8. \A r, q \in Request : fresh'[r] = fresh'[q] => r = q \/ fresh'[r] = NoHandle
  BY <1>1 DEF HandlesInv
<1>9. ASSUME NEW r \in Request, pc'[r] = "insert", fresh'[r] \notin Replaced'
      PROVE  ~Exists(fresh[r])' /\ \A q \in Request : req'[q].id # fresh'[r]
  <2>1. pc[r] = "insert" /\ fresh'[r] = fresh[r] /\ fresh[r] \in Handle \ Replaced'
    BY <1>1, <1>4, <1>9
  <2>2. ~Exists(fresh[r]) /\ \A q \in Request : req[q].id # fresh[r]
    BY <1>3, <2>1 DEF HandlesInv
  <2>3. ASSUME NEW h, h = fresh[r] PROVE ~Exists(h)'
    BY <1>3, <2>1, <2>2, <2>3
  <2>4. PICK h : h = fresh[r]
    OBVIOUS
  <2>5. ~Exists(h)' /\ fresh'[r] = h
    BY <2>1, <2>3, <2>4
  <2>6. Exists(fresh[r])' <=> Exists(h)'
    BY <2>1, <2>4 DEF Exists, Reg!Exists
  <2>. QED
    BY <1>1, <2>1, <2>2, <2>5, <2>6
<1>. QED
  BY <1>6, <1>7, <1>8, <1>9 DEF HandlesInv

LEMMA AdminHistory ==
  ASSUME RegistryInv, PlanInv, FileInv, HistoryInv, AdminStep
  PROVE  HistoryInv'
<1>1. UNCHANGED <<pc, req, existing>>
  BY AdminFrame DEF others
<1>2. Replaced \subseteq Replaced'
  BY ReplacedStep
<1>3. \A h : Updaters(h)' = Updaters(h)
  BY <1>1 DEF Updaters
<1>4. ASSUME NEW h \in Handle
      PROVE  /\ HasNewest(history'[h])
             /\ h \notin Replaced' \/ Updaters(h)' = {} => Numbered(history'[h])
  <2>1. CASE history'[h] = history[h]
    BY <1>2, <1>3, <2>1 DEF HistoryInv
  <2>2. CASE Puts(h)
    BY <2>2, NumberedFacts DEF Puts, IsBundle
  <2>3. CASE Removes(h)
    <3>1. DOMAIN history'[h] = {} /\ 0 \in Nat
      BY <2>3 DEF Removes, R!NoHistory
    <3>2. DOMAIN history'[h] = 0..(0 - 1)
      BY <3>1
    <3>. QED
      BY <3>1, <3>2 DEF Numbered, HasNewest
  <2>. QED
    BY <2>1, <2>2, <2>3, AdminRowStep DEF Leaves, Indexes
<1>5. ASSUME NEW r \in Request, pc'[r] = "commit", Exists(req[r].id)',
             req'[r].id \notin Replaced'
      PROVE  existing'[r].nextId <= R!NextHistoryId(history'[req'[r].id])
  <2>1. PICK h : h = req[r].id
    OBVIOUS
  <2>2. Exists(h)' /\ h \in Handle /\ h \notin Replaced'
    BY <1>1, <1>5, <2>1 DEF Exists, Reg!Exists, Reg!Handle, Handle
  <2>3. h \notin Replaced /\ Exists(h) /\ history'[h] = history[h]
    BY <2>2, AdminUnreplaced
  <2>. QED
    BY <1>1, <1>5, <2>1, <2>3 DEF HistoryInv
<1>. QED
  BY <1>4, <1>5 DEF HistoryInv

LEMMA AdminShown ==
  ASSUME RegistryInv, PlanInv, FileInv, ShownContentIsNewestEntry, AdminStep
  PROVE  ShownContentIsNewestEntry'
<1>1. Replaced \subseteq Replaced'
  BY ReplacedStep
<1>2. \A h : Updaters(h)' = Updaters(h)
  BY AdminFrame DEF others, Updaters
<1>3. ASSUME "silentUpdate" \notin Ops, NEW h \in Handle, content'[h] # NoContent
      PROVE  \E i \in DOMAIN history'[h] :
               /\ history'[h][i] = content'[h]
               /\ \/ i = Max(DOMAIN history'[h])
                  \/ h \in Replaced' /\ \E q, r \in Updaters(h)' : q # r
  <2>1. CASE content'[h] = content[h] /\ history'[h] = history[h]
    BY <1>1, <1>2, <1>3, <2>1 DEF ShownContentIsNewestEntry
  <2>2. CASE Puts(h)
    <3>1. IsBundle(file[h]) /\ content'[h] = file[h].content
          /\ history'[h] = file[h].history
      BY <2>2 DEF Puts
    <3>2. PICK m \in DOMAIN history'[h] : /\ content'[h] = history'[h][m]
                                          /\ \A i \in DOMAIN history'[h] : i <= m
      BY <1>3, <3>1 DEF IsBundle
    <3>3. DOMAIN history'[h] \subseteq Nat
      BY <3>1, NumberedFacts DEF IsBundle
    <3>4. m = Max(DOMAIN history'[h])
      BY <3>2, <3>3, MaxIsNewest
    <3>. QED
      BY <3>2, <3>4
  <2>. QED
    BY <1>3, <2>1, <2>2, AdminRowStep DEF Leaves, Indexes, Removes
<1>. QED
  BY <1>3 DEF ShownContentIsNewestEntry

\* The access settings that an import step leaves.
LEMMA AdminAuthRow ==
  ASSUME RegistryInv, PlanInv, AdminStep, NEW h \in Handle, h \in auth, h \notin auth'
  PROVE  \/ Replace /\ h = at' /\ apc' = "refreshRead"
         \/ item'[h].kind = "absent"
<1>1. CASE Replace
  BY <1>1 DEF Replace
<1>2. CASE DeleteUnmatched
  <2>1. PICK k \in deleting : /\ item' = [item EXCEPT ![k] = R!NoRow]
                              /\ auth' = auth \ {k}
    BY <1>2, SameRows DEF DeleteUnmatched
  <2>2. DOMAIN item = Handle
    BY SameHandles DEF RegistryInv, R!TypeOK
  <2>. QED
    BY <2>1, <2>2 DEF R!NoRow, R!NewRow
<1>3. CASE PutSidecars
  BY <1>3 DEF PutSidecars
<1>4. CASE BeginExport \/ ExportItem \/ ExportLock \/ BeginImport \/ FailImport
  BY <1>4 DEF BeginExport, ExportItem, ExportLock, BeginImport, FailImport, tables
<1>5. CASE RefreshRead \/ RefreshWrite \/ CheckLock \/ SetLock
  BY <1>5 DEF RefreshRead, RefreshWrite, CheckLock, SetLock, tables
<1>. QED
  BY <1>1, <1>2, <1>3, <1>4, <1>5 DEF AdminStep

\* The import puts access settings back before it leaves an item.
LEMMA AdminAtStep ==
  ASSUME AdminStep, apc \in Unconfigured, at \in Handle, at \notin auth', Exists(at)
  PROVE  at' = at /\ apc' \in Unconfigured
<1> USE DEF Unconfigured
<1>1. CASE BeginExport \/ ExportItem \/ ExportLock
  BY <1>1 DEF BeginExport, ExportItem, ExportLock
<1>2. CASE BeginImport \/ FailImport
  BY <1>2 DEF BeginImport, FailImport
<1>3. CASE Replace \/ CheckLock \/ SetLock \/ DeleteUnmatched
  BY <1>3 DEF Replace, CheckLock, SetLock, DeleteUnmatched
<1>4. CASE RefreshRead \/ RefreshWrite
  BY <1>4 DEF RefreshRead, RefreshWrite, AfterRefresh
<1>5. CASE PutSidecars
  BY <1>5 DEF PutSidecars
<1>. QED
  BY <1>1, <1>2, <1>3, <1>4, <1>5 DEF AdminStep

LEMMA AdminAuth ==
  ASSUME RegistryInv, PlanInv, FileInv, AuthInv, AdminStep
  PROVE  AuthInv'
<1>1. UNCHANGED <<pc, fresh>>
  BY AdminFrame DEF others
<1>2. SUFFICES ASSUME NEW h \in Handle, item'[h].kind # "absent", h \notin auth',
                      ~\E r \in Request : fresh[r] = h /\ pc[r] \in Unconfigured
               PROVE  h = at' /\ apc' \in Unconfigured
  BY <1>1 DEF AuthInv, Exists, Reg!Exists
<1>3. CASE Puts(h)
  BY <1>3 DEF Puts, Unconfigured
<1>4. CASE Removes(h)
  BY <1>2, <1>4 DEF Removes, R!NoRow, R!NewRow
<1>5. CASE Leaves(h) \/ Indexes(h)
  <2>1. item[h].kind # "absent"
    <3>1. item[h] \in R!ItemRow
      BY SameHandles DEF RegistryInv, R!TypeOK
    <3>. QED
      BY <1>2, <1>5, <3>1 DEF Leaves, Indexes, R!ItemRow
  <2>2. Exists(h)
    BY <2>1 DEF Exists, Reg!Exists, Reg!Handle, Handle
  <2>3. CASE h \in auth
    BY <1>2, <2>3, AdminAuthRow DEF Unconfigured
  <2>4. CASE h \notin auth
    <3>1. h = at /\ apc \in Unconfigured
      BY <1>2, <2>2, <2>4 DEF AuthInv
    <3>. QED
      BY <1>2, <2>2, <3>1, AdminAtStep
  <2>. QED
    BY <2>3, <2>4
<1>. QED
  BY <1>3, <1>4, <1>5, AdminRowStep

LEMMA AdminLockTrail ==
  ASSUME RegistryInv, PlanInv, FileInv, R!LockTrail, AdminStep
  PROVE  R!LockTrail'
<1>0. /\ locked \in [Handle -> BOOLEAN]
      /\ lockEvents \in [Handle -> Seq({"LOCK", "UNLOCK"})]
      /\ R!Handle = Handle
  BY SameHandles DEF RegistryInv, R!TypeOK
<1>1. CASE UNCHANGED <<locked, lockEvents>>
  BY <1>1 DEF R!LockTrail
<1>2. ASSUME NEW k \in Handle, locked' = [locked EXCEPT ![k] = FALSE],
             lockEvents' = [lockEvents EXCEPT ![k] = <<>>]
      PROVE  R!LockTrail'
  BY <1>0, <1>2 DEF R!LockTrail
<1>3. CASE Replace
  <2>1. \A k \in todo : k \in Handle
    BY DEF PlanInv
  <2>. QED
    BY <1>2, <1>3, <2>1 DEF Replace
<1>4. CASE DeleteUnmatched
  <2>1. \A k \in deleting : k \in Handle
    BY DEF PlanInv
  <2>. QED
    BY <1>2, <1>4, <2>1 DEF DeleteUnmatched
<1>5. CASE SetLock
  <2>1. CASE Exists(at)
    <3>1. at \in Handle /\ file[at].ok
      BY <1>5 DEF SetLock, PlanInv, Restoring, Parsed
    <3>2. PICK b \in BOOLEAN : b = file[at].locked
      BY <3>1 DEF FileInv, IsBundle, NoBundle, Malformed
    <3>3. PICK e \in {"LOCK", "UNLOCK"} : e = IF b THEN "LOCK" ELSE "UNLOCK"
      OBVIOUS
    <3>4. PICK s \in Seq({"LOCK", "UNLOCK"}) : s = lockEvents[at]
      BY <1>0, <3>1
    <3>5. /\ locked' = [locked EXCEPT ![at] = b]
          /\ lockEvents' = [lockEvents EXCEPT ![at] = Append(s, e)]
      BY <1>0, <1>5, <2>1, <3>1, <3>2, <3>3, <3>4 DEF SetLock, ImportLockEvent
    <3>6. Append(s, e) # <<>> /\ Append(s, e)[Len(Append(s, e))] = e
      BY R!AppendFacts, RegistryAssumptions
    <3>7. PICK t : t = Append(s, e)
      OBVIOUS
    <3>8. locked' = [locked EXCEPT ![at] = b] /\ lockEvents' = [lockEvents EXCEPT ![at] = t]
      BY <3>5, <3>7
    <3>9. t # <<>> /\ t[Len(t)] = e
      BY <3>6, <3>7
    <3>10. b <=> e = "LOCK"
      BY <3>3
    <3>11. locked'[at] = b /\ lockEvents'[at] = t
      BY <1>0, <3>1, <3>8
    <3>12. \A h \in Handle \ {at} : locked'[h] = locked[h] /\ lockEvents'[h] = lockEvents[h]
      BY <1>0, <3>1, <3>8
    <3>. QED
      BY <1>0, <3>9, <3>10, <3>11, <3>12 DEF R!LockTrail
  <2>2. CASE ~Exists(at)
    BY <1>1, <1>5, <2>2 DEF SetLock
  <2>. QED
    BY <2>1, <2>2
<1>6. CASE BeginExport \/ ExportItem \/ ExportLock \/ BeginImport \/ FailImport
  BY <1>1, <1>6 DEF BeginExport, ExportItem, ExportLock, BeginImport, FailImport, tables
<1>7. CASE RefreshRead \/ RefreshWrite \/ PutSidecars \/ CheckLock
  BY <1>1, <1>7 DEF RefreshRead, RefreshWrite, PutSidecars, CheckLock, tables
<1>. QED
  BY <1>3, <1>4, <1>5, <1>6, <1>7 DEF AdminStep

LEMMA AdminInvStep == AdminInv /\ AdminStep => AdminInv'
BY AdminTypes, PlanStep, FileStep, AdminHandles, AdminHistory, AdminShown, AdminAuth,
   AdminLockTrail DEF AdminInv

-----------------------------------------------------------------------------
(* What the steps of the requests do.                                      *)

RequestStep(r) == RegistryStep(r) \/ InsertConflicts(r) \/ CommitWithoutSatellite(r)

\* Requests leave the administrator's handler alone.
LEMMA RequestFrame ==
  ASSUME NEW r \in Request, RequestStep(r)
  PROVE  /\ UNCHANGED <<apc, file, settings, listed, todo, deleting, at, read, newSize>>
         /\ Parsed' = Parsed /\ Replaced' = Replaced
         /\ PlanInv => PlanInv'
         /\ FileInv => FileInv'
<1>1. UNCHANGED <<apc, file, settings, listed, todo, deleting, at, read, newSize>>
  BY DEF RequestStep, RegistryStep, InsertConflicts, CommitWithoutSatellite, adminVars
<1>2. Parsed' = Parsed
  BY <1>1 DEF Parsed
<1>3. Replaced' = Replaced
  BY <1>1, <1>2 DEF Replaced
<1>4. PlanInv => PlanInv'
  BY <1>1, <1>2 DEF PlanInv
<1>5. FileInv => FileInv'
  BY <1>1, <1>2 DEF FileInv
<1>. QED
  BY <1>1, <1>2, <1>3, <1>4, <1>5

\* The two steps that Registry does not have, seen from its variables.
LEMMA NewSteps ==
  ASSUME RegistryInv, NEW r \in Request
  PROVE  /\ InsertConflicts(r) =>
              /\ pc[r] = "insert" /\ pc' = [pc EXCEPT ![r] = "aborted"]
              /\ UNCHANGED <<tables, minted, sessions, req, stored, existing, fresh, session,
                             epoch>>
         /\ CommitWithoutSatellite(r) =>
              \E h \in Handle :
                /\ h = req[r].id /\ Exists(h) /\ content[h] = NoContent
                /\ pc[r] = "commit" /\ pc' = [pc EXCEPT ![r] = "refreshRead"]
                /\ item' = [item EXCEPT ![h].kind = "complete"]
                /\ \/ history' = history /\ req[r].op = "silentUpdate"
                   \/ /\ req[r].op \in {"update", "revert"}
                      /\ existing[r].nextId \notin DOMAIN history[h]
                      /\ history' = [history EXCEPT ![h] =
                                       R!AddEntry(@, existing[r].nextId, req[r].content)]
                /\ UNCHANGED <<content, auth, locked, lockEvents, minted, sessions, req,
                               stored, existing, fresh, session, epoch>>
<1>1. InsertConflicts(r) =>
        /\ pc[r] = "insert" /\ pc' = [pc EXCEPT ![r] = "aborted"]
        /\ UNCHANGED <<tables, minted, sessions, req, stored, existing, fresh, session, epoch>>
  BY DEF InsertConflicts, HandleIsTaken
<1>2. ASSUME CommitWithoutSatellite(r)
      PROVE  \E h \in Handle :
                /\ h = req[r].id /\ Exists(h) /\ content[h] = NoContent
                /\ pc[r] = "commit" /\ pc' = [pc EXCEPT ![r] = "refreshRead"]
                /\ item' = [item EXCEPT ![h].kind = "complete"]
                /\ \/ history' = history /\ req[r].op = "silentUpdate"
                   \/ /\ req[r].op \in {"update", "revert"}
                      /\ existing[r].nextId \notin DOMAIN history[h]
                      /\ history' = [history EXCEPT ![h] =
                                       R!AddEntry(@, existing[r].nextId, req[r].content)]
                /\ UNCHANGED <<content, auth, locked, lockEvents, minted, sessions, req,
                               stored, existing, fresh, session, epoch>>
  <2>1. PICK h : h = req[r].id
    OBVIOUS
  <2>2. /\ pc[r] = "commit" /\ Exists(h) /\ content[h] = NoContent /\ h \in Handle
        /\ ~Reg!CommitConflicts(r)
    BY <1>2, <2>1 DEF CommitWithoutSatellite, SatelliteIsGone, Exists, Reg!Exists,
       Reg!Handle, Handle
  <2>3. req[r].op # "silentUpdate" => /\ req[r].op \in {"update", "revert"}
                                      /\ existing[r].nextId \notin DOMAIN history[h]
    BY <2>1, <2>2 DEF RegistryInv, R!Local, Reg!CommitConflicts
  <2>4. /\ pc' = [pc EXCEPT ![r] = "refreshRead"]
        /\ item' = [item EXCEPT ![h].kind = "complete"]
        /\ history' = IF req[r].op = "silentUpdate" THEN history
                      ELSE [history EXCEPT ![h] =
                              R!AddEntry(@, existing[r].nextId, req[r].content)]
        /\ UNCHANGED <<content, auth, locked, lockEvents, minted, sessions, req, stored,
                       existing, fresh, session, epoch>>
    BY <1>2, <2>1, SameRows DEF CommitWithoutSatellite
  <2>. QED
    BY <2>1, <2>2, <2>3, <2>4
<1>. QED
  BY <1>1, <1>2

\* Every next id is a number.
LEMMA NextIdsFact == RegistryInv /\ HistoryInv => R!NextIds
<1>1. ASSUME RegistryInv, HistoryInv, NEW h \in R!Handle
      PROVE  R!NextHistoryId(history[h]) \in Nat
  <2>1. h \in Handle /\ DOMAIN history[h] \subseteq Nat
    BY <1>1, SameHandles DEF RegistryInv, R!TypeOK
  <2>2. HasNewest(history[h])
    BY <1>1, <2>1 DEF HistoryInv
  <2>. QED
    BY <2>1, <2>2, NextIdIsNumber
<1>. QED
  BY <1>1 DEF R!NextIds

\* A request's step keeps the tables well typed.
LEMMA RequestTypes ==
  ASSUME RegistryInv, HistoryInv, NEW r \in Request, RequestStep(r)
  PROVE  RegistryInv'
<1>0. R!TypeOK /\ R!Handle = Handle /\ R!Local(r)
  BY SameHandles DEF RegistryInv
<1>1. CASE RegistryStep(r)
  <2>1. R!Step(r)
    BY <1>1, SameSteps DEF RegistryStep
  <2>2. R!TypeOK'
    BY <1>0, <2>1, NextIdsFact, R!TypeStep, RegistryAssumptions
  <2>3. ASSUME NEW q \in Request PROVE R!Local(q)'
    BY <1>0, <2>1, R!LocalStep, RegistryAssumptions DEF RegistryInv
  <2>4. ASSUME NEW q \in Request, pc'[q] = "setLocked"
        PROVE  req'[q].op \in {"lock", "unlock"}
    <3>1. CASE q # r
      BY <1>0, <2>1, <2>4, <3>1, R!LocalsFrame, RegistryAssumptions DEF RegistryInv
    <3>2. CASE pc[r] = "idle"
      BY <1>0, <2>1, <2>4, <3>1, <3>2, R!BeginStep, RegistryAssumptions
    <3>3. CASE pc[r] # "idle"
      BY <1>0, <2>1, <2>4, <3>1, <3>3, R!MoveStep, RegistryAssumptions
         DEF R!AfterRefresh, R!AfterSidecars
    <3>. QED
      BY <3>1, <3>2, <3>3
  <2>. QED
    BY <2>2, <2>3, <2>4 DEF RegistryInv
<1>2. CASE InsertConflicts(r)
  <2>1. /\ pc[r] = "insert" /\ pc' = [pc EXCEPT ![r] = "aborted"]
        /\ UNCHANGED <<tables, minted, sessions, req, stored, existing, fresh, session, epoch>>
    BY <1>2, NewSteps
  <2>2. pc \in [Request -> {"idle"} \cup R!InFlight \cup R!Ended]
    BY <1>0 DEF R!TypeOK
  <2>3. pc' \in [Request -> {"idle"} \cup R!InFlight \cup R!Ended]
    BY <2>1, <2>2 DEF R!Ended
  <2>4. R!TypeOK'
    BY <1>0, <2>1, <2>3 DEF R!TypeOK, tables
  <2>5. pc'[r] = "aborted" /\ \A q \in Request \ {r} : pc'[q] = pc[q]
    BY <2>1, <2>2
  <2>6. \A q \in Request : /\ R!Local(q)'
                           /\ pc'[q] = "setLocked" => req'[q].op \in {"lock", "unlock"}
    BY <2>1, <2>5 DEF RegistryInv, R!Local, R!Written
  <2>. QED
    BY <2>4, <2>6 DEF RegistryInv
<1>3. CASE CommitWithoutSatellite(r)
  <2>1. PICK h \in Handle :
                /\ h = req[r].id
                /\ pc[r] = "commit" /\ pc' = [pc EXCEPT ![r] = "refreshRead"]
                /\ item' = [item EXCEPT ![h].kind = "complete"]
                /\ \/ history' = history
                   \/ history' = [history EXCEPT ![h] =
                                    R!AddEntry(@, existing[r].nextId, req[r].content)]
                /\ UNCHANGED <<content, auth, locked, lockEvents, minted, sessions, req,
                               stored, existing, fresh, session, epoch>>
    BY <1>3, NewSteps
  <2>2. pc \in [Request -> {"idle"} \cup R!InFlight \cup R!Ended]
    BY <1>0 DEF R!TypeOK
  <2>3. pc' \in [Request -> {"idle"} \cup R!InFlight \cup R!Ended]
    BY <2>1, <2>2 DEF R!InFlight
  <2>4. item' \in [Handle -> R!ItemRow]
    <3>1. h \in R!Handle /\ 0 \in Nat /\ NoContent \in R!ContentOrNone
          /\ NoHandle \in R!HandleOrNone
      BY <1>0, SameHandles DEF R!ContentOrNone, R!HandleOrNone
    <3>. QED
      BY <1>0, <2>1, <3>1, RegistryAssumptions, R!RowUpdateType
  <2>5. /\ DOMAIN history' = Handle
        /\ \A k \in Handle : /\ DOMAIN history'[k] \subseteq Nat
                             /\ history'[k] \in [DOMAIN history'[k] -> Content]
    <3>1. /\ DOMAIN history = Handle
          /\ \A k \in Handle : /\ DOMAIN history[k] \subseteq Nat
                               /\ history[k] \in [DOMAIN history[k] -> Content]
      BY <1>0 DEF R!TypeOK
    <3>2. PICK n \in Nat : n = existing[r].nextId
      BY <1>0 DEF R!TypeOK, R!SnapshotRecord
    <3>3. PICK c \in Content : c = req[r].content
      BY <1>0, <2>1 DEF R!Local
    <3>4. PICK g : g = R!AddEntry(history[h], n, c)
      OBVIOUS
    <3>5. DOMAIN g \subseteq Nat /\ g \in [DOMAIN g -> Content]
      BY <3>1, <3>4 DEF R!AddEntry
    <3>6. history' = history \/ history' = [history EXCEPT ![h] = g]
      BY <2>1, <3>2, <3>3, <3>4
    <3>. QED
      BY <3>1, <3>5, <3>6
  <2>6. R!TypeOK'
    BY <1>0, <2>1, <2>3, <2>4, <2>5 DEF R!TypeOK
  <2>7. pc'[r] = "refreshRead" /\ \A q \in Request \ {r} : pc'[q] = pc[q]
    BY <2>1, <2>2
  <2>8. R!Written(r)' \in Handle
    BY <1>0, <2>1 DEF R!Local, R!Written
  <2>9. \A q \in Request : /\ R!Local(q)'
                           /\ pc'[q] = "setLocked" => req'[q].op \in {"lock", "unlock"}
    BY <1>0, <2>1, <2>7, <2>8 DEF RegistryInv, R!Local, R!Written
  <2>. QED
    BY <2>6, <2>9 DEF RegistryInv
<1>. QED
  BY <1>1, <1>2, <1>3 DEF RequestStep

\* What a request's step may do to the rows of one item: nothing but its links
\* and its search document, an update, an insert, or a deletion.
Stays(h) ==
  item'[h].kind = item[h].kind /\ content'[h] = content[h] /\ history'[h] = history[h]
Updates(r, h) ==
  /\ pc[r] = "commit" /\ pc'[r] = "refreshRead"
  /\ h = req[r].id /\ Exists(h) /\ item'[h].kind = "complete"
  /\ \/ history'[h] = history[h] /\ req[r].op = "silentUpdate"
     \/ /\ req[r].op \in {"update", "revert"}
        /\ existing[r].nextId \notin DOMAIN history[h]
        /\ history'[h] = R!AddEntry(history[h], existing[r].nextId, req[r].content)
  /\ content'[h] \in {req[r].content, NoContent}
Inserts(r, h) ==
  /\ pc[r] = "insert" /\ pc'[r] \in {"refreshRead", "sidecars"} /\ fresh'[r] = fresh[r]
  /\ h = fresh[r] /\ item'[h].kind # "absent"
  /\ \/ content'[h] = content[h] /\ history'[h] = history[h]
     \/ \E c : content'[h] = c /\ history'[h] = [i \in {0} |-> c]
Deletes(h) ==
  /\ item'[h].kind = "absent"
  /\ content'[h] = NoContent /\ history'[h] = R!NoHistory

LEMMA RequestRowStep ==
  ASSUME RegistryInv, NEW r \in Request, RequestStep(r), NEW h \in Handle
  PROVE  Stays(h) \/ Updates(r, h) \/ Inserts(r, h) \/ Deletes(h)
<1>0. /\ R!TypeOK /\ R!Handle = Handle /\ R!Local(r) /\ h \in R!Handle
      /\ DOMAIN item = Handle /\ DOMAIN content = Handle /\ DOMAIN history = Handle
      /\ DOMAIN pc = Request
      /\ item[h] \in R!ItemRow
  BY SameHandles DEF RegistryInv, R!TypeOK
<1>1. CASE RegistryStep(r)
  <2>1. R!Step(r)
    BY <1>1, SameSteps DEF RegistryStep
  <2>2. CASE R!Commit(r)
    <3>1. PICK k : k = req[r].id
      OBVIOUS
    <3>2. CASE R!CommitConflicts(r)
      BY <2>2, <3>2 DEF R!Commit, Stays
    <3>3. CASE ~R!CommitConflicts(r)
      <4>1. /\ pc[r] = "commit" /\ pc'[r] = "refreshRead"
            /\ item' = [item EXCEPT ![k].kind = "complete"]
            /\ content' = [content EXCEPT ![k] = req[r].content]
            /\ history' = IF req[r].op = "silentUpdate" THEN history
                          ELSE [history EXCEPT ![k] =
                                  R!AddEntry(@, existing[r].nextId, req[r].content)]
        BY <1>0, <2>2, <3>1, <3>3 DEF R!Commit, R!Goto
      <4>2. /\ Exists(k)
            /\ req[r].op # "silentUpdate" => /\ req[r].op \in {"update", "revert"}
                                             /\ existing[r].nextId \notin DOMAIN history[k]
        BY <1>0, <3>1, <3>3, <4>1, SameHandles DEF R!Local, R!CommitConflicts
      <4>3. CASE h # k
        BY <1>0, <4>1, <4>3 DEF Stays
      <4>4. CASE h = k
        <5>1. item'[h].kind = "complete" /\ content'[h] = req[r].content
          BY <1>0, <4>1, <4>4 DEF R!ItemRow
        <5>2. \/ history'[h] = history[h] /\ req[r].op = "silentUpdate"
              \/ /\ req[r].op # "silentUpdate"
                 /\ history'[h] = R!AddEntry(history[h], existing[r].nextId, req[r].content)
          BY <1>0, <4>1, <4>4
        <5>. QED
          BY <3>1, <4>1, <4>2, <4>4, <5>1, <5>2 DEF Updates
      <4>. QED
        BY <4>3, <4>4
    <3>. QED
      BY <3>2, <3>3
  <2>3. CASE R!InsertSeed(r)
    <3>1. /\ pc[r] = "insert" /\ pc'[r] = "sidecars" /\ fresh' = fresh
          /\ item' = [item EXCEPT ![fresh[r]] = R!NewRow("seed", R!NoHandle, 0)]
          /\ content' = content /\ history' = history
      BY <1>0, <2>3 DEF R!InsertSeed, R!Goto
    <3>2. h # fresh[r] => item'[h] = item[h]
      BY <1>0, <3>1
    <3>3. h = fresh[r] => item'[h].kind = "seed"
      BY <1>0, <3>1 DEF R!NewRow
    <3>. QED
      BY <3>1, <3>2, <3>3 DEF Stays, Inserts
  <2>4. CASE R!InsertComplete(r)
    <3>1. PICK row, c :
          /\ pc[r] = "insert" /\ pc'[r] = "refreshRead" /\ fresh' = fresh
          /\ row.kind = "complete"
          /\ item' = [item EXCEPT ![fresh[r]] = row]
          /\ content' = [content EXCEPT ![fresh[r]] = c]
          /\ history' = [history EXCEPT ![fresh[r]] = [i \in {0} |-> c]]
      <4> DEFINE row == IF req[r].op = "version"
                        THEN R!NewRow("complete", req[r].id, R!NextVersionNumber(r))
                        ELSE R!NewRow("complete", R!NoHandle, IF Versioning THEN 1 ELSE 0)
                 c == IF req[r].op = "version" THEN stored[r].content ELSE req[r].content
      <4>1. row.kind = "complete"
        BY DEF R!NewRow
      <4>2. /\ pc[r] = "insert" /\ pc'[r] = "refreshRead" /\ fresh' = fresh
            /\ item' = [item EXCEPT ![fresh[r]] = row]
            /\ content' = [content EXCEPT ![fresh[r]] = c]
            /\ history' = [history EXCEPT ![fresh[r]] = [i \in {0} |-> c]]
        BY <1>0, <2>4 DEF R!InsertComplete, R!Goto
      <4> HIDE DEF row, c
      <4>. QED
        BY <4>1, <4>2
    <3>2. CASE h # fresh[r]
      BY <1>0, <3>1, <3>2 DEF Stays
    <3>3. CASE h = fresh[r]
      BY <1>0, <3>1, <3>3 DEF Inserts
    <3>. QED
      BY <3>2, <3>3
  <2>5. CASE R!Delete(r)
    <3>1. PICK k \in Handle : /\ item' = [item EXCEPT ![k] = R!NoRow]
                              /\ content' = [content EXCEPT ![k] = NoContent]
                              /\ history' = [history EXCEPT ![k] = R!NoHistory]
      BY <1>0, <2>5 DEF R!Delete
    <3>2. CASE h # k
      BY <1>0, <3>1, <3>2 DEF Stays
    <3>3. CASE h = k
      BY <1>0, <3>1, <3>3 DEF Deletes, R!NoRow, R!NewRow
    <3>. QED
      BY <3>2, <3>3
  <2>6. CASE ~R!Commit(r) /\ ~R!InsertSeed(r) /\ ~R!InsertComplete(r) /\ ~R!Delete(r)
    <3>1. item'[h].kind = item[h].kind
      BY <1>0, <2>1, <2>6, R!KindStep, RegistryAssumptions
    <3>2. content' = content /\ history' = history
      BY <2>1, <2>6, R!ContentFrame, RegistryAssumptions
    <3>. QED
      BY <3>1, <3>2 DEF Stays
  <2>. QED
    BY <2>2, <2>3, <2>4, <2>5, <2>6
<1>2. CASE InsertConflicts(r)
  BY <1>2, NewSteps DEF tables, Stays
<1>3. CASE CommitWithoutSatellite(r)
  <2>1. PICK k \in Handle :
                /\ k = req[r].id /\ Exists(k) /\ content[k] = NoContent
                /\ pc[r] = "commit" /\ pc' = [pc EXCEPT ![r] = "refreshRead"]
                /\ item' = [item EXCEPT ![k].kind = "complete"]
                /\ \/ history' = history /\ req[r].op = "silentUpdate"
                   \/ /\ req[r].op \in {"update", "revert"}
                      /\ existing[r].nextId \notin DOMAIN history[k]
                      /\ history' = [history EXCEPT ![k] =
                                       R!AddEntry(@, existing[r].nextId, req[r].content)]
                /\ content' = content
    BY <1>3, NewSteps
  <2>2. pc'[r] = "refreshRead"
    BY <1>0, <2>1
  <2>3. CASE h # k
    BY <1>0, <2>1, <2>3 DEF Stays
  <2>4. CASE h = k
    <3>1. item'[h].kind = "complete" /\ content'[h] = NoContent
      BY <1>0, <2>1, <2>4 DEF R!ItemRow
    <3>2. \/ history'[h] = history[h] /\ req[r].op = "silentUpdate"
          \/ /\ req[r].op \in {"update", "revert"}
             /\ existing[r].nextId \notin DOMAIN history[h]
             /\ history'[h] = R!AddEntry(history[h], existing[r].nextId, req[r].content)
      BY <1>0, <2>1, <2>4
    <3>. QED
      BY <2>1, <2>2, <2>4, <3>1, <3>2 DEF Updates
  <2>. QED
    BY <2>3, <2>4
<1>. QED
  BY <1>1, <1>2, <1>3 DEF RequestStep

\* What it may do to the labels and the handles requests hold.
LEMMA RequestMoves ==
  ASSUME RegistryInv, NEW r \in Request, RequestStep(r)
  PROVE  /\ \A q \in Request \ {r} :
              /\ pc'[q] = pc[q] /\ req'[q] = req[q]
              /\ existing'[q] = existing[q] /\ fresh'[q] = fresh[q]
         /\ pc'[r] # pc[r]
         /\ \A q \in Request : \/ req'[q].id = req[q].id
                               \/ req'[q].id = NoHandle
                               \/ Exists(req'[q].id)
         /\ \/ R!MintHandle(r) /\ pc[r] = "mint"
            \/ fresh' = fresh /\ minted' = minted /\ pc'[r] # "insert"
         /\ pc'[r] = "commit" => R!RepoFetch(r)
         /\ \A h : Updaters(h) \subseteq Updaters(h)'
<1>0. /\ R!TypeOK /\ R!Local(r) /\ pc \in [Request -> {"idle"} \cup R!InFlight \cup R!Ended]
      /\ DOMAIN pc = Request
  BY DEF RegistryInv, R!TypeOK
<1>1. CASE RegistryStep(r)
  <2>1. R!Step(r)
    BY <1>1, SameSteps DEF RegistryStep
  <2>2. \A q \in Request \ {r} :
              /\ pc'[q] = pc[q] /\ req'[q] = req[q]
              /\ existing'[q] = existing[q] /\ fresh'[q] = fresh[q]
    BY <1>0, <2>1, R!LocalsFrame, RegistryAssumptions
  <2>3. \A q \in Request : \/ req'[q].id = req[q].id
                           \/ req'[q].id = NoHandle
                           \/ Exists(req'[q].id)
    BY <1>0, <2>1, R!ReqIdStep, RegistryAssumptions, SameHandles
  <2>4. \/ R!MintHandle(r) /\ pc[r] = "mint"
        \/ fresh' = fresh /\ minted' = minted /\ pc'[r] # "insert"
    <3>1. CASE R!MintHandle(r)
      BY <3>1 DEF R!MintHandle
    <3>2. CASE ~R!MintHandle(r)
      BY <1>0, <2>1, <3>2, R!FreshFrame, R!MintedFrame, R!InsertStep, RegistryAssumptions
    <3>. QED
      BY <3>1, <3>2
  <2>5. pc'[r] = "commit" => R!RepoFetch(r)
    BY <1>0, <2>1, R!CommitStep, RegistryAssumptions
  <2>6. CASE pc[r] = "idle"
    <3>1. pc'[r] \in {"authorise", "mint", "setLocked", "done"}
      BY <1>0, <2>1, <2>6, R!BeginStep, RegistryAssumptions
    <3>2. \A h : Updaters(h) \subseteq Updaters(h)'
      BY <2>2, <2>6 DEF Updaters
    <3>. QED
      BY <2>2, <2>3, <2>4, <2>5, <2>6, <3>1, <3>2
  <2>7. CASE pc[r] # "idle"
    <3>1. /\ req'[r].id = req[r].id /\ req'[r].op = req[r].op
          /\ pc'[r] # pc[r]
          /\ \/ pc[r] \in {"authorise", "repoFetch", "commit"}
             \/ pc[r] \in {"mint", "insert"}
             \/ pc[r] = "setLocked"
             \/ pc'[r] \notin {"idle", "authorise", "repoFetch", "commit", "refused",
                               "aborted"}
      BY <1>0, <2>1, <2>7, R!MoveStep, RegistryAssumptions
         DEF R!AfterRefresh, R!AfterSidecars, R!InFlight
    <3>2. pc[r] \in {"mint", "insert"} => req[r].op \in {"seed", "create", "version"}
      BY <1>0 DEF R!Local
    <3>3. pc[r] = "setLocked" => req[r].op \in {"lock", "unlock"}
      BY DEF RegistryInv
    <3>4. ASSUME NEW h, NEW q \in Updaters(h) PROVE q \in Updaters(h)'
      <4>1. CASE q # r
        BY <2>2, <3>4, <4>1 DEF Updaters
      <4>2. CASE q = r
        BY <3>1, <3>2, <3>3, <3>4, <4>2 DEF Updaters
      <4>. QED
        BY <4>1, <4>2
    <3>. QED
      BY <2>2, <2>3, <2>4, <2>5, <3>1, <3>4
  <2>. QED
    BY <2>6, <2>7
<1>2. CASE InsertConflicts(r) \/ CommitWithoutSatellite(r)
  <2>1. /\ UNCHANGED <<minted, req, existing, fresh>>
        /\ pc[r] \in {"commit", "insert"}
        /\ \E l \in {"refreshRead", "aborted"} : pc' = [pc EXCEPT ![r] = l]
    BY <1>2, NewSteps
  <2>2. /\ pc'[r] \in {"refreshRead", "aborted"}
        /\ \A q \in Request \ {r} : pc'[q] = pc[q]
    BY <1>0, <2>1
  <2>3. pc[r] = "insert" => req[r].op \in {"seed", "create", "version"}
    BY <1>0 DEF R!Local
  <2>4. \A h : Updaters(h) \subseteq Updaters(h)'
    BY <2>1, <2>2, <2>3 DEF Updaters
  <2>. QED
    BY <2>1, <2>2, <2>4
<1>. QED
  BY <1>1, <1>2 DEF RequestStep

\* A request makes an item only of the handle it minted.
LEMMA RequestExists ==
  ASSUME RegistryInv, NEW r \in Request, RequestStep(r), NEW h \in Handle
  PROVE  \/ Exists(h)' <=> Exists(h)
         \/ Inserts(r, h)
         \/ ~Exists(h)' /\ Deletes(h)
<1>1. \A k : Exists(k)' <=> k \in Handle /\ item'[k].kind # "absent"
  BY DEF Exists, Reg!Exists, Reg!Handle, Handle
<1>2. \A k : Exists(k) <=> k \in Handle /\ item[k].kind # "absent"
  BY DEF Exists, Reg!Exists, Reg!Handle, Handle
<1>. QED
  BY <1>1, <1>2, RequestRowStep DEF Stays, Updates, Deletes

LEMMA RequestHandles ==
  ASSUME RegistryInv, HandlesInv, NEW r \in Request, RequestStep(r)
  PROVE  HandlesInv'
<1>0. /\ minted \in Nat /\ \A q \in Request : fresh[q] \in Nat /\ req[q].id \in Nat
      /\ \A q \in Request : pc[q] = "insert" => fresh[q] \in Handle
      /\ DOMAIN fresh = Request
      /\ Handle \subseteq Nat \ {0}
      /\ R!Handle = Handle
  BY SameHandles, RegistryAssumptions
     DEF RegistryInv, R!TypeOK, R!Local, R!ReqRecord, R!HandleOrNone, R!NoHandle, Handle
<1>1. Replaced' = Replaced
  BY RequestFrame
<1>2. /\ \A q \in Request \ {r} : pc'[q] = pc[q] /\ req'[q] = req[q] /\ fresh'[q] = fresh[q]
      /\ \A q \in Request : \/ req'[q].id = req[q].id
                            \/ req'[q].id = NoHandle
                            \/ Exists(req'[q].id)
      /\ \/ R!MintHandle(r) /\ pc[r] = "mint"
         \/ fresh' = fresh /\ minted' = minted /\ pc'[r] # "insert"
  BY RequestMoves
<1>3. R!MintHandle(r) => /\ minted' = minted + 1
                         /\ fresh' = [fresh EXCEPT ![r] = minted + 1]
                         /\ UNCHANGED <<item, req>>
  BY DEF R!MintHandle
<1>4. minted <= minted' /\ minted' \in Nat
  BY <1>0, <1>2, <1>3
<1>5. ASSUME NEW h \in Handle \ Replaced', Exists(h)' PROVE h <= minted'
  <2>1. CASE Exists(h)
    BY <1>0, <1>1, <1>4, <1>5, <2>1 DEF HandlesInv
  <2>2. CASE Inserts(r, h)
    BY <1>0, <1>4, <2>2 DEF HandlesInv, Inserts
  <2>. QED
    BY <1>5, <2>1, <2>2, RequestExists
<1>6. \A q \in Request : fresh'[q] <= minted'
  BY <1>0, <1>2, <1>3, <1>4 DEF HandlesInv
<1>7. ASSUME NEW q \in Request
      PROVE  req'[q].id <= minted' \/ req'[q].id \in Replaced'
  <2>1. CASE req'[q].id = req[q].id
    BY <1>0, <1>1, <1>4, <2>1 DEF HandlesInv
  <2>2. CASE req'[q].id = NoHandle
    BY <1>4, <2>2 DEF NoHandle
  <2>3. CASE Exists(req'[q].id)
    <3>1. PICK h : h = req'[q].id
      OBVIOUS
    <3>2. h \in Handle /\ Exists(h)
      BY <2>3, <3>1 DEF Exists, Reg!Exists, Reg!Handle, Handle
    <3>3. h <= minted \/ h \in Replaced
      BY <3>2 DEF HandlesInv
    <3>. QED
      BY <1>0, <1>1, <1>4, <3>1, <3>2, <3>3
  <2>. QED
    BY <1>2, <2>1, <2>2, <2>3
<1>8. ASSUME NEW p \in Request, NEW q \in Request, fresh'[p] = fresh'[q], p # q
      PROVE  fresh'[p] = NoHandle
  <2>1. CASE fresh' = fresh
    BY <1>8, <2>1 DEF HandlesInv
  <2>2. CASE R!MintHandle(r)
    <3>1. \A s \in Request : fresh[s] < minted + 1
      BY <1>0 DEF HandlesInv
    <3>2. fresh'[r] = minted + 1 /\ \A s \in Request \ {r} : fresh'[s] = fresh[s]
      BY <1>0, <1>3, <2>2
    <3>. QED
      BY <1>0, <1>8, <3>1, <3>2 DEF HandlesInv
  <2>. QED
    BY <1>2, <2>1, <2>2
<1>9. ASSUME NEW q \in Request, pc'[q] = "insert", fresh'[q] \notin Replaced',
             NEW k, k = fresh'[q]
      PROVE  ~Exists(k)' /\ \A p \in Request : req'[p].id # k
  <2>1. CASE q = r
    <3>1. R!MintHandle(r)
      BY <1>2, <1>9, <2>1
    <3>2. k = minted + 1
      BY <1>0, <1>3, <1>9, <2>1, <3>1
    <3>3. ~Exists(k)
      <4>1. Exists(k) => k \in Handle /\ k \notin Replaced
        BY <1>1, <1>9 DEF Exists, Reg!Exists, Reg!Handle, Handle
      <4>. QED
        BY <1>0, <3>2, <4>1 DEF HandlesInv
    <3>4. ~Exists(k)'
      BY <1>3, <3>1, <3>3 DEF Exists, Reg!Exists
    <3>5. \A p \in Request : req[p].id # k
      BY <1>0, <1>1, <1>9, <3>2 DEF HandlesInv
    <3>. QED
      BY <1>3, <3>1, <3>4, <3>5
  <2>2. CASE q # r
    <3>1. pc[q] = "insert" /\ fresh[q] = k /\ k \notin Replaced /\ k \in Handle
      BY <1>0, <1>1, <1>2, <1>9, <2>2
    <3>2. ~Exists(k) /\ \A p \in Request : req[p].id # k
      BY <3>1 DEF HandlesInv
    <3>3. fresh[r] # k
      BY <1>0, <2>2, <3>1 DEF HandlesInv, NoHandle
    <3>4. ~Exists(k)'
      BY <3>1, <3>2, <3>3, RequestExists DEF Inserts
    <3>5. \A p \in Request : req'[p].id # k
      BY <1>0, <1>2, <3>1, <3>2 DEF NoHandle
    <3>. QED
      BY <3>4, <3>5
  <2>. QED
    BY <2>1, <2>2
<1>10. ASSUME NEW q \in Request, pc'[q] = "insert", fresh'[q] \notin Replaced'
       PROVE  ~Exists(fresh[q])' /\ \A p \in Request : req'[p].id # fresh'[q]
  <2>1. PICK k : k = fresh'[q]
    OBVIOUS
  <2>2. ~Exists(k)' /\ \A p \in Request : req'[p].id # k
    BY <1>9, <1>10, <2>1
  <2>3. Exists(k)' <=> k \in Handle /\ item'[k].kind # "absent"
    BY DEF Exists, Reg!Exists, Reg!Handle, Handle
  <2>4. Exists(fresh[q])' <=> fresh'[q] \in Handle /\ item'[fresh'[q]].kind # "absent"
    BY DEF Exists, Reg!Exists, Reg!Handle, Handle
  <2>. QED
    BY <2>1, <2>2, <2>3, <2>4
<1>. QED
  BY <1>5, <1>6, <1>7, <1>8, <1>10 DEF HandlesInv

\* The ids an update may take.
LEMMA UpdateFacts ==
  ASSUME RegistryInv, HistoryInv, NEW r \in Request, RequestStep(r), NEW h \in Handle,
         Updates(r, h)
  PROVE  /\ existing[r].nextId \in Nat /\ DOMAIN history[h] \subseteq Nat
         /\ history'[h] # history[h] =>
              /\ r \in Updaters(h)' /\ r \notin Updaters(h)
              /\ req[r].op \in {"update", "revert"}
              /\ existing[r].nextId \notin DOMAIN history[h]
              /\ history'[h] = R!AddEntry(history[h], existing[r].nextId, req[r].content)
         /\ h \notin Replaced => existing[r].nextId <= R!NextHistoryId(history[h])
         /\ content'[h] # NoContent => req[r].content = content'[h]
<1>1. existing[r].nextId \in Nat /\ DOMAIN history[h] \subseteq Nat
  BY SameHandles DEF RegistryInv, R!TypeOK, R!SnapshotRecord
<1>2. req'[r].id = req[r].id /\ req'[r].op = req[r].op
  <2>1. CASE RegistryStep(r)
    <3>1. R!Step(r) /\ pc[r] = "commit"
      BY <2>1, SameSteps DEF RegistryStep, Updates
    <3>. QED
      BY <3>1, R!MoveStep, RegistryAssumptions DEF RegistryInv
  <2>2. CASE InsertConflicts(r) \/ CommitWithoutSatellite(r)
    BY <2>2, NewSteps
  <2>. QED
    BY <2>1, <2>2 DEF RequestStep
<1>3. history'[h] # history[h] =>
              /\ req[r].op \in {"update", "revert"}
              /\ existing[r].nextId \notin DOMAIN history[h]
              /\ history'[h] = R!AddEntry(history[h], existing[r].nextId, req[r].content)
  BY DEF Updates
<1>4. history'[h] # history[h] => r \in Updaters(h)' /\ r \notin Updaters(h)
  BY <1>2, <1>3 DEF Updates, Updaters
<1>5. h \notin Replaced => existing[r].nextId <= R!NextHistoryId(history[h])
  BY DEF Updates, HistoryInv
<1>6. content'[h] # NoContent => req[r].content = content'[h]
  BY DEF Updates
<1>. QED
  BY <1>1, <1>3, <1>4, <1>5, <1>6

\* What it adds to the history.
LEMMA UpdateAdds ==
  ASSUME RegistryInv, HistoryInv, NEW r \in Request, RequestStep(r), NEW h \in Handle,
         Updates(r, h), history'[h] # history[h]
  PROVE  \E n \in Nat :
           /\ n = existing[r].nextId /\ n \notin DOMAIN history[h]
           /\ DOMAIN history'[h] = DOMAIN history[h] \cup {n}
           /\ history'[h][n] = req[r].content
           /\ HasNewest(history[h]) => HasNewest(history'[h])
           /\ Numbered(history[h]) /\ n = R!NextHistoryId(history[h]) => Numbered(history'[h])
<1>1. PICK n \in Nat : n = existing[r].nextId
  BY UpdateFacts
<1>2. PICK c, f : c = req[r].content /\ f = history[h]
  OBVIOUS
<1>3. n \notin DOMAIN f /\ DOMAIN f \subseteq Nat /\ history'[h] = R!AddEntry(f, n, c)
  BY <1>1, <1>2, UpdateFacts
<1>4. PICK g : g = R!AddEntry(f, n, c)
  OBVIOUS
<1>5. /\ DOMAIN g = DOMAIN f \cup {n} /\ g[n] = c
      /\ HasNewest(f) => HasNewest(g)
      /\ Numbered(f) /\ n = R!NextHistoryId(f) => Numbered(g)
  BY <1>3, <1>4, AddEntryFacts
<1>. QED
  BY <1>1, <1>2, <1>3, <1>4, <1>5

\* In a numbered history, the next free id is where an update writes.
LEMMA UpdateIsNext ==
  ASSUME RegistryInv, HistoryInv, NEW r \in Request, RequestStep(r), NEW h \in Handle,
         Updates(r, h), history'[h] # history[h], Numbered(history[h])
  PROVE  \A i \in DOMAIN history[h] : i < existing[r].nextId
<1>1. PICK n \in Nat : n = R!NextHistoryId(history[h]) /\ DOMAIN history[h] = 0..(n - 1)
  BY NumberedFacts
<1>2. existing[r].nextId \in Nat /\ existing[r].nextId \notin DOMAIN history[h]
  BY UpdateFacts
<1>. QED
  BY <1>1, <1>2

LEMMA RequestHistoryRow ==
  ASSUME RegistryInv, HistoryInv, NEW r \in Request, RequestStep(r), NEW h \in Handle
  PROVE  /\ HasNewest(history'[h])
         /\ h \notin Replaced' \/ Updaters(h)' = {} => Numbered(history'[h])
<1>0. Replaced' = Replaced /\ Updaters(h) \subseteq Updaters(h)'
  BY RequestFrame, RequestMoves
<1>1. CASE history'[h] = history[h]
  BY <1>0, <1>1 DEF HistoryInv
<1>2. CASE Updates(r, h) /\ history'[h] # history[h]
  <2>1. HasNewest(history[h]) /\ (h \notin Replaced => Numbered(history[h]))
    BY DEF HistoryInv
  <2>2. PICK n \in Nat :
          /\ n = existing[r].nextId /\ n \notin DOMAIN history[h]
          /\ HasNewest(history'[h])
          /\ Numbered(history[h]) /\ n = R!NextHistoryId(history[h]) => Numbered(history'[h])
    BY <1>2, <2>1, UpdateAdds
  <2>3. r \in Updaters(h)' /\ (h \notin Replaced => n <= R!NextHistoryId(history[h]))
    BY <1>2, <2>2, UpdateFacts
  <2>4. ASSUME h \notin Replaced PROVE Numbered(history'[h])
    <3>1. PICK m \in Nat : m = R!NextHistoryId(history[h]) /\ DOMAIN history[h] = 0..(m - 1)
      BY <2>1, <2>4, NumberedFacts
    <3>2. n = m
      BY <2>2, <2>3, <2>4, <3>1
    <3>. QED
      BY <2>1, <2>2, <2>4, <3>1, <3>2
  <2>. QED
    BY <1>0, <2>2, <2>3, <2>4
<1>3. ASSUME DOMAIN history'[h] \in {{}, {0}}
      PROVE  HasNewest(history'[h]) /\ Numbered(history'[h])
  <2>1. CASE DOMAIN history'[h] = {}
    <3>1. DOMAIN history'[h] = 0..(0 - 1)
      BY <2>1
    <3>. QED
      BY <2>1, <3>1 DEF HasNewest, Numbered
  <2>2. CASE DOMAIN history'[h] = {0}
    <3>1. DOMAIN history'[h] = 0..(1 - 1)
      BY <2>2
    <3>. QED
      BY <2>2, <3>1 DEF HasNewest, Numbered
  <2>. QED
    BY <1>3, <2>1, <2>2
<1>4. CASE Inserts(r, h)
  BY <1>1, <1>3, <1>4 DEF Inserts
<1>5. CASE Deletes(h)
  BY <1>3, <1>5 DEF Deletes, R!NoHistory
<1>. QED
  BY <1>1, <1>2, <1>4, <1>5, RequestRowStep DEF Stays

LEMMA RequestHistory ==
  ASSUME RegistryInv, HandlesInv, HistoryInv, NEW r \in Request, RequestStep(r)
  PROVE  HistoryInv'
<1>1. Replaced' = Replaced
  BY RequestFrame
<1>2. \A q \in Request \ {r} : /\ pc'[q] = pc[q] /\ req'[q] = req[q]
                               /\ existing'[q] = existing[q]
  BY RequestMoves
<1>3. \A q \in Request : existing[q].nextId \in Nat
  BY DEF RegistryInv, R!TypeOK, R!SnapshotRecord
<1>4. ASSUME NEW q \in Request, pc'[q] = "commit", NEW h \in Handle \ Replaced,
             h = req'[q].id, Exists(h)'
      PROVE  existing'[q].nextId <= R!NextHistoryId(history'[h])
  <2>1. CASE q = r
    <3>1. R!RepoFetch(r)
      BY <1>4, <2>1, RequestMoves
    <3>2. /\ history' = history /\ req'[r].id = req[r].id
          /\ existing'[r].nextId = R!NextHistoryId(history[req[r].id])
      <4>1. PICK k : k = req[r].id
        OBVIOUS
      <4>2. DOMAIN existing = Request /\ DOMAIN req = Request /\ DOMAIN pc = Request
            /\ req[r] \in R!ReqRecord
        BY DEF RegistryInv, R!TypeOK
      <4>3. /\ existing' = [existing EXCEPT ![r] = R!Snapshot(k)] /\ history' = history
            /\ \/ req' = req
               \/ \E c : req' = [req EXCEPT ![r].content = c]
        BY <1>4, <2>1, <3>1, <4>1, <4>2 DEF R!RepoFetch, R!Goto, R!tables
      <4>4. existing'[r] = R!Snapshot(k)
        BY <4>2, <4>3
      <4>5. req'[r].id = k
        BY <4>1, <4>2, <4>3 DEF R!ReqRecord
      <4>. QED
        BY <4>1, <4>3, <4>4, <4>5 DEF R!Snapshot
    <3>3. R!NextHistoryId(history[h]) \in Nat
      BY NextIdsFact, SameHandles DEF R!NextIds
    <3>. QED
      BY <1>4, <2>1, <3>2, <3>3
  <2>2. CASE q # r
    <3>1. pc[q] = "commit" /\ h = req[q].id /\ existing'[q].nextId = existing[q].nextId
      BY <1>2, <1>4, <2>2
    <3>2. ~Inserts(r, h)
      <4>1. pc[r] = "insert" /\ fresh[r] \notin Replaced => req[q].id # fresh[r]
        BY DEF HandlesInv
      <4>. QED
        BY <1>4, <3>1, <4>1 DEF Inserts
    <3>3. Exists(h)
      BY <1>4, <3>2, RequestExists
    <3>4. Numbered(history[h])
      BY <1>4 DEF HistoryInv
    <3>5. PICK n \in Nat : n = R!NextHistoryId(history[h]) /\ DOMAIN history[h] = 0..(n - 1)
      BY <3>4, NumberedFacts
    <3>6. existing[q].nextId <= n
      BY <1>4, <3>1, <3>3, <3>5 DEF HistoryInv
    <3>7. CASE history'[h] = history[h]
      BY <3>1, <3>5, <3>6, <3>7
    <3>8. CASE Updates(r, h) /\ history'[h] # history[h]
      <4>1. DOMAIN history[h] \subseteq Nat
        BY <3>8, UpdateFacts
      <4>2. PICK i \in Nat : DOMAIN history'[h] = DOMAIN history[h] \cup {i}
        BY <3>8, UpdateAdds
      <4>3. HasNewest(history'[h])
        BY RequestHistoryRow
      <4>4. PICK m \in Nat : /\ m = R!NextHistoryId(history'[h])
                             /\ \A j \in DOMAIN history'[h] : j < m
        BY <4>1, <4>2, <4>3, NextIdIsNumber
      <4>5. n <= m
        BY <3>5, <4>2, <4>4
      <4>. QED
        BY <1>3, <3>1, <3>6, <4>4, <4>5
    <3>9. ~Deletes(h)
      BY <1>4 DEF Deletes, Exists, Reg!Exists
    <3>. QED
      BY <3>2, <3>7, <3>8, <3>9, RequestRowStep DEF Stays
  <2>. QED
    BY <2>1, <2>2
<1>5. ASSUME NEW q \in Request, pc'[q] = "commit", Exists(req[q].id)',
             req'[q].id \notin Replaced'
      PROVE  existing'[q].nextId <= R!NextHistoryId(history'[req'[q].id])
  <2>1. PICK h : h = req'[q].id
    OBVIOUS
  <2>2. Exists(h)' <=> h \in Handle /\ item'[h].kind # "absent"
    BY DEF Exists, Reg!Exists, Reg!Handle, Handle
  <2>3. Exists(req[q].id)' <=> req'[q].id \in Handle /\ item'[req'[q].id].kind # "absent"
    BY DEF Exists, Reg!Exists, Reg!Handle, Handle
  <2>. QED
    BY <1>1, <1>4, <1>5, <2>1, <2>2, <2>3
<1>. QED
  BY <1>5, RequestHistoryRow DEF HistoryInv

LEMMA RequestShown ==
  ASSUME RegistryInv, HistoryInv, ShownContentIsNewestEntry, NEW r \in Request,
         RequestStep(r)
  PROVE  ShownContentIsNewestEntry'
<1>0. Replaced' = Replaced
  BY RequestFrame
<1>1. ASSUME "silentUpdate" \notin Ops, NEW h \in Handle, content'[h] # NoContent
      PROVE  \E i \in DOMAIN history'[h] :
               /\ history'[h][i] = content'[h]
               /\ \/ i = Max(DOMAIN history'[h])
                  \/ h \in Replaced' /\ \E p, q \in Updaters(h)' : p # q
  <2>0. Updaters(h) \subseteq Updaters(h)'
    BY RequestMoves
  <2>1. CASE content'[h] = content[h] /\ history'[h] = history[h]
    BY <1>0, <1>1, <2>0, <2>1 DEF ShownContentIsNewestEntry
  <2>2. CASE Updates(r, h) /\ history'[h] # history[h]
    <3>1. DOMAIN history[h] \subseteq Nat /\ req[r].content = content'[h]
      BY <1>1, <2>2, UpdateFacts
    <3>2. PICK n \in Nat : /\ n = existing[r].nextId
                           /\ DOMAIN history'[h] = DOMAIN history[h] \cup {n}
                           /\ history'[h][n] = content'[h]
      BY <2>2, <3>1, UpdateAdds
    <3>5. CASE Numbered(history[h])
      <4>1. \A i \in DOMAIN history'[h] : i <= n
        BY <2>2, <3>1, <3>2, <3>5, UpdateIsNext
      <4>2. n = Max(DOMAIN history'[h])
        BY <3>1, <3>2, <4>1, MaxIsNewest
      <4>. QED
        BY <3>2, <4>2
    <3>6. CASE ~Numbered(history[h])
      <4>1. h \in Replaced /\ Updaters(h) # {}
        BY <3>6 DEF HistoryInv
      <4>2. PICK q \in Updaters(h) : q # r
        BY <2>2, <4>1, UpdateFacts
      <4>3. r \in Updaters(h)' /\ q \in Updaters(h)'
        BY <2>0, <2>2, <4>2, UpdateFacts
      <4>. QED
        BY <1>0, <3>2, <4>1, <4>2, <4>3
    <3>. QED
      BY <3>5, <3>6
  <2>3. CASE Updates(r, h) /\ history'[h] = history[h]
    <3>1. req[r].op = "silentUpdate"
      <4>1. PICK n, c, f : n = existing[r].nextId /\ c = req[r].content /\ f = history[h]
        OBVIOUS
      <4>2. n \in DOMAIN R!AddEntry(f, n, c)
        BY DEF R!AddEntry
      <4>. QED
        BY <2>3, <4>1, <4>2 DEF Updates
    <3>2. req[r].op # "silentUpdate"
      BY <1>1, <2>3 DEF RegistryInv, R!Local, Updates
    <3>. QED
      BY <2>3, <3>1, <3>2 DEF Updates
  <2>4. CASE Inserts(r, h) /\ ~(content'[h] = content[h] /\ history'[h] = history[h])
    <3>1. DOMAIN history'[h] = {0} /\ history'[h][0] = content'[h]
      BY <2>4 DEF Inserts
    <3>2. Max(DOMAIN history'[h]) = 0
      BY <3>1, MaxIsNewest
    <3>. QED
      BY <3>1, <3>2
  <2>5. CASE Deletes(h)
    BY <1>1, <2>5 DEF Deletes
  <2>. QED
    BY <2>1, <2>2, <2>3, <2>4, <2>5, RequestRowStep DEF Stays
<1>. QED
  BY <1>1 DEF ShownContentIsNewestEntry

\* The access settings that a request's step takes away or leaves missing.
LEMMA RequestAuthRow ==
  ASSUME RegistryInv, NEW r \in Request, RequestStep(r), NEW h \in Handle
  PROVE  /\ h \in auth /\ h \notin auth' => item'[h].kind = "absent"
         /\ Inserts(r, h) => pc'[r] \in Unconfigured /\ fresh'[r] = h
         /\ fresh[r] = h /\ pc[r] \in Unconfigured /\ Exists(h) /\ h \notin auth' =>
              fresh'[r] = h /\ pc'[r] \in Unconfigured
<1>0. Inserts(r, h) => pc'[r] \in Unconfigured /\ fresh'[r] = h
  BY DEF Inserts, Unconfigured
<1>1. CASE RegistryStep(r)
  <2>0. R!TypeOK /\ R!Step(r) /\ DOMAIN item = Handle /\ h \in R!Handle
    BY <1>1, SameSteps, SameHandles DEF RegistryStep, RegistryInv, R!TypeOK
  <2>1. ASSUME h \in auth, h \notin auth' PROVE item'[h].kind = "absent"
    <3>1. CASE R!Delete(r)
      <4>1. PICK k \in R!Handle : /\ item' = [item EXCEPT ![k] = R!NoRow]
                                  /\ auth' = auth \ {k}
        BY <3>1 DEF R!Delete
      <4>. QED
        BY <2>0, <2>1, <4>1 DEF R!NoRow, R!NewRow
    <3>2. CASE R!EnsureSidecars(r)
      BY <2>1, <3>2 DEF R!EnsureSidecars
    <3>3. CASE ~R!Delete(r) /\ ~R!EnsureSidecars(r)
      BY <2>0, <2>1, <3>3, R!AuthFrame, RegistryAssumptions
    <3>. QED
      BY <3>1, <3>2, <3>3
  <2>2. ASSUME fresh[r] = h, pc[r] \in Unconfigured, Exists(h), h \notin auth'
        PROVE  fresh'[r] = h /\ pc'[r] \in Unconfigured
    <3>1. /\ R!Exists(h) /\ h # R!NoHandle /\ pc[r] # "idle" /\ pc[r] # "mint"
          /\ pc[r] \in {"refreshRead", "refreshWrite", "sidecars", "failed"}
      BY <2>2, SameHandles DEF Unconfigured, Handle, NoHandle
    <3>2. R!EnsureSidecars(r) => ~R!Exists(fresh[r])
      BY <2>2 DEF R!EnsureSidecars
    <3>3. R!Written(r) = h /\ R!AfterRefresh(r) = "sidecars"
      BY <2>2, <3>1 DEF R!Written, R!AfterRefresh
    <3>. QED
      BY <2>0, <2>2, <3>1, <3>2, <3>3, R!MoveStep, RegistryAssumptions
         DEF Unconfigured, R!InFlight
  <2>. QED
    BY <1>0, <2>1, <2>2
<1>2. CASE InsertConflicts(r) \/ CommitWithoutSatellite(r)
  <2>1. auth' = auth /\ pc[r] \in {"commit", "insert"}
    BY <1>2, NewSteps DEF tables
  <2>. QED
    BY <1>0, <2>1 DEF Unconfigured
<1>. QED
  BY <1>1, <1>2 DEF RequestStep

LEMMA RequestAuth ==
  ASSUME RegistryInv, AuthInv, NEW r \in Request, RequestStep(r)
  PROVE  AuthInv'
<1>1. /\ UNCHANGED <<apc, at>>
      /\ \A q \in Request \ {r} : pc'[q] = pc[q] /\ fresh'[q] = fresh[q]
  BY RequestFrame, RequestMoves
<1>2. ASSUME NEW h \in Handle, Exists(h)', h \notin auth'
      PROVE  \/ \E q \in Request : fresh'[q] = h /\ pc'[q] \in Unconfigured
             \/ h = at' /\ apc' \in Unconfigured
  <2>1. CASE Inserts(r, h)
    BY <2>1, RequestAuthRow
  <2>2. CASE ~Inserts(r, h)
    <3>1. Exists(h) /\ h \notin auth
      <4>1. item'[h].kind # "absent"
        BY <1>2 DEF Exists, Reg!Exists
      <4>. QED
        BY <1>2, <2>2, <4>1, RequestExists, RequestAuthRow
    <3>2. \/ \E q \in Request : fresh[q] = h /\ pc[q] \in Unconfigured
          \/ h = at /\ apc \in Unconfigured
      BY <3>1 DEF AuthInv
    <3>3. ASSUME NEW q \in Request, fresh[q] = h, pc[q] \in Unconfigured
          PROVE  fresh'[q] = h /\ pc'[q] \in Unconfigured
      BY <1>1, <1>2, <3>1, <3>3, RequestAuthRow
    <3>. QED
      BY <1>1, <3>2, <3>3
  <2>. QED
    BY <2>1, <2>2
<1>. QED
  BY <1>2 DEF AuthInv

LEMMA RequestLockTrail ==
  ASSUME RegistryInv, R!LockTrail, NEW r \in Request, RequestStep(r)
  PROVE  R!LockTrail'
<1>1. CASE RegistryStep(r)
  <2>1. R!TypeOK /\ R!Step(r) /\ R!Local(r)
    BY <1>1, SameSteps DEF RegistryStep, RegistryInv
  <2>. QED
    BY <2>1, R!LockTrailStep, RegistryAssumptions
<1>2. CASE InsertConflicts(r) \/ CommitWithoutSatellite(r)
  <2>1. locked' = locked /\ lockEvents' = lockEvents
    BY <1>2, NewSteps DEF tables
  <2>. QED
    BY <2>1 DEF R!LockTrail
<1>. QED
  BY <1>1, <1>2 DEF RequestStep

LEMMA RequestInvStep == AdminInv /\ (\E r \in Request : RequestStep(r)) => AdminInv'
BY RequestTypes, RequestFrame, RequestHandles, RequestHistory, RequestShown, RequestAuth,
   RequestLockTrail DEF AdminInv

-----------------------------------------------------------------------------
(* The initial states.                                                     *)

LEMMA SameInit == Reg!Init => R!Init
BY DEF Reg!Init, R!Init, Reg!InitTables, R!InitTables, Reg!FirstItem, R!FirstItem,
   Reg!NewRow, R!NewRow, Reg!NoRow, R!NoRow, Reg!NoHistory, R!NoHistory, Reg!NoReq,
   R!NoReq, Reg!Asks, R!Asks, Reg!NoSnapshot, R!NoSnapshot, Reg!Handle, R!Handle,
   Reg!NoHandle, R!NoHandle, Reg!NoSession, R!NoSession

\* Bundles from elsewhere are bundles.
LEMMA ForeignBundles ==
  ASSUME NEW c \in Content, NEW d \in Content, NEW b \in Foreign(c, d)
  PROVE  IsBundle(b)
<1> DEFINE row(k) == R!NewRow(k, NoHandle, 0)
           one == [i \in {0} |-> c]
           two == [i \in {0, 1} |-> IF i = 0 THEN d ELSE c]
<1>1. /\ R!NoHistory \in [DOMAIN R!NoHistory -> Content]
      /\ one \in [DOMAIN one -> Content] /\ two \in [DOMAIN two -> Content]
      /\ DOMAIN R!NoHistory = {} /\ DOMAIN one = {0} /\ DOMAIN two = {0, 1}
      /\ one[0] = c /\ two[1] = c
  BY DEF R!NoHistory
<1>2. row("seed") \in R!ItemRow /\ row("complete") \in R!ItemRow
      /\ row("seed").kind # "absent" /\ row("complete").kind # "absent"
      /\ row("seed").search = NoContent /\ row("complete").search = NoContent
  BY DEF R!NewRow, R!ItemRow, R!HandleOrNone, R!ContentOrNone, R!NoHandle, R!NoSession,
     NoHandle
<1>3. \/ b = Bundle(row("seed"), NoContent, R!NoHistory, FALSE)
      \/ b = Bundle(row("complete"), c, one, FALSE)
      \/ b = Bundle(row("complete"), c, two, TRUE)
  BY SameRows DEF Foreign
<1> HIDE DEF row, one, two
<1>4. PICK k \in R!ItemRow, e \in R!ContentOrNone, f \in {R!NoHistory, one, two},
           l \in BOOLEAN :
         /\ b = Bundle(k, e, f, l) /\ k.kind # "absent" /\ k.search = NoContent
         /\ \/ e = NoContent /\ f = R!NoHistory
            \/ e = c /\ f \in {one, two}
  <2>1. NoContent \in R!ContentOrNone /\ c \in R!ContentOrNone
    BY DEF R!ContentOrNone
  <2>. QED
    BY <1>2, <1>3, <2>1
<1>5. b.row = k /\ b.content = e /\ b.history = f /\ b.locked = l
  BY <1>4 DEF Bundle
<1>6. Numbered(f) /\ f \in [DOMAIN f -> Content]
  <2>1. DOMAIN f \in {{}, {0}, {0, 1}} /\ f \in [DOMAIN f -> Content]
    BY <1>1, <1>4
  <2>2. {} = 0..(0 - 1) /\ {0} = 0..(1 - 1) /\ {0, 1} = 0..(2 - 1)
    OBVIOUS
  <2>3. 0 \in Nat /\ 1 \in Nat /\ 2 \in Nat
    OBVIOUS
  <2>4. Numbered(f)
    BY <2>1, <2>2, <2>3 DEF Numbered
  <2>. QED
    BY <2>1, <2>4
<1>7. e # NoContent => \E m \in DOMAIN f : e = f[m] /\ \A i \in DOMAIN f : i <= m
  BY <1>1, <1>4
<1>. QED
  BY <1>4, <1>5, <1>6, <1>7 DEF IsBundle

\* Whatever the file holds, the first state satisfies the invariant.
LEMMA AdminInvInit == Init => AdminInv
<1> SUFFICES ASSUME Init PROVE AdminInv
  OBVIOUS
<1>1. R!Init
  BY SameInit DEF Init
<1>2. R!Inv /\ R!ContentIsNewestEntry
  BY <1>1, R!InitInv, R!NewestEntryInit, RegistryAssumptions
<1>3. /\ apc = "idle" /\ settings = NoSettings /\ listed = {} /\ todo = {} /\ deleting = {}
      /\ at = NoHandle /\ read = NoContent /\ newSize = 0
  BY DEF Init
<1>4. Replaced = {}
  BY <1>3 DEF Replaced
<1>5. pc = [r \in Request |-> "idle"]
  BY <1>1 DEF R!Init
<1>6. RegistryInv /\ R!LockTrail
  BY <1>2, <1>5 DEF R!Inv, RegistryInv
<1>7. PlanInv
  BY <1>3 DEF PlanInv, BeforeImport, Importing, Restoring, Settings, NoSettings, Modes,
     R!ContentOrNone
<1>8. FileInv
  <2>1. PICK c \in Content, d \in Content :
               file \in [Handle -> Foreign(c, d) \cup {NoBundle, Malformed}]
    BY DEF Init
  <2>. QED
    BY <1>3, <2>1, ForeignBundles DEF FileInv
<1>9. HandlesInv
  BY <1>2, <1>4, <1>5, SameHandles DEF R!Inv, R!Handles, HandlesInv
<1>10. \A h \in Handle : Numbered(history[h])
  BY <1>2, SameHandles DEF R!Inv, R!HistoryIds, Numbered
<1>11. HistoryInv
  BY <1>4, <1>5, <1>10, NumberedFacts DEF HistoryInv
<1>12. ShownContentIsNewestEntry
  <2>1. ASSUME "silentUpdate" \notin Ops, NEW h \in Handle, content[h] # NoContent
        PROVE  \E i \in DOMAIN history[h] : /\ history[h][i] = content[h]
                                            /\ i = Max(DOMAIN history[h])
    <3>1. DOMAIN history[h] # {} /\ content[h] = history[h][Max(DOMAIN history[h])]
      BY <1>2, <2>1, SameHandles DEF R!ContentIsNewestEntry
    <3>2. HasNewest(history[h]) /\ DOMAIN history[h] \subseteq Nat
      BY <1>10, NumberedFacts
    <3>3. PICK m \in DOMAIN history[h] : \A i \in DOMAIN history[h] : i <= m
      BY <3>1, <3>2 DEF HasNewest
    <3>4. Max(DOMAIN history[h]) = m
      BY <3>2, <3>3, MaxIsNewest
    <3>. QED
      BY <3>1, <3>3, <3>4
  <2>. QED
    BY <2>1 DEF ShownContentIsNewestEntry
<1>13. AuthInv
  <2>1. PICK kind \in {"absent", "seed", "complete"}, c \in Content : R!InitTables(kind, c)
    BY <1>1 DEF R!Init
  <2>2. item = [h \in Handle |-> IF h = 1 THEN R!FirstItem(kind, c) ELSE R!NoRow]
        /\ auth = IF kind = "absent" THEN {} ELSE {1}
    BY <2>1, SameHandles DEF R!InitTables
  <2>3. R!NoRow.kind = "absent" /\ R!FirstItem(kind, c).kind = kind
    BY DEF R!NoRow, R!FirstItem, R!NewRow
  <2>4. \A h \in Handle : Exists(h) => h = 1 /\ kind # "absent"
    BY <2>2, <2>3 DEF Exists, Reg!Exists
  <2>. QED
    BY <2>2, <2>4 DEF AuthInv
<1>. QED
  BY <1>6, <1>7, <1>8, <1>9, <1>11, <1>12, <1>13 DEF AdminInv

-----------------------------------------------------------------------------
(* The theorems.                                                           *)

LEMMA AdminStutterInv == AdminInv /\ UNCHANGED vars => AdminInv'
<1> SUFFICES ASSUME AdminInv, UNCHANGED vars PROVE AdminInv'
  OBVIOUS
<1> USE DEF vars, tables, others, adminVars
<1>1. RegistryInv'
  <2>1. R!TypeOK'
    BY DEF AdminInv, RegistryInv, R!TypeOK
  <2>2. \A r \in Request : /\ R!Local(r)'
                           /\ pc'[r] = "setLocked" => req'[r].op \in {"lock", "unlock"}
    BY DEF AdminInv, RegistryInv, R!Local, R!Written
  <2>. QED
    BY <2>1, <2>2 DEF RegistryInv
<1>2. Parsed' = Parsed /\ Replaced' = Replaced
  BY DEF Parsed, Replaced
<1>3. PlanInv' /\ FileInv'
  BY <1>2 DEF AdminInv, PlanInv, FileInv
<1>4. /\ \A h : Exists(h)' <=> Exists(h)
      /\ \A h : Updaters(h)' = Updaters(h)
  BY DEF Exists, Reg!Exists, Updaters
<1>5. HandlesInv'
  BY <1>2, <1>4 DEF AdminInv, HandlesInv
<1>6. HistoryInv'
  BY <1>2, <1>4 DEF AdminInv, HistoryInv
<1>7. ShownContentIsNewestEntry'
  BY <1>2, <1>4 DEF AdminInv, ShownContentIsNewestEntry
<1>8. AuthInv'
  BY <1>4 DEF AdminInv, AuthInv
<1>9. R!LockTrail'
  BY DEF AdminInv, R!LockTrail
<1>. QED
  BY <1>1, <1>3, <1>5, <1>6, <1>7, <1>8, <1>9 DEF AdminInv

LEMMA NextCases ==
  Next => AdminStep \/ (\E r \in Request : RequestStep(r)) \/ UNCHANGED vars
BY DEF Next, RequestStep, Finished

\* Whatever the administrator and the requests do, the invariant holds.
THEOREM AdminInvariance == Spec => []AdminInv
<1>1. Init => AdminInv
  BY AdminInvInit
<1>2. AdminInv /\ [Next]_vars => AdminInv'
  BY NextCases, AdminInvStep, RequestInvStep, AdminStutterInv
<1>. QED
  BY <1>1, <1>2, PTL DEF Spec

LEMMA AdminTypeFact == AdminInv => TypeOK
<1> SUFFICES ASSUME AdminInv PROVE TypeOK
  OBVIOUS
<1>1. Reg!TypeOK
  BY SameTypes DEF AdminInv, RegistryInv
<1>2. PlanInv
  BY DEF AdminInv
<1>. QED
  BY <1>1, <1>2 DEF PlanInv, TypeOK, Importing, BeforeImport, R!ContentOrNone

LEMMA SameLockTrail == R!LockTrail <=> LockTrail
BY DEF R!LockTrail, LockTrail, Reg!LockTrail, R!Handle, Reg!Handle

\* What an item shows is what its trails say, however requests and an import of
\* whatever file interleave, and wherever they stop.
THEOREM TrailsTheorem == Spec => []TrailsAgree
<1>1. AdminInv => TrailsAgree
  BY AdminTypeFact, SameLockTrail DEF TrailsAgree, AdminInv
<1>. QED
  BY <1>1, AdminInvariance, PTL

\* An import that stops leaves at most the item it was at without access
\* settings.
THEOREM HalfImportedTheorem == Spec => []OnlyOneItemIsHalfImported
<1>1. AdminInv => OnlyOneItemIsHalfImported
  <2>1. SUFFICES ASSUME AdminInv, NEW h \in Handle, Exists(h), h \notin auth, Reg!Settled(h)
                 PROVE  h = at
    BY DEF OnlyOneItemIsHalfImported
  <2>2. \A r \in Request : ~(fresh[r] = h /\ pc[r] \in Unconfigured)
    <3>1. ASSUME NEW r \in Request, fresh[r] = h, pc[r] \in Unconfigured PROVE FALSE
      <4>1. Reg!Written(r) = h
        BY <3>1 DEF Reg!Written, Reg!NoHandle, Handle
      <4>. QED
        BY <2>1, <3>1, <4>1 DEF Reg!Settled, Reg!Ended, Unconfigured
    <3>. QED
      BY <3>1
  <2>. QED
    BY <2>1, <2>2 DEF AdminInv, AuthInv
<1>. QED
  BY <1>1, AdminInvariance, PTL

\* An import step changes only the items that its mode and the file say.
LEMMA ModeStep ==
  ASSUME AdminInv, AdminStep, NEW h \in Handle, item'[h] # item[h]
  PROVE  IF Exists(h)'
         THEN /\ h \in Parsed
              /\ settings.mode = "OVERWRITE_ONLY" => h \in listed
              /\ settings.mode = "ADD_ONLY" => h \notin listed
         ELSE /\ h \in listed \ Parsed
              /\ settings.mode = "SYNC_DELETION_ALLOWED" /\ settings.deletion
<1>0. RegistryInv /\ PlanInv /\ FileInv
  BY DEF AdminInv
<1>1. CASE Indexes(h)
  <2>1. apc = "refreshWrite" /\ h \in Parsed
    BY <1>0, <1>1 DEF Indexes, RefreshWrite, PlanInv, Restoring
  <2>2. Exists(h)'
    <3>1. item[h] \in R!ItemRow /\ item[h].kind # "absent"
      BY <1>0, <1>1, SameHandles DEF RegistryInv, R!TypeOK, Indexes, Exists, Reg!Exists
    <3>2. item'[h].kind # "absent"
      BY <1>1, <3>1 DEF Indexes, R!ItemRow
    <3>. QED
      BY <3>2 DEF Exists, Reg!Exists, Reg!Handle, Handle
  <2>. QED
    BY <1>0, <2>1, <2>2 DEF PlanInv, Importing
<1>2. CASE Puts(h)
  <2>1. apc = "replace" /\ h \in Parsed
    BY <1>0, <1>2 DEF Puts, Replace, PlanInv, Importing
  <2>2. Exists(h)'
    BY <1>2 DEF Puts, IsBundle, Exists, Reg!Exists, Reg!Handle, Handle
  <2>. QED
    BY <1>0, <2>1, <2>2 DEF PlanInv, Importing
<1>3. CASE Removes(h)
  <2>1. apc = "delete" /\ h \in deleting
    BY <1>3 DEF Removes, DeleteUnmatched
  <2>2. ~Exists(h)'
    BY <1>3 DEF Removes, R!NoRow, R!NewRow, Exists, Reg!Exists
  <2>. QED
    BY <1>0, <2>1, <2>2 DEF PlanInv, Importing
<1>. QED
  BY <1>0, <1>1, <1>2, <1>3, AdminRowStep DEF Leaves

\* However requests interleave, an import keeps to what its mode and the file
\* let it do.
THEOREM ModeTheorem == Spec => ImportKeepsToItsMode
<1>1. AdminInv /\ [Next]_vars =>
        [AdminMoves =>
           \A h \in Handle : item'[h] # item[h] =>
             IF Exists(h)'
             THEN /\ h \in Parsed
                  /\ settings.mode = "OVERWRITE_ONLY" => h \in listed
                  /\ settings.mode = "ADD_ONLY" => h \notin listed
             ELSE /\ h \in listed \ Parsed
                  /\ settings.mode = "SYNC_DELETION_ALLOWED" /\ settings.deletion]_vars
  <2>1. SUFFICES ASSUME AdminInv, Next, AdminMoves, NEW h \in Handle, item'[h] # item[h]
                 PROVE  IF Exists(h)'
                        THEN /\ h \in Parsed
                             /\ settings.mode = "OVERWRITE_ONLY" => h \in listed
                             /\ settings.mode = "ADD_ONLY" => h \notin listed
                        ELSE /\ h \in listed \ Parsed
                             /\ settings.mode = "SYNC_DELETION_ALLOWED"
                             /\ settings.deletion
    OBVIOUS
  <2>2. \A r \in Request : ~RequestStep(r)
    BY <2>1, RequestMoves DEF AdminInv, AdminMoves
  <2>3. AdminStep
    BY <2>1, <2>2, NextCases DEF vars, tables
  <2>. QED
    BY <2>1, <2>3, ModeStep
<1>. QED
  BY <1>1, AdminInvariance, PTL DEF Spec, ImportKeepsToItsMode

-----------------------------------------------------------------------------
(* An administrator whom nobody disturbs.                                  *)

LEMMA ExistsFact ==
  /\ \A h : Exists(h) <=> h \in Handle /\ item[h].kind # "absent"
  /\ \A h : Exists(h)' <=> h \in Handle /\ item'[h].kind # "absent"
BY DEF Exists, Reg!Exists, Reg!Handle, Handle

\* What a bundle restored can be told from: no search document, no other lock.
LEMMA ImportedIsBundle ==
  ASSUME NEW h \in Handle, Imported(h), IsBundle(file[h])
  PROVE  BundleOf(h) = file[h]
BY DEF Imported, Restored, IsBundle, BundleOf

\* While nothing changes, nothing that depends on it does.
LEMMA FaithfulFrame ==
  ASSUME Faithful, UNCHANGED <<tables, adminVars>>
  PROVE  Faithful'
<1> USE DEF tables, adminVars
<1>1. /\ \A h : Exists(h)' <=> Exists(h)
      /\ Snapshot' = Snapshot /\ Parsed' = Parsed
      /\ \A h : BundleOf(h)' = BundleOf(h)
  BY ExistsFact DEF Snapshot, Parsed, BundleOf
<1>2. Deletable' = Deletable
  BY <1>1 DEF Deletable
<1>3. \A h : (Restored(h)' <=> Restored(h)) /\ (Imported(h)' <=> Imported(h))
  BY <1>1 DEF Restored, Imported
<1>4. ExportFaithful => ExportFaithful'
  BY <1>1 DEF ExportFaithful
<1>5. ImportFaithful => ImportFaithful'
  BY <1>1, <1>2, <1>3 DEF ImportFaithful
<1>. QED
  BY <1>1, <1>4, <1>5 DEF Faithful

LEMMA FaithfulRequest ==
  ASSUME Faithful, NEW r \in Request, RequestStep(r)
  PROVE  Faithful'
<1>1. CASE before' = NoSnapshot
  BY <1>1 DEF Faithful
<1>2. CASE before' # NoSnapshot
  <2>1. UNCHANGED <<apc, file, settings, listed, todo, deleting, at, read, newSize>>
    BY RequestFrame
  <2>2. InsertConflicts(r) => UNCHANGED <<tables, before>>
    BY DEF InsertConflicts, adminVars
  <2>3. RegistryStep(r) \/ CommitWithoutSatellite(r) => UNCHANGED <<tables, before>>
    BY <1>2 DEF RegistryStep, CommitWithoutSatellite, Disturb
  <2>4. UNCHANGED <<tables, adminVars>>
    BY <2>1, <2>2, <2>3 DEF RequestStep, adminVars
  <2>. QED
    BY <2>4, FaithfulFrame
<1>. QED
  BY <1>1, <1>2

LEMMA FaithfulExport ==
  ASSUME AdminInv, Faithful, BeginExport \/ ExportItem \/ ExportLock
  PROVE  Faithful'
<1>0. /\ UNCHANGED tables /\ DOMAIN file = Handle /\ todo \subseteq Handle
      /\ apc' \in {"export", "exportLock", "exported"}
  BY DEF BeginExport, ExportItem, ExportLock, AdminInv, FileInv, PlanInv
<1>1. /\ \A h : Exists(h)' <=> Exists(h)
      /\ \A h : BundleOf(h)' = BundleOf(h)
  BY <1>0, ExistsFact DEF tables, BundleOf
<1>2. SUFFICES ASSUME before' # NoSnapshot PROVE ExportFaithful'
  BY <1>0 DEF Faithful, Importing
<1> DEFINE Unlocked(h) == Bundle([item[h] EXCEPT !.search = NoContent], content[h],
                                 history[h], FALSE)
<1>3. CASE BeginExport
  <2>1. /\ todo' = Present /\ file' = [h \in Handle |-> NoBundle]
        /\ apc' = IF Present = {} THEN "exported" ELSE "export"
    BY <1>3 DEF BeginExport
  <2>2. \A h \in Handle : h \in todo' <=> Exists(h)
    BY <2>1 DEF Present
  <2>3. \A h \in todo' : Exists(h)
    BY <2>1 DEF Present
  <2>. QED
    BY <1>1, <2>1, <2>2, <2>3 DEF ExportFaithful
<1>4. CASE ExportItem
  <2>0. ExportFaithful /\ apc = "export"
    BY <1>2, <1>4 DEF ExportItem, Faithful
  <2>1. PICK h \in todo :
          /\ at' = h /\ todo' = todo \ {h}
          /\ Exists(h) => file' = [file EXCEPT ![h] = Unlocked(h)] /\ apc' = "exportLock"
    BY <1>4 DEF ExportItem
  <2>2. Exists(h) /\ h \in Handle
    BY <1>0, <2>0 DEF ExportFaithful
  <2>3. file' = [file EXCEPT ![h] = Unlocked(h)] /\ apc' = "exportLock"
    BY <2>1, <2>2
  <2>4. Unlocked(h)' = Unlocked(h)
    BY <1>0 DEF tables
  <2>5. ASSUME NEW k \in Handle
        PROVE  file'[k] = IF ~Exists(k)' \/ k \in todo' THEN NoBundle
                          ELSE IF apc' = "exportLock" /\ k = at' THEN Unlocked(k)'
                          ELSE BundleOf(k)'
    <3> HIDE DEF Unlocked
    <3>1. CASE k = h
      BY <1>0, <1>1, <2>1, <2>2, <2>3, <2>4, <3>1
    <3>2. CASE k # h
      <4>1. file'[k] = IF ~Exists(k) \/ k \in todo THEN NoBundle ELSE BundleOf(k)
        BY <1>0, <2>0, <2>3, <3>2 DEF ExportFaithful
      <4>. QED
        BY <1>1, <2>1, <3>2, <4>1
    <3>. QED
      BY <3>1, <3>2
  <2>6. \A k \in todo' : Exists(k)
    BY <2>0, <2>1 DEF ExportFaithful
  <2>. QED
    BY <1>1, <2>1, <2>2, <2>3, <2>5, <2>6 DEF ExportFaithful
<1>5. CASE ExportLock
  <2>0. ExportFaithful /\ apc = "exportLock" /\ apc' # "exportLock"
    BY <1>2, <1>5 DEF ExportLock, Faithful
  <2>1. /\ at \in Handle \ todo /\ Exists(at) /\ todo' = todo
        /\ file' = [file EXCEPT ![at].locked = locked[at]]
        /\ apc' = "exported" => todo = {}
    BY <1>5, <2>0 DEF ExportFaithful, ExportLock, ExportedLock
  <2>2. file[at] = Unlocked(at)
    BY <2>0, <2>1 DEF ExportFaithful
  <2>3. [Unlocked(at) EXCEPT !.locked = locked[at]] = BundleOf(at)
    <3>1. \A ok, row, d, f, l, m :
            [[ok |-> ok, row |-> row, content |-> d, history |-> f, locked |-> l]
               EXCEPT !.locked = m]
            = [ok |-> ok, row |-> row, content |-> d, history |-> f, locked |-> m]
      OBVIOUS
    <3>2. PICK t : t = TRUE
      OBVIOUS
    <3>3. \A row, d, f, l : Bundle(row, d, f, l)
            = [ok |-> t, row |-> row, content |-> d, history |-> f, locked |-> l]
      BY <3>2 DEF Bundle
    <3>4. \A row, d, f, l, m :
            [Bundle(row, d, f, l) EXCEPT !.locked = m] = Bundle(row, d, f, m)
      BY <3>1, <3>3
    <3>5. PICK row, d, f, m, g :
            /\ row = [item[at] EXCEPT !.search = NoContent] /\ g = FALSE
            /\ d = content[at] /\ f = history[at] /\ m = locked[at]
      OBVIOUS
    <3>6. Unlocked(at) = Bundle(row, d, f, g) /\ BundleOf(at) = Bundle(row, d, f, m)
      BY <3>5 DEF BundleOf
    <3>7. [Bundle(row, d, f, g) EXCEPT !.locked = m] = Bundle(row, d, f, m)
      BY <3>4
    <3> HIDE DEF Unlocked
    <3>8. [Unlocked(at) EXCEPT !.locked = m] = BundleOf(at)
      BY <3>6, <3>7
    <3>. QED
      BY <3>5, <3>8
  <2>4. file' = [file EXCEPT ![at] = BundleOf(at)]
    BY <2>1, <2>2, <2>3
  <2>5. ASSUME NEW k \in Handle
        PROVE  file'[k] = IF ~Exists(k) \/ k \in todo THEN NoBundle ELSE BundleOf(k)
    <3>1. CASE k = at
      BY <1>0, <2>1, <2>4, <3>1
    <3>2. CASE k # at
      BY <1>0, <2>0, <2>4, <3>2 DEF ExportFaithful
    <3>. QED
      BY <3>1, <3>2
  <2>6. \A k \in todo : Exists(k)
    BY <2>0 DEF ExportFaithful
  <2>. QED
    BY <1>1, <2>0, <2>1, <2>5, <2>6 DEF ExportFaithful
<1>. QED
  BY <1>3, <1>4, <1>5

\* The import decides on the tables as they are.
LEMMA FaithfulBegin ==
  ASSUME AdminInv, Faithful, BeginImport
  PROVE  Faithful'
<1>0. /\ listed' = Present /\ before' = Snapshot /\ UNCHANGED <<tables, file, at, read>>
  BY DEF BeginImport
<1>1. /\ \A h : Exists(h)' <=> Exists(h)
      /\ Parsed' = Parsed /\ Snapshot' = Snapshot
  BY <1>0, ExistsFact DEF tables, Parsed, Snapshot
<1>2. before'.item = item /\ before'.content = content
  BY <1>0 DEF Snapshot
<1> DEFINE new == Parsed \ Present
           overwritten == Parsed \cap Present
           unmatched == Present \ Parsed
<1>3. PICK s \in Settings :
        \E parseItems \in BOOLEAN :
          LET gone == IF s.mode = "SYNC_DELETION_ALLOWED" THEN unmatched ELSE {}
          IN  /\ settings' = s
              /\ IF \/ parseItems /\ Unparsed # {}
                    \/ Refuses(s, new, overwritten, unmatched)
                 THEN apc' = "refused" /\ UNCHANGED <<todo, deleting, newSize>>
                 ELSE /\ todo' = IF s.trial THEN {} ELSE Parsed
                      /\ deleting' = IF s.trial THEN {} ELSE gone
                      /\ newSize' = NewSize(new, overwritten, gone)
                      /\ Continue(todo', deleting')
  BY DEF BeginImport
<1> DEFINE gone == IF s.mode = "SYNC_DELETION_ALLOWED" THEN unmatched ELSE {}
<1>4. CASE apc' = "refused"
  BY <1>0, <1>1, <1>4 DEF Faithful, Importing
<1>5. CASE /\ settings' = s
           /\ todo' = IF s.trial THEN {} ELSE Parsed
           /\ deleting' = IF s.trial THEN {} ELSE gone
           /\ newSize' = NewSize(new, overwritten, gone)
           /\ Continue(todo', deleting')
  <2>1. /\ apc' \in {"replace", "delete", "done"}
        /\ apc' \in {"delete", "done"} => todo' = {}
        /\ apc' = "done" => deleting' = {}
    BY <1>5 DEF Continue
  <2>2. CASE s.trial
    BY <1>0, <1>1, <1>5, <2>1, <2>2 DEF Faithful, Continue
  <2>3. CASE ~s.trial
    <3>1. Deletable' = gone
      BY <1>0, <1>1, <1>5 DEF Deletable
    <3>2. /\ newSize' = Cardinality(Present) + Cardinality(Parsed \ Present)
                          - Cardinality(gone)
          /\ todo' = Parsed /\ deleting' = gone
      BY <1>5, <2>3 DEF NewSize
    <3>3. \A h \in Handle : Exists(h) <=> h \in Present
      BY DEF Present
    <3> HIDE DEF new, overwritten, unmatched, gone
    <3>4. ImportFaithful'
      BY <1>0, <1>1, <1>2, <2>1, <3>1, <3>2, <3>3 DEF ImportFaithful, Restoring, tables
    <3>. QED
      BY <1>5, <2>1, <2>3, <3>4 DEF Faithful
  <2>. QED
    BY <2>2, <2>3
<1>. QED
  BY <1>3, <1>4, <1>5

\* An item that was imported stays so while its rows do.
LEMMA ImportedStays ==
  ASSUME NEW h \in Handle, file' = file, Imported(h),
         item'[h] = item[h], content'[h] = content[h], history'[h] = history[h],
         locked'[h] = locked[h], h \in auth'
  PROVE  Imported(h)'
<1>1. Exists(h)'
  BY ExistsFact DEF Imported, Restored
<1>. QED
  BY <1>1 DEF Imported, Restored

\* The import writes all but its last row of an item, or goes through the rest.
LEMMA FaithfulKept ==
  ASSUME AdminInv, ImportFaithful, file' = file,
         UNCHANGED <<settings, listed, deleting, before, newSize>>,
         NEW k \in Handle, k \in Parsed,
         \A h \in Handle \ {k} :
           /\ item'[h] = item[h] /\ content'[h] = content[h] /\ history'[h] = history[h]
           /\ locked'[h] = locked[h] /\ (h \in auth => h \in auth')
  PROVE  /\ Parsed' = Parsed /\ Deletable' = Deletable
         /\ newSize' = Cardinality(listed') + Cardinality(Parsed' \ listed')
                         - Cardinality(Deletable')
         /\ \A h \in Handle \ Parsed' :
              /\ Exists(h)' <=> h \in listed' /\ (h \in Deletable' => h \in deleting')
              /\ \/ item'[h] = before'.item[h] /\ content'[h] = before'.content[h]
                 \/ settings'.mode = "SYNC_DELETION_ALLOWED" /\ settings'.deletion
         /\ \A h \in Handle \ {k} : Imported(h) => Imported(h)'
<1>1. Parsed' = Parsed
  BY DEF Parsed
<1>2. Deletable' = Deletable
  BY <1>1 DEF Deletable
<1>3. \A h \in Handle \ Parsed : Exists(h)' <=> Exists(h)
  BY ExistsFact
<1>4. \A h \in Handle \ {k} : Imported(h) => Imported(h)'
  BY ImportedStays DEF Imported
<1>. QED
  BY <1>1, <1>2, <1>3, <1>4 DEF ImportFaithful

LEMMA FaithfulReplace ==
  ASSUME AdminInv, ImportFaithful, Replace
  PROVE  ImportFaithful'
<1>0. /\ DOMAIN item = Handle /\ DOMAIN content = Handle /\ DOMAIN history = Handle
      /\ DOMAIN locked = Handle /\ PlanInv /\ FileInv
      /\ apc = "replace" /\ apc' = "refreshRead"
      /\ UNCHANGED <<file, settings, listed, deleting, before, newSize>>
  BY SameHandles DEF AdminInv, RegistryInv, R!TypeOK, Replace, Locally
<1>1. PICK k \in todo :
        /\ at' = k /\ todo' = todo \ {k}
        /\ item' = [item EXCEPT ![k] = file[k].row]
        /\ content' = [content EXCEPT ![k] = file[k].content]
        /\ history' = [history EXCEPT ![k] = file[k].history]
        /\ auth' = auth \ {k} /\ locked' = [locked EXCEPT ![k] = FALSE]
  BY DEF Replace, ImportedHistory
<1>2. k \in Handle /\ k \in Parsed /\ file[k].ok /\ todo \subseteq Parsed
  BY <1>0, <1>1 DEF PlanInv, Importing, Parsed
<1>3. IsBundle(file[k])
  BY <1>0, <1>2 DEF FileInv, NoBundle, Malformed
<1>4. Restored(k)'
  <2>1. item'[k] = file[k].row /\ content'[k] = file[k].content
        /\ history'[k] = file[k].history
    BY <1>0, <1>1, <1>2
  <2>2. Exists(k)'
    BY <1>2, <1>3, <2>1, ExistsFact DEF IsBundle
  <2>3. [file[k].row EXCEPT !.search = NoContent] = file[k].row
    BY <1>3 DEF IsBundle, R!ItemRow
  <2>. QED
    BY <1>0, <2>1, <2>2, <2>3 DEF Restored
<1>5. \A h \in Handle \ {k} :
           /\ item'[h] = item[h] /\ content'[h] = content[h] /\ history'[h] = history[h]
           /\ locked'[h] = locked[h] /\ (h \in auth => h \in auth')
  BY <1>0, <1>1
<1>6. \A h \in (Parsed \ todo') \ {k} : Imported(h)
  BY <1>0, <1>1 DEF ImportFaithful, Restoring
<1>7. /\ Parsed' = Parsed
      /\ \A h \in Handle \ {k} : Imported(h) => Imported(h)'
      /\ newSize' = Cardinality(listed') + Cardinality(Parsed' \ listed')
                         - Cardinality(Deletable')
      /\ \A h \in Handle \ Parsed' :
              /\ Exists(h)' <=> h \in listed' /\ (h \in Deletable' => h \in deleting')
              /\ \/ item'[h] = before'.item[h] /\ content'[h] = before'.content[h]
                 \/ settings'.mode = "SYNC_DELETION_ALLOWED" /\ settings'.deletion
  BY <1>0, <1>2, <1>5, FaithfulKept
<1>8. \A h \in Parsed' \ todo' : Imported(h)' \/ (apc' \in Restoring /\ h = at')
  BY <1>0, <1>1, <1>6, <1>7 DEF Parsed, Restoring
<1>9. Restored(at)'
  BY <1>1, <1>4 DEF Restored, Exists, Reg!Exists
<1>. QED
  BY <1>0, <1>7, <1>8, <1>9 DEF ImportFaithful

LEMMA FaithfulDelete ==
  ASSUME AdminInv, ImportFaithful, DeleteUnmatched
  PROVE  ImportFaithful'
<1>0. /\ DOMAIN item = Handle /\ DOMAIN content = Handle /\ DOMAIN history = Handle
      /\ DOMAIN locked = Handle /\ PlanInv
      /\ apc = "delete" /\ todo = {}
      /\ UNCHANGED <<file, settings, listed, before, newSize, todo, at, read>>
  BY SameHandles DEF AdminInv, RegistryInv, R!TypeOK, DeleteUnmatched, Locally, ImportFaithful
<1>1. PICK k \in deleting :
        /\ deleting' = deleting \ {k}
        /\ item' = [item EXCEPT ![k] = R!NoRow]
        /\ content' = [content EXCEPT ![k] = NoContent]
        /\ history' = [history EXCEPT ![k] = R!NoHistory]
        /\ auth' = auth \ {k} /\ locked' = [locked EXCEPT ![k] = FALSE]
  BY SameRows DEF DeleteUnmatched
<1>2. /\ k \in Handle \ Parsed /\ k \in listed
      /\ settings.mode = "SYNC_DELETION_ALLOWED" /\ settings.deletion
  BY <1>0, <1>1 DEF PlanInv, Importing
<1>3. /\ apc' \in {"delete", "done"} /\ (apc' = "done" => deleting' = {})
  BY DEF DeleteUnmatched, Continue
<1>4. Parsed' = Parsed
  BY <1>0 DEF Parsed
<1>5. Deletable' = Deletable /\ k \in Deletable
  BY <1>0, <1>2, <1>4 DEF Deletable
<1>6. \A h \in Parsed : Imported(h)'
  <2>1. ASSUME NEW h \in Parsed PROVE Imported(h)'
    <3>1. h \in Handle /\ h # k /\ Imported(h)
      BY <1>0, <1>2 DEF ImportFaithful, Restoring, Parsed
    <3>2. h \in auth'
      BY <1>1, <3>1 DEF Imported
    <3>. QED
      BY <1>0, <1>1, <3>1, <3>2, ImportedStays
  <2>. QED
    BY <2>1
<1>7. \A h \in Handle \ Parsed : Exists(h)' <=> Exists(h) /\ h # k
  BY <1>0, <1>1, ExistsFact DEF R!NoRow, R!NewRow
<1>8. \A h \in Handle \ Parsed' :
        Exists(h)' <=> h \in listed' /\ (h \in Deletable' => h \in deleting')
  BY <1>0, <1>1, <1>2, <1>4, <1>5, <1>7 DEF ImportFaithful
<1>. QED
  BY <1>0, <1>2, <1>3, <1>4, <1>5, <1>6, <1>8 DEF ImportFaithful, Restoring

\* The steps at the item the import is at.
LEMMA FaithfulRestore ==
  ASSUME AdminInv, ImportFaithful,
         RefreshRead \/ RefreshWrite \/ PutSidecars \/ CheckLock \/ SetLock,
         apc' # "failed"
  PROVE  ImportFaithful'
<1>0. /\ DOMAIN item = Handle /\ DOMAIN locked = Handle
      /\ item \in [Handle -> R!ItemRow] /\ PlanInv
      /\ UNCHANGED <<content, history, file, settings, listed, deleting, todo, before, newSize>>
      /\ apc \in Restoring
  BY SameHandles DEF AdminInv, RegistryInv, R!TypeOK, RefreshRead, RefreshWrite, PutSidecars,
     CheckLock, SetLock, Locally, Restoring, tables
<1>1. PICK k : k = at
  OBVIOUS
<1>2. /\ k \in Handle /\ k \in Parsed \ todo /\ Restored(k) /\ Exists(k)
  BY <1>0, <1>1 DEF PlanInv, ImportFaithful, Restored, Parsed
<1>3. \A h \in Handle \ {k} :
           /\ item'[h] = item[h] /\ locked'[h] = locked[h] /\ (h \in auth => h \in auth')
  <2>1. CASE RefreshWrite
    BY <1>0, <1>1, <2>1 DEF RefreshWrite
  <2>2. CASE SetLock
    BY <1>0, <1>1, <2>2 DEF SetLock
  <2>3. CASE PutSidecars
    BY <1>0, <1>1, <2>3 DEF PutSidecars
  <2>4. CASE RefreshRead \/ CheckLock
    BY <1>0, <1>1, <2>4 DEF RefreshRead, CheckLock, tables
  <2>. QED
    BY <2>1, <2>2, <2>3, <2>4
<1>4. /\ Parsed' = Parsed
      /\ \A h \in Handle \ {k} : Imported(h) => Imported(h)'
      /\ newSize' = Cardinality(listed') + Cardinality(Parsed' \ listed')
                         - Cardinality(Deletable')
      /\ \A h \in Handle \ Parsed' :
              /\ Exists(h)' <=> h \in listed' /\ (h \in Deletable' => h \in deleting')
              /\ \/ item'[h] = before'.item[h] /\ content'[h] = before'.content[h]
                 \/ settings'.mode = "SYNC_DELETION_ALLOWED" /\ settings'.deletion
  BY <1>0, <1>2, <1>3, FaithfulKept
<1>5. \A h \in (Parsed \ todo) \ {k} : Imported(h)'
  BY <1>1, <1>4 DEF ImportFaithful, Parsed
\* Either the import stays at the item, or it leaves it as the file has it.
<1>6. \/ /\ apc' \in Restoring /\ at' = k /\ Restored(k)'
         /\ apc' = "refreshWrite" => read' = content'[k]
         /\ apc' \in {"sidecars", "settings", "lockCheck", "lockSet"} =>
              item'[k].search = content'[k]
         /\ apc' \in {"settings", "lockCheck", "lockSet"} => k \in auth'
      \/ /\ apc' \in {"replace", "delete", "done"} /\ Imported(k)'
         /\ apc' \in {"delete", "done"} => todo' = {}
         /\ apc' = "done" => deleting' = {}
  <2>0. item' = item => (Restored(k)' <=> Restored(k))
    BY <1>0, ExistsFact DEF Restored
  <2>1. CASE RefreshRead
    BY <1>0, <1>1, <1>2, <2>0, <2>1 DEF RefreshRead, Restoring, tables
  <2>2. CASE RefreshWrite
    <3>1. /\ apc = "refreshWrite" /\ apc' = "sidecars" /\ at' = k
          /\ item' = [item EXCEPT ![k].search = content[k]]
      BY <1>1, <1>2, <2>2 DEF RefreshWrite, AfterRefresh, ImportFaithful
    <3>2. PICK row \in R!ItemRow : row = item[k]
      BY <1>0, <1>2
    <3>7. PICK c : c = content[k]
      OBVIOUS
    <3>3. item'[k] = [row EXCEPT !.search = c]
      BY <1>0, <1>2, <3>1, <3>2, <3>7
    <3>4. /\ [[row EXCEPT !.search = c] EXCEPT !.search = NoContent]
               = [row EXCEPT !.search = NoContent]
          /\ [row EXCEPT !.search = c].search = c
          /\ [row EXCEPT !.search = c].kind = row.kind
      BY DEF R!ItemRow
    <3>5. Exists(k)'
      BY <1>2, <3>2, <3>3, <3>4, ExistsFact
    <3>6. Restored(k)' /\ item'[k].search = content'[k]
      BY <1>0, <1>2, <3>2, <3>3, <3>4, <3>5, <3>7 DEF Restored
    <3>. QED
      BY <3>1, <3>6 DEF Restoring
  <2>3. CASE PutSidecars
    BY <1>0, <1>1, <1>2, <2>0, <2>3 DEF PutSidecars, ImportFaithful, Restoring
  <2>4. CASE CheckLock
    <3>1. /\ apc = "lockCheck" /\ UNCHANGED tables /\ k \in auth
          /\ item[k].search = content[k]
      BY <1>1, <2>4 DEF CheckLock, ImportFaithful
    <3>2. CASE locked[k] # file[k].locked
      BY <1>1, <1>2, <2>0, <2>4, <3>1, <3>2 DEF CheckLock, Restoring, tables
    <3>3. CASE locked[k] = file[k].locked
      <4>1. Imported(k)'
        BY <1>0, <1>2, <2>0, <3>1, <3>3 DEF Imported, tables
      <4>. QED
        BY <1>0, <1>1, <2>4, <3>3, <4>1 DEF CheckLock, Continue
    <3>. QED
      BY <3>2, <3>3
  <2>5. CASE SetLock
    <3>1. /\ apc = "lockSet" /\ k \in auth /\ item[k].search = content[k]
          /\ locked' = [locked EXCEPT ![k] = file[k].locked]
          /\ Continue(todo, deleting) /\ UNCHANGED <<item, auth>>
      BY <1>1, <1>2, <2>5 DEF SetLock, ImportFaithful
    <3>2. locked'[k] = file[k].locked
      BY <1>0, <1>2, <3>1
    <3>3. Imported(k)'
      BY <1>0, <1>2, <2>0, <3>1, <3>2 DEF Imported
    <3>. QED
      BY <1>0, <3>1, <3>3 DEF Continue
  <2>. QED
    BY <2>1, <2>2, <2>3, <2>4, <2>5
<1>7. \A h \in Parsed' \ todo' : Imported(h)' \/ (apc' \in Restoring /\ h = at')
  BY <1>0, <1>4, <1>5, <1>6
<1>8. at' = k => (Restored(k)' <=> Restored(at)')
  BY DEF Restored, Exists, Reg!Exists
<1>. QED
  BY <1>4, <1>6, <1>7, <1>8 DEF ImportFaithful, Restoring

LEMMA FaithfulStep == AdminInv /\ Faithful /\ AdminStep => Faithful'
<1> SUFFICES ASSUME AdminInv, Faithful, AdminStep PROVE Faithful'
  OBVIOUS
<1>1. CASE BeginExport \/ ExportItem \/ ExportLock
  BY <1>1, FaithfulExport
<1>2. CASE BeginImport
  BY <1>2, FaithfulBegin
<1>3. CASE FailImport
  BY <1>3 DEF FailImport, Faithful, Importing
<1>4. CASE Replace \/ RefreshRead \/ RefreshWrite \/ PutSidecars \/ CheckLock \/ SetLock
            \/ DeleteUnmatched
  <2>1. apc \in Importing /\ before' = before /\ settings' = settings
    BY <1>4 DEF Replace, RefreshRead, RefreshWrite, PutSidecars, CheckLock, SetLock,
       DeleteUnmatched, Locally, Importing
  <2>2. ~settings.trial
    BY <2>1 DEF AdminInv, PlanInv
  <2>3. apc' \in Importing \cup {"done", "failed"}
    BY <1>4 DEF Replace, RefreshRead, RefreshWrite, PutSidecars, CheckLock, SetLock,
       DeleteUnmatched, AfterRefresh, Continue, Importing
  <2>4. SUFFICES ASSUME before # NoSnapshot, apc' # "failed" PROVE ImportFaithful'
    BY <2>1, <2>2, <2>3 DEF Faithful, Importing
  <2>5. ImportFaithful
    BY <2>1, <2>2, <2>4 DEF Faithful
  <2>. QED
    BY <1>4, <2>4, <2>5, FaithfulReplace, FaithfulRestore, FaithfulDelete
<1>. QED
  BY <1>1, <1>2, <1>3, <1>4 DEF AdminStep

\* An import that is done has as many items as it said.
LEMMA SizeFact ==
  ASSUME AdminInv, ImportFaithful, apc = "done"
  PROVE  Cardinality(Present) = newSize
<1>0. /\ listed \subseteq Handle /\ Parsed \subseteq Handle /\ Deletable \subseteq listed \ Parsed
      /\ deleting = {} /\ todo = {}
  BY DEF AdminInv, PlanInv, Parsed, Deletable, ImportFaithful
<1>1. Present = (listed \cup Parsed) \ Deletable
  <2>1. \A h \in Handle \ Parsed : Exists(h) <=> h \in listed \ Deletable
    BY <1>0 DEF ImportFaithful
  <2>2. \A h \in Parsed : Exists(h)
    BY <1>0 DEF ImportFaithful, Imported, Restored, Restoring
  <2>. QED
    BY <1>0, <2>1, <2>2 DEF Present
<1>2. /\ IsFiniteSet(listed) /\ IsFiniteSet(Parsed \ listed) /\ IsFiniteSet(listed \cup Parsed)
      /\ Cardinality(listed) \in Nat /\ Cardinality(Parsed \ listed) \in Nat
      /\ IsFiniteSet(Deletable) /\ Cardinality(Deletable) \in Nat
  BY <1>0, Countable
<1>3. \A S, T : IsFiniteSet(S) /\ IsFiniteSet(T) /\ S \cap T = {}
        => Cardinality(S \cup T) = Cardinality(S) + Cardinality(T)
  <2> SUFFICES ASSUME NEW S, NEW T, IsFiniteSet(S), IsFiniteSet(T), S \cap T = {}
               PROVE  Cardinality(S \cup T) = Cardinality(S) + Cardinality(T)
    OBVIOUS
  <2>1. PICK s, t, n : s = Cardinality(S) /\ t = Cardinality(T) /\ n = Cardinality(S \cap T)
    OBVIOUS
  <2>2. s \in Nat /\ t \in Nat /\ n = 0
    BY <2>1, FS_CardinalityType, FS_EmptySet
  <2>3. Cardinality(S \cup T) = s + t - n
    BY <2>1, FS_Union
  <2>4. s + t - n = s + t
    BY <2>2
  <2>. QED
    BY <2>1, <2>3, <2>4
<1>4. PICK p, q, d, all :
        /\ p = Cardinality(listed) /\ q = Cardinality(Parsed \ listed)
        /\ d = Cardinality(Deletable) /\ all = listed \cup Parsed
  OBVIOUS
<1>5. p \in Nat /\ q \in Nat /\ d \in Nat
  BY <1>2, <1>4
<1>6. Cardinality(all) = p + q
  <2>1. all = listed \cup (Parsed \ listed) /\ listed \cap (Parsed \ listed) = {}
    BY <1>4
  <2>. QED
    BY <1>2, <1>3, <1>4, <2>1
<1>7. Cardinality(all \ Deletable) + d = Cardinality(all)
  <2>1. all = (all \ Deletable) \cup Deletable /\ (all \ Deletable) \cap Deletable = {}
    BY <1>0, <1>4
  <2>2. IsFiniteSet(all \ Deletable)
    BY <1>2, <1>4, FS_Subset
  <2>. QED
    BY <1>2, <1>3, <1>4, <2>1, <2>2
<1>8. Cardinality(all \ Deletable) \in Nat
  BY <1>2, <1>4, FS_Subset, FS_CardinalityType
<1>9. PICK left : left = Cardinality(all \ Deletable)
  OBVIOUS
<1>10. left = p + q - d
  BY <1>5, <1>6, <1>7, <1>8, <1>9
<1>11. newSize = p + q - d
  BY <1>4 DEF ImportFaithful
<1>. QED
  BY <1>1, <1>4, <1>9, <1>10, <1>11

\* Export and import, undisturbed, do exactly what they say.
THEOREM FaithfulTheorem == Spec => []UndisturbedAdminIsFaithful
<1>1. Init => Faithful
  BY DEF Init, Faithful
<1>2. AdminInv /\ Faithful /\ [Next]_vars => Faithful'
  BY NextCases, FaithfulStep, FaithfulRequest, FaithfulFrame DEF vars
<1>3. AdminInv /\ Faithful => UndisturbedAdminIsFaithful
  <2> SUFFICES ASSUME AdminInv, Faithful, before # NoSnapshot
               PROVE  UndisturbedAdminIsFaithful
    BY DEF UndisturbedAdminIsFaithful, UndisturbedImportIsFaithful,
       UndisturbedExportIsFaithful
  <2>1. ASSUME apc = "done", ~settings.trial
        PROVE  /\ \A h \in Parsed : /\ Exists(h) /\ BundleOf(h) = file[h]
                                    /\ h \in auth /\ item[h].search = content[h]
               /\ \A h \in Handle \ Parsed :
                    \/ item[h] = before.item[h] /\ content[h] = before.content[h]
                    \/ settings.mode = "SYNC_DELETION_ALLOWED" /\ settings.deletion
               /\ settings.mode = "SYNC_DELETION_ALLOWED" => Present = Parsed
               /\ Cardinality(Present) = newSize
    <3>1. ImportFaithful /\ todo = {} /\ deleting = {}
      BY <2>1 DEF Faithful, ImportFaithful
    <3>2. \A h \in Parsed : Imported(h)
      BY <2>1, <3>1 DEF ImportFaithful, Restoring
    <3>3. \A h \in Parsed : h \in Handle /\ IsBundle(file[h])
      BY DEF AdminInv, FileInv, Parsed, NoBundle, Malformed
    <3>4. \A h \in Parsed : Exists(h) /\ BundleOf(h) = file[h]
                            /\ h \in auth /\ item[h].search = content[h]
      BY <3>2, <3>3, ImportedIsBundle DEF Imported, Restored
    <3>5. settings.mode = "SYNC_DELETION_ALLOWED" => Present = Parsed
      BY <3>1, <3>3, <3>4 DEF ImportFaithful, Deletable, Present
    <3>. QED
      BY <2>1, <3>1, <3>4, <3>5, SizeFact DEF ImportFaithful
  <2>2. apc = "refused" \/ (apc = "done" /\ settings.trial) => Snapshot = before
    BY DEF Faithful
  <2>3. apc = "exported" =>
          \A h \in Handle : file[h] = IF Exists(h) THEN BundleOf(h) ELSE NoBundle
    BY DEF Faithful, ExportFaithful
  <2>. QED
    BY <2>1, <2>2, <2>3 DEF UndisturbedAdminIsFaithful, UndisturbedImportIsFaithful,
       UndisturbedExportIsFaithful
<1>. QED
  BY <1>1, <1>2, <1>3, AdminInvariance, PTL DEF Spec
=============================================================================
