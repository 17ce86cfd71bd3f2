----------------------------- MODULE AdminImport -----------------------------
(***************************************************************************)
(* The admin export and import of the registry                             *)
(* (apps/api/src/routers/registry/admin.ts), composed with Registry: one   *)
(* administrator works on the tables while the requests of Registry go on. *)
(*                                                                         *)
(* Like any handler, the import runs no transaction of its own: it lists   *)
(* the items, decides on the whole file, and then writes bundle after      *)
(* bundle over seven awaits each, and deletes last.                        *)
(*                                                                         *)
(* Abstractions.  A file has at most one bundle for an id, and is written  *)
(* in any order.  Of the access settings only their presence is told       *)
(* apart, as in Registry.  The four reads an export makes of an item are   *)
(* two: the item, and its lock.                                            *)
(***************************************************************************)
EXTENDS Integers, FiniteSets, FiniteSetsExt, Sequences

CONSTANTS Request, Content, NoContent, MaxHandle, Ops, Versioning,  \* see Registry
  Exports     \* whether the administrator exports, too

ASSUME ExportsAssumption == Exports \in BOOLEAN
ASSUME ContentAssumption == NoContent \notin Content /\ Content # {}
ASSUME MaxHandleAssumption == MaxHandle \in Nat \ {0}
ASSUME OpsAssumption ==
  Ops \subseteq {"seed", "create", "update", "silentUpdate", "revert", "version",
                 "lock", "unlock", "delete"}
ASSUME VersioningAssumption == Versioning \in BOOLEAN

VARIABLES
  item, content, history, auth, locked, lockEvents, minted, sessions,
  pc, req, stored, existing, fresh, session, epoch,
  apc,        \* the await the administrator's handler performs next
  file,       \* the bundles, by id; what an export returns, or an import gets
  settings,   \* import mode and flags
  listed,     \* the ids the import found in the registry
  todo,       \* ids the handler's loop has still to go through
  deleting,   \* ids the import has still to delete
  at,         \* the id the handler is at
  read,       \* the item as refreshSearchText read it
  before,     \* history variable: the tables when the import listed the ids,
              \* for as long as nobody else has written
  newSize     \* statistics.new_registry_size

Reg == INSTANCE Registry

tables == <<item, content, history, auth, locked, lockEvents>>
others == <<minted, sessions, pc, req, stored, existing, fresh, session, epoch>>
adminVars == <<apc, file, settings, listed, todo, deleting, at, read, before,
               newSize>>
vars == <<tables, others, adminVars>>

-----------------------------------------------------------------------------
Handle == 1..MaxHandle
NoHandle == 0
Exists(h) == Reg!Exists(h)
Present == {h \in Handle : Exists(h)}

Modes == {"ADD_ONLY", "ADD_OR_OVERWRITE", "OVERWRITE_ONLY",
          "SYNC_ADD_OR_OVERWRITE", "SYNC_DELETION_ALLOWED"}
Settings == [mode : Modes, deletion : BOOLEAN, trial : BOOLEAN]
NoSettings == [mode |-> "ADD_ONLY", deletion |-> FALSE, trial |-> TRUE]

\* A bundle: the row, the satellite and the history of an item, and its lock.
Bundle(row, c, hist, isLocked) ==
  [ok |-> TRUE, row |-> row, content |-> c, history |-> hist,
   locked |-> isLocked]
NoBundle == [ok |-> FALSE, there |-> FALSE]
\* A bundle that does not parse (it has no sub type).
Malformed == [ok |-> FALSE, there |-> TRUE]

Parsed == {h \in Handle : file[h].ok}
Unparsed == {h \in Handle : file[h] = Malformed}

Snapshot == [item |-> item, content |-> content, history |-> history,
             auth |-> auth, locked |-> locked, lockEvents |-> lockEvents]
NoSnapshot == [item |-> <<>>]

\* Bundles from another deployment or an edited file: a seed, an item as it was
\* registered, and a locked one that was updated once.
Foreign(c, d) ==
  LET seed == Reg!NewRow("seed", NoHandle, 0)
      complete == Reg!NewRow("complete", NoHandle, 0)
  IN  {Bundle(seed, NoContent, Reg!NoHistory, FALSE),
       Bundle(complete, c, [i \in {0} |-> c], FALSE),
       Bundle(complete, c, [i \in {0, 1} |-> IF i = 0 THEN d ELSE c], TRUE)}

Init ==
  /\ Reg!Init
  /\ apc = "idle"
  /\ \E c, d \in Content :
       /\ c # d
       /\ file \in [Handle -> Foreign(c, d) \cup {NoBundle, Malformed}]
  /\ settings = NoSettings
  /\ listed = {} /\ todo = {} /\ deleting = {}
  /\ at = NoHandle
  /\ read = NoContent
  /\ before = NoSnapshot
  /\ newSize = 0

-----------------------------------------------------------------------------
(* GET /export.                                                            *)

BeginExport ==
  /\ Exports /\ apc = "idle"
  /\ todo' = Present
  /\ file' = [h \in Handle |-> NoBundle]
  /\ apc' = IF Present = {} THEN "exported" ELSE "export"
  /\ before' = Snapshot
  /\ UNCHANGED <<tables, others, settings, listed, deleting, at, read, newSize>>

\* The next id, which may be gone by now.
ExportItem ==
  /\ apc = "export"
  /\ \E h \in todo :
       /\ at' = h
       /\ todo' = todo \ {h}
       /\ IF Exists(h)
          THEN /\ file' = [file EXCEPT ![h] =
                            Bundle([item[h] EXCEPT !.search = NoContent],
                                   content[h], history[h], FALSE)]
               /\ apc' = "exportLock"
          ELSE /\ apc' = IF todo' = {} THEN "exported" ELSE "export"
               /\ UNCHANGED file
  /\ UNCHANGED <<tables, others, settings, listed, deleting, read, before,
                 newSize>>

\* (seeded bug) every item is exported unlocked
ExportedLock_Never(h) == h \notin Handle
ExportedLock(h) == locked[h]

ExportLock ==
  /\ apc = "exportLock"
  /\ file' = [file EXCEPT ![at].locked = ExportedLock(at)]
  /\ apc' = IF todo = {} THEN "exported" ELSE "export"
  /\ at' = NoHandle
  /\ UNCHANGED <<tables, others, settings, listed, todo, deleting, read, before,
                 newSize>>

-----------------------------------------------------------------------------
(* POST /import: the list of ids, and what follows from it.                *)

\* (seeded bug) whoever allows the mode allows the deletions
Refuses_AnyDeletion(s, new, overwritten, unmatched) ==
  \/ s.mode = "ADD_ONLY" /\ overwritten # {}
  \/ s.mode = "OVERWRITE_ONLY" /\ new # {}
  \/ s.mode = "SYNC_ADD_OR_OVERWRITE" /\ unmatched # {}

Refuses(s, new, overwritten, unmatched) ==
  \/ s.mode = "ADD_ONLY" /\ overwritten # {}
  \/ s.mode = "OVERWRITE_ONLY" /\ new # {}
  \/ s.mode = "SYNC_ADD_OR_OVERWRITE" /\ unmatched # {}
  \/ s.mode = "SYNC_DELETION_ALLOWED" /\ unmatched # {} /\ ~s.deletion

\* (seeded bug) overwritten entries count as new ones
NewSize_Overwritten(new, overwritten, gone) ==
  Cardinality(Present) + Cardinality(new \cup overwritten) - Cardinality(gone)
NewSize(new, overwritten, gone) ==
  Cardinality(Present) + Cardinality(new) - Cardinality(gone)

\* What the loops do next: the next bundle, the deletions, or the answer.
Continue(rest, gone) ==
  apc' = IF rest # {} THEN "replace" ELSE IF gone # {} THEN "delete" ELSE "done"

BeginImport ==
  /\ apc \in {"idle", "exported"}
  /\ listed' = Present
  /\ before' = Snapshot
  /\ \E s \in Settings, parseItems \in BOOLEAN :
       LET new == Parsed \ Present
           overwritten == Parsed \cap Present
           unmatched == Present \ Parsed
           gone == IF s.mode = "SYNC_DELETION_ALLOWED" THEN unmatched ELSE {}
       IN  /\ settings' = s
           /\ IF \/ parseItems /\ Unparsed # {}
                 \/ Refuses(s, new, overwritten, unmatched)
              THEN apc' = "refused" /\ UNCHANGED <<todo, deleting, newSize>>
              ELSE /\ todo' = IF s.trial THEN {} ELSE Parsed
                   /\ deleting' = IF s.trial THEN {} ELSE gone
                   /\ newSize' = NewSize(new, overwritten, gone)
                   /\ Continue(todo', deleting')
  /\ UNCHANGED <<tables, others, file, at, read>>

-----------------------------------------------------------------------------
(* The loop over the bundles, and the one over the deletions.              *)

Locally == UNCHANGED <<others, file, settings, listed, before, newSize>>

\* (seeded bug) the history of an item that is replaced stays
ImportedHistory_Kept(h) == IF Exists(h) THEN history[h] ELSE file[h].history
ImportedHistory(h) == file[h].history

\* replaceItem: the old row goes with all that refers to it, the new one comes
\* without sidecars, in one transaction.
Replace ==
  /\ apc = "replace"
  /\ \E h \in todo :
       LET b == file[h] IN
       /\ at' = h
       /\ todo' = todo \ {h}
       /\ item' = [item EXCEPT ![h] = b.row]
       /\ content' = [content EXCEPT ![h] = b.content]
       /\ history' = [history EXCEPT ![h] = ImportedHistory(h)]
       /\ auth' = auth \ {h}
       /\ locked' = [locked EXCEPT ![h] = FALSE]
       /\ lockEvents' = [lockEvents EXCEPT ![h] = <<>>]
  /\ apc' = "refreshRead"
  /\ Locally /\ UNCHANGED <<deleting, read>>

\* (seeded bug) only the lock is restored
AfterRefresh_LockOnly == "lockCheck"
AfterRefresh == "sidecars"

RefreshRead ==
  /\ apc = "refreshRead"
  /\ IF Exists(at)
     THEN read' = content[at] /\ apc' = "refreshWrite"
     ELSE apc' = AfterRefresh /\ UNCHANGED read
  /\ Locally /\ UNCHANGED <<tables, todo, deleting, at>>

RefreshWrite ==
  /\ apc = "refreshWrite"
  /\ item' = IF Exists(at) THEN [item EXCEPT ![at].search = read] ELSE item
  /\ read' = NoContent
  /\ apc' = AfterRefresh
  /\ Locally
  /\ UNCHANGED <<content, history, auth, locked, lockEvents, todo, deleting, at>>

\* ensureSidecars, then putAccessSettings, which comes to the same row; both
\* fail when the item is gone.
PutSidecars ==
  /\ apc \in {"sidecars", "settings"}
  /\ IF Exists(at)
     THEN /\ auth' = auth \cup {at}
          /\ apc' = IF apc = "sidecars" THEN "settings" ELSE "lockCheck"
     ELSE apc' = "failed" /\ UNCHANGED auth
  /\ Locally
  /\ UNCHANGED <<item, content, history, locked, lockEvents, todo, deleting, at,
                 read>>

\* isLocked.
CheckLock ==
  /\ apc = "lockCheck"
  /\ IF locked[at] # file[at].locked
     THEN apc' = "lockSet" /\ UNCHANGED at
     ELSE Continue(todo, deleting) /\ at' = NoHandle
  /\ Locally /\ UNCHANGED <<tables, todo, deleting, read>>

\* (seeded bug) the flag is set without an event
ImportLockEvent_None(events, isLocked) == events
ImportLockEvent(events, isLocked) ==
  Append(events, IF isLocked THEN "LOCK" ELSE "UNLOCK")

\* setLocked.
SetLock ==
  /\ apc = "lockSet"
  /\ IF Exists(at)
     THEN /\ locked' = [locked EXCEPT ![at] = file[at].locked]
          /\ lockEvents' = [lockEvents EXCEPT ![at] =
                              ImportLockEvent(@, file[at].locked)]
          /\ Continue(todo, deleting)
     ELSE apc' = "failed" /\ UNCHANGED <<locked, lockEvents>>
  /\ at' = NoHandle
  /\ Locally
  /\ UNCHANGED <<item, content, history, auth, todo, deleting, read>>

\* deleteItem, of a row that may be gone already.
DeleteUnmatched ==
  /\ apc = "delete"
  /\ \E h \in deleting :
       /\ deleting' = deleting \ {h}
       /\ item' = [item EXCEPT ![h] = Reg!NoRow]
       /\ content' = [content EXCEPT ![h] = NoContent]
       /\ history' = [history EXCEPT ![h] = Reg!NoHistory]
       /\ auth' = auth \ {h}
       /\ locked' = [locked EXCEPT ![h] = FALSE]
       /\ lockEvents' = [lockEvents EXCEPT ![h] = <<>>]
  /\ Continue({}, deleting')
  /\ Locally /\ UNCHANGED <<todo, at, read>>

Importing == {"replace", "refreshRead", "refreshWrite", "sidecars", "settings",
              "lockCheck", "lockSet", "delete"}

\* A statement fails or the process dies.
FailImport ==
  /\ apc \in Importing
  /\ apc' = "failed"
  /\ UNCHANGED <<tables, others, file, settings, listed, todo, deleting, at, read,
                 before, newSize>>

AdminStep ==
  \/ BeginExport \/ ExportItem \/ ExportLock
  \/ BeginImport \/ Replace \/ RefreshRead \/ RefreshWrite \/ PutSidecars
  \/ CheckLock \/ SetLock \/ DeleteUnmatched \/ FailImport

-----------------------------------------------------------------------------
(* The requests of Registry, over tables that imports write, too.          *)

\* What the administrator knows of the tables, once somebody else has written.
Disturb == before' = IF tables' = tables THEN before ELSE NoSnapshot

\* The handle a request minted is that of an item imported meanwhile.
HandleIsTaken(r) == pc[r] = "insert" /\ Exists(fresh[r])

\* The item a request found complete has been replaced by a seed, and nothing
\* turns its update down.
SatelliteIsGone(r) ==
  LET h == req[r].id IN
  /\ pc[r] = "commit" /\ existing[r].kind = "complete"
  /\ Exists(h) /\ content[h] = NoContent
  /\ ~Reg!CommitConflicts(r)

\* A step as Registry has it, for which nothing of that is the case.
RegistryStep(r) ==
  /\ Reg!Step(r)
  /\ HandleIsTaken(r) \/ SatelliteIsGone(r) => pc'[r] = "failed"
  /\ Disturb
  /\ UNCHANGED <<apc, file, settings, listed, todo, deleting, at, read, newSize>>

\* The primary key of the item table turns the insert down.
InsertConflicts(r) ==
  /\ HandleIsTaken(r)
  /\ pc' = [pc EXCEPT ![r] = "aborted"]
  /\ UNCHANGED <<tables, minted, sessions, req, stored, existing, fresh, session,
                 epoch, adminVars>>

\* updateItem updates a satellite row that is not there: the seed becomes
\* complete and gets a history entry, but no domain info.
CommitWithoutSatellite(r) ==
  LET h == req[r].id IN
  /\ SatelliteIsGone(r)
  /\ pc' = [pc EXCEPT ![r] = "refreshRead"]
  /\ item' = [item EXCEPT ![h].kind = "complete"]
  /\ history' = IF req[r].op = "silentUpdate" THEN history
                ELSE [history EXCEPT ![h] =
                        Reg!AddEntry(@, existing[r].nextId, req[r].content)]
  /\ UNCHANGED <<content, auth, locked, lockEvents, minted, sessions, req, stored,
                 existing, fresh, session, epoch, apc, file, settings, listed,
                 todo, deleting, at, read, newSize>>
  /\ Disturb

Finished ==
  /\ apc \in {"idle", "exported", "done", "refused", "failed"}
  /\ Reg!Finished
  /\ UNCHANGED vars

Next ==
  \/ AdminStep
  \/ \E r \in Request :
       RegistryStep(r) \/ InsertConflicts(r) \/ CommitWithoutSatellite(r)
  \/ Finished

Spec == Init /\ [][Next]_vars

-----------------------------------------------------------------------------
(* Properties.                                                             *)

BundleOf(h) ==
  Bundle([item[h] EXCEPT !.search = NoContent], content[h], history[h], locked[h])

\* Every variable holds values of its type, and what is left to do is in the
\* file, or was in the registry.
TypeOK ==
  /\ Reg!TypeOK
  /\ apc \in Importing \cup {"idle", "export", "exportLock", "exported",
                              "refused", "done", "failed"}
  /\ settings \in Settings
  /\ listed \subseteq Handle
  /\ apc \in Importing => todo \subseteq Parsed
  /\ deleting \subseteq listed
  /\ at \in Handle \cup {NoHandle}
  /\ read \in Content \cup {NoContent}
  /\ newSize \in Int

\* An import that nobody disturbed leaves exactly what file and mode say: every
\* bundle's item with its history, lock, access settings and search document,
\* the others as they were or gone, and as many items as the statistics
\* announced, while a trial or a refusal leaves everything alone.
UndisturbedImportIsFaithful ==
  before # NoSnapshot =>
    /\ apc = "done" /\ ~settings.trial =>
         /\ \A h \in Parsed : /\ Exists(h) /\ BundleOf(h) = file[h]
                              /\ h \in auth /\ item[h].search = content[h]
         /\ \A h \in Handle \ Parsed :
              \/ item[h] = before.item[h] /\ content[h] = before.content[h]
              \/ settings.mode = "SYNC_DELETION_ALLOWED" /\ settings.deletion
         /\ settings.mode = "SYNC_DELETION_ALLOWED" => Present = Parsed
         /\ Cardinality(Present) = newSize
    /\ apc = "refused" \/ (apc = "done" /\ settings.trial) => Snapshot = before

\* What an export that nobody disturbed returns is the registry, so that
\* importing it puts back all but the lock events and the access settings.
UndisturbedExportIsFaithful ==
  apc = "exported" /\ before # NoSnapshot =>
    \A h \in Handle : file[h] = IF Exists(h) THEN BundleOf(h) ELSE NoBundle

\* Export and import, undisturbed, do exactly what they say.
UndisturbedAdminIsFaithful ==
  /\ UndisturbedImportIsFaithful
  /\ UndisturbedExportIsFaithful

\* The administrator's step is under way: no request moves.
AdminMoves == pc' = pc

\* However requests interleave, an import deletes only items it had found, that
\* the file does not have and that it was allowed to delete; it adds nothing it
\* had not found in mode OVERWRITE_ONLY, and changes nothing it had found in
\* mode ADD_ONLY, and nothing ever that is not in the file.
ImportKeepsToItsMode ==
  [][AdminMoves =>
       \A h \in Handle : item'[h] # item[h] =>
         IF Exists(h)'
         THEN /\ h \in Parsed
              /\ settings.mode = "OVERWRITE_ONLY" => h \in listed
              /\ settings.mode = "ADD_ONLY" => h \notin listed
         ELSE /\ h \in listed \ Parsed
              /\ settings.mode = "SYNC_DELETION_ALLOWED" /\ settings.deletion]_vars

\* However an import ends, at most one item that was registered completely is
\* left without access settings: the one it was at.
OnlyOneItemIsHalfImported ==
  \A h \in Handle :
    Exists(h) /\ h \notin auth /\ Reg!Settled(h) => h = at

\* The ids of which the import has put the file's item in place of another.
Replaced ==
  IF apc \in {"idle", "export", "exportLock", "exported", "refused"}
     \/ settings.trial
  THEN {} ELSE Parsed \ todo

\* The updates of h that may have written.
Updaters(h) ==
  {r \in Request : /\ req[r].id = h /\ req[r].op \in {"update", "revert"}
                   /\ pc[r] \notin {"idle", "authorise", "repoFetch", "commit",
                                    "refused", "aborted"}}

\* An update that overlaps an import is never shown and then forgotten: the
\* domain info an item shows is in its history, and it is the newest entry
\* there, unless an import replaced the item while two updates were under way,
\* and the one to write last had read the shorter history.
ShownContentIsNewestEntry ==
  "silentUpdate" \notin Ops =>
    \A h \in Handle :
      content[h] # NoContent =>
        \E i \in DOMAIN history[h] :
          /\ history[h][i] = content[h]
          /\ \/ i = Max(DOMAIN history[h])
             \/ h \in Replaced /\ \E q, r \in Updaters(h) : q # r

\* The lock flag is what the newest lock event says, although an import erases
\* both and makes them anew.
LockTrail == Reg!LockTrail

\* What an item shows is what its trails say, imports or not.
TrailsAgree ==
  /\ TypeOK
  /\ ShownContentIsNewestEntry
  /\ LockTrail

-----------------------------------------------------------------------------
(* What the repository says, and an import breaks.                         *)

\* items.ts, a complete item has domain info: it does, unless a seed was
\* imported over it while an update of it was under way.
CompleteItemHasContent ==
  \A h \in Handle : item[h].kind = "complete" => content[h] # NoContent
=============================================================================
