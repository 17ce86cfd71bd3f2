---------------------------- MODULE AccessRequests ----------------------------
(***************************************************************************)
(* Requests for a change of access rights (the access-control routes of    *)
(* apps/api/src/routers/auth/index.ts over the access_request table of     *)
(* packages/db/src/repos/auxiliary.ts).  A user lodges a request under the *)
(* second it is, administrators add notes, decide and delete.              *)
(*                                                                         *)
(* Abstractions.  What is asked for is the request that asks; a note is    *)
(* the request that adds it.  The text shown to the user is written with   *)
(* the status and follows from it.  An e-mail is a job handed to JobQueue; *)
(* the one about a new state cannot fail the request and is left out.      *)
(* Listings change nothing; a report without differences is turned down    *)
(* before the first write.                                                 *)
(***************************************************************************)
EXTENDS RequestPool, Naturals, Sequences

CONSTANT MaxTime  \* bound: the last second of a behaviour

ASSUME MaxTimeAssumption == MaxTime \in Nat

VARIABLES
  now,          \* the time in seconds
  access,       \* the access_request table, by username and request id
  mailed,       \* requests whose e-mail to the approvers was submitted
  act,          \* per request: its operation, the row it is about, and input
  found,        \* per request: the notes it fetched
  answered,     \* history variable: notes answered "added", in order
  decided,      \* history variable: the last state answered "changed"
  removed,      \* history variable: requests that were lodged and deleted
  crossed       \* history variable: rows whose notes were written over notes
                \* other than those fetched

accessTables == <<access, mailed>>
accessLocals == <<act, found>>
accessHistory == <<answered, decided, removed, crossed>>
accessVars == <<now, accessTables, accessLocals, accessHistory>>

-----------------------------------------------------------------------------
Second == 0..MaxTime
Key == User \X Second
NoKey == <<NoUser, 0>>

Pending == "PENDING_APPROVAL"
RequestStatus == {Pending, "APPROVED_PENDING_ACTION", "DENIED_PENDING_DELETION",
                  "ACTIONED_PENDING_DELETION"}
AccessRow == [status : RequestStatus, notes : Seq(Request), by : Request]
NoRequest == [status |-> "none"]
Lodged(k) == access[k] # NoRequest

Act == [op : {"none", "requestChange", "addNote", "changeState", "delete"},
        key : Key \cup {NoKey}, to : RequestStatus, flag : BOOLEAN]
NoAct == [op |-> "none", key |-> NoKey, to |-> Pending, flag |-> FALSE]

AccessInit ==
  /\ now = 0
  /\ access = [k \in Key |-> NoRequest]
  /\ mailed = {}
  /\ act = [r \in Request |-> NoAct]
  /\ found = [r \in Request |-> <<>>]
  /\ answered = [k \in Key |-> <<>>]
  /\ decided = [k \in Key |-> Pending]
  /\ removed = {}
  /\ crossed = {}

Tick ==
  /\ now < MaxTime
  /\ now' = now + 1
  /\ UNCHANGED <<accessTables, accessLocals, accessHistory, pc>>

BeginAct(r, op, k, to, flag, label) ==
  /\ pc[r] = "idle"
  /\ act' = [act EXCEPT ![r] = [op |-> op, key |-> k, to |-> to, flag |-> flag]]
  /\ Goto(r, label)
  /\ UNCHANGED now

-----------------------------------------------------------------------------
(* Lodging a request.                                                      *)

\* The id of a request is the second it is asked for.
BeginRequestChange(r) ==
  \E u \in User, sendEmail \in BOOLEAN :
    /\ BeginAct(r, "requestChange", <<u, now>>, Pending, sendEmail, "createRequest")
    /\ UNCHANGED <<accessTables, found, accessHistory>>

\* (seeded bug) the row is written whether or not there is one
Collides_Never(k) == FALSE
\* The primary key of the table: username and request id.
Collides(k) == Lodged(k)

\* accessRequests.create.
CreateRequest(r) ==
  LET k == act[r].key IN
  /\ pc[r] = "createRequest"
  /\ IF Collides(k)
     THEN /\ Goto(r, "failed")
          /\ UNCHANGED <<access, answered, decided, crossed>>
     ELSE /\ access' = [access EXCEPT ![k] =
                          [status |-> Pending, notes |-> <<>>, by |-> r]]
          /\ answered' = [answered EXCEPT ![k] = <<>>]
          /\ decided' = [decided EXCEPT ![k] = Pending]
          /\ crossed' = crossed \ {k}
          /\ Goto(r, IF act[r].flag THEN "mailRequest" ELSE "done")
  /\ UNCHANGED <<now, mailed, accessLocals, removed>>

\* submitJob, SEND_EMAIL to the approvers.
MailRequest(r) ==
  /\ pc[r] = "mailRequest"
  /\ mailed' = mailed \cup {r}
  /\ Goto(r, "done")
  /\ UNCHANGED <<now, access, accessLocals, accessHistory>>

-----------------------------------------------------------------------------
(* Working on a request.                                                   *)

\* accessRequests.get of add-note.
BeginAddNote(r) ==
  \E k \in Key :
    /\ Lodged(k)
    /\ BeginAct(r, "addNote", k, Pending, TRUE, "update")
    /\ found' = [found EXCEPT ![r] = access[k].notes]
    /\ UNCHANGED <<accessTables, accessHistory>>

\* accessRequests.get of change-request-state, with or without another note.
BeginChangeState(r) ==
  \E k \in Key, to \in RequestStatus, note \in BOOLEAN :
    /\ Lodged(k)
    /\ BeginAct(r, "changeState", k, to, note, "update")
    /\ found' = [found EXCEPT ![r] = access[k].notes]
    /\ UNCHANGED <<accessTables, accessHistory>>

\* (seeded bug) the new note takes the place of the others
Notes_New(r) == IF act[r].flag THEN <<r>> ELSE found[r]
\* The notes a request writes: those it fetched, and its own if it has one.
Notes(r) == IF act[r].flag THEN Append(found[r], r) ELSE found[r]

\* (seeded bug) a note is written together with the state the row had when it
\* was lodged
StatusWritten_Row(r, status) == act[r].to
\* A note leaves the state alone.
StatusWritten(r, status) == IF act[r].op = "changeState" THEN act[r].to ELSE status

\* accessRequests.update, of the columns given; of no row, if there is none.
Update(r) ==
  LET k == act[r].key IN
  /\ pc[r] = "update"
  /\ IF Lodged(k)
     THEN /\ access' = [access EXCEPT ![k].notes = Notes(r),
                                      ![k].status = StatusWritten(r, @)]
          /\ answered' = [answered EXCEPT ![k] =
                            IF act[r].flag THEN Append(@, r) ELSE @]
          /\ decided' = [decided EXCEPT ![k] =
                           IF act[r].op = "changeState" THEN act[r].to ELSE @]
          /\ crossed' = IF access[k].notes = found[r] THEN crossed
                        ELSE crossed \cup {k}
     ELSE UNCHANGED <<access, answered, decided, crossed>>
  /\ Goto(r, "done")
  /\ UNCHANGED <<now, mailed, accessLocals, removed>>

\* delete-request: one statement.
DeleteRequest(r) ==
  \E k \in Key :
    /\ Lodged(k)
    /\ BeginAct(r, "delete", k, Pending, FALSE, "done")
    /\ access' = [access EXCEPT ![k] = NoRequest]
    /\ removed' = removed \cup {access[k].by}
    /\ UNCHANGED <<mailed, found, answered, decided, crossed>>

AccessNext ==
  \/ Tick
  \/ \E r \in Request :
       \/ BeginRequestChange(r)
       \/ CreateRequest(r)
       \/ MailRequest(r)
       \/ BeginAddNote(r)
       \/ BeginChangeState(r)
       \/ Update(r)
       \/ DeleteRequest(r)

-----------------------------------------------------------------------------
(* Properties.                                                             *)

AccessTypeOK ==
  /\ now \in Second
  /\ access \in [Key -> AccessRow \cup {NoRequest}]
  /\ mailed \subseteq Request
  /\ act \in [Request -> Act]
  /\ found \in [Request -> Seq(Request)]
  /\ answered \in [Key -> Seq(Request)]
  /\ decided \in [Key -> RequestStatus]
  /\ removed \subseteq Request
  /\ crossed \subseteq Key

\* Who is told that a request was lodged finds it in the table as long as no
\* administrator deletes it, and the approvers were told if they should be: a
\* second request in the same second is refused and replaces nothing.
AcknowledgedRequestIsKept ==
  \A r \in Request :
    pc[r] = "done" /\ act[r].op = "requestChange" =>
      /\ \/ r \in removed
         \/ Lodged(act[r].key) /\ access[act[r].key].by = r
      /\ act[r].flag => r \in mailed

\* The state of a request is the last one an administrator was told it has:
\* whatever overlaps, notes do not bring back an earlier state.
DecisionStands ==
  \A k \in Key : Lodged(k) => access[k].status = decided[k]

\* A request has the notes that were answered "added", in that order, unless
\* one of them, or a change of state, was written over notes it had not seen.
UndisturbedNotesAreKept ==
  \A k \in Key : Lodged(k) /\ k \notin crossed => access[k].notes = answered[k]

\* What requesters and administrators were answered holds: the request is
\* there, in the state they were told, with the notes they were told.
AccessAnswersHold ==
  /\ AcknowledgedRequestIsKept
  /\ DecisionStands
  /\ UndisturbedNotesAreKept
=============================================================================
