------------------------------ MODULE JobQueue ------------------------------
(***************************************************************************)
(* The background task system: packages/jobs over the job_session table    *)
(* and the pg-boss queue, with the retry routes of the job API.            *)
(*                                                                         *)
(* A client (a route, or a handler that submits further jobs) first writes *)
(* the session row and then sends its id to the queue.  A worker is one    *)
(* run of the callback that pg-boss calls with a batch of ids; it handles  *)
(* the batch one session at a time, each with a chain of awaited writes.   *)
(*                                                                         *)
(* Abstractions.  The order of the queue and of a batch is left open.      *)
(* What a handler does is an effect that happens once, before the handler  *)
(* returns or throws; wrongly typed payloads are among the throws.         *)
(* Listing and fetching sessions, which write nothing, are left out, and   *)
(* so are requests turned down for want of a role.                         *)
(***************************************************************************)
EXTENDS Integers, FiniteSets

CONSTANTS
  Client,         \* the submissions and retries under way
  Worker,         \* runs of the worker callback
  MaxSession,     \* bound: sessions created over a behaviour
  BatchSize,      \* pg-boss fetches at most so many jobs
  AnswerMayGetLost  \* whether a write that went through may still be reported
                  \* to the worker as failed (a connection lost on the way back)

ASSUME ProcessAssumption == Client \cap Worker = {}
ASSUME MaxSessionAssumption == MaxSession \in Nat \ {0}
ASSUME BatchSizeAssumption == BatchSize \in Nat \ {0}
ASSUME AnswerAssumption == AnswerMayGetLost \in BOOLEAN

VARIABLES
  status,       \* job_session.status, "ABSENT" for rows not there
  retryOf,      \* per session: the session it retries, and by which route
  queue,        \* ids pg-boss holds for delivery
  at,           \* per client and worker: the await it performs next
  wants,        \* per client: what it submits, a retry or not
  holds,        \* per client: the session it created
  batch,        \* per worker: the sessions of its batch not yet ended
  cur,          \* per worker: the session it is processing
  runs,         \* per session: history variable, calls of its handler
  effects,      \* per session: history variable, calls that took effect
  lost          \* history variable: sessions dropped by a failure

clientVars == <<wants, holds>>
workerVars == <<batch, cur>>
vars == <<status, retryOf, queue, at, clientVars, workerVars, runs, effects, lost>>

-----------------------------------------------------------------------------
Session == 1..MaxSession
NoSession == 0
SessionOrNone == Session \cup {NoSession}
Process == Client \cup Worker

Created(s) == s \in Session /\ status[s] # "ABSENT"
Terminal == {"SUCCEEDED", "FAILED"}

Submission == [of : SessionOrNone, by : {"launch", "user", "admin"}]
Launch == [of |-> NoSession, by |-> "launch"]

SetStatus(s, new) == status' = [status EXCEPT ![s] = new]
Goto(p, label) == at' = [at EXCEPT ![p] = label]

Init ==
  /\ status = [s \in Session |-> "ABSENT"]
  /\ retryOf = [s \in Session |-> Launch]
  /\ queue = {}
  /\ at = [p \in Process |-> "idle"]
  /\ wants = [c \in Client |-> Launch]
  /\ holds = [c \in Client |-> NoSession]
  /\ batch = [w \in Worker |-> {}]
  /\ cur = [w \in Worker |-> NoSession]
  /\ runs = [s \in Session |-> 0]
  /\ effects = [s \in Session |-> 0]
  /\ lost = {}

-----------------------------------------------------------------------------
(* Submitting and retrying.                                                *)

Ask(c, submission) ==
  /\ at[c] = "idle"
  /\ wants' = [wants EXCEPT ![c] = submission]
  /\ Goto(c, "create")
  /\ UNCHANGED <<status, retryOf, queue, holds, workerVars, runs, effects, lost>>

\* submitJob, called by a service, a handler or POST /jobs/admin/launch.
BeginSubmit(c) == Ask(c, Launch)

\* (seeded bug) any job that was taken from the queue can be retried
UserMayRetry_Started(s) == status[s] \in {"DEQUEUED", "IN_PROGRESS", "FAILED"}
UserMayRetry(s) == status[s] = "FAILED"

\* POST /jobs/user/retry.
BeginUserRetry(c) ==
  \E s \in Session : UserMayRetry(s) /\ Ask(c, [of |-> s, by |-> "user"])

\* POST /jobs/admin/retry: whatever the status.
BeginAdminRetry(c) ==
  \E s \in Session : Created(s) /\ Ask(c, [of |-> s, by |-> "admin"])

\* jobs.create: a new row, PENDING, with the payload of the retried session.
\* Ids are fresh uuids; the model numbers them in order of creation.
CreateSession(c) ==
  /\ at[c] = "create"
  /\ \E s \in Session :
       /\ \A t \in Session : t < s <=> Created(t)
       /\ SetStatus(s, "PENDING")
       /\ retryOf' = [retryOf EXCEPT ![s] = wants[c]]
       /\ holds' = [holds EXCEPT ![c] = s]
  /\ Goto(c, "send")
  /\ UNCHANGED <<queue, wants, workerVars, runs, effects, lost>>

\* queue.send.
Send(c) ==
  /\ at[c] = "send"
  /\ queue' = queue \cup {holds[c]}
  /\ Goto(c, "done")
  /\ UNCHANGED <<status, retryOf, clientVars, workerVars, runs, effects, lost>>

\* A statement fails or the client's process dies: a session that was created
\* and not sent stays behind.
FailClient(c) ==
  /\ at[c] \in {"create", "send"}
  /\ lost' = IF at[c] = "send" THEN lost \cup {holds[c]} ELSE lost
  /\ Goto(c, "done")
  /\ UNCHANGED <<status, retryOf, queue, clientVars, workerVars, runs, effects>>

-----------------------------------------------------------------------------
(* The worker callback.                                                    *)

\* pg-boss hands some of the queued jobs to the callback and will not hand
\* them to another.
Fetch(w) ==
  /\ at[w] = "idle"
  /\ \E b \in SUBSET queue :
       /\ b # {} /\ Cardinality(b) <= BatchSize
       /\ batch' = [batch EXCEPT ![w] = b]
       /\ queue' = queue \ b
  /\ Goto(w, "take")
  /\ UNCHANGED <<status, retryOf, clientVars, cur, runs, effects, lost>>

\* The loop takes the next job of the batch.
Dequeue(w) ==
  /\ at[w] = "take"
  /\ \E s \in batch[w] :
       /\ cur' = [cur EXCEPT ![w] = s]
       /\ SetStatus(s, "DEQUEUED")
  /\ Goto(w, "start")
  /\ UNCHANGED <<retryOf, queue, clientVars, batch, runs, effects, lost>>

\* processSession reads the session, whose row is never deleted.
Begin(w) ==
  /\ at[w] = "start"
  /\ SetStatus(cur[w], "IN_PROGRESS")
  /\ Goto(w, "run")
  /\ UNCHANGED <<retryOf, queue, clientVars, workerVars, runs, effects, lost>>

NoHandler(w) ==
  /\ at[w] = "run"
  /\ Goto(w, "fail")
  /\ UNCHANGED <<status, retryOf, queue, clientVars, workerVars, runs, effects, lost>>

\* (seeded bug) a handler that threw is taken for one that returned
AfterHandler_Swallowed(threw) == IF threw THEN "succeed" ELSE "succeed"
AfterHandler(threw) == IF threw THEN "fail" ELSE "succeed"

\* The handler returns after its effect, or throws before or after it.
RunHandler(w) ==
  /\ at[w] = "run"
  /\ runs' = [runs EXCEPT ![cur[w]] = @ + 1]
  /\ \E threw, effect \in BOOLEAN :
       /\ ~threw => effect
       /\ effects' = [effects EXCEPT ![cur[w]] = IF effect THEN @ + 1 ELSE @]
       /\ Goto(w, AfterHandler(threw))
  /\ UNCHANGED <<status, retryOf, queue, clientVars, workerVars, lost>>

\* (seeded bug) a failed job ends the loop over the batch
Rest_StopAtFailure(w) == IF at[w] = "fail" THEN {} ELSE batch[w] \ {cur[w]}
Rest(w) == batch[w] \ {cur[w]}

\* The session has ended: on with the rest of the batch.
EndSession(w) ==
  /\ batch' = [batch EXCEPT ![w] = Rest(w)]
  /\ cur' = [cur EXCEPT ![w] = NoSession]
  /\ Goto(w, IF Rest(w) = {} THEN "idle" ELSE "take")

RecordSuccess(w) ==
  /\ at[w] = "succeed"
  /\ SetStatus(cur[w], "SUCCEEDED")
  /\ EndSession(w)
  /\ UNCHANGED <<retryOf, queue, clientVars, runs, effects, lost>>

\* The write of SUCCEEDED throws inside the try block, done or not: the catch
\* block will write FAILED.
SuccessWriteFails(w) ==
  /\ at[w] = "succeed"
  /\ \/ UNCHANGED status
     \/ AnswerMayGetLost /\ SetStatus(cur[w], "SUCCEEDED")
  /\ Goto(w, "fail")
  /\ UNCHANGED <<retryOf, queue, clientVars, workerVars, runs, effects, lost>>

RecordFailure(w) ==
  /\ at[w] = "fail"
  /\ SetStatus(cur[w], "FAILED")
  /\ EndSession(w)
  /\ UNCHANGED <<retryOf, queue, clientVars, runs, effects, lost>>

\* (seeded bug) a failed batch is delivered once more
RetryLimit_Once == 1
\* queue.send asks for no retries.
RetryLimit == 0

\* What pg-boss delivers again of a batch whose callback failed.
Redelivered(b) == IF RetryLimit > 0 THEN b ELSE {}

\* A status write outside the try block throws, or the worker's process stops
\* (a crash, or a shutdown whose grace period is over): pg-boss fails the jobs
\* of the batch, at once or when they expire, and the sessions that had not
\* ended stay as they are.  The worker starts afresh.
Abandon(w) ==
  /\ at[w] # "idle"
  /\ queue' = queue \cup Redelivered(batch[w])
  /\ lost' = lost \cup batch[w]
  /\ batch' = [batch EXCEPT ![w] = {}]
  /\ cur' = [cur EXCEPT ![w] = NoSession]
  /\ Goto(w, "idle")
  /\ UNCHANGED <<status, retryOf, clientVars, runs, effects>>

-----------------------------------------------------------------------------
ClientStep(c) ==
  \/ BeginSubmit(c) \/ BeginUserRetry(c) \/ BeginAdminRetry(c)
  \/ CreateSession(c) \/ Send(c) \/ FailClient(c)

\* What the callback does when nothing goes wrong around it.
Progress(w) ==
  \/ Fetch(w) \/ Dequeue(w) \/ Begin(w) \/ NoHandler(w) \/ RunHandler(w)
  \/ RecordSuccess(w) \/ SuccessWriteFails(w) \/ RecordFailure(w)

WorkerStep(w) == Progress(w) \/ Abandon(w)

\* The workers wait for work, and the clients are through.
Finished ==
  /\ \A p \in Process : at[p] \in {"idle", "done"}
  /\ queue = {}
  /\ UNCHANGED vars

Next ==
  \/ \E c \in Client : ClientStep(c)
  \/ \E w \in Worker : WorkerStep(w)
  \/ Finished

Spec == Init /\ [][Next]_vars

\* pg-boss polls for ever, handlers end, and a submission under way goes on.
Fairness ==
  /\ \A w \in Worker : WF_vars(Progress(w))
  /\ \A c \in Client : WF_vars(CreateSession(c)) /\ WF_vars(Send(c))

FairSpec == Spec /\ Fairness

-----------------------------------------------------------------------------
(* Properties.                                                             *)

Held == UNION {batch[w] : w \in Worker}
Unsent == {holds[c] : c \in {d \in Client : at[d] = "send"}}

\* Every variable holds values of its type; in particular no handler is called
\* a second time for the same session.
TypeOK ==
  /\ status \in [Session -> {"ABSENT", "PENDING", "DEQUEUED", "IN_PROGRESS"}
                              \cup Terminal]
  /\ retryOf \in [Session -> Submission]
  /\ queue \subseteq Session
  /\ at \in [Process -> {"idle", "create", "send", "done", "take", "start",
                         "run", "succeed", "fail"}]
  /\ wants \in [Client -> Submission]
  /\ holds \in [Client -> SessionOrNone]
  /\ batch \in [Worker -> SUBSET Session]
  /\ cur \in [Worker -> SessionOrNone]
  /\ runs \in [Session -> 0..1]
  /\ effects \in [Session -> 0..1]
  /\ lost \subseteq Session

\* No two workers ever hold the same session, and none that is still queued or
\* not yet sent: with retryLimit 0 a session is handled once, whatever crashes.
HandledOnce ==
  /\ \A v, w \in Worker : v # w => batch[v] \cap batch[w] = {}
  /\ queue \cap Held = {} /\ Unsent \cap (queue \cup Held) = {}
  /\ \A s \in Session : runs[s] <= 1

\* A status is evidence of what happened: the handler has not been called for
\* PENDING and DEQUEUED sessions, and has taken effect for SUCCEEDED ones.
StatusIsEvidence ==
  \A s \in Session :
    /\ status[s] \in {"ABSENT", "PENDING", "DEQUEUED"} => runs[s] = 0
    /\ status[s] = "SUCCEEDED" => effects[s] = 1

\* A session that has not ended is still somewhere on its way, unless a failure
\* of its client or of its worker has dropped it: nothing else loses a job, a
\* failing job of the same batch included.
NothingLostWithoutFailure ==
  \A s \in Session :
    Created(s) /\ status[s] \notin Terminal /\ s \notin lost
      => s \in queue \cup Held \cup Unsent

\* The user retry route reads the status and submits in separate steps; still
\* the session it retries has FAILED and nobody works on it any more.
UserRetryNeverRacesOriginal ==
  \A s \in Session :
    Created(s) /\ retryOf[s].by = "user" =>
      /\ status[retryOf[s].of] = "FAILED"
      /\ retryOf[s].of \notin queue \cup Held \cup Unsent

Lifecycle == INSTANCE JobLifecycle

\* Every session keeps the promise of the header of packages/jobs, as long as
\* no answer to a write gets lost.
ImplementsLifecycle == Lifecycle!LifeSpec

\* Every session ends, unless a failure drops it.
SessionsSettle ==
  \A s \in Session :
    Created(s) ~> (status[s] \in Terminal \/ s \in lost)

-----------------------------------------------------------------------------
(* What packages/jobs/src/index.ts:9 says of a session, "transitioning the *)
(* session through PENDING -> DEQUEUED -> IN_PROGRESS -> SUCCEEDED/FAILED",*)
(* and failures break.                                                     *)

\* Every session gets to SUCCEEDED or FAILED.
EverySessionEnds == \A s \in Session : Created(s) ~> status[s] \in Terminal

\* SUCCEEDED and FAILED are alternatives, each the end.
TerminalStatusIsFinal ==
  [][\A s \in Session : status[s] \in Terminal => status'[s] = status[s]]_vars
=============================================================================
