--------------------------- MODULE JobQueue_proofs ---------------------------
(* Theorems about JobQueue, for any sets of clients and workers, any batch *)
(* size and any number of sessions.                                        *)
EXTENDS JobQueue, TLAPS

-----------------------------------------------------------------------------
(* The inductive invariant.                                                *)

\* A session nobody has taken yet.
Waiting(s) == status[s] = "PENDING" /\ runs[s] = 0 /\ effects[s] = 0

\* Session s is with no worker, in no queue and with no client.
AtRest(s) ==
  /\ s \notin queue
  /\ \A w \in Worker : s \notin batch[w]
  /\ \A c \in Client : at[c] = "send" => holds[c] # s

Types ==
  /\ status \in [Session -> {"ABSENT", "PENDING", "DEQUEUED", "IN_PROGRESS",
                             "SUCCEEDED", "FAILED"}]
  /\ retryOf \in [Session -> Submission]
  /\ queue \subseteq Session
  /\ at \in [Process -> {"idle", "create", "send", "done", "take", "start",
                         "run", "succeed", "fail"}]
  /\ wants \in [Client -> Submission]
  /\ holds \in [Client -> SessionOrNone]
  /\ batch \in [Worker -> SUBSET Session]
  /\ cur \in [Worker -> SessionOrNone]
  /\ runs \in [Session -> 0..1]
  /\ effects \in [Session -> 0..1]
  /\ lost \subseteq Session

\* What a client's label says.
ClientLocal(c) ==
  /\ at[c] \in {"idle", "create", "send", "done"}
  /\ at[c] = "send" => holds[c] \in Session /\ Waiting(holds[c])
  /\ at[c] = "create" /\ wants[c].by = "user" =>
       /\ wants[c].of \in Session
       /\ status[wants[c].of] = "FAILED" /\ AtRest(wants[c].of)

\* What a worker's label says of the session it is at, and of those to come.
WorkerLocal(w) ==
  /\ at[w] \in {"idle", "take", "start", "run", "succeed", "fail"}
  /\ at[w] = "idle" => batch[w] = {}
  /\ at[w] \in {"idle", "take"} => cur[w] = NoSession
  /\ at[w] \in {"start", "run", "succeed", "fail"} => cur[w] \in batch[w]
  /\ \A s \in batch[w] : s # cur[w] => Waiting(s)
  /\ at[w] = "start" => /\ status[cur[w]] = "DEQUEUED"
                        /\ runs[cur[w]] = 0 /\ effects[cur[w]] = 0
  /\ at[w] = "run" => /\ status[cur[w]] = "IN_PROGRESS"
                      /\ runs[cur[w]] = 0 /\ effects[cur[w]] = 0
  /\ at[w] = "succeed" => /\ status[cur[w]] = "IN_PROGRESS"
                          /\ effects[cur[w]] = 1
  /\ at[w] = "fail" => \/ status[cur[w]] = "IN_PROGRESS"
                       \/ /\ AnswerMayGetLost
                          /\ status[cur[w]] = "SUCCEEDED"
                          /\ effects[cur[w]] = 1

\* A session is with one client, in the queue or with one worker.
Apart ==
  /\ \A s \in queue : Waiting(s)
  /\ \A s \in queue, w \in Worker : s \notin batch[w]
  /\ \A v, w \in Worker : \A s \in batch[v] : s \in batch[w] => v = w
  /\ \A c \in Client : at[c] = "send" =>
       /\ holds[c] \notin queue
       /\ \A w \in Worker : holds[c] \notin batch[w]
       /\ \A d \in Client : at[d] = "send" /\ holds[d] = holds[c] => c = d

\* What a session's row says.
Rows ==
  \A s \in Session :
    /\ status[s] \in {"ABSENT", "PENDING", "DEQUEUED"}
         => runs[s] = 0 /\ effects[s] = 0
    /\ status[s] = "SUCCEEDED" => effects[s] = 1
    /\ status[s] = "ABSENT" => AtRest(s)
    /\ status[s] \in {"PENDING", "DEQUEUED", "IN_PROGRESS"} /\ s \notin lost
         => ~AtRest(s)
    /\ status[s] # "ABSENT" /\ retryOf[s].by = "user" =>
         /\ retryOf[s].of \in Session
         /\ status[retryOf[s].of] = "FAILED" /\ AtRest(retryOf[s].of)

Inv ==
  /\ Types
  /\ \A c \in Client : ClientLocal(c)
  /\ \A w \in Worker : WorkerLocal(w)
  /\ Apart
  /\ Rows

-----------------------------------------------------------------------------
(* Every action keeps the invariant.                                       *)

\* Asking for a submission or a retry keeps the invariant: the session a user
\* retries has FAILED, so that no worker has it any more.
LEMMA AskStep ==
  ASSUME Inv, NEW c \in Client,
         BeginSubmit(c) \/ BeginUserRetry(c) \/ BeginAdminRetry(c)
  PROVE  Inv'
<1> USE ProcessAssumption DEF Inv, Types, Process, Goto, clientVars, workerVars
<1>1. PICK q \in Submission :
        /\ Ask(c, q)
        /\ q.by = "user" => q.of \in Session /\ status[q.of] = "FAILED"
  <2>1. CASE BeginSubmit(c)
    BY <2>1 DEF BeginSubmit, Launch, Submission, SessionOrNone, NoSession
  <2>2. CASE BeginUserRetry(c)
    <3>1. PICK s \in Session : UserMayRetry(s) /\ Ask(c, [of |-> s, by |-> "user"])
      BY <2>2 DEF BeginUserRetry
    <3>. QED
      BY <3>1 DEF UserMayRetry, Submission, SessionOrNone
  <2>3. CASE BeginAdminRetry(c)
    <3>1. PICK s \in Session : Ask(c, [of |-> s, by |-> "admin"])
      BY <2>3 DEF BeginAdminRetry
    <3>. QED
      BY <3>1 DEF Submission, SessionOrNone
  <2>. QED
    BY <2>1, <2>2, <2>3
<1> USE DEF Ask
<1>2. Types'
  BY <1>1
<1>3. ASSUME NEW s \in Session, status[s] = "FAILED"
      PROVE  AtRest(s)
  <2>1. s \notin queue
    BY <1>3 DEF Apart, Waiting
  <2>2. ASSUME NEW d \in Client, at[d] = "send" PROVE holds[d] # s
    BY <1>3, <2>2 DEF ClientLocal, Waiting
  <2>3. ASSUME NEW w \in Worker PROVE s \notin batch[w]
    <3>1. s \in batch[w] => s = cur[w]
      BY <1>3 DEF WorkerLocal, Waiting
    <3>2. cur[w] # NoSession => status[cur[w]] # "FAILED"
      BY DEF WorkerLocal
    <3>3. s # NoSession
      BY DEF Session, NoSession
    <3>. QED
      BY <1>3, <3>1, <3>2, <3>3
  <2>. QED
    BY <2>1, <2>2, <2>3 DEF AtRest
<1>4. (\A d \in Client : ClientLocal(d))'
  BY <1>1, <1>3 DEF ClientLocal, AtRest, Waiting
<1>5. (\A x \in Worker : WorkerLocal(x))'
  BY <1>1 DEF WorkerLocal, Waiting
<1>6. Apart'
  BY <1>1 DEF Apart, Waiting
<1>7. Rows'
  BY <1>1 DEF Rows, AtRest
<1>. QED
  BY <1>2, <1>4, <1>5, <1>6, <1>7 DEF Inv

\* Creating a session keeps the invariant: the new row is nowhere yet but with
\* its client.
LEMMA CreateStep ==
  ASSUME Inv, NEW c \in Client, CreateSession(c)
  PROVE  Inv'
<1> USE ProcessAssumption DEF Inv, Types, Process, Goto, SetStatus, clientVars,
       workerVars
<1>1. PICK s \in Session :
        /\ \A t \in Session : t < s <=> Created(t)
        /\ status' = [status EXCEPT ![s] = "PENDING"]
        /\ retryOf' = [retryOf EXCEPT ![s] = wants[c]]
        /\ holds' = [holds EXCEPT ![c] = s]
  BY DEF CreateSession
<1>2. /\ at[c] = "create" /\ at' = [at EXCEPT ![c] = "send"]
      /\ UNCHANGED <<queue, wants, batch, cur, runs, effects, lost>>
  BY DEF CreateSession
<1>3. status[s] = "ABSENT"
  <2>1. ~(s < s)
    BY DEF Session
  <2>. QED
    BY <1>1, <2>1 DEF Created
<1>4. AtRest(s) /\ runs[s] = 0 /\ effects[s] = 0
  BY <1>3 DEF Rows
<1>5. Types'
  BY <1>1, <1>2 DEF SessionOrNone
<1>6. ASSUME NEW t \in Session, t # s, AtRest(t) PROVE AtRest(t)'
  BY <1>1, <1>2, <1>6 DEF AtRest
<1>7. (\A d \in Client : ClientLocal(d))'
  <2> SUFFICES ASSUME NEW d \in Client PROVE ClientLocal(d)'
    OBVIOUS
  <2>1. CASE d = c
    BY <1>1, <1>2, <1>4, <2>1 DEF ClientLocal, Waiting
  <2>2. CASE d # c
    <3>1. /\ at'[d] = at[d] /\ holds'[d] = holds[d] /\ wants'[d] = wants[d]
      BY <1>1, <1>2, <2>2
    <3>2. at[d] = "send" => holds[d] \in Session /\ holds[d] # s
      BY <1>3 DEF ClientLocal, Waiting
    <3>3. at[d] = "create" /\ wants[d].by = "user" => wants[d].of # s
      BY <1>3 DEF ClientLocal
    <3>. QED
      BY <1>1, <1>2, <1>6, <3>1, <3>2, <3>3 DEF ClientLocal, Waiting
  <2>. QED
    BY <2>1, <2>2
<1>8. (\A x \in Worker : WorkerLocal(x))'
  <2> SUFFICES ASSUME NEW x \in Worker PROVE WorkerLocal(x)'
    OBVIOUS
  <2>1. s \notin batch[x] /\ at'[x] = at[x]
    BY <1>2, <1>4 DEF AtRest
  <2>2. \A t \in batch[x] : t \in Session /\ status'[t] = status[t]
    BY <1>1, <2>1
  <2>. QED
    BY <1>2, <2>1, <2>2 DEF WorkerLocal, Waiting
<1>9. Apart'
  BY <1>1, <1>2, <1>4 DEF Apart, AtRest, Waiting
<1>10. Rows'
  <2> SUFFICES ASSUME NEW t \in Session PROVE
        /\ status'[t] \in {"ABSENT", "PENDING", "DEQUEUED"}
             => runs'[t] = 0 /\ effects'[t] = 0
        /\ status'[t] = "SUCCEEDED" => effects'[t] = 1
        /\ status'[t] = "ABSENT" => AtRest(t)'
        /\ status'[t] \in {"PENDING", "DEQUEUED", "IN_PROGRESS"} /\ t \notin lost'
             => ~AtRest(t)'
        /\ status'[t] # "ABSENT" /\ retryOf'[t].by = "user" =>
             /\ retryOf'[t].of \in Session
             /\ status'[retryOf'[t].of] = "FAILED" /\ AtRest(retryOf[t].of)'
    BY DEF Rows
  <2>1. CASE t = s
    <3>1. /\ status'[s] = "PENDING" /\ retryOf'[s] = wants[c]
          /\ at'[c] = "send" /\ holds'[c] = s
      BY <1>1, <1>2
    <3>2. ~AtRest(s)'
      BY <3>1 DEF AtRest
    <3>3. wants[c].by = "user" =>
            /\ wants[c].of \in Session /\ wants[c].of # s
            /\ status[wants[c].of] = "FAILED" /\ AtRest(wants[c].of)
      BY <1>2, <1>3 DEF ClientLocal
    <3>4. wants[c].by = "user" => status'[wants[c].of] = "FAILED"
      BY <1>1, <3>3
    <3>5. wants[c].by = "user" => AtRest(wants[c].of)'
      BY <1>1, <1>2, <3>3 DEF AtRest
    <3>. QED
      BY <1>2, <1>4, <2>1, <3>1, <3>2, <3>3, <3>4, <3>5 DEF AtRest
  <2>2. CASE t # s
    <3>1. status'[t] = status[t] /\ retryOf'[t] = retryOf[t]
      BY <1>1, <2>2
    <3>2. status[t] = "ABSENT" => AtRest(t)'
      BY <1>6, <2>2 DEF Rows
    <3>3. AtRest(t)' => AtRest(t)
      BY <1>1, <1>2, <1>6 DEF AtRest
    <3>4. status[t] # "ABSENT" /\ retryOf[t].by = "user" =>
            /\ retryOf[t].of \in Session /\ retryOf[t].of # s
            /\ status[retryOf[t].of] = "FAILED" /\ AtRest(retryOf[t].of)
      BY <1>3 DEF Rows
    <3>5. status[t] # "ABSENT" /\ retryOf[t].by = "user" =>
            status'[retryOf[t].of] = "FAILED"
      BY <1>1, <3>4
    <3>6. status[t] # "ABSENT" /\ retryOf[t].by = "user" => AtRest(retryOf[t].of)'
      BY <1>1, <1>2, <3>1, <3>4 DEF AtRest
    <3>. QED
      BY <1>2, <3>1, <3>2, <3>3, <3>4, <3>5, <3>6 DEF Rows
  <2>. QED
    BY <2>1, <2>2
<1>. QED
  BY <1>5, <1>7, <1>8, <1>9, <1>10 DEF Inv

\* Sending moves a session from its client to the queue.
LEMMA SendStep ==
  ASSUME Inv, NEW c \in Client, Send(c)
  PROVE  Inv'
<1> USE ProcessAssumption DEF Inv, Types, Process, Goto, SetStatus, clientVars,
       workerVars, Send
<1>1. Types'
  BY DEF SessionOrNone, NoSession, ClientLocal
<1>2. (\A d \in Client : ClientLocal(d))'
  BY DEF ClientLocal, WorkerLocal, Apart, Rows, AtRest, Waiting
<1>3. (\A x \in Worker : WorkerLocal(x))'
  BY DEF ClientLocal, WorkerLocal, Apart, Rows, AtRest, Waiting
<1>4. Apart'
  BY DEF ClientLocal, WorkerLocal, Apart, Rows, AtRest, Waiting
<1>5. Rows'
  BY DEF ClientLocal, WorkerLocal, Apart, Rows, AtRest, Waiting
<1>. QED
  BY <1>1, <1>2, <1>3, <1>4, <1>5 DEF Inv

\* A client that fails drops its session.
LEMMA FailClientStep ==
  ASSUME Inv, NEW c \in Client, FailClient(c)
  PROVE  Inv'
<1> USE ProcessAssumption DEF Inv, Types, Process, Goto, SetStatus, clientVars,
       workerVars, FailClient
<1>1. Types'
  BY DEF SessionOrNone, NoSession, ClientLocal
<1>2. (\A d \in Client : ClientLocal(d))'
  BY DEF ClientLocal, WorkerLocal, Apart, Rows, AtRest, Waiting
<1>3. (\A x \in Worker : WorkerLocal(x))'
  BY DEF ClientLocal, WorkerLocal, Apart, Rows, AtRest, Waiting
<1>4. Apart'
  BY DEF ClientLocal, WorkerLocal, Apart, Rows, AtRest, Waiting
<1>5. Rows'
  BY DEF ClientLocal, WorkerLocal, Apart, Rows, AtRest, Waiting
<1>. QED
  BY <1>1, <1>2, <1>3, <1>4, <1>5 DEF Inv

\* A fetch moves sessions from the queue to an idle worker.
LEMMA FetchStep ==
  ASSUME Inv, NEW w \in Worker, Fetch(w)
  PROVE  Inv'
<1> USE ProcessAssumption DEF Inv, Types, Process, Goto, SetStatus, clientVars,
       workerVars, Fetch
<1>1. Types'
  BY DEF SessionOrNone, NoSession
<1>2. (\A d \in Client : ClientLocal(d))'
  BY DEF ClientLocal, WorkerLocal, Apart, Rows, AtRest, Waiting
<1>3. (\A x \in Worker : WorkerLocal(x))'
  BY DEF ClientLocal, WorkerLocal, Apart, Rows, AtRest, Waiting
<1>4. Apart'
  BY DEF ClientLocal, WorkerLocal, Apart, Rows, AtRest, Waiting
<1>5. Rows'
  BY DEF ClientLocal, WorkerLocal, Apart, Rows, AtRest, Waiting
<1>. QED
  BY <1>1, <1>2, <1>3, <1>4, <1>5 DEF Inv

\* Taking the next session of the batch keeps the invariant.
LEMMA DequeueStep ==
  ASSUME Inv, NEW w \in Worker, Dequeue(w)
  PROVE  Inv'
<1> USE ProcessAssumption DEF Inv, Types, Process, Goto, SetStatus, clientVars,
       workerVars
<1>1. PICK s \in batch[w] :
        /\ cur' = [cur EXCEPT ![w] = s]
        /\ status' = [status EXCEPT ![s] = "DEQUEUED"]
  BY DEF Dequeue
<1>2. /\ at[w] = "take" /\ at' = [at EXCEPT ![w] = "start"]
      /\ UNCHANGED <<retryOf, queue, wants, holds, batch, runs, effects, lost>>
  BY DEF Dequeue
<1>3. s \in Session /\ Waiting(s) /\ NoSession \notin Session
  BY <1>1, <1>2 DEF WorkerLocal, NoSession, Session
<1>4. Types'
  BY <1>1, <1>2, <1>3 DEF SessionOrNone
<1>5. (\A d \in Client : ClientLocal(d))'
  BY <1>1, <1>2, <1>3 DEF ClientLocal, Apart, AtRest, Waiting
<1>6. (\A x \in Worker : WorkerLocal(x))'
  <2> SUFFICES ASSUME NEW x \in Worker PROVE WorkerLocal(x)'
    OBVIOUS
  <2>1. CASE x = w
    BY <1>1, <1>2, <1>3, <2>1 DEF WorkerLocal, Waiting
  <2>2. CASE x # w
    <3>1. s \notin batch[x] /\ at'[x] = at[x] /\ cur'[x] = cur[x]
      BY <1>1, <1>2, <2>2 DEF Apart
    <3>2. \A t \in batch[x] : t \in Session /\ status'[t] = status[t]
      BY <1>1, <3>1
    <3>. QED
      BY <1>2, <3>1, <3>2 DEF WorkerLocal, Waiting
  <2>. QED
    BY <2>1, <2>2
<1>7. Apart'
  BY <1>1, <1>2, <1>3 DEF Apart, Waiting
<1>8. \A t \in Session : AtRest(t)' <=> AtRest(t)
  BY <1>2 DEF AtRest
<1>9. ~AtRest(s)
  BY <1>1 DEF AtRest
<1>10. Rows'
  BY <1>1, <1>2, <1>3, <1>8, <1>9 DEF Rows, Waiting
<1>. QED
  BY <1>4, <1>5, <1>6, <1>7, <1>10 DEF Inv

\* Starting the current session keeps the invariant.
LEMMA BeginStep ==
  ASSUME Inv, NEW w \in Worker, Begin(w)
  PROVE  Inv'
<1> USE ProcessAssumption DEF Inv, Types, Process, Goto, SetStatus, clientVars,
       workerVars, Begin
<1>1. Types'
  BY DEF SessionOrNone, NoSession
<1>2. (\A d \in Client : ClientLocal(d))'
  BY DEF ClientLocal, WorkerLocal, Apart, Rows, AtRest, Waiting
<1>3. (\A x \in Worker : WorkerLocal(x))'
  BY DEF ClientLocal, WorkerLocal, Apart, Rows, AtRest, Waiting
<1>4. Apart'
  BY DEF ClientLocal, WorkerLocal, Apart, Rows, AtRest, Waiting
<1>5. Rows'
  BY DEF ClientLocal, WorkerLocal, Apart, Rows, AtRest, Waiting
<1>. QED
  BY <1>1, <1>2, <1>3, <1>4, <1>5 DEF Inv

\* A session without a handler goes on to FAILED.
LEMMA NoHandlerStep ==
  ASSUME Inv, NEW w \in Worker, NoHandler(w)
  PROVE  Inv'
<1> USE ProcessAssumption DEF Inv, Types, Process, Goto, SetStatus, clientVars,
       workerVars, NoHandler
<1>1. Types'
  BY DEF SessionOrNone, NoSession
<1>2. (\A d \in Client : ClientLocal(d))'
  BY DEF ClientLocal, WorkerLocal, Apart, Rows, AtRest, Waiting
<1>3. (\A x \in Worker : WorkerLocal(x))'
  BY DEF ClientLocal, WorkerLocal, Apart, Rows, AtRest, Waiting
<1>4. Apart'
  BY DEF ClientLocal, WorkerLocal, Apart, Rows, AtRest, Waiting
<1>5. Rows'
  BY DEF ClientLocal, WorkerLocal, Apart, Rows, AtRest, Waiting
<1>. QED
  BY <1>1, <1>2, <1>3, <1>4, <1>5 DEF Inv

\* The handler is called for the first time.
LEMMA RunStep ==
  ASSUME Inv, NEW w \in Worker, RunHandler(w)
  PROVE  Inv'
<1> USE ProcessAssumption DEF Inv, Types, Process, Goto, SetStatus, clientVars,
       workerVars, RunHandler, AfterHandler
<1>1. Types'
  BY DEF SessionOrNone, NoSession, WorkerLocal
<1>2. (\A d \in Client : ClientLocal(d))'
  BY DEF ClientLocal, WorkerLocal, Apart, Rows, AtRest, Waiting
<1>3. (\A x \in Worker : WorkerLocal(x))'
  BY DEF ClientLocal, WorkerLocal, Apart, Rows, AtRest, Waiting
<1>4. Apart'
  BY DEF ClientLocal, WorkerLocal, Apart, Rows, AtRest, Waiting
<1>5. Rows'
  BY DEF ClientLocal, WorkerLocal, Apart, Rows, AtRest, Waiting
<1>. QED
  BY <1>1, <1>2, <1>3, <1>4, <1>5 DEF Inv

\* SUCCEEDED ends the current session.
LEMMA SuccessStep ==
  ASSUME Inv, NEW w \in Worker, RecordSuccess(w)
  PROVE  Inv'
<1> USE ProcessAssumption DEF Inv, Types, Process, Goto, SetStatus, clientVars,
       workerVars, RecordSuccess, EndSession, Rest
<1>1. Types'
  BY DEF SessionOrNone, NoSession
<1>2. (\A d \in Client : ClientLocal(d))'
  BY DEF ClientLocal, WorkerLocal, Apart, Rows, AtRest, Waiting
<1>3. (\A x \in Worker : WorkerLocal(x))'
  BY DEF ClientLocal, WorkerLocal, Apart, Rows, AtRest, Waiting
<1>4. Apart'
  BY DEF ClientLocal, WorkerLocal, Apart, Rows, AtRest, Waiting
<1>5. Rows'
  BY DEF ClientLocal, WorkerLocal, Apart, Rows, AtRest, Waiting
<1>. QED
  BY <1>1, <1>2, <1>3, <1>4, <1>5 DEF Inv

\* A write of SUCCEEDED that throws leaves the session with its worker.
LEMMA SuccessFailsStep ==
  ASSUME Inv, NEW w \in Worker, SuccessWriteFails(w)
  PROVE  Inv'
<1> USE ProcessAssumption DEF Inv, Types, Process, Goto, SetStatus, clientVars,
       workerVars, SuccessWriteFails
<1>1. Types'
  BY DEF SessionOrNone, NoSession
<1>2. (\A d \in Client : ClientLocal(d))'
  BY DEF ClientLocal, WorkerLocal, Apart, Rows, AtRest, Waiting
<1>3. (\A x \in Worker : WorkerLocal(x))'
  BY DEF ClientLocal, WorkerLocal, Apart, Rows, AtRest, Waiting
<1>4. Apart'
  BY DEF ClientLocal, WorkerLocal, Apart, Rows, AtRest, Waiting
<1>5. Rows'
  BY DEF ClientLocal, WorkerLocal, Apart, Rows, AtRest, Waiting
<1>. QED
  BY <1>1, <1>2, <1>3, <1>4, <1>5 DEF Inv

\* FAILED ends the current session.
LEMMA FailureStep ==
  ASSUME Inv, NEW w \in Worker, RecordFailure(w)
  PROVE  Inv'
<1> USE ProcessAssumption DEF Inv, Types, Process, Goto, SetStatus, clientVars,
       workerVars, RecordFailure, EndSession, Rest
<1>1. Types'
  BY DEF SessionOrNone, NoSession
<1>2. (\A d \in Client : ClientLocal(d))'
  BY DEF ClientLocal, WorkerLocal, Apart, Rows, AtRest, Waiting
<1>3. (\A x \in Worker : WorkerLocal(x))'
  BY DEF ClientLocal, WorkerLocal, Apart, Rows, AtRest, Waiting
<1>4. Apart'
  BY DEF ClientLocal, WorkerLocal, Apart, Rows, AtRest, Waiting
<1>5. Rows'
  BY DEF ClientLocal, WorkerLocal, Apart, Rows, AtRest, Waiting
<1>. QED
  BY <1>1, <1>2, <1>3, <1>4, <1>5 DEF Inv

\* Abandoning a batch drops its sessions, and delivers none of them again.
LEMMA AbandonStep ==
  ASSUME Inv, NEW w \in Worker, Abandon(w)
  PROVE  Inv'
<1> USE ProcessAssumption DEF Inv, Types, Process, Goto, SetStatus, clientVars,
       workerVars, Abandon, Redelivered, RetryLimit
<1>1. Types'
  BY DEF SessionOrNone, NoSession
<1>2. (\A d \in Client : ClientLocal(d))'
  BY DEF ClientLocal, WorkerLocal, Apart, Rows, AtRest, Waiting
<1>3. (\A x \in Worker : WorkerLocal(x))'
  BY DEF ClientLocal, WorkerLocal, Apart, Rows, AtRest, Waiting
<1>4. Apart'
  BY DEF ClientLocal, WorkerLocal, Apart, Rows, AtRest, Waiting
<1>5. Rows'
  BY DEF ClientLocal, WorkerLocal, Apart, Rows, AtRest, Waiting
<1>. QED
  BY <1>1, <1>2, <1>3, <1>4, <1>5 DEF Inv

-----------------------------------------------------------------------------
(* The invariant, and what follows from it.                                *)

\* At first there is no session.
LEMMA InitInv == Init => Inv
<1> SUFFICES ASSUME Init PROVE Inv
  OBVIOUS
<1> USE ProcessAssumption DEF Init, Process
<1>1. Types
  BY DEF Types, Launch, Submission, SessionOrNone, NoSession
<1>2. (\A c \in Client : ClientLocal(c)) /\ (\A w \in Worker : WorkerLocal(w))
  BY DEF ClientLocal, WorkerLocal
<1>3. Apart /\ Rows
  BY DEF Apart, Rows, AtRest
<1>. QED
  BY <1>1, <1>2, <1>3 DEF Inv

\* Inv is an invariant.
THEOREM Invariance == Spec => []Inv
<1>1. ASSUME Inv, UNCHANGED vars PROVE Inv'
  BY <1>1 DEF vars, clientVars, workerVars, Inv, Types, ClientLocal,
     WorkerLocal, Apart, Rows, AtRest, Waiting
<1>2. ASSUME Inv, NEW c \in Client, ClientStep(c) PROVE Inv'
  BY <1>2, AskStep, CreateStep, SendStep, FailClientStep DEF ClientStep
<1>3. ASSUME Inv, NEW w \in Worker, WorkerStep(w) PROVE Inv'
  BY <1>3, FetchStep, DequeueStep, BeginStep, NoHandlerStep, RunStep,
     SuccessStep, SuccessFailsStep, FailureStep, AbandonStep
  DEF WorkerStep, Progress
<1>4. Inv /\ [Next]_vars => Inv'
  BY <1>1, <1>2, <1>3 DEF Next, Finished
<1>. QED
  BY <1>4, InitInv, PTL DEF Spec

\* Types are respected: in particular no handler is called twice for a session.
THEOREM TypeCorrectness == Spec => []TypeOK
<1>1. Inv => TypeOK
  BY DEF Inv, Types, TypeOK, Terminal
<1>. QED
  BY <1>1, Invariance, PTL

\* A session is with one process at a time and is handled at most once.
THEOREM HandledAtMostOnce == Spec => []HandledOnce
<1>1. Inv => HandledOnce
  <2> SUFFICES ASSUME Inv PROVE HandledOnce
    OBVIOUS
  <2>1. ASSUME NEW v \in Worker, NEW w \in Worker, v # w
        PROVE  batch[v] \cap batch[w] = {}
    BY <2>1 DEF Inv, Apart
  <2>2. queue \cap Held = {} /\ Unsent \cap (queue \cup Held) = {}
    BY DEF Inv, Apart, Held, Unsent
  <2>3. \A s \in Session : runs[s] <= 1
    BY DEF Inv, Types
  <2>. QED
    BY <2>1, <2>2, <2>3 DEF HandledOnce
<1>. QED
  BY <1>1, Invariance, PTL

\* The handler of a PENDING or DEQUEUED session was never called, the one of a
\* SUCCEEDED session took effect.
THEOREM StatusTellsTheTruth == Spec => []StatusIsEvidence
<1>1. Inv => StatusIsEvidence
  BY DEF Inv, Rows, StatusIsEvidence
<1>. QED
  BY <1>1, Invariance, PTL

\* Only failures lose sessions.
THEOREM NothingLost == Spec => []NothingLostWithoutFailure
<1>1. Inv => NothingLostWithoutFailure
  <2> SUFFICES ASSUME Inv, NEW s \in Session, Created(s),
                      status[s] \notin Terminal, s \notin lost
               PROVE  s \in queue \cup Held \cup Unsent
    BY DEF NothingLostWithoutFailure
  <2>1. status[s] \in {"PENDING", "DEQUEUED", "IN_PROGRESS"}
    BY DEF Inv, Types, Created, Terminal
  <2>2. ~AtRest(s)
    BY <2>1 DEF Inv, Rows
  <2>. QED
    BY <2>2 DEF AtRest, Held, Unsent
<1>. QED
  BY <1>1, Invariance, PTL

\* A session that a user retries has FAILED for good: the retry cannot race it.
THEOREM UserRetryIsSafe == Spec => []UserRetryNeverRacesOriginal
<1>1. Inv => UserRetryNeverRacesOriginal
  <2> SUFFICES ASSUME Inv, NEW s \in Session, Created(s), retryOf[s].by = "user"
               PROVE  /\ status[retryOf[s].of] = "FAILED"
                      /\ retryOf[s].of \notin queue \cup Held \cup Unsent
    BY DEF UserRetryNeverRacesOriginal
  <2>1. status[retryOf[s].of] = "FAILED" /\ AtRest(retryOf[s].of)
    BY DEF Inv, Rows, Created
  <2>. QED
    BY <2>1 DEF AtRest, Held, Unsent
<1>. QED
  BY <1>1, Invariance, PTL

-----------------------------------------------------------------------------
(* JobQueue implements JobLifecycle.                                       *)

\* While no answer to a write gets lost, every step of the queue is a step of
\* the life cycle of one session, or none.
LEMMA StepRefines ==
  ASSUME AnswerMayGetLost = FALSE, Inv, [Next]_vars
  PROVE  [Lifecycle!LifeNext]_(Lifecycle!life)
<1> USE DEF Lifecycle!life, Lifecycle!Move, SetStatus, clientVars, workerVars
<1>1. CASE UNCHANGED vars
  BY <1>1 DEF vars
<1>2. ASSUME NEW c \in Client, ClientStep(c)
      PROVE  [Lifecycle!LifeNext]_(Lifecycle!life)
  <2>1. CASE BeginSubmit(c) \/ BeginUserRetry(c) \/ BeginAdminRetry(c)
    BY <2>1 DEF BeginSubmit, BeginUserRetry, BeginAdminRetry, Ask
  <2>2. CASE CreateSession(c)
    <3>1. PICK s \in Session : /\ \A t \in Session : t < s <=> Created(t)
                               /\ status' = [status EXCEPT ![s] = "PENDING"]
      BY <2>2 DEF CreateSession
    <3>2. status[s] = "ABSENT"
      <4>1. ~(s < s)
        BY DEF Session
      <4>. QED
        BY <3>1, <4>1 DEF Created
    <3>3. Lifecycle!Create(s)
      BY <2>2, <3>1, <3>2 DEF CreateSession, Lifecycle!Create
    <3>. QED
      BY <3>3 DEF Lifecycle!LifeNext
  <2>3. CASE Send(c) \/ FailClient(c)
    BY <2>3 DEF Send, FailClient
  <2>. QED
    BY <1>2, <2>1, <2>2, <2>3 DEF ClientStep
<1>3. ASSUME NEW w \in Worker, WorkerStep(w)
      PROVE  [Lifecycle!LifeNext]_(Lifecycle!life)
  <2>0. /\ WorkerLocal(w) /\ Types /\ batch[w] \subseteq Session
        /\ at[w] \in {"start", "run", "succeed", "fail"} => cur[w] \in Session
    BY DEF Inv, Types, WorkerLocal
  <2>1. CASE Fetch(w) \/ NoHandler(w) \/ Abandon(w)
    BY <2>1 DEF Fetch, NoHandler, Abandon
  <2>2. CASE Dequeue(w)
    <3>1. PICK s \in batch[w] : status' = [status EXCEPT ![s] = "DEQUEUED"]
      BY <2>2 DEF Dequeue
    <3>2. s \in Session /\ status[s] = "PENDING"
      BY <2>0, <2>2, <3>1 DEF Dequeue, WorkerLocal, Waiting, NoSession, Session
    <3>3. Lifecycle!Take(s)
      BY <2>2, <3>1, <3>2 DEF Dequeue, Lifecycle!Take
    <3>. QED
      BY <3>2, <3>3 DEF Lifecycle!LifeNext
  <2>3. CASE Begin(w)
    <3>1. Lifecycle!Start(cur[w]) /\ cur[w] \in Session
      BY <2>0, <2>3 DEF Begin, WorkerLocal, Lifecycle!Start
    <3>. QED
      BY <3>1 DEF Lifecycle!LifeNext
  <2>4. CASE RunHandler(w)
    <3> DEFINE s == cur[w]
    <3>1. s \in Session /\ status[s] = "IN_PROGRESS" /\ runs[s] = 0 /\ effects[s] = 0
      BY <2>0, <2>4 DEF RunHandler, WorkerLocal
    <3>2. /\ runs' = [runs EXCEPT ![s] = 1] /\ UNCHANGED status
          /\ effects' = effects \/ effects' = [effects EXCEPT ![s] = 1]
      <4>1. /\ runs' = [runs EXCEPT ![s] = runs[s] + 1] /\ UNCHANGED status
            /\ \E effect \in BOOLEAN : effects' =
                 [effects EXCEPT ![s] = IF effect THEN effects[s] + 1 ELSE effects[s]]
        BY <2>4 DEF RunHandler
      <4>2. [effects EXCEPT ![s] = effects[s]] = effects
        BY <2>0, <3>1 DEF Types
      <4>3. runs[s] + 1 = 1 /\ effects[s] + 1 = 1
        BY <3>1
      <4>4. PICK effect \in BOOLEAN : effects' =
              [effects EXCEPT ![s] = IF effect THEN effects[s] + 1 ELSE effects[s]]
        BY <4>1
      <4>5. CASE effect
        BY <4>1, <4>3, <4>4, <4>5
      <4>6. CASE ~effect
        BY <4>1, <4>2, <4>3, <4>4, <4>6
      <4>. QED
        BY <4>5, <4>6
    <3>3. Lifecycle!Work(s)
      BY <3>1, <3>2 DEF Lifecycle!Work
    <3>. QED
      BY <3>1, <3>3 DEF Lifecycle!LifeNext
  <2>5. CASE RecordSuccess(w)
    <3>1. Lifecycle!Succeed(cur[w]) /\ cur[w] \in Session
      BY <2>0, <2>5 DEF RecordSuccess, WorkerLocal, Lifecycle!Succeed
    <3>. QED
      BY <3>1 DEF Lifecycle!LifeNext
  <2>6. CASE SuccessWriteFails(w)
    BY <2>6 DEF SuccessWriteFails
  <2>7. CASE RecordFailure(w)
    <3>1. Lifecycle!GiveUp(cur[w]) /\ cur[w] \in Session
      BY <2>0, <2>7 DEF RecordFailure, WorkerLocal, Lifecycle!GiveUp
    <3>. QED
      BY <3>1 DEF Lifecycle!LifeNext
  <2>. QED
    BY <1>3, <2>1, <2>2, <2>3, <2>4, <2>5, <2>6, <2>7 DEF WorkerStep, Progress
<1>. QED
  BY <1>1, <1>2, <1>3 DEF Next, Finished

\* The queue implements the life cycle its header states, while no answer to a
\* write gets lost, whatever crashes and whoever retries.
THEOREM QueueImplementsLifecycle ==
  ASSUME AnswerMayGetLost = FALSE
  PROVE  Spec => ImplementsLifecycle
<1>1. Init => Lifecycle!LifeInit
  BY DEF Init, Lifecycle!LifeInit
<1>2. Inv /\ [Next]_vars => [Lifecycle!LifeNext]_(Lifecycle!life)
  BY StepRefines
<1>. QED
  BY <1>1, <1>2, Invariance, PTL DEF Spec, ImplementsLifecycle, Lifecycle!LifeSpec

-----------------------------------------------------------------------------
(* What a failure dropped stays dropped, and what has happened stays so.   *)

\* A session that a failure dropped is there, and nobody has it.
Dropped == \A s \in lost : status[s] # "ABSENT" /\ AtRest(s)

\* A session is created where there was none.
LEMMA FreshSession ==
  ASSUME NEW c \in Client, CreateSession(c)
  PROVE  \E new \in Session :
           /\ status[new] = "ABSENT"
           /\ status' = [status EXCEPT ![new] = "PENDING"]
           /\ retryOf' = [retryOf EXCEPT ![new] = wants[c]]
           /\ holds' = [holds EXCEPT ![c] = new]
<1>1. PICK new \in Session :
        /\ \A t \in Session : t < new <=> Created(t)
        /\ SetStatus(new, "PENDING")
        /\ retryOf' = [retryOf EXCEPT ![new] = wants[c]]
        /\ holds' = [holds EXCEPT ![c] = new]
  BY DEF CreateSession
<1>2. ~Created(new)
  BY <1>1 DEF Session
<1>. QED
  BY <1>1, <1>2 DEF Created, SetStatus

\* Dropped is an invariant, on top of Inv.
LEMMA DroppedStep == Inv /\ Dropped /\ [Next]_vars => Dropped'
<1> SUFFICES ASSUME Inv, Dropped, [Next]_vars, NEW s \in lost'
             PROVE  status'[s] # "ABSENT" /\ AtRest(s)'
  BY DEF Dropped
<1> USE ProcessAssumption DEF Inv, Types, Process, Goto, SetStatus, clientVars,
      workerVars, AtRest, Dropped
<1>1. CASE UNCHANGED vars
  BY <1>1 DEF vars
<1>2. ASSUME NEW c \in Client, ClientStep(c)
      PROVE  status'[s] # "ABSENT" /\ AtRest(s)'
  <2>1. CASE BeginSubmit(c) \/ BeginUserRetry(c) \/ BeginAdminRetry(c)
    BY <2>1 DEF BeginSubmit, BeginUserRetry, BeginAdminRetry, Ask
  <2>2. CASE CreateSession(c)
    <3>1. PICK new \in Session :
            /\ status[new] = "ABSENT"
            /\ status' = [status EXCEPT ![new] = "PENDING"]
            /\ holds' = [holds EXCEPT ![c] = new]
      BY <2>2, FreshSession
    <3>2. /\ at' = [at EXCEPT ![c] = "send"] /\ UNCHANGED <<queue, batch, lost>>
      BY <2>2 DEF CreateSession
    <3>3. s \in lost /\ s # new
      BY <3>1, <3>2
    <3>. QED
      BY <3>1, <3>2, <3>3
  <2>3. CASE Send(c)
    BY <2>3 DEF Send
  <2>4. CASE FailClient(c)
    <3>1. CASE at[c] = "send" /\ s = holds[c]
      BY <2>4, <3>1 DEF FailClient, ClientLocal, Waiting, Apart
    <3>2. CASE s \in lost
      BY <2>4, <3>2 DEF FailClient
    <3>. QED
      BY <2>4, <3>1, <3>2 DEF FailClient
  <2>. QED
    BY <1>2, <2>1, <2>2, <2>3, <2>4 DEF ClientStep
<1>3. ASSUME NEW w \in Worker, WorkerStep(w)
      PROVE  status'[s] # "ABSENT" /\ AtRest(s)'
  <2>1. CASE Fetch(w)
    BY <2>1 DEF Fetch
  <2>2. CASE Dequeue(w)
    BY <2>2 DEF Dequeue
  <2>3. CASE Begin(w) \/ NoHandler(w) \/ RunHandler(w)
    BY <2>3 DEF Begin, NoHandler, RunHandler, AfterHandler
  <2>4. CASE RecordSuccess(w) \/ SuccessWriteFails(w) \/ RecordFailure(w)
    BY <2>4 DEF RecordSuccess, SuccessWriteFails, RecordFailure, EndSession, Rest
  <2>5. CASE Abandon(w)
    <3>1. CASE s \in batch[w]
      <4>1. status[s] # "ABSENT"
        BY <3>1 DEF Rows, AtRest
      <4>2. \A v \in Worker : s \notin batch'[v]
        BY <2>5, <3>1 DEF Abandon, Apart
      <4>. QED
        BY <2>5, <3>1, <4>1, <4>2 DEF Abandon, Apart, Redelivered, RetryLimit
    <3>2. CASE s \in lost
      BY <2>5, <3>2 DEF Abandon, Redelivered, RetryLimit
    <3>. QED
      BY <2>5, <3>1, <3>2 DEF Abandon
  <2>. QED
    BY <1>3, <2>1, <2>2, <2>3, <2>4, <2>5 DEF WorkerStep, Progress
<1>. QED
  BY <1>1, <1>2, <1>3 DEF Next, Finished

\* A failure drops a session for good: nobody has it, and nobody takes it up.
THEOREM DroppedForGood == Spec => []Dropped
<1>1. Init => Dropped
  BY DEF Init, Dropped
<1>. QED
  BY <1>1, DroppedStep, Invariance, PTL DEF Spec

\* A session stays, with the reason it was made for; a call of its handler and
\* its being dropped are not undone.
LEMMA SessionsGrow ==
  ASSUME Inv, [Next]_vars, NEW s \in Session
  PROVE  /\ status[s] # "ABSENT" => status'[s] # "ABSENT" /\ retryOf'[s] = retryOf[s]
         /\ runs[s] = 1 => runs'[s] = 1
         /\ lost \subseteq lost'
<1> USE ProcessAssumption DEF Inv, Types, Process, Goto, SetStatus, clientVars,
      workerVars
<1>1. CASE UNCHANGED vars
  BY <1>1 DEF vars
<1>2. ASSUME NEW c \in Client, ClientStep(c)
      PROVE  /\ status[s] # "ABSENT" => status'[s] # "ABSENT" /\ retryOf'[s] = retryOf[s]
             /\ runs'[s] = runs[s] /\ lost \subseteq lost'
  <2>1. CASE CreateSession(c)
    <3>1. PICK new \in Session :
            /\ status[new] = "ABSENT"
            /\ status' = [status EXCEPT ![new] = "PENDING"]
            /\ retryOf' = [retryOf EXCEPT ![new] = wants[c]]
      BY <2>1, FreshSession
    <3>. QED
      BY <2>1, <3>1 DEF CreateSession
  <2>2. CASE ~CreateSession(c)
    BY <1>2, <2>2 DEF ClientStep, BeginSubmit, BeginUserRetry, BeginAdminRetry,
       Ask, Send, FailClient
  <2>. QED
    BY <2>1, <2>2
<1>3. ASSUME NEW w \in Worker, WorkerStep(w)
      PROVE  /\ status[s] # "ABSENT" => status'[s] # "ABSENT"
             /\ retryOf' = retryOf /\ lost \subseteq lost'
             /\ runs[s] = 1 => runs'[s] = 1
  <2>1. CASE RunHandler(w)
    BY <2>1 DEF RunHandler, WorkerLocal
  <2>2. CASE ~RunHandler(w)
    BY <1>3, <2>2 DEF WorkerStep, Progress, Fetch, Dequeue, Begin, NoHandler,
       RecordSuccess, SuccessWriteFails, RecordFailure, EndSession, Abandon
  <2>. QED
    BY <2>1, <2>2
<1>. QED
  BY <1>1, <1>2, <1>3 DEF Next, Finished
=============================================================================
