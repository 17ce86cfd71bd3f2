------------------------- MODULE ActivityChain_proofs -------------------------
(* Theorems about ActivityChain, for any set of items, any batch length and *)
(* any numbers of workers and sessions.  What is proved of the queue in     *)
(* JobQueue_proofs is cited here of the queue of the chain.                 *)
EXTENDS ActivityChain, FiniteSetTheorems, TLAPS

-----------------------------------------------------------------------------
(* The inductive invariant.                                                *)

Jobs ==
  {NoJob, Batch} \cup {Registration(i) : i \in Item}
    \cup {Lodging(i, h) : i \in Item, h \in Handle}
    \cup {ModelRun(k) : k \in 1..BatchLength}

Steps == {"none", "mint", "insert", "sidecars", "submit", "await", "upsert",
          "return", "throw"}

ChainTypes ==
  /\ asks \in [Submitter -> Jobs]
  /\ job \in [Session -> Jobs]
  /\ step \in [Worker -> Steps]
  /\ turn \in [Worker -> Nat]
  /\ mine \in [Worker -> Handle \cup {NoHandle}]
  /\ helper \in [Worker -> Submitter \cup {NoSubmitter}]
  /\ minted \in 0..MaxSession
  /\ activity \in [Handle -> [item : Item \cup {NoItem}, by : Session \cup {NoHandle}]]
  /\ configured \subseteq Handle

\* A job that lodges an activity names a complete one, of its item.
Named(j) ==
  j.type \in Lodges => /\ j.activity \in configured
                       /\ activity[j.activity].item = j.item

\* The handler of w has made this activity for its job.
Made(w) == activity[mine[w]] = [item |-> job[cur[w]].item, by |-> cur[w]]

\* What a handler has behind it.
HandlerLocal(w) ==
  LET j == job[cur[w]] IN
  /\ at[w] = "run" <=> step[w] # "none"
  /\ step[w] = "none" => mine[w] = NoHandle /\ turn[w] = 0
  /\ helper[w] # NoSubmitter <=> step[w] = "await"
  /\ step[w] = "mint" => j.type \in Registers /\ mine[w] = NoHandle
  /\ step[w] = "insert" => j.type \in Registers /\ mine[w] \in Handle /\ ~Known(mine[w])
  /\ step[w] = "sidecars" => /\ j.type \in Registers /\ mine[w] \in Handle
                             /\ Made(w) /\ mine[w] \notin configured
  /\ step[w] \in {"submit", "await"} =>
       \/ j.type \in Registers /\ mine[w] \in configured /\ Made(w)
       \/ j = Batch /\ turn[w] < BatchLength
  /\ step[w] = "upsert" =>
       /\ j.type \in Lodges
       /\ turn[w] < Len(Relations(j.item))
       /\ \A n \in 1..turn[w] :
            [relation |-> Relations(j.item)[n], activity |-> j.activity] \in graph
  /\ step[w] = "return" =>
       /\ j.type \in Registers =>
            mine[w] \in configured /\ Made(w) /\ LodgingsOf(mine[w]) # {}
       /\ j.type \in Lodges => IsLodged(j.activity, j.item)
       /\ j = Batch => turn[w] = BatchLength

\* A handler's submission is under way while it waits.
Awaited(w) ==
  step[w] = "await" =>
    /\ helper[w] \in Submitter
    /\ at[helper[w]] \in {"create", "send"}
    /\ wants[helper[w]] = Queue!Launch
    /\ asks[helper[w]] = IF job[cur[w]].type \in Registers
                         THEN Lodging(job[cur[w]].item, mine[w])
                         ELSE ModelRun(turn[w] + 1)

\* No two handlers wait for the same submission.
OwnHelpers ==
  \A v, w \in Worker : helper[v] # NoSubmitter /\ helper[v] = helper[w] => v = w

\* What a session has been asked to do.
SubmissionLocal(c) ==
  /\ at[c] = "send" => job[holds[c]] = asks[c] /\ retryOf[holds[c]] = wants[c]
  /\ at[c] \in {"create", "send"} /\ asks[c].type = "MODEL_RUN_PROV_LODGE"
       /\ wants[c].by = "launch" => \E w \in Worker : helper[w] = c

\* A session whose handler has minted a handle.
Spent(s) ==
  runs[s] = 1 \/ s \in lost \/ \E w \in Worker : cur[w] = s /\ mine[w] # NoHandle
Minting == minted <= Cardinality({s \in Session : Spent(s)})

\* No two handlers have the same handle, no two activities the same session.
Handles ==
  /\ \A w \in Worker : mine[w] <= minted
  /\ \A v, w \in Worker : mine[v] # NoHandle /\ mine[v] = mine[w] => v = w
  /\ \A h \in Handle : Known(h) =>
       LET s == activity[h].by IN
       /\ h <= minted /\ activity[h].item \in Item
       /\ Created(s) /\ job[s] = Registration(activity[h].item)
       /\ runs[s] = 1 \/ s \in lost \/ \E w \in Worker : cur[w] = s /\ mine[w] = h
  /\ \A g, h \in Handle :
       Known(g) /\ Known(h) /\ activity[g].by = activity[h].by => g = h
  /\ \A h \in configured : Known(h)
  /\ \A e \in graph : e.activity \in configured

\* What the success of a session covers.
Done(s) ==
  /\ job[s].type \in Registers =>
       \E h \in configured : activity[h].by = s /\ LodgingsOf(h) # {}
  /\ job[s].type \in Lodges => job[s].activity \in LodgedActivities
  /\ job[s] = Batch => \A k \in 1..BatchLength : SessionsOf(ModelRun(k)) # {}

Succeeded ==
  /\ \A s \in Session : status[s] = "SUCCEEDED" => Done(s)
  /\ \A w \in Worker : at[w] = "succeed" => Done(cur[w])

\* A run that a batch submitted, not a retry.
Submitted(s) ==
  Created(s) /\ job[s].type = "MODEL_RUN_PROV_LODGE" /\ retryOf[s].by = "launch"
Runs(s, k) == Submitted(s) /\ job[s] = ModelRun(k)

\* The records of its batch that the handler of w has created sessions for.
Sent(w) ==
  IF step[w] = "await" /\ at[helper[w]] = "send" THEN turn[w] + 1 ELSE turn[w]

\* Every submitted run is owed to a batch, and each batch submitted its runs
\* one by one.
OwedTo(owner) ==
  /\ \A s \in Session : Submitted(s) =>
       LET b == owner[s] IN
       /\ Created(b) /\ job[b] = Batch
       /\ runs[b] = 1 \/ b \in lost \/ \E w \in Worker : cur[w] = b /\ at[w] = "run"
  /\ \A s, t \in Session :
       Submitted(s) /\ Submitted(t) /\ owner[s] = owner[t] /\ job[s] = job[t] => s = t
  /\ \A s \in Session, k \in 2..BatchLength :
       Runs(s, k) => \E t \in Session : Runs(t, k - 1) /\ owner[t] = owner[s]
  /\ \A w \in Worker : step[w] # "none" /\ job[cur[w]] = Batch =>
       /\ \A k \in 1..BatchLength : k <= Sent(w) =>
            \E s \in Session : Runs(s, k) /\ owner[s] = cur[w]
       /\ \A s \in Session, k \in 1..BatchLength :
            Runs(s, k) /\ owner[s] = cur[w] => k <= Sent(w) \/ step[w] = "throw"

Batches == \E owner \in [Session -> Session] : OwedTo(owner)

ChainInv ==
  /\ ChainTypes
  /\ \A s \in Session : Named(job[s])
  /\ \A c \in Submitter : Named(asks[c]) /\ SubmissionLocal(c)
  /\ \A w \in Worker : HandlerLocal(w) /\ Awaited(w)
  /\ Minting /\ Handles /\ OwnHelpers /\ Succeeded /\ Batches

-----------------------------------------------------------------------------
(* The queue underneath.                                                   *)

Q == INSTANCE JobQueue_proofs WITH Client <- Submitter

\* What the queue asks of its constants.
LEMMA QueueAssumptions ==
  /\ Submitter \cap Worker = {}
  /\ MaxSession \in Nat \ {0} /\ BatchSize \in Nat \ {0}
  /\ AnswerMayGetLost \in BOOLEAN
BY ChainMaxAssumption, ChainWorkerAssumption, ChainAnswerAssumption DEF Submitter

\* Every step of the chain is one of the queue.
LEMMA QueueStep == [Next]_vars => [Q!Next]_(Q!vars)
<1> SUFFICES ASSUME [Next]_vars PROVE [Q!Next]_(Q!vars)
  OBVIOUS
<1> USE DEF Queue!Goto, Q!Goto, Queue!SetStatus, Q!SetStatus,
      Queue!clientVars, Q!clientVars, Queue!workerVars, Q!workerVars
<1>1. CASE UNCHANGED vars
  BY <1>1 DEF vars, queueVars, Q!vars
<1>2. ASSUME NEW c \in Submitter, ClientStep(c) PROVE Q!ClientStep(c)
  <2>1. Queue!BeginSubmit(c) => Q!BeginSubmit(c)
    BY DEF Queue!BeginSubmit, Q!BeginSubmit, Queue!Ask, Q!Ask, Queue!Launch, Q!Launch,
       Queue!NoSession, Q!NoSession
  <2>2. Queue!BeginAdminRetry(c) => Q!BeginAdminRetry(c)
    BY DEF Queue!BeginAdminRetry, Q!BeginAdminRetry, Queue!Ask, Q!Ask, Queue!Created,
       Q!Created, Queue!Session, Q!Session
  <2>3. Queue!CreateSession(c) => Q!CreateSession(c)
    BY DEF Queue!CreateSession, Q!CreateSession, Queue!Created, Q!Created, Queue!Session,
       Q!Session
  <2>4. Queue!Send(c) => Q!Send(c)
    BY DEF Queue!Send, Q!Send
  <2>5. Queue!FailClient(c) => Q!FailClient(c)
    BY DEF Queue!FailClient, Q!FailClient
  <2>. QED
    BY <1>2, <2>1, <2>2, <2>3, <2>4, <2>5
    DEF ClientStep, Launch, Retry, Submit, CreateSession, Send, FailSubmission,
        Q!ClientStep
<1>3. ASSUME NEW w \in Worker, Progress(w) \/ Abandon(w)
      PROVE  [Q!Next]_(Q!vars)
  <2>1. CASE Callback(w)
    <3>1. Queue!Fetch(w) => Q!Fetch(w)
      BY DEF Queue!Fetch, Q!Fetch, Queue!Cardinality, Q!Cardinality
    <3>2. Queue!Dequeue(w) => Q!Dequeue(w)
      BY DEF Queue!Dequeue, Q!Dequeue
    <3>3. Queue!RecordSuccess(w) => Q!RecordSuccess(w)
      BY DEF Queue!RecordSuccess, Q!RecordSuccess, Queue!EndSession, Q!EndSession,
         Queue!Rest, Q!Rest, Queue!NoSession, Q!NoSession
    <3>4. Queue!SuccessWriteFails(w) => Q!SuccessWriteFails(w)
      BY DEF Queue!SuccessWriteFails, Q!SuccessWriteFails
    <3>5. Queue!RecordFailure(w) => Q!RecordFailure(w)
      BY DEF Queue!RecordFailure, Q!RecordFailure, Queue!EndSession, Q!EndSession,
         Queue!Rest, Q!Rest, Queue!NoSession, Q!NoSession
    <3>. QED
      BY <2>1, <3>1, <3>2, <3>3, <3>4, <3>5
      DEF Callback, Q!Next, Q!WorkerStep, Q!Progress
  <2>2. CASE Begin(w)
    <3>1. Q!Begin(w)
      BY <2>2 DEF Begin, Queue!Begin, Q!Begin
    <3>. QED
      BY <3>1 DEF Q!Next, Q!WorkerStep, Q!Progress
  <2>3. CASE Mint(w) \/ Insert(w) \/ EnsureSidecars(w) \/ UpsertEdge(w)
    BY <2>3 DEF Mint, Insert, EnsureSidecars, UpsertEdge, queueVars, Q!vars
  <2>4. CASE SubmitNext(w)
    <3>1. PICK c \in Submitter : Queue!BeginSubmit(c)
      BY <2>4 DEF SubmitNext, Submit
    <3>2. Q!BeginSubmit(c)
      BY <3>1 DEF Queue!BeginSubmit, Q!BeginSubmit, Queue!Ask, Q!Ask, Queue!Launch,
         Q!Launch, Queue!NoSession, Q!NoSession
    <3>. QED
      BY <3>2 DEF Q!Next, Q!ClientStep
  <2>5. CASE Return(w) \/ Throw(w)
    <3>1. Q!RunHandler(w)
      BY <2>5 DEF Return, Throw, Queue!RunHandler, Q!RunHandler, Queue!AfterHandler,
         Q!AfterHandler
    <3>. QED
      BY <3>1 DEF Q!Next, Q!WorkerStep, Q!Progress
  <2>6. CASE Abandon(w)
    <3>1. Q!Abandon(w)
      BY <2>6 DEF Abandon, Queue!Abandon, Q!Abandon, Queue!Redelivered, Q!Redelivered,
         Queue!RetryLimit, Q!RetryLimit, Queue!NoSession, Q!NoSession
    <3>. QED
      BY <3>1 DEF Q!Next, Q!WorkerStep
  <2>. QED
    BY <1>3, <2>1, <2>2, <2>3, <2>4, <2>5, <2>6 DEF Progress
<1>4. CASE Finished
  BY <1>4 DEF Finished, vars, queueVars, Q!vars
<1>. QED
  BY <1>1, <1>2, <1>3, <1>4 DEF Next, Q!Next

\* What is proved of the queue holds of the queue of the chain.
LEMMA QueueInvariance == Spec => [](Q!Inv /\ Q!Dropped)
<1>1. Init => Q!Init
  BY DEF Init, Queue!Init, Q!Init, Queue!Session, Q!Session, Queue!Launch, Q!Launch,
     Queue!NoSession, Q!NoSession, Queue!Process, Q!Process
<1>2. Q!Spec => []Q!Inv
  BY QueueAssumptions, Q!Invariance
<1>3. Q!Spec => []Q!Dropped
  BY QueueAssumptions, Q!DroppedForGood
<1>. QED
  BY <1>1, <1>2, <1>3, QueueStep, PTL DEF Spec, Q!Spec

\* The values of the queue's variables ...
QueueTypes ==
  /\ status \in [Session -> {"ABSENT", "PENDING", "DEQUEUED", "IN_PROGRESS",
                             "SUCCEEDED", "FAILED"}]
  /\ retryOf \in [Session -> Queue!Submission]
  /\ at \in [Submitter \cup Worker ->
               {"idle", "create", "send", "done", "take", "start", "run",
                "succeed", "fail"}]
  /\ wants \in [Submitter -> Queue!Submission]
  /\ holds \in [Submitter -> Session \cup {0}]
  /\ cur \in [Worker -> Session \cup {0}]
  /\ runs \in [Session -> 0..1]
  /\ queue \subseteq Session /\ lost \subseteq Session

\* ... and what they say of clients and workers.
QueueLocal ==
  /\ \A c \in Submitter :
       /\ at[c] \in {"idle", "create", "send", "done"}
       /\ at[c] = "send" => Created(holds[c])
  /\ \A w \in Worker :
       /\ at[w] \in {"idle", "take", "start", "run", "succeed", "fail"}
       /\ IF at[w] \in {"idle", "take"} THEN cur[w] = 0
          ELSE Created(cur[w]) /\ cur[w] \in batch[w] /\ cur[w] \notin lost
       /\ at[w] \in {"start", "run"} =>
            runs[cur[w]] = 0 /\ status[cur[w]] \in {"DEQUEUED", "IN_PROGRESS"}
       /\ \A s \in batch[w] : Created(s)
       /\ \A v \in Worker : cur[v] = cur[w] /\ cur[w] # 0 => v = w

\* Both follow from the invariants of the queue.
LEMMA QueueFacts ==
  ASSUME Q!Inv, Q!Dropped
  PROVE  QueueTypes /\ QueueLocal
<1> USE DEF Q!Inv, Q!Types, Q!Session, Session, Q!Process, Q!SessionOrNone, Q!NoSession
<1>1. QueueTypes
  BY DEF QueueTypes, Q!Submission, Queue!Submission, Queue!SessionOrNone, Queue!Session,
     Queue!NoSession
<1>2. ASSUME NEW c \in Submitter
      PROVE  /\ at[c] \in {"idle", "create", "send", "done"}
             /\ at[c] = "send" => Created(holds[c])
  BY DEF Q!ClientLocal, Q!Waiting, Created
<1>3. ASSUME NEW w \in Worker
      PROVE  /\ at[w] \in {"idle", "take", "start", "run", "succeed", "fail"}
             /\ at[w] \in {"idle", "take"} => cur[w] = 0
             /\ at[w] \in {"start", "run", "succeed", "fail"} =>
                  cur[w] \in batch[w] /\ cur[w] \in Session
             /\ at[w] \in {"start", "run"} =>
                  runs[cur[w]] = 0 /\ status[cur[w]] \in {"DEQUEUED", "IN_PROGRESS"}
             /\ at[w] \in {"start", "run", "succeed", "fail"} =>
                  status[cur[w]] \in {"DEQUEUED", "IN_PROGRESS", "SUCCEEDED"}
  BY QueueAssumptions DEF Q!WorkerLocal
<1>4. ASSUME NEW w \in Worker, at[w] \in {"start", "run", "succeed", "fail"}
      PROVE  Created(cur[w]) /\ cur[w] \notin lost
  BY <1>3, <1>4 DEF Created, Q!Dropped, Q!AtRest
<1>5. ASSUME NEW v \in Worker, NEW w \in Worker, cur[v] = cur[w], cur[w] # 0
      PROVE  v = w
  BY <1>3, <1>5 DEF Q!Apart
<1>6. ASSUME NEW w \in Worker, NEW s \in batch[w]
      PROVE  Created(s)
  <2>1. s \in Session /\ (s # cur[w] => status[s] = "PENDING")
    BY QueueAssumptions DEF Q!WorkerLocal, Q!Waiting
  <2>2. s = cur[w] => Created(s)
    BY <1>3, <1>4, <2>1, ChainMaxAssumption
  <2>. QED
    BY <2>1, <2>2 DEF Created
<1>. QED
  BY <1>1, <1>2, <1>3, <1>4, <1>5, <1>6 DEF QueueLocal

-----------------------------------------------------------------------------
(* What stays as it is.                                                    *)

\* What jobs there are.
LEMMA JobShape ==
  ASSUME NEW j \in Jobs
  PROVE  /\ j.type \in Registers =>
              j.item \in Item /\ j = Registration(j.item)
         /\ j.type \in Lodges =>
              /\ j.item \in Item /\ j.activity \in Handle
              /\ j = Lodging(j.item, j.activity)
         /\ j.type = "MODEL_RUN_BATCH_SUBMIT" <=> j = Batch
         /\ j.type = "MODEL_RUN_PROV_LODGE" =>
              \E k \in 1..BatchLength : j = ModelRun(k)
         /\ j.type \in Registers \cup Lodges \cup
              {"MODEL_RUN_BATCH_SUBMIT", "MODEL_RUN_PROV_LODGE", "none"}
<1> USE DEF NoJob, Batch, Registration, Lodging, ModelRun, Job, Registers, Lodges
<1>1. CASE j \in {NoJob, Batch}
  BY <1>1
<1>2. CASE \E i \in Item : j = Registration(i)
  BY <1>2
<1>3. CASE \E i \in Item, h \in Handle : j = Lodging(i, h)
  BY <1>3
<1>4. CASE \E k \in 1..BatchLength : j = ModelRun(k)
  BY <1>4
<1>. QED
  BY <1>1, <1>2, <1>3, <1>4 DEF Jobs

\* The kinds of jobs do not overlap.
LEMMA JobKinds ==
  /\ Batch \in Jobs /\ Batch.type = "MODEL_RUN_BATCH_SUBMIT"
  /\ NoJob \in Jobs /\ NoJob.type = "none"
  /\ \A i \in Item : /\ Registration(i) \in Jobs /\ Registration(i).type \in Registers
                     /\ Registration(i).item = i
  /\ \A i \in Item, h \in Handle :
       /\ Lodging(i, h) \in Jobs /\ Lodging(i, h).type \in Lodges
       /\ Lodging(i, h).item = i /\ Lodging(i, h).activity = h
  /\ \A k \in 1..BatchLength : ModelRun(k) \in Jobs
  /\ \A k : ModelRun(k).type = "MODEL_RUN_PROV_LODGE"
  /\ \A k, l : ModelRun(k) = ModelRun(l) => k = l
  /\ "MODEL_RUN_BATCH_SUBMIT" \notin Registers \cup Lodges
  /\ "MODEL_RUN_PROV_LODGE" \notin Registers \cup Lodges
  /\ "none" \notin Registers \cup Lodges
  /\ Registers \cap Lodges = {}
BY DEF NoJob, Batch, Registration, Lodging, ModelRun, Job, Registers, Lodges, Jobs

\* An activity has at least one edge.
LEMMA RelationsAreMany ==
  ASSUME NEW i
  PROVE  /\ Len(Relations(i)) \in Nat \ {0}
         /\ DOMAIN Relations(i) = 1..Len(Relations(i))
<1> DEFINE names == {"wasGeneratedBy", "wasAssociatedWith", "wasAttributedTo", "used"}
           three == <<"wasGeneratedBy", "wasAssociatedWith", "wasAttributedTo">>
           used == IF i \in Version THEN <<"used">> ELSE <<>>
<1>1. three \in Seq(names) /\ Len(three) = 3
  OBVIOUS
<1>2. used \in Seq(names) /\ Len(used) \in Nat
  <2>1. CASE i \in Version
    BY <2>1
  <2>2. CASE i \notin Version
    BY <2>2
  <2>. QED
    BY <2>1, <2>2
<1>3. Relations(i) = three \o used
  BY DEF Relations
<1> HIDE DEF names, three, used
<1>4. three \o used \in Seq(names) /\ Len(three \o used) = Len(three) + Len(used)
  <2>1. ASSUME NEW S, NEW s \in Seq(S), NEW t \in Seq(S)
        PROVE  s \o t \in Seq(S) /\ Len(s \o t) = Len(s) + Len(t)
    OBVIOUS
  <2>. QED
    BY <1>1, <1>2, <2>1
<1>5. DOMAIN Relations(i) = 1..Len(Relations(i))
  BY <1>3, <1>4
<1>. QED
  BY <1>1, <1>2, <1>3, <1>4, <1>5

\* No step takes back what was recorded.
Grows ==
  /\ \A s \in Session : Created(s) =>
       Created(s)' /\ job'[s] = job[s] /\ retryOf'[s] = retryOf[s]
  /\ \A s \in Session : runs[s] = 1 => runs'[s] = 1
  /\ lost \subseteq lost'
  /\ \A h \in Handle : Known(h) => activity'[h] = activity[h]
  /\ configured \subseteq configured' /\ graph \subseteq graph'

\* No step takes back what a job, an activity or an edge records.
LEMMA GrowsStep ==
  ASSUME ChainInv, QueueTypes, Q!Inv, [Next]_vars
  PROVE  Grows
<1> USE DEF ChainInv, ChainTypes, QueueTypes
<1>1. ASSUME NEW s \in Session
      PROVE  /\ Created(s) => Created(s)' /\ retryOf'[s] = retryOf[s]
             /\ runs[s] = 1 => runs'[s] = 1
             /\ lost \subseteq lost'
  BY QueueAssumptions, QueueStep, Q!SessionsGrow DEF Created, Session, Q!Session
<1>2. ASSUME NEW s \in Session, Created(s)
      PROVE  job'[s] = job[s]
  <2>1. CASE \E c \in Submitter : CreateSession(c)
    <3>1. PICK c \in Submitter : CreateSession(c)
      BY <2>1
    <3>2. Q!CreateSession(c)
      BY <3>1 DEF CreateSession, Queue!CreateSession, Q!CreateSession, Queue!Created,
         Q!Created, Queue!Session, Q!Session, Queue!Goto, Q!Goto, Queue!SetStatus,
         Q!SetStatus, Queue!workerVars, Q!workerVars
    <3>3. PICK new \in Session :
            status[new] = "ABSENT" /\ holds' = [holds EXCEPT ![c] = new]
      BY <3>2, QueueAssumptions, Q!FreshSession DEF Q!Session, Session
    <3>. QED
      BY <1>2, <3>1, <3>3 DEF CreateSession, Created
  <2>2. CASE ~\E c \in Submitter : CreateSession(c)
    BY <2>2 DEF Next, ClientStep, Progress, Launch, Retry, Send, FailSubmission, Begin,
       Mint, Insert, EnsureSidecars, SubmitNext, UpsertEdge, Return, Throw, Callback,
       Abandon, Finished, vars
  <2>. QED
    BY <2>1, <2>2
<1>3. ASSUME NEW h \in Handle, Known(h)
      PROVE  activity'[h] = activity[h]
  <2>1. CASE \E w \in Worker : Insert(w)
    BY <1>3, <2>1 DEF Insert, Running, HandlerLocal
  <2>2. CASE ~\E w \in Worker : Insert(w)
    BY <2>2 DEF Next, ClientStep, Progress, Launch, Retry, Send, FailSubmission, Begin,
       Mint, CreateSession, EnsureSidecars, SubmitNext, UpsertEdge, Return, Throw,
       Callback, Abandon, Finished, vars, recordVars
  <2>. QED
    BY <2>1, <2>2
<1>4. configured \subseteq configured' /\ graph \subseteq graph'
  BY DEF Next, ClientStep, Progress, Launch, Retry, Send, FailSubmission, Begin,
     Mint, Insert, CreateSession, EnsureSidecars, SubmitNext, UpsertEdge, Return, Throw,
     Callback, Abandon, Finished, vars, recordVars
<1>. QED
  BY <1>1, <1>2, <1>3, <1>4 DEF Grows

\* What was said of a job, of an activity or of a session holds on.
LEMMA Stable ==
  ASSUME ChainInv, QueueTypes, Grows
  PROVE  /\ \A j : Named(j) /\ j.activity \in Handle => Named(j)'
         /\ \A j : SessionsOf(j) \subseteq SessionsOf(j)'
         /\ \A h \in Handle : Known(h) => Known(h)' /\ LodgingsOf(h) \subseteq LodgingsOf(h)'
         /\ \A h, i : IsLodged(h, i) => IsLodged(h, i)'
         /\ LodgedActivities \subseteq LodgedActivities'
         /\ \A s \in Session : Created(s) /\ Done(s) => Done(s)'
<1> USE DEF ChainInv, Grows
<1>1. ASSUME NEW j, Named(j), j.activity \in Handle
      PROVE  Named(j)'
  BY <1>1 DEF Named, Handles
<1>2. ASSUME NEW j
      PROVE  SessionsOf(j) \subseteq SessionsOf(j)'
  BY DEF SessionsOf, Session
<1>3. ASSUME NEW h \in Handle, Known(h)
      PROVE  Known(h)' /\ LodgingsOf(h) \subseteq LodgingsOf(h)'
  <2>1. activity'[h] = activity[h]
    BY <1>3
  <2>. QED
    BY <1>2, <1>3, <2>1 DEF Known, LodgingsOf, SessionsOf, Session
<1>4. ASSUME NEW h, NEW i, IsLodged(h, i)
      PROVE  IsLodged(h, i)'
  BY <1>4 DEF IsLodged
<1>5. LodgedActivities \subseteq LodgedActivities'
  BY <1>3, <1>4 DEF LodgedActivities
<1>6. ASSUME NEW s \in Session, Created(s), Done(s)
      PROVE  Done(s)'
  <2>1. job'[s] = job[s]
    BY <1>6
  <2>2. job'[s].type \in Registers =>
          (\E h \in configured : activity[h].by = s /\ LodgingsOf(h) # {})'
    <3>1. SUFFICES ASSUME job[s].type \in Registers
                   PROVE  (\E h \in configured : activity[h].by = s /\ LodgingsOf(h) # {})'
      BY <2>1
    <3>2. PICK h \in configured : activity[h].by = s /\ LodgingsOf(h) # {}
      BY <1>6, <3>1 DEF Done
    <3>3. h \in Handle /\ Known(h)
      BY DEF Handles, ChainTypes
    <3>. QED
      BY <1>3, <3>2, <3>3
  <2>3. job'[s].type \in Lodges => job'[s].activity \in LodgedActivities'
    BY <1>5, <1>6, <2>1 DEF Done
  <2>4. job'[s] = Batch => \A k \in 1..BatchLength : SessionsOf(ModelRun(k))' # {}
    BY <1>2, <1>6, <2>1 DEF Done
  <2>. QED
    BY <2>2, <2>3, <2>4 DEF Done
<1>. QED
  BY <1>1, <1>2, <1>3, <1>4, <1>5, <1>6

-----------------------------------------------------------------------------
(* What a step leaves alone.                                               *)

\* A handler is where it was.
Rests(w) ==
  /\ at'[w] = "run" <=> at[w] = "run"
  /\ step[w] # "none" => cur'[w] = cur[w]
  /\ step'[w] = step[w] /\ turn'[w] = turn[w] /\ mine'[w] = mine[w]
  /\ helper'[w] = helper[w]

\* A handler that rests keeps its place.
LEMMA HandlerFrame ==
  ASSUME ChainInv, QueueTypes, QueueLocal, Grows, NEW w \in Worker, Rests(w),
         mine[w] \in Handle => /\ activity'[mine[w]] = activity[mine[w]]
                               /\ mine[w] \in configured' => mine[w] \in configured
  PROVE  HandlerLocal(w)'
<1> USE DEF Rests
<1>1. HandlerLocal(w)
  BY DEF ChainInv
<1>2. CASE step[w] = "none"
  BY <1>1, <1>2 DEF HandlerLocal
<1>3. CASE step[w] # "none"
  <2>1. Created(cur[w]) /\ cur[w] \in Session
    BY <1>1, <1>3 DEF HandlerLocal, QueueLocal, Created
  <2>2. job'[cur'[w]] = job[cur[w]]
    BY <1>3, <2>1 DEF Grows
  <2>3. mine[w] \in Handle =>
          /\ Known(mine[w])' <=> Known(mine[w])
          /\ Made(w)' <=> Made(w)
    BY <1>3, <2>2 DEF Known, Made
  <2>4. configured \subseteq configured' /\ graph \subseteq graph'
    BY DEF Grows
  <2>5. step[w] = "return" =>
          /\ job[cur[w]].type \in Registers => LodgingsOf(mine[w])' # {}
          /\ job[cur[w]].type \in Lodges =>
               IsLodged(job[cur[w]].activity, job[cur[w]].item)'
    <3>1. ASSUME step[w] = "return", job[cur[w]].type \in Registers
          PROVE  LodgingsOf(mine[w])' # {}
      <4>1. mine[w] \in configured /\ LodgingsOf(mine[w]) # {}
        BY <1>1, <3>1 DEF HandlerLocal
      <4>2. mine[w] \in Handle /\ Known(mine[w])
        BY <4>1 DEF ChainInv, ChainTypes, Handles
      <4>3. PICK h \in Handle : h = mine[w] /\ Known(h) /\ LodgingsOf(h) # {}
        BY <4>1, <4>2
      <4>4. LodgingsOf(h)' # {}
        BY <4>3, Stable
      <4>5. LodgingsOf(h)' = LodgingsOf(mine[w])'
        BY <4>3 DEF LodgingsOf
      <4>. QED
        BY <4>4, <4>5
    <3>2. ASSUME step[w] = "return", job[cur[w]].type \in Lodges
          PROVE  IsLodged(job[cur[w]].activity, job[cur[w]].item)'
      <4> DEFINE h == job[cur[w]].activity
                 i == job[cur[w]].item
      <4>1. IsLodged(h, i)
        BY <1>1, <3>2 DEF HandlerLocal
      <4>2. job'[cur'[w]].activity = h /\ job'[cur'[w]].item = i
        BY <2>2
      <4>. QED
        BY <2>4, <4>1, <4>2 DEF IsLodged
    <3>. QED
      BY <3>1, <3>2
  <2>. QED
    BY <1>1, <1>3, <2>2, <2>3, <2>4, <2>5 DEF HandlerLocal, ChainInv, ChainTypes
<1>. QED
  BY <1>2, <1>3

\* So does its submission, while the client goes on with it.
LEMMA AwaitedFrame ==
  ASSUME ChainInv, QueueTypes, QueueLocal, Grows, NEW w \in Worker, Rests(w),
         step[w] = "await" => LET c == helper[w] IN
           at'[c] \in {"create", "send"} /\ wants'[c] = wants[c] /\ asks'[c] = asks[c]
  PROVE  Awaited(w)'
<1>1. HandlerLocal(w) /\ Awaited(w)
  BY DEF ChainInv
<1>2. SUFFICES ASSUME step[w] = "await" PROVE Awaited(w)'
  BY DEF Awaited, Rests
<1>3. Created(cur[w]) /\ cur[w] \in Session
  BY <1>1, <1>2 DEF HandlerLocal, QueueLocal, Created
<1>4. job'[cur'[w]] = job[cur[w]]
  BY <1>2, <1>3 DEF Grows, Rests
<1>. QED
  BY <1>1, <1>2, <1>4 DEF Awaited, Rests, Queue!Launch

\* A client that rests keeps its submission.
LEMMA SubmissionFrame ==
  ASSUME ChainInv, QueueTypes, QueueLocal, Grows, NEW c \in Submitter,
         at'[c] = at[c], wants'[c] = wants[c], asks'[c] = asks[c], holds'[c] = holds[c],
         (\E w \in Worker : helper[w] = c) => \E w \in Worker : helper'[w] = c
  PROVE  SubmissionLocal(c)' /\ Named(asks[c])'
<1>1. SubmissionLocal(c) /\ Named(asks[c])
  BY DEF ChainInv
<1>2. asks[c] \in Jobs
  BY DEF ChainInv, ChainTypes
<1>3. Named(asks[c])'
  BY <1>1, <1>2, JobShape DEF Named, ChainInv, ChainTypes, Handles, Grows
<1>4. at[c] = "send" => /\ job'[holds[c]] = job[holds[c]]
                        /\ retryOf'[holds[c]] = retryOf[holds[c]]
  BY DEF QueueLocal, Grows, Created
<1>. QED
  BY <1>1, <1>3, <1>4 DEF SubmissionLocal

\* Jobs keep naming complete activities, those of new sessions included.
LEMMA NamedFrame ==
  ASSUME ChainInv, QueueTypes, Grows,
         \A s \in Session : job'[s] = job[s] \/ \E c \in Submitter : job'[s] = asks[c]
  PROVE  \A s \in Session : Named(job[s])'
<1> SUFFICES ASSUME NEW s \in Session PROVE Named(job[s])'
  OBVIOUS
<1>1. PICK j \in Jobs : j = job'[s] /\ Named(j)
  BY DEF ChainInv, ChainTypes
<1>2. j.type \in Lodges => j.activity \in Handle
  BY JobShape
<1>. QED
  BY <1>1, <1>2 DEF Named, ChainInv, Handles, Grows

\* Whoever has a handle has it still, or has spent its session.
Kept ==
  \A w \in Worker : mine[w] # NoHandle =>
    \/ cur'[w] = cur[w] /\ mine'[w] = mine[w]
    \/ runs'[cur[w]] = 1 \/ cur[w] \in lost'

\* A spent session stays so.
LEMMA SpentFrame ==
  ASSUME ChainInv, QueueTypes, Grows, Kept, NEW s \in Session, Spent(s)
  PROVE  Spent(s)'
<1>1. CASE runs[s] = 1 \/ s \in lost
  BY <1>1 DEF Grows, Spent
<1>2. CASE \E w \in Worker : cur[w] = s /\ mine[w] # NoHandle
  BY <1>2 DEF Kept, Spent
<1>. QED
  BY <1>1, <1>2 DEF Spent

\* The spent sessions can be counted, and are at most all of them.
LEMMA SpentAreFinite ==
  /\ IsFiniteSet({s \in Session : Spent(s)})
  /\ Cardinality({s \in Session : Spent(s)}) \in Nat
  /\ Cardinality({s \in Session : Spent(s)}) <= MaxSession
  /\ \A s \in Session : ~Spent(s) => Cardinality({t \in Session : Spent(t)}) < MaxSession
<1> DEFINE S == {s \in Session : Spent(s)}
<1>1. IsFiniteSet(Session) /\ Cardinality(Session) = MaxSession
  BY FS_Interval, ChainMaxAssumption DEF Session
<1>2. /\ IsFiniteSet(S) /\ Cardinality(S) <= Cardinality(Session)
      /\ Cardinality(S) = Cardinality(Session) => S = Session
  BY <1>1, FS_Subset
<1>3. Cardinality(S) \in Nat
  BY <1>2, FS_CardinalityType
<1>. QED
  BY <1>1, <1>2, <1>3, ChainMaxAssumption

\* Where nothing is minted, the count of handles holds.
LEMMA MintingFrame ==
  ASSUME ChainInv, QueueTypes, Grows, Kept, minted' = minted
  PROVE  Minting'
<1> DEFINE S == {s \in Session : Spent(s)}
           T == {s \in Session : Spent(s)'}
<1>1. S \subseteq T
  BY SpentFrame
<1>2. IsFiniteSet(Session)
  BY FS_Interval, ChainMaxAssumption DEF Session
<1>3. IsFiniteSet(T)
  BY <1>2, FS_Subset
<1>4. Cardinality(S) <= Cardinality(T) /\ IsFiniteSet(S)
  BY <1>1, <1>3, FS_Subset
<1>5. Cardinality(S) \in Nat /\ Cardinality(T) \in Nat
  BY <1>3, <1>4, FS_CardinalityType
<1>6. minted <= Cardinality(S)
  BY DEF ChainInv, Minting
<1> HIDE DEF S
<1>7. minted <= Cardinality(T)
  <2>1. minted \in Nat
    BY ChainMaxAssumption DEF ChainInv, ChainTypes
  <2>. QED
    BY <1>4, <1>5, <1>6, <2>1
<1>. QED
  BY <1>7 DEF Minting

\* Where no handle and no activity is new, handles stay apart.
LEMMA HandlesFrame ==
  ASSUME ChainInv, QueueTypes, Grows, Kept, minted' = minted,
         activity' = activity, configured' = configured,
         \A e \in graph' : e \in graph \/ e.activity \in configured,
         \A w \in Worker : mine'[w] \in {mine[w], NoHandle}
  PROVE  Handles'
<1> USE DEF ChainInv, Handles
<1>1. \A w \in Worker : mine'[w] <= minted'
  BY ChainMaxAssumption DEF ChainTypes, NoHandle
<1>2. ASSUME NEW h \in Handle, Known(h)'
      PROVE  LET s == activity[h].by IN
             /\ h <= minted /\ activity[h].item \in Item
             /\ Created(s)' /\ job'[s] = Registration(activity[h].item)
             /\ runs'[s] = 1 \/ s \in lost' \/ \E w \in Worker : cur'[w] = s /\ mine'[w] = h
  <2> DEFINE s == activity[h].by
  <2>1. Known(h)
    BY <1>2 DEF Known
  <2>2. /\ h <= minted /\ activity[h].item \in Item
        /\ Created(s) /\ job[s] = Registration(activity[h].item)
        /\ runs[s] = 1 \/ s \in lost \/ \E w \in Worker : cur[w] = s /\ mine[w] = h
    BY <2>1
  <2>3. s \in Session
    BY <2>2 DEF Created
  <2>4. Created(s)' /\ job'[s] = job[s]
    BY <2>2, <2>3 DEF Grows, Created
  <2>5. runs'[s] = 1 \/ s \in lost' \/ \E w \in Worker : cur'[w] = s /\ mine'[w] = h
    <3>1. CASE runs[s] = 1 \/ s \in lost
      BY <2>3, <3>1 DEF Grows
    <3>2. CASE \E w \in Worker : cur[w] = s /\ mine[w] = h
      BY <3>2 DEF Kept, Handle, NoHandle
    <3>. QED
      BY <2>2, <3>1, <3>2
  <2>. QED
    BY <2>2, <2>4, <2>5
<1>3. \A v, w \in Worker : mine'[v] # NoHandle /\ mine'[v] = mine'[w] => v = w
  OBVIOUS
<1>4. \A g, h \in Handle :
        Known(g)' /\ Known(h)' /\ activity'[g].by = activity'[h].by => g = h
  BY DEF Known
<1>5. \A h \in configured' : Known(h)'
  BY DEF Known
<1>. QED
  BY <1>1, <1>2, <1>3, <1>4, <1>5

\* A success that was there already, or whose work is done, is no new claim.
LEMMA SucceededFrame ==
  ASSUME ChainInv, QueueTypes, QueueLocal, Grows,
         \A s \in Session : status'[s] = "SUCCEEDED" =>
           \/ status[s] = "SUCCEEDED"
           \/ Created(s) /\ Done(s),
         \A w \in Worker : at'[w] = "succeed" =>
           \/ at[w] = "succeed" /\ cur'[w] = cur[w]
           \/ cur'[w] \in Session /\ Created(cur'[w]) /\ Done(cur'[w])
  PROVE  Succeeded'
<1>1. ASSUME NEW s \in Session, Created(s), Done(s)
      PROVE  Done(s)'
  BY <1>1, Stable
<1>2. ASSUME NEW s \in Session, status'[s] = "SUCCEEDED"
      PROVE  Done(s)'
  BY <1>1, <1>2 DEF ChainInv, Succeeded, Created
<1>3. ASSUME NEW w \in Worker, at'[w] = "succeed"
      PROVE  Done(cur[w])'
  <2>1. PICK s \in Session : s = cur'[w] /\ Created(s) /\ Done(s)
    BY <1>3 DEF ChainInv, Succeeded, QueueLocal, Created
  <2>2. Done(s)'
    BY <1>1, <2>1
  <2>. QED
    BY <2>1, <2>2 DEF Done
<1>. QED
  BY <1>2, <1>3 DEF Succeeded

\* The handler of w goes on with its batch, begins, or is about to throw.
CarriesOn(w) ==
  /\ cur'[w] = cur[w]
  /\ \/ at[w] = "start" /\ turn'[w] = 0 /\ step'[w] # "await"
     \/ /\ step[w] # "none" /\ Sent(w)' = Sent(w)
        /\ step[w] = "throw" => step'[w] = "throw"
     \/ step[w] # "none" /\ step'[w] = "throw" /\ Sent(w)' <= Sent(w)

\* Submitted runs stay so.
LEMMA SubmittedStay ==
  ASSUME QueueTypes, Grows
  PROVE  /\ \A s \in Session : Submitted(s) => Submitted(s)' /\ job'[s] = job[s]
         /\ \A s \in Session : \A k : Runs(s, k) => Runs(s, k)'
BY DEF Submitted, Runs, Grows, Created

\* A batch is at most one record ahead of its turn.
LEMMA SentIsNat ==
  ASSUME ChainTypes, NEW w \in Worker
  PROVE  Sent(w) \in Nat /\ turn[w] <= Sent(w) /\ Sent(w) <= turn[w] + 1
BY DEF ChainTypes, Sent

\* Where no run is new, the owners of the runs stay as they are.
LEMMA BatchesFrame ==
  ASSUME ChainInv, ChainTypes', QueueTypes, QueueLocal, Grows,
         \A s \in Session : Submitted(s)' => Submitted(s),
         \A w \in Worker : at[w] = "run" =>
           \/ cur'[w] = cur[w] /\ at'[w] = "run"
           \/ runs'[cur[w]] = 1 \/ cur[w] \in lost',
         \A w \in Worker : step'[w] # "none" /\ job'[cur'[w]] = Batch => CarriesOn(w)
  PROVE  Batches'
<1>1. PICK owner \in [Session -> Session] : OwedTo(owner)
  BY DEF ChainInv, Batches
<1>2. \A s \in Session : Submitted(s)' <=> Submitted(s)
  BY SubmittedStay
<1>3. ASSUME NEW s \in Session, Submitted(s)
      PROVE  job'[s] = job[s]
  BY <1>3, SubmittedStay
<1>4. \A s \in Session : \A k : Runs(s, k)' <=> Runs(s, k)
  BY <1>2, <1>3 DEF Runs
<1>5. ASSUME NEW s \in Session, Submitted(s)'
      PROVE  LET b == owner[s] IN
             /\ Created(b)' /\ job'[b] = Batch
             /\ runs'[b] = 1 \/ b \in lost'
                  \/ \E w \in Worker : cur'[w] = b /\ at'[w] = "run"
  <2> DEFINE b == owner[s]
  <2>1. /\ Created(b) /\ job[b] = Batch
        /\ runs[b] = 1 \/ b \in lost \/ \E w \in Worker : cur[w] = b /\ at[w] = "run"
    BY <1>1, <1>2, <1>5 DEF OwedTo
  <2>2. Created(b)' /\ job'[b] = Batch
    BY <1>1, <2>1 DEF Grows, Created
  <2>3. CASE runs[b] = 1 \/ b \in lost
    BY <1>1, <2>2, <2>3 DEF Grows
  <2>4. CASE \E w \in Worker : cur[w] = b /\ at[w] = "run"
    BY <2>2, <2>4
  <2>. QED
    BY <2>1, <2>3, <2>4
<1>6. ASSUME NEW s \in Session, NEW t \in Session, Submitted(s)', Submitted(t)',
             owner[s] = owner[t], job'[s] = job'[t]
      PROVE  s = t
  <2>1. Submitted(s) /\ Submitted(t) /\ job[s] = job[t]
    BY <1>2, <1>3, <1>6
  <2>. QED
    BY <1>1, <1>6, <2>1 DEF OwedTo
<1>7. ASSUME NEW s \in Session, NEW k \in 2..BatchLength, Runs(s, k)'
      PROVE  \E t \in Session : Runs(t, k - 1)' /\ owner[t] = owner[s]
  <2>1. PICK t \in Session : Runs(t, k - 1) /\ owner[t] = owner[s]
    BY <1>1, <1>4, <1>7 DEF OwedTo
  <2>. QED
    BY <1>4, <2>1
<1>8. ASSUME NEW w \in Worker, step'[w] # "none", job'[cur'[w]] = Batch
      PROVE  /\ \A k \in 1..BatchLength : k <= Sent(w)' =>
                  \E s \in Session : Runs(s, k)' /\ owner[s] = cur'[w]
             /\ \A s \in Session, k \in 1..BatchLength :
                  Runs(s, k)' /\ owner[s] = cur'[w] => k <= Sent(w)' \/ step'[w] = "throw"
  <2>1. CarriesOn(w)
    BY <1>8
  <2>2. CASE at[w] = "start" /\ turn'[w] = 0 /\ step'[w] # "await"
    <3>1. Sent(w)' = 0
      BY <2>2 DEF Sent
    <3>2. ASSUME NEW s \in Session, Submitted(s), owner[s] = cur[w]
          PROVE  FALSE
      <4>1. \/ runs[cur[w]] = 1 \/ cur[w] \in lost
            \/ \E v \in Worker : cur[v] = cur[w] /\ at[v] = "run"
        BY <1>1, <3>2 DEF OwedTo
      <4>2. runs[cur[w]] = 0 /\ cur[w] \notin lost /\ cur[w] # 0
        BY <2>2 DEF QueueLocal, Created, Session
      <4>. QED
        BY <2>2, <4>1, <4>2 DEF QueueLocal
    <3>3. cur'[w] = cur[w]
      BY <2>1 DEF CarriesOn
    <3>4. \A k \in 1..BatchLength : ~(k <= Sent(w)')
      BY <3>1, BatchAssumption
    <3>. QED
      BY <1>2, <3>2, <3>3, <3>4 DEF Runs
  <2>3. CASE ~(at[w] = "start" /\ turn'[w] = 0 /\ step'[w] # "await")
    <3>1. cur'[w] = cur[w] /\ step[w] # "none"
      BY <2>1, <2>3 DEF CarriesOn
    <3>2. job[cur[w]] = Batch
      BY <1>8, <3>1 DEF ChainInv, HandlerLocal, QueueLocal, Grows, Created
    <3>3. /\ \A k \in 1..BatchLength : k <= Sent(w) =>
               \E s \in Session : Runs(s, k) /\ owner[s] = cur[w]
          /\ \A s \in Session, k \in 1..BatchLength :
               Runs(s, k) /\ owner[s] = cur[w] => k <= Sent(w) \/ step[w] = "throw"
      BY <1>1, <3>1, <3>2 DEF OwedTo
    <3>4. Sent(w) \in Nat /\ Sent(w)' \in Nat /\ Sent(w)' <= Sent(w)
      <4>1. Sent(w) \in Nat
        BY SentIsNat DEF ChainInv
      <4>2. Sent(w)' \in Nat
        BY DEF Sent, ChainTypes
      <4>3. Sent(w)' = Sent(w) \/ Sent(w)' <= Sent(w)
        BY <2>1, <2>3 DEF CarriesOn
      <4>. QED
        BY <4>1, <4>2, <4>3
    <3>5. ASSUME NEW k \in 1..BatchLength, k <= Sent(w)'
          PROVE  k <= Sent(w)
      BY <3>4, <3>5, BatchAssumption
    <3>6. step'[w] = "throw" \/ (Sent(w)' = Sent(w) /\ step[w] # "throw")
      BY <2>1, <2>3 DEF CarriesOn
    <3>. QED
      BY <1>4, <3>1, <3>3, <3>5, <3>6
  <2>. QED
    BY <2>2, <2>3
<1>9. OwedTo(owner)'
  BY <1>5, <1>6, <1>7, <1>8 DEF OwedTo
<1>. QED
  BY <1>9 DEF Batches

-----------------------------------------------------------------------------
(* The steps of clients.                                                   *)

\* Clients and workers are apart.
LEMMA NoClientIsAWorker == \A c \in Submitter : c \notin Worker
BY QueueAssumptions

\* A step of a client that no handler waits for.
LEMMA ClientFrame ==
  ASSUME ChainInv, QueueTypes, QueueLocal, Grows,
         UNCHANGED <<handlerVars, recordVars, cur, runs>>,
         \A w \in Worker : at'[w] = at[w],
         \A s \in Session : status'[s] = "SUCCEEDED" => status[s] = "SUCCEEDED"
  PROVE  /\ \A w \in Worker : Rests(w) /\ HandlerLocal(w)'
         /\ Minting' /\ Handles' /\ OwnHelpers' /\ Succeeded'
<1> USE DEF handlerVars, recordVars
<1>1. \A w \in Worker : Rests(w)
  BY DEF Rests
<1>2. \A w \in Worker : HandlerLocal(w)'
  BY <1>1, HandlerFrame
<1>3. Kept
  BY DEF Kept
<1>4. Minting'
  BY <1>3, MintingFrame
<1>5. Handles'
  BY <1>3, HandlesFrame
<1>6. OwnHelpers'
  BY DEF ChainInv, OwnHelpers
<1>7. Succeeded'
  BY SucceededFrame
<1>. QED
  BY <1>1, <1>2, <1>4, <1>5, <1>6, <1>7

\* A registration, a batch or a retry is asked for.
LEMMA AskStep ==
  ASSUME ChainInv, QueueTypes, QueueLocal, Grows, NEW c \in Submitter,
         Launch(c) \/ Retry(c)
  PROVE  ChainInv'
<1> USE DEF ChainInv, ChainTypes, QueueTypes
<1>1. PICK j \in Jobs, x \in Queue!Submission :
        /\ at[c] = "idle" /\ at' = [at EXCEPT ![c] = "create"]
        /\ wants' = [wants EXCEPT ![c] = x] /\ asks' = [asks EXCEPT ![c] = j]
        /\ Named(j)
        /\ j.type = "MODEL_RUN_PROV_LODGE" => x.by # "launch"
        /\ UNCHANGED <<status, retryOf, queue, holds, batch, cur, runs, effects, lost>>
  <2>1. CASE Launch(c)
    <3>1. PICK j \in {Registration(i) : i \in Item} \cup {Batch} : Submit(c, j)
      BY <2>1 DEF Launch
    <3>2. j \in Jobs /\ j.type \notin Lodges /\ j.type # "MODEL_RUN_PROV_LODGE"
      BY <3>1, JobKinds DEF Registers, Lodges
    <3>3. Queue!Launch \in Queue!Submission
      BY DEF Queue!Launch, Queue!Submission, Queue!SessionOrNone, Queue!NoSession
    <3>4. /\ at[c] = "idle" /\ at' = [at EXCEPT ![c] = "create"]
          /\ wants' = [wants EXCEPT ![c] = Queue!Launch] /\ asks' = [asks EXCEPT ![c] = j]
          /\ UNCHANGED <<status, retryOf, queue, holds, batch, cur, runs, effects, lost>>
      BY <3>1 DEF Submit, Queue!BeginSubmit, Queue!Ask, Queue!Goto, Queue!workerVars
    <3>. QED
      BY <3>2, <3>3, <3>4 DEF Named
  <2>2. CASE Retry(c)
    <3>1. Queue!BeginAdminRetry(c) /\ asks' = [asks EXCEPT ![c] = job[wants'[c].of]]
      BY <2>2 DEF Retry, RetriedPayload
    <3>2. PICK s \in Session : Queue!Ask(c, [of |-> s, by |-> "admin"])
      BY <3>1 DEF Queue!BeginAdminRetry, Queue!Session, Session
    <3> DEFINE x == [of |-> s, by |-> "admin"]
    <3>3. /\ at[c] = "idle" /\ at' = [at EXCEPT ![c] = "create"]
          /\ wants' = [wants EXCEPT ![c] = x]
          /\ UNCHANGED <<status, retryOf, queue, holds, batch, cur, runs, effects, lost>>
      BY <3>2 DEF Queue!Ask, Queue!Goto, Queue!workerVars
    <3>4. x \in Queue!Submission /\ x.of = s /\ x.by # "launch"
      BY DEF Queue!Submission, Queue!SessionOrNone, Queue!Session, Session
    <3>5. wants'[c].of = s
      BY <3>3, <3>4
    <3>6. job[s] \in Jobs /\ Named(job[s]) /\ asks' = [asks EXCEPT ![c] = job[s]]
      BY <3>1, <3>5
    <3> HIDE DEF x
    <3>. QED
      BY <3>3, <3>4, <3>6
  <2>. QED
    BY <2>1, <2>2
<1>2. UNCHANGED <<job, handlerVars, recordVars>>
  BY DEF Launch, Retry
<1>3. /\ \A w \in Worker : at'[w] = at[w]
      /\ \A d \in Submitter \ {c} : at'[d] = at[d] /\ wants'[d] = wants[d] /\ asks'[d] = asks[d]
      /\ at'[c] = "create" /\ wants'[c] = x /\ asks'[c] = j
  BY <1>1, NoClientIsAWorker
<1>4. /\ \A w \in Worker : Rests(w) /\ HandlerLocal(w)'
      /\ Minting' /\ Handles' /\ OwnHelpers' /\ Succeeded'
  BY <1>1, <1>2, <1>3, ClientFrame
<1>5. ChainTypes'
  BY <1>1, <1>2 DEF handlerVars, recordVars
<1>6. \A s \in Session : Named(job[s])'
  BY <1>2, NamedFrame
<1>7. ASSUME NEW d \in Submitter
      PROVE  Named(asks[d])' /\ SubmissionLocal(d)'
  <2>1. CASE d = c
    <3>1. SubmissionLocal(d)'
      BY <1>1, <1>3, <2>1 DEF SubmissionLocal
    <3>2. Named(asks[d])'
      BY <1>1, <1>2, <1>3, <2>1 DEF Named, recordVars
    <3>. QED
      BY <3>1, <3>2
  <2>2. CASE d # c
    BY <1>1, <1>2, <1>3, <2>2, SubmissionFrame DEF handlerVars
  <2>. QED
    BY <2>1, <2>2
<1>8. ASSUME NEW w \in Worker
      PROVE  /\ step[w] = "await" => helper[w] \in Submitter \ {c}
             /\ Awaited(w)'
  <2>1. step[w] = "await" => helper[w] \in Submitter \ {c}
    BY <1>1 DEF Awaited
  <2>. QED
    BY <1>3, <1>4, <2>1, AwaitedFrame DEF Awaited
<1>9. Batches'
  <2>1. \A w \in Worker : Sent(w)' = Sent(w)
    BY <1>2, <1>3, <1>8 DEF Sent, handlerVars
  <2>2. \A s \in Session : Submitted(s)' => Submitted(s)
    BY <1>1, <1>2 DEF Submitted, Created
  <2>3. \A w \in Worker : step'[w] # "none" => CarriesOn(w)
    BY <1>1, <1>2, <2>1 DEF CarriesOn, handlerVars
  <2>4. \A w \in Worker : at[w] = "run" => cur'[w] = cur[w] /\ at'[w] = "run"
    BY <1>1, <1>3
  <2>. QED
    BY <1>5, <2>2, <2>3, <2>4, BatchesFrame
<1>. QED
  BY <1>4, <1>5, <1>6, <1>7, <1>8, <1>9

\* What clients ask for stays well named.
LEMMA AskedFrame ==
  ASSUME ChainInv, Grows, NEW c \in Submitter, asks'[c] = asks[c]
  PROVE  Named(asks[c])'
<1>1. asks[c] \in Jobs /\ Named(asks[c])
  BY DEF ChainInv, ChainTypes
<1>. QED
  BY <1>1, JobShape DEF Named, ChainInv, ChainTypes, Handles, Grows

\* A session is created where there was none.
LEMMA CreateEffect ==
  ASSUME QueueTypes, ChainTypes, NEW c \in Submitter, CreateSession(c)
  PROVE  \E new \in Session :
           /\ ~Created(new)
           /\ at[c] = "create" /\ at' = [at EXCEPT ![c] = "send"]
           /\ status' = [status EXCEPT ![new] = "PENDING"]
           /\ retryOf' = [retryOf EXCEPT ![new] = wants[c]]
           /\ holds' = [holds EXCEPT ![c] = new]
           /\ job' = [job EXCEPT ![new] = asks[c]]
           /\ UNCHANGED <<queue, wants, batch, cur, runs, effects, lost, asks,
                          handlerVars, recordVars>>
<1>1. Q!CreateSession(c)
  BY DEF CreateSession, Queue!CreateSession, Q!CreateSession, Queue!Created,
     Q!Created, Queue!Session, Q!Session, Queue!Goto, Q!Goto, Queue!SetStatus,
     Q!SetStatus, Queue!workerVars, Q!workerVars
<1>2. PICK new \in Session :
        /\ status[new] = "ABSENT"
        /\ status' = [status EXCEPT ![new] = "PENDING"]
        /\ retryOf' = [retryOf EXCEPT ![new] = wants[c]]
        /\ holds' = [holds EXCEPT ![c] = new]
  BY <1>1, QueueAssumptions, Q!FreshSession DEF Q!Session, Session
<1>3. /\ at[c] = "create" /\ at' = [at EXCEPT ![c] = "send"]
      /\ UNCHANGED <<queue, wants, batch, cur, runs, effects, lost>>
  BY <1>1 DEF Q!CreateSession, Q!Goto, Q!workerVars
<1>4. holds'[c] = new
  BY <1>2 DEF QueueTypes
<1>5. job' = [job EXCEPT ![new] = asks[c]] /\ UNCHANGED <<asks, handlerVars, recordVars>>
  BY <1>4 DEF CreateSession
<1>. QED
  BY <1>2, <1>3, <1>5 DEF Created

\* A batch has submitted one run more.
LEMMA CreateRunStep ==
  ASSUME ChainInv, ChainTypes', QueueTypes, QueueLocal, Grows, NEW c \in Submitter,
         NEW new \in Session, ~Created(new),
         at[c] = "create", at' = [at EXCEPT ![c] = "send"],
         status' = [status EXCEPT ![new] = "PENDING"],
         retryOf' = [retryOf EXCEPT ![new] = wants[c]],
         job' = [job EXCEPT ![new] = asks[c]],
         UNCHANGED <<cur, runs, lost, handlerVars>>,
         asks[c].type = "MODEL_RUN_PROV_LODGE", wants[c].by = "launch"
  PROVE  Batches'
<1> USE DEF ChainInv, ChainTypes, QueueTypes, handlerVars
<1>1. PICK w \in Worker : helper[w] = c
  BY DEF SubmissionLocal
<1> HIDE DEF ChainInv
<1>20. HandlerLocal(w) /\ Awaited(w)
  BY DEF ChainInv
<1>2. step[w] = "await"
  BY <1>1, <1>20 DEF HandlerLocal, Submitter, NoSubmitter
<1>3. /\ job[cur[w]] = Batch /\ turn[w] < BatchLength
      /\ asks[c] = ModelRun(turn[w] + 1)
  <2>1. job[cur[w]].type \in Registers => asks[c].type \in Lodges
    <3>1. ASSUME job[cur[w]].type \in Registers
          PROVE  asks[c].type = Lodging(job[cur[w]].item, mine[w]).type
      BY <1>1, <1>2, <1>20, <3>1 DEF Awaited
    <3>2. \A i, h : Lodging(i, h).type \in Lodges
      BY DEF Lodging, Job, Lodges
    <3>. QED
      BY <3>1, <3>2
  <2>2. job[cur[w]].type \notin Registers
    BY <2>1, JobKinds
  <2>. QED
    BY <1>1, <1>2, <1>20, <2>2 DEF HandlerLocal, Awaited
<1>4. at[w] = "run" /\ Created(cur[w]) /\ cur[w] \in Session /\ cur[w] # 0
  <2>1. at[w] = "run"
    BY <1>2, <1>20 DEF HandlerLocal
  <2>. QED
    BY <2>1, ChainMaxAssumption DEF QueueLocal, Created, Session
<1>5. PICK owner \in [Session -> Session] : OwedTo(owner)
  BY DEF Batches, ChainInv
<1>6. turn[w] \in Nat /\ BatchLength \in Nat
  BY BatchAssumption DEF ChainInv
<1>21. PICK K \in 1..BatchLength : K = turn[w] + 1
  BY <1>3, <1>6
<1>22. PICK own \in [Session -> Session] : own = [owner EXCEPT ![new] = cur[w]]
  BY <1>4, <1>5
<1>7. /\ own \in [Session -> Session] /\ own[new] = cur[w]
      /\ \A s \in Session \ {new} : own[s] = owner[s]
  BY <1>4, <1>5, <1>22
<1>8. /\ Runs(new, K)' /\ Submitted(new)' /\ job'[new] = ModelRun(K)
      /\ \A k : Runs(new, k)' => k = K
      /\ ~Submitted(new)
  BY <1>3, <1>21, JobKinds DEF Runs, Submitted, Created, ChainInv
<1>9. \A s \in Session \ {new} : /\ Submitted(s)' <=> Submitted(s)
                                 /\ job'[s] = job[s]
  BY DEF Submitted, Created
<1>10. \A s \in Session \ {new} : \A k : Runs(s, k)' <=> Runs(s, k)
  BY <1>9 DEF Runs
<1>11. at'[w] = at[w] /\ at'[c] = "send" /\ \A v \in Worker : at'[v] = at[v]
  BY NoClientIsAWorker
<1>12. Sent(w) = turn[w] /\ Sent(w)' = K
  BY <1>1, <1>2, <1>11, <1>21, <1>3 DEF Sent
<1>13. ASSUME NEW v \in Worker, v # w
       PROVE  Sent(v)' = Sent(v) /\ cur[v] # cur[w]
  <2>1. helper[v] # c
    BY <1>1, <1>13 DEF OwnHelpers, Submitter, NoSubmitter, ChainInv
  <2>2. step[v] = "await" => at'[helper[v]] = at[helper[v]]
    BY <2>1
  <2>. QED
    BY <1>4, <1>13, <2>2 DEF Sent, QueueLocal
<1>14. ASSUME NEW s \in Session, Submitted(s), owner[s] = cur[w]
       PROVE  ~Runs(s, K)
  <2>1. ~(K <= Sent(w))
    BY <1>6, <1>12, <1>21
  <2>. QED
    BY <1>2, <1>3, <1>5, <1>14, <2>1 DEF OwedTo
<1>15. ASSUME NEW s \in Session, Submitted(s)'
       PROVE  LET b == own[s] IN
              /\ Created(b)' /\ job'[b] = Batch
              /\ runs'[b] = 1 \/ b \in lost'
                   \/ \E v \in Worker : cur'[v] = b /\ at'[v] = "run"
  <2>1. CASE s = new
    <3>1. job'[cur[w]] = Batch /\ Created(cur[w])'
      BY <1>3, <1>4 DEF Grows
    <3>. QED
      BY <1>4, <1>7, <1>11, <2>1, <3>1
  <2>2. CASE s # new
    <3>1. /\ Created(owner[s]) /\ job[owner[s]] = Batch
          /\ runs[owner[s]] = 1 \/ owner[s] \in lost
               \/ \E v \in Worker : cur[v] = owner[s] /\ at[v] = "run"
      BY <1>5, <1>9, <1>15, <2>2 DEF OwedTo
    <3>2. owner[s] \in Session /\ own[s] = owner[s]
      BY <1>7, <2>2, <1>5
    <3>3. Created(owner[s])' /\ job'[owner[s]] = Batch
      BY <3>1, <3>2 DEF Grows
    <3>. QED
      BY <1>11, <3>1, <3>2, <3>3
  <2>. QED
    BY <2>1, <2>2
<1>16. ASSUME NEW s \in Session, NEW t \in Session, Submitted(s)', Submitted(t)',
              own[s] = own[t], job'[s] = job'[t]
       PROVE  s = t
  <2>1. CASE s # new /\ t # new
    <3>1. /\ Submitted(s) /\ Submitted(t) /\ job[s] = job[t] /\ owner[s] = owner[t]
      BY <1>7, <1>9, <1>16, <2>1
    <3>. QED
      BY <1>5, <3>1 DEF OwedTo
  <2>2. ASSUME NEW u \in Session, u # new, Submitted(u)', own[u] = own[new],
               job'[u] = job'[new]
        PROVE  FALSE
    <3>1. Submitted(u) /\ owner[u] = cur[w] /\ Runs(u, K)
      BY <1>7, <1>8, <1>9, <2>2 DEF Runs
    <3>. QED
      BY <1>14, <3>1
  <2>. QED
    BY <1>16, <2>1, <2>2
<1>17. ASSUME NEW s \in Session, NEW k \in 2..BatchLength, Runs(s, k)'
       PROVE  \E t \in Session : Runs(t, k - 1)' /\ own[t] = own[s]
  <2>1. PICK t \in Session : Runs(t, k - 1) /\ owner[t] = own[s]
    <3>1. CASE s = new
      <4>1. k = K /\ own[s] = cur[w]
        BY <1>7, <1>8, <1>17, <3>1
      <4>2. k - 1 \in 1..BatchLength /\ k - 1 <= Sent(w)
        BY <1>6, <1>12, <4>1, <1>21
      <4>3. \A l \in 1..BatchLength : l <= Sent(w) =>
              \E t \in Session : Runs(t, l) /\ owner[t] = cur[w]
        BY <1>2, <1>3, <1>5 DEF OwedTo
      <4> HIDE DEF Runs
      <4>. QED
        BY <4>1, <4>2, <4>3
    <3>2. CASE s # new
      BY <1>5, <1>7, <1>10, <1>17, <3>2 DEF OwedTo
    <3>. QED
      BY <3>1, <3>2
  <2>2. t # new
    BY <1>8, <2>1 DEF Runs
  <2>. QED
    BY <1>7, <1>10, <2>1, <2>2
<1>18. ASSUME NEW v \in Worker, step[v] # "none", job'[cur[v]] = Batch
       PROVE  /\ \A k \in 1..BatchLength : k <= Sent(v)' =>
                   \E s \in Session : Runs(s, k)' /\ own[s] = cur[v]
              /\ \A s \in Session, k \in 1..BatchLength :
                   Runs(s, k)' /\ own[s] = cur[v] => k <= Sent(v)' \/ step[v] = "throw"
  <2>1. job[cur[v]] = Batch
    BY <1>18 DEF ChainInv, HandlerLocal, QueueLocal, Grows, Created
  <2>2. /\ \A k \in 1..BatchLength : k <= Sent(v) =>
             \E s \in Session : Runs(s, k) /\ owner[s] = cur[v]
        /\ \A s \in Session, k \in 1..BatchLength :
             Runs(s, k) /\ owner[s] = cur[v] => k <= Sent(v) \/ step[v] = "throw"
    BY <1>5, <1>18, <2>1 DEF OwedTo
  <2>3. ASSUME NEW k \in 1..BatchLength, k <= Sent(v)
        PROVE  \E s \in Session : Runs(s, k)' /\ own[s] = cur[v]
    <3>1. PICK s \in Session : Runs(s, k) /\ owner[s] = cur[v]
      BY <2>2, <2>3
    <3>2. s # new
      BY <1>8, <3>1 DEF Runs
    <3>. QED
      BY <1>7, <1>10, <3>1, <3>2
  <2>4. ASSUME NEW s \in Session \ {new}, NEW k \in 1..BatchLength,
               Runs(s, k)', own[s] = cur[v]
        PROVE  k <= Sent(v) \/ step[v] = "throw"
    BY <1>7, <1>10, <2>2, <2>4
  <2>5. CASE v = w
    <3>4. Sent(v) = turn[w] /\ Sent(v)' = K
      BY <1>12, <2>5
    <3>1. ASSUME NEW k \in 1..BatchLength, k <= Sent(v)'
          PROVE  k <= Sent(v) \/ k = K
      <4>1. \A m, t \in Int : m <= t + 1 => m <= t \/ m = t + 1
        OBVIOUS
      <4>2. k \in Int /\ turn[w] \in Int /\ k <= turn[w] + 1
        BY <1>6, <1>21, <3>1, <3>4
      <4>. QED
        BY <1>21, <3>4, <4>1, <4>2
    <3>2. ASSUME NEW k \in 1..BatchLength, k <= Sent(v)
          PROVE  k <= Sent(v)'
      BY <1>6, <1>12, <2>5, <3>2, <1>21
    <3>3. K <= Sent(v)'
      BY <1>6, <1>12, <1>21, <2>5
    <3>. QED
      BY <1>7, <1>8, <2>3, <2>4, <2>5, <3>1, <3>2, <3>3
  <2>6. CASE v # w
    BY <1>7, <1>13, <2>3, <2>4, <2>6
  <2>. QED
    BY <2>5, <2>6
<1>19. OwedTo(own)'
  BY <1>15, <1>16, <1>17, <1>18 DEF OwedTo
<1>. QED
  BY <1>7, <1>19 DEF Batches

\* Creating a session keeps the invariant.
LEMMA CreateStep ==
  ASSUME ChainInv, QueueTypes, QueueLocal, Grows, NEW c \in Submitter,
         CreateSession(c)
  PROVE  ChainInv'
<1> USE DEF ChainInv, ChainTypes, QueueTypes
<1>1. PICK new \in Session :
        /\ ~Created(new)
        /\ at[c] = "create" /\ at' = [at EXCEPT ![c] = "send"]
        /\ status' = [status EXCEPT ![new] = "PENDING"]
        /\ retryOf' = [retryOf EXCEPT ![new] = wants[c]]
        /\ holds' = [holds EXCEPT ![c] = new]
        /\ job' = [job EXCEPT ![new] = asks[c]]
        /\ UNCHANGED <<queue, wants, batch, cur, runs, effects, lost, asks,
                       handlerVars, recordVars>>
  BY CreateEffect
<1>2. /\ \A w \in Worker : at'[w] = at[w]
      /\ \A d \in Submitter \ {c} : at'[d] = at[d] /\ holds'[d] = holds[d]
      /\ at'[c] = "send" /\ holds'[c] = new
  BY <1>1, NoClientIsAWorker
<1>3. /\ \A w \in Worker : Rests(w) /\ HandlerLocal(w)'
      /\ Minting' /\ Handles' /\ OwnHelpers' /\ Succeeded'
  BY <1>1, <1>2, ClientFrame
<1>4. ChainTypes'
  BY <1>1 DEF handlerVars, recordVars
<1>5. \A s \in Session : Named(job[s])'
  BY <1>1, NamedFrame
<1>6. ASSUME NEW d \in Submitter
      PROVE  Named(asks[d])' /\ SubmissionLocal(d)'
  <2>1. Named(asks[d])'
    BY <1>1, AskedFrame
  <2>2. CASE d = c
    <3>1. SubmissionLocal(c)
      OBVIOUS
    <3>2. job'[new] = asks[c] /\ retryOf'[new] = wants[c]
      BY <1>1
    <3>3. SubmissionLocal(c)'
      BY <1>1, <1>2, <3>1, <3>2 DEF SubmissionLocal, handlerVars
    <3>. QED
      BY <2>1, <2>2, <3>3
  <2>3. CASE d # c
    BY <1>1, <1>2, <2>3, SubmissionFrame DEF handlerVars
  <2>. QED
    BY <2>1, <2>2, <2>3
<1>7. ASSUME NEW w \in Worker
      PROVE  Awaited(w)'
  <2>1. step[w] = "await" => helper[w] \in Submitter /\ at'[helper[w]] \in {"create", "send"}
    BY <1>1, <1>2 DEF Awaited
  <2>. QED
    BY <1>1, <1>3, <2>1, AwaitedFrame
<1>8. Batches'
  <2>1. CASE asks[c].type = "MODEL_RUN_PROV_LODGE" /\ wants[c].by = "launch"
    BY <1>1, <1>4, <2>1, CreateRunStep
  <2>2. CASE ~(asks[c].type = "MODEL_RUN_PROV_LODGE" /\ wants[c].by = "launch")
    <3>1. ASSUME NEW s \in Session, Submitted(s)'
          PROVE  Submitted(s)
      BY <1>1, <2>2, <3>1 DEF Submitted, Created
    <3>2. ASSUME NEW w \in Worker, step'[w] # "none", job'[cur'[w]] = Batch
          PROVE  CarriesOn(w)
      <4>1. step[w] # "none" /\ job[cur[w]] = Batch
        BY <1>1, <3>2 DEF HandlerLocal, QueueLocal, Grows, Created, handlerVars
      <4>2. step[w] = "await" => helper[w] # c /\ at'[helper[w]] = at[helper[w]]
        BY <1>2, <2>2, <4>1, JobKinds DEF Awaited, Queue!Launch
      <4>3. Sent(w)' = Sent(w)
        BY <1>1, <4>2 DEF Sent, handlerVars
      <4>. QED
        BY <1>1, <4>1, <4>3 DEF CarriesOn, handlerVars
    <3>3. \A w \in Worker : at[w] = "run" => cur'[w] = cur[w] /\ at'[w] = "run"
      BY <1>1, <1>2
    <3>. QED
      BY <1>4, <3>1, <3>2, <3>3, BatchesFrame
  <2>. QED
    BY <2>1, <2>2
<1>. QED
  BY <1>3, <1>4, <1>5, <1>6, <1>7, <1>8

\* A step that leaves the records alone, and where workers are.
LEMMA RecordsFrame ==
  ASSUME ChainInv, QueueTypes, QueueLocal, Grows,
         UNCHANGED <<mine, recordVars, cur, runs>>,
         \A w \in Worker : at'[w] = at[w],
         \A s \in Session : status'[s] = "SUCCEEDED" => status[s] = "SUCCEEDED"
  PROVE  /\ \A w \in Worker : Rests(w) => HandlerLocal(w)'
         /\ Minting' /\ Handles' /\ Succeeded'
<1> USE DEF recordVars
<1>1. \A w \in Worker : Rests(w) => HandlerLocal(w)'
  BY HandlerFrame
<1>2. Kept
  BY DEF Kept
<1>3. Minting'
  BY <1>2, MintingFrame
<1>4. Handles'
  BY <1>2, HandlesFrame
<1>5. Succeeded'
  BY SucceededFrame
<1>. QED
  BY <1>1, <1>3, <1>4, <1>5

\* A session is sent to the queue, and a handler that waited for that goes on.
LEMMA SendStep ==
  ASSUME ChainInv, QueueTypes, QueueLocal, Grows, NEW c \in Submitter, Send(c)
  PROVE  ChainInv'
<1> USE DEF ChainTypes, QueueTypes
<1>1. /\ at[c] = "send" /\ at' = [at EXCEPT ![c] = "done"]
      /\ UNCHANGED <<status, retryOf, wants, holds, batch, cur, runs, effects, lost>>
      /\ UNCHANGED <<asks, job, mine, recordVars>>
  BY DEF Send, Queue!Send, Queue!Goto, Queue!clientVars, Queue!workerVars
<1>2. /\ ChainTypes /\ OwnHelpers /\ \A s \in Session : Named(job[s])
      /\ SubmissionLocal(c)
      /\ \A w \in Worker : HandlerLocal(w) /\ Awaited(w)
  BY DEF ChainInv
<1>3. \/ /\ \A v \in Worker : helper[v] # c
         /\ UNCHANGED <<helper, turn, step>>
      \/ \E w \in Worker :
           /\ helper[w] = c /\ helper' = [helper EXCEPT ![w] = NoSubmitter]
           /\ turn' = [turn EXCEPT ![w] = turn[w] + 1]
           /\ step' = [step EXCEPT ![w] = AfterSubmit(w)]
  BY DEF Send, NextTurn, Goto
<1>4. /\ \A w \in Worker : at'[w] = at[w]
      /\ \A d \in Submitter \ {c} : at'[d] = at[d]
      /\ at'[c] = "done"
  BY <1>1, NoClientIsAWorker
<1>5. /\ \A w \in Worker : Rests(w) => HandlerLocal(w)'
      /\ Minting' /\ Handles' /\ Succeeded'
  BY <1>1, <1>4, RecordsFrame
<1>6. \A s \in Session : Named(job[s])'
  BY <1>1, NamedFrame
<1>7. ASSUME NEW v \in Worker, helper[v] # c, helper'[v] = helper[v],
             turn'[v] = turn[v], step'[v] = step[v]
      PROVE  HandlerLocal(v)' /\ Awaited(v)' /\ Sent(v)' = Sent(v)
  <2>1. Rests(v)
    BY <1>1, <1>4, <1>7 DEF Rests
  <2>2. step[v] = "await" =>
          helper[v] \in Submitter \ {c} /\ at[helper[v]] \in {"create", "send"}
    BY <1>2, <1>7 DEF Awaited
  <2>3. Awaited(v)'
    BY <1>1, <1>4, <2>1, <2>2, AwaitedFrame
  <2>4. Sent(v)' = Sent(v)
    BY <1>4, <1>7, <2>2 DEF Sent
  <2>. QED
    BY <1>5, <2>1, <2>3, <2>4
<1>8. ASSUME NEW d \in Submitter,
             \A w \in Worker : helper[w] = d /\ d # c => helper'[w] = d
      PROVE  Named(asks[d])' /\ SubmissionLocal(d)'
  <2>1. CASE d = c
    BY <1>1, <1>4, <2>1, AskedFrame DEF SubmissionLocal
  <2>2. CASE d # c
    BY <1>1, <1>4, <1>8, <2>2, SubmissionFrame
  <2>. QED
    BY <2>1, <2>2
<1>9. \A s \in Session : Submitted(s)' => Submitted(s)
  BY <1>1 DEF Submitted, Created
<1>10. \A w \in Worker : at[w] = "run" => cur'[w] = cur[w] /\ at'[w] = "run"
  BY <1>1, <1>4
<1>11. CASE (\A v \in Worker : helper[v] # c) /\ UNCHANGED <<helper, turn, step>>
  <2>1. ChainTypes'
    BY <1>1, <1>2, <1>11 DEF recordVars
  <2>2. \A w \in Worker : step'[w] # "none" => CarriesOn(w)
    BY <1>1, <1>7, <1>11 DEF CarriesOn
  <2>3. Batches'
    BY <1>9, <1>10, <2>1, <2>2, BatchesFrame
  <2>4. OwnHelpers'
    BY <1>2, <1>11 DEF OwnHelpers
  <2>. QED
    BY <1>5, <1>6, <1>7, <1>8, <1>11, <2>1, <2>3, <2>4 DEF ChainInv
<1>12. ASSUME NEW w \in Worker, helper[w] = c,
              helper' = [helper EXCEPT ![w] = NoSubmitter],
              turn' = [turn EXCEPT ![w] = turn[w] + 1],
              step' = [step EXCEPT ![w] = AfterSubmit(w)]
       PROVE  ChainInv'
  <2> DEFINE j == job[cur[w]]
  <2>1. /\ helper'[w] = NoSubmitter /\ turn'[w] = turn[w] + 1
        /\ step'[w] = AfterSubmit(w) /\ turn[w] \in Nat
        /\ \A v \in Worker \ {w} : /\ helper'[v] = helper[v] /\ turn'[v] = turn[v]
                                   /\ step'[v] = step[v]
    BY <1>2, <1>12
  <2>2. step[w] = "await"
    BY <1>2, <1>12 DEF HandlerLocal, Submitter, NoSubmitter
  <2>3. \A v \in Worker \ {w} : helper[v] # c
    BY <1>2, <1>12 DEF OwnHelpers, Submitter, NoSubmitter
  <2>4. ChainTypes'
    <3>1. AfterSubmit(w) \in Steps
      BY DEF AfterSubmit, Steps
    <3>. QED
      BY <1>1, <1>2, <1>12, <3>1 DEF recordVars
  <2>5. \A v \in Worker \ {w} : HandlerLocal(v)' /\ Awaited(v)' /\ Sent(v)' = Sent(v)
    BY <1>7, <2>1, <2>3
  <2>6. Awaited(w)'
    BY <2>1 DEF Awaited, AfterSubmit
  <2>7. HandlerLocal(w)'
    <3>1. /\ at'[w] = "run" /\ cur'[w] = cur[w] /\ mine'[w] = mine[w] /\ job' = job
          /\ configured' = configured /\ activity' = activity
      BY <1>1, <1>2, <1>4, <2>2 DEF HandlerLocal, recordVars
    <3>2. CASE j.type \in Registers
      <4>1. /\ step'[w] = "return" /\ mine[w] \in configured /\ Made(w)
        BY <1>2, <2>1, <2>2, <3>2, JobKinds DEF HandlerLocal, AfterSubmit
      <4>2. Made(w)'
        BY <3>1, <4>1 DEF Made
      <4>3. asks[c] = Lodging(j.item, mine[w])
        BY <1>2, <1>12, <2>2, <3>2 DEF Awaited
      <4>4. holds[c] \in SessionsOf(asks[c])
        BY <1>1, <1>2 DEF SubmissionLocal, SessionsOf, QueueLocal, Created
      <4>5. activity[mine[w]].item = j.item
        BY <4>1 DEF Made
      <4>6. LodgingsOf(mine[w]) # {}
        BY <4>3, <4>4, <4>5 DEF LodgingsOf
      <4>7. LodgingsOf(mine[w])' = LodgingsOf(mine[w])
        BY <1>1, <3>1 DEF LodgingsOf, SessionsOf, Created
      <4>8. j.type \notin Lodges /\ j # Batch
        BY <3>2, JobKinds
      <4>. QED
        BY <2>1, <3>1, <4>1, <4>2, <4>6, <4>7, <4>8 DEF HandlerLocal
    <3>3. CASE j = Batch /\ turn[w] < BatchLength
      <4>1. j.type \notin Registers \cup Lodges
        BY <3>3, JobKinds
      <4>2. IF turn[w] + 1 = BatchLength THEN step'[w] = "return"
            ELSE step'[w] = "submit"
        BY <2>1, <4>1 DEF AfterSubmit
      <4>3. turn'[w] = BatchLength \/ turn'[w] < BatchLength
        BY <2>1, <3>3, BatchAssumption
      <4>4. step'[w] = "return" => turn'[w] = BatchLength
        BY <2>1, <4>2
      <4>5. step'[w] = "submit" => turn'[w] < BatchLength
        BY <2>1, <4>2, <4>3
      <4>. QED
        BY <2>1, <3>1, <3>3, <4>1, <4>2, <4>4, <4>5 DEF HandlerLocal
    <3>. QED
      BY <1>2, <2>2, <3>2, <3>3 DEF HandlerLocal
  <2>8. OwnHelpers'
    BY <1>2, <2>1 DEF OwnHelpers
  <2>9. Sent(w)' = Sent(w)
    BY <1>1, <1>12, <2>1, <2>2 DEF Sent, AfterSubmit
  <2>10. \A v \in Worker : step'[v] # "none" => CarriesOn(v)
    BY <1>1, <2>1, <2>2, <2>5, <2>9 DEF CarriesOn
  <2>11. Batches'
    BY <1>9, <1>10, <2>4, <2>10, BatchesFrame
  <2>12. \A d \in Submitter : Named(asks[d])' /\ SubmissionLocal(d)'
    BY <1>8, <1>12, <2>1
  <2>. QED
    BY <1>5, <1>6, <2>4, <2>5, <2>6, <2>7, <2>8, <2>11, <2>12 DEF ChainInv
<1>. QED
  BY <1>3, <1>11, <1>12

\* A submission fails, and so does the handler that waited for it.
LEMMA FailSubmissionStep ==
  ASSUME ChainInv, QueueTypes, QueueLocal, Grows, NEW c \in Submitter,
         FailSubmission(c)
  PROVE  ChainInv'
<1> USE DEF ChainTypes, QueueTypes
<1>1. /\ at[c] \in {"create", "send"} /\ at' = [at EXCEPT ![c] = "done"]
      /\ UNCHANGED <<status, retryOf, queue, wants, holds, batch, cur, runs, effects>>
      /\ UNCHANGED <<asks, job, turn, mine, recordVars>>
      /\ helper' = [w \in Worker |-> IF helper[w] = c THEN NoSubmitter ELSE helper[w]]
      /\ step' = [w \in Worker |-> IF helper[w] = c THEN "throw" ELSE step[w]]
  BY DEF FailSubmission, Queue!FailClient, Queue!Goto, Queue!clientVars,
     Queue!workerVars
<1>2. /\ ChainTypes /\ OwnHelpers /\ \A s \in Session : Named(job[s])
      /\ \A w \in Worker : HandlerLocal(w) /\ Awaited(w)
  BY DEF ChainInv
<1>3. /\ \A w \in Worker : at'[w] = at[w]
      /\ \A d \in Submitter \ {c} : at'[d] = at[d]
      /\ at'[c] = "done"
  BY <1>1, NoClientIsAWorker
<1>4. /\ \A w \in Worker : Rests(w) => HandlerLocal(w)'
      /\ Minting' /\ Handles' /\ Succeeded'
  BY <1>1, <1>3, RecordsFrame
<1>5. \A s \in Session : Named(job[s])'
  BY <1>1, NamedFrame
<1>6. ASSUME NEW d \in Submitter
      PROVE  Named(asks[d])' /\ SubmissionLocal(d)'
  <2>1. CASE d = c
    BY <1>1, <1>3, <2>1, AskedFrame DEF SubmissionLocal
  <2>2. CASE d # c
    BY <1>1, <1>3, <2>2, SubmissionFrame
  <2>. QED
    BY <2>1, <2>2
<1>7. ASSUME NEW w \in Worker, helper[w] # c
      PROVE  HandlerLocal(w)' /\ Awaited(w)' /\ (step'[w] # "none" => CarriesOn(w))
  <2>1. Rests(w)
    BY <1>1, <1>3, <1>7 DEF Rests
  <2>2. step[w] = "await" =>
          helper[w] \in Submitter \ {c} /\ at[helper[w]] \in {"create", "send"}
    BY <1>2, <1>7 DEF Awaited
  <2>3. Awaited(w)'
    BY <1>1, <1>3, <2>1, <2>2, AwaitedFrame
  <2>4. Sent(w)' = Sent(w)
    BY <1>1, <1>3, <1>7, <2>2 DEF Sent
  <2>5. CarriesOn(w) \/ step'[w] = "none"
    BY <1>1, <1>7, <2>4 DEF CarriesOn
  <2>. QED
    BY <1>4, <2>1, <2>3, <2>5
<1>8. ASSUME NEW w \in Worker, helper[w] = c
      PROVE  HandlerLocal(w)' /\ Awaited(w)' /\ CarriesOn(w)
  <2>1. step'[w] = "throw" /\ helper'[w] = NoSubmitter
    BY <1>1, <1>8
  <2>2. step[w] = "await"
    BY <1>2, <1>8 DEF HandlerLocal, Submitter, NoSubmitter
  <2>3. at'[w] = "run"
    BY <1>2, <1>3, <2>2 DEF HandlerLocal
  <2>4. HandlerLocal(w)' /\ Awaited(w)'
    BY <2>1, <2>3 DEF HandlerLocal, Awaited
  <2>5. Sent(w)' = turn[w]
    BY <1>1, <2>1 DEF Sent
  <2>6. Sent(w)' <= Sent(w)
    BY <1>2, <2>5, SentIsNat
  <2>. QED
    BY <1>1, <2>1, <2>2, <2>4, <2>6 DEF CarriesOn
<1>9. ChainTypes'
  BY <1>1, <1>2 DEF recordVars, Steps
<1>10. OwnHelpers'
  BY <1>1, <1>2 DEF OwnHelpers
<1>11. Batches'
  <2>1. \A s \in Session : Submitted(s)' => Submitted(s)
    BY <1>1 DEF Submitted, Created
  <2>2. \A w \in Worker : at[w] = "run" => cur'[w] = cur[w] /\ at'[w] = "run"
    BY <1>1, <1>3
  <2>. QED
    BY <1>7, <1>8, <1>9, <2>1, <2>2, BatchesFrame
<1>. QED
  BY <1>4, <1>5, <1>6, <1>7, <1>8, <1>9, <1>10, <1>11 DEF ChainInv

\* A handler submits a further job.
LEMMA SubmitNextStep ==
  ASSUME ChainInv, QueueTypes, QueueLocal, Grows, NEW w \in Worker, SubmitNext(w)
  PROVE  ChainInv'
<1> USE DEF ChainTypes, QueueTypes
<1> DEFINE j == job[cur[w]]
           next == IF j.type \in Registers THEN Lodging(j.item, mine[w])
                   ELSE ModelRun(turn[w] + 1)
<1>1. PICK c \in Submitter :
        /\ at[c] = "idle" /\ at' = [at EXCEPT ![c] = "create"]
        /\ wants' = [wants EXCEPT ![c] = Queue!Launch]
        /\ asks' = [asks EXCEPT ![c] = next]
        /\ helper' = [helper EXCEPT ![w] = c]
        /\ UNCHANGED <<status, retryOf, queue, holds, batch, cur, runs, effects, lost>>
  BY DEF SubmitNext, Submit, Queue!BeginSubmit, Queue!Ask, Queue!Goto,
     Queue!workerVars
<1>2. /\ at[w] = "run" /\ step[w] = "submit" /\ step' = [step EXCEPT ![w] = "await"]
      /\ UNCHANGED <<job, turn, mine, recordVars>>
  BY DEF SubmitNext, Running, Goto
<1>3. /\ ChainTypes /\ OwnHelpers /\ Handles /\ \A s \in Session : Named(job[s])
      /\ \A v \in Worker : HandlerLocal(v) /\ Awaited(v)
  BY DEF ChainInv
<1>4. /\ \A v \in Worker : at'[v] = at[v]
      /\ \A d \in Submitter \ {c} : at'[d] = at[d] /\ asks'[d] = asks[d] /\ wants'[d] = wants[d]
      /\ at'[c] = "create" /\ asks'[c] = next /\ wants'[c] = Queue!Launch
      /\ helper'[w] = c /\ step'[w] = "await"
      /\ \A v \in Worker \ {w} : helper'[v] = helper[v] /\ step'[v] = step[v]
  BY <1>1, <1>2, <1>3, NoClientIsAWorker
<1>15. helper[w] = NoSubmitter /\ NoSubmitter \notin Submitter
  BY <1>2, <1>3 DEF HandlerLocal, Submitter, NoSubmitter
<1>5. \/ j.type \in Registers /\ mine[w] \in configured /\ Made(w)
      \/ j = Batch /\ turn[w] < BatchLength
  BY <1>2, <1>3 DEF HandlerLocal
<1>6. next \in Jobs /\ Named(next)
  <2>1. CASE j.type \in Registers
    <3>1. j \in Jobs
      BY <1>2, <1>3 DEF QueueLocal, Created
    <3>2. j.item \in Item /\ mine[w] \in configured /\ Made(w)
      BY <1>5, <2>1, <3>1, JobShape, JobKinds
    <3>3. /\ next = Lodging(j.item, mine[w]) /\ mine[w] \in Handle
          /\ activity[mine[w]].item = j.item
      BY <1>3, <2>1, <3>2 DEF Made
    <3>. QED
      BY <3>2, <3>3, JobKinds DEF Named
  <2>2. CASE j.type \notin Registers
    <3>1. next = ModelRun(turn[w] + 1) /\ turn[w] + 1 \in 1..BatchLength
      BY <1>3, <1>5, <2>2, BatchAssumption
    <3>. QED
      BY <3>1, JobKinds DEF Named
  <2>. QED
    BY <2>1, <2>2
<1> HIDE DEF next
<1>7. /\ \A v \in Worker : Rests(v) => HandlerLocal(v)'
      /\ Minting' /\ Handles' /\ Succeeded'
  BY <1>1, <1>2, <1>4, RecordsFrame
<1>8. \A s \in Session : Named(job[s])'
  BY <1>2, NamedFrame
<1>9. ASSUME NEW d \in Submitter
      PROVE  Named(asks[d])' /\ SubmissionLocal(d)'
  <2>1. CASE d = c
    <3>1. Named(asks[d])'
      BY <1>2, <1>4, <1>6, <2>1 DEF Named, recordVars
    <3>2. SubmissionLocal(d)'
      BY <1>4, <2>1 DEF SubmissionLocal
    <3>. QED
      BY <3>1, <3>2
  <2>2. CASE d # c
    <3>1. (\E v \in Worker : helper[v] = d) => \E v \in Worker : helper'[v] = d
      BY <1>4, <1>15
    <3>. QED
      BY <1>1, <1>4, <2>2, <3>1, SubmissionFrame
  <2>. QED
    BY <2>1, <2>2
<1>10. ASSUME NEW v \in Worker \ {w}
       PROVE  HandlerLocal(v)' /\ Awaited(v)' /\ (step'[v] # "none" => CarriesOn(v))
  <2>1. Rests(v)
    BY <1>1, <1>2, <1>4 DEF Rests
  <2>2. step[v] = "await" =>
          helper[v] \in Submitter \ {c} /\ at[helper[v]] \in {"create", "send"}
    BY <1>1, <1>3 DEF Awaited
  <2>3. Awaited(v)'
    BY <1>4, <2>1, <2>2, AwaitedFrame
  <2>4. Sent(v)' = Sent(v)
    BY <1>2, <1>4, <2>2 DEF Sent
  <2>5. CarriesOn(v) \/ step'[v] = "none"
    BY <1>1, <1>4, <2>4 DEF CarriesOn
  <2>. QED
    BY <1>7, <2>1, <2>3, <2>5
<1>11. HandlerLocal(w)' /\ Awaited(w)' /\ CarriesOn(w)
  <2>1. /\ at'[w] = "run" /\ cur'[w] = cur[w] /\ job' = job /\ mine'[w] = mine[w]
        /\ turn'[w] = turn[w] /\ configured' = configured /\ activity' = activity
    BY <1>1, <1>2, <1>4 DEF recordVars
  <2>2. Made(w)' <=> Made(w)
    BY <2>1 DEF Made
  <2>3. HandlerLocal(w)'
    BY <1>4, <1>5, <2>1, <2>2 DEF HandlerLocal, Submitter, NoSubmitter
  <2>4. Awaited(w)'
    BY <1>4, <2>1 DEF Awaited, next, Queue!Launch
  <2>5. Sent(w)' = Sent(w)
    BY <1>2, <1>4, <2>1 DEF Sent
  <2>. QED
    BY <1>2, <2>1, <2>3, <2>4, <2>5 DEF CarriesOn
<1>12. ChainTypes'
  BY <1>1, <1>2, <1>3, <1>6 DEF recordVars, Steps
<1>13. OwnHelpers'
  <2>1. \A v \in Worker \ {w} : helper[v] # c
    <3>1. ASSUME NEW v \in Worker, helper[v] = c
          PROVE  FALSE
      <4>1. step[v] = "await"
        BY <1>3, <1>15, <3>1 DEF HandlerLocal
      <4>2. at[c] \in {"create", "send"}
        BY <1>3, <3>1, <4>1 DEF Awaited
      <4>. QED
        BY <1>1, <4>2
    <3>. QED
      BY <3>1
  <2>. QED
    BY <1>3, <1>4, <2>1 DEF OwnHelpers
<1>14. Batches'
  <2>1. \A s \in Session : Submitted(s)' => Submitted(s)
    BY <1>1, <1>2 DEF Submitted, Created
  <2>2. \A v \in Worker : at[v] = "run" => cur'[v] = cur[v] /\ at'[v] = "run"
    BY <1>1, <1>4
  <2>. QED
    BY <1>10, <1>11, <1>12, <2>1, <2>2, BatchesFrame
<1>. QED
  BY <1>7, <1>8, <1>9, <1>10, <1>11, <1>12, <1>13, <1>14 DEF ChainInv

-----------------------------------------------------------------------------
(* The steps of handlers.                                                  *)

\* A handler other than a batch's does something of its own.
LEMMA OwnStepFrame ==
  ASSUME ChainInv, ChainTypes', QueueTypes, QueueLocal, Grows, NEW w \in Worker,
         UNCHANGED <<queueVars, asks, job, helper>>,
         step[w] \notin {"none", "await"}, step'[w] \notin {"none", "await"},
         job[cur[w]] # Batch, HandlerLocal(w)',
         \A v \in Worker \ {w} : /\ step'[v] = step[v] /\ turn'[v] = turn[v]
                                 /\ mine'[v] = mine[v],
         \A v \in Worker \ {w} : mine[v] \in Handle =>
           /\ activity'[mine[v]] = activity[mine[v]]
           /\ mine[v] \in configured' => mine[v] \in configured
  PROVE  /\ \A s \in Session : Named(job[s])'
         /\ \A c \in Submitter : Named(asks[c])' /\ SubmissionLocal(c)'
         /\ \A v \in Worker : HandlerLocal(v)' /\ Awaited(v)'
         /\ OwnHelpers' /\ Succeeded' /\ Batches'
<1> USE DEF queueVars
<1>1. \A s \in Session : Named(job[s])'
  BY NamedFrame
<1>2. \A c \in Submitter : Named(asks[c])' /\ SubmissionLocal(c)'
  BY SubmissionFrame
<1>3. ASSUME NEW v \in Worker \ {w}
      PROVE  HandlerLocal(v)' /\ Awaited(v)' /\ Sent(v)' = Sent(v)
  <2>1. Rests(v)
    BY DEF Rests
  <2>2. HandlerLocal(v)'
    BY <2>1, HandlerFrame
  <2>3. Awaited(v)'
    BY <2>1, AwaitedFrame DEF ChainInv, Awaited
  <2>. QED
    BY <2>2, <2>3 DEF Sent
<1>4. Awaited(w)'
  BY DEF Awaited
<1>5. OwnHelpers'
  BY DEF ChainInv, OwnHelpers
<1>6. Succeeded'
  BY SucceededFrame
<1>7. Batches'
  <2>1. \A s \in Session : Submitted(s)' => Submitted(s)
    BY DEF Submitted, Created
  <2>2. ASSUME NEW v \in Worker, step'[v] # "none", job'[cur'[v]] = Batch
        PROVE  CarriesOn(v)
    BY <1>3, <2>2 DEF CarriesOn
  <2>. QED
    BY <2>1, <2>2, BatchesFrame
<1>. QED
  BY <1>1, <1>2, <1>3, <1>4, <1>5, <1>6, <1>7

\* Minting keeps the invariant: the session that mints was not spent before.
LEMMA MintStep ==
  ASSUME ChainInv, QueueTypes, QueueLocal, Grows, NEW w \in Worker, Mint(w)
  PROVE  ChainInv'
<1> USE DEF ChainTypes, QueueTypes
<1>1. /\ at[w] = "run" /\ step[w] = "mint"
      /\ minted' = minted + 1
      /\ mine' = [mine EXCEPT ![w] = minted + 1]
      /\ step' = [step EXCEPT ![w] = "insert"]
      /\ UNCHANGED <<queueVars, asks, job, turn, helper, activity, configured, graph>>
  BY DEF Mint, Running, Goto
<1>2. /\ ChainTypes /\ Handles /\ Minting
      /\ \A v \in Worker : HandlerLocal(v)
  BY DEF ChainInv
<1> DEFINE s == cur[w]
           S == {t \in Session : Spent(t)}
           T == {t \in Session : Spent(t)'}
<1>3. job[s].type \in Registers /\ mine[w] = NoHandle
  BY <1>1, <1>2 DEF HandlerLocal
<1>4. s \in Session /\ s # 0 /\ runs[s] = 0 /\ s \notin lost
  <2> HIDE DEF ChainTypes, QueueTypes
  <2>1. s \in Session /\ runs[s] = 0 /\ s \notin lost
    BY <1>1 DEF QueueLocal, Created
  <2>. QED
    BY <2>1 DEF Session
<1>5. ~Spent(s)
  BY <1>3, <1>4 DEF Spent, QueueLocal
<1>6. /\ IsFiniteSet(S) /\ Cardinality(S) \in Nat /\ Cardinality(S) < MaxSession
      /\ minted <= Cardinality(S)
  BY <1>2, <1>4, <1>5, SpentAreFinite DEF Minting
<1>7. minted + 1 \in Handle /\ minted \in Nat
  <2>1. minted \in Nat
    BY <1>2, ChainMaxAssumption
  <2> HIDE DEF S
  <2>. QED
    BY <1>6, <2>1, ChainMaxAssumption DEF Handle
<1>8. mine'[w] = minted + 1 /\ \A v \in Worker \ {w} : mine'[v] = mine[v]
  BY <1>1, <1>2
<1>9. ChainTypes'
  <2>1. minted' \in 0..MaxSession
    BY <1>1, <1>7 DEF Handle
  <2>2. mine' \in [Worker -> Handle \cup {NoHandle}]
    BY <1>1, <1>2, <1>7
  <2>3. step' \in [Worker -> Steps]
    BY <1>1, <1>2 DEF Steps
  <2>. QED
    BY <1>1, <1>2, <2>1, <2>2, <2>3
<1>10. HandlerLocal(w)'
  <2>1. ~Known(minted + 1)
    BY <1>2, <1>7 DEF Handles
  <2>2. step'[w] = "insert"
    BY <1>1, <1>2
  <2>3. /\ at'[w] = at[w] /\ helper'[w] = helper[w] /\ job'[cur'[w]] = job[cur[w]]
        /\ activity' = activity
    BY <1>1 DEF queueVars
  <2>4. helper[w] = NoSubmitter
    BY <1>1, <1>2 DEF HandlerLocal
  <2>. QED
    BY <1>1, <1>3, <1>7, <1>8, <2>1, <2>2, <2>3, <2>4 DEF HandlerLocal, Known
<1>11. Minting'
  <2>1. S \cup {s} \subseteq T
    <3>1. Kept
      BY <1>3, <1>8, <1>1 DEF Kept, queueVars
    <3>2. S \subseteq T
      BY <3>1, SpentFrame
    <3>3. ASSUME NEW t \in Session, t = s
          PROVE  Spent(t)'
      BY <3>3, <1>1, <1>7, <1>8 DEF Spent, queueVars, Handle, NoHandle
    <3>. QED
      BY <1>4, <3>2, <3>3
  <2>2. IsFiniteSet(T)
    <3>1. IsFiniteSet(Session)
      BY FS_Interval, ChainMaxAssumption DEF Session
    <3>. QED
      BY <3>1, FS_Subset
  <2>3. /\ IsFiniteSet(S \cup {s})
        /\ Cardinality(S \cup {s}) = Cardinality(S) + 1
    BY <1>5, <1>6, FS_AddElement
  <2>4. Cardinality(S \cup {s}) <= Cardinality(T) /\ Cardinality(T) \in Nat
    BY <2>1, <2>2, FS_Subset, FS_CardinalityType
  <2> HIDE DEF S, T
  <2>5. minted + 1 <= Cardinality(T)
    BY <1>6, <1>7, <2>3, <2>4
  <2>. QED
    BY <1>1, <2>5 DEF Minting, T
<1>12. Handles'
  <2>1. /\ \A v \in Worker : mine[v] <= minted /\ mine[v] \in Nat
        /\ \A h \in Handle : Known(h)' <=> Known(h)
    BY <1>1, <1>2, ChainMaxAssumption DEF Handles, Handle, NoHandle, Known
  <2>2. \A v \in Worker : mine'[v] <= minted'
    BY <1>1, <1>7, <1>8, <2>1
  <2>3. ASSUME NEW u \in Worker, NEW v \in Worker,
               mine'[u] # NoHandle, mine'[u] = mine'[v]
        PROVE  u = v
    <3>1. \A x \in Worker \ {w} : mine[x] # minted + 1
      BY <1>7, <2>1
    <3>. QED
      BY <1>2, <1>8, <2>3, <3>1 DEF Handles
  <2>4. ASSUME NEW h \in Handle, Known(h)
        PROVE  LET t == activity[h].by IN
               /\ h <= minted' /\ activity[h].item \in Item
               /\ Created(t)' /\ job[t] = Registration(activity[h].item)
               /\ runs[t] = 1 \/ t \in lost \/ \E v \in Worker : cur[v] = t /\ mine'[v] = h
    <3> DEFINE t == activity[h].by
    <3>1. /\ h <= minted /\ activity[h].item \in Item
          /\ Created(t) /\ job[t] = Registration(activity[h].item)
          /\ runs[t] = 1 \/ t \in lost \/ \E v \in Worker : cur[v] = t /\ mine[v] = h
      BY <1>2, <2>4 DEF Handles
    <3>2. \A v \in Worker : mine[v] = h => v # w /\ mine'[v] = h
      BY <1>3, <1>8 DEF Handle, NoHandle
    <3>3. h <= minted'
      BY <1>1, <1>7, <3>1 DEF Handle
    <3>4. Created(t)'
      BY <1>1, <3>1 DEF Created, queueVars
    <3>. QED
      BY <3>1, <3>2, <3>3, <3>4
  <2>5. \A g, h \in Handle :
          Known(g)' /\ Known(h)' /\ activity'[g].by = activity'[h].by => g = h
    BY <1>1, <1>2, <2>1 DEF Handles
  <2>6. /\ \A h \in configured' : Known(h)'
        /\ \A e \in graph' : e.activity \in configured'
    BY <1>1, <1>2, <2>1 DEF Handles
  <2>. QED
    BY <1>1, <2>1, <2>2, <2>3, <2>4, <2>5, <2>6 DEF Handles, queueVars
<1>13. job[s] # Batch
  BY <1>3, JobKinds
<1>14. /\ \A v \in Worker \ {w} : step'[v] = step[v]
       /\ step'[w] = "insert"
  BY <1>1, <1>2
<1>. QED
  BY <1>1, <1>8, <1>9, <1>10, <1>11, <1>12, <1>13, <1>14, OwnStepFrame DEF ChainInv

\* The activity is inserted under a handle nobody else has.
LEMMA InsertStep ==
  ASSUME ChainInv, QueueTypes, QueueLocal, Grows, NEW w \in Worker, Insert(w)
  PROVE  ChainInv'
<1> USE DEF ChainTypes, QueueTypes
<1>1. /\ at[w] = "run" /\ step[w] = "insert"
      /\ activity' = [activity EXCEPT ![mine[w]] =
                        [item |-> job[cur[w]].item, by |-> cur[w]]]
      /\ step' = [step EXCEPT ![w] = "sidecars"]
      /\ UNCHANGED <<queueVars, asks, job, turn, mine, helper, minted, configured, graph>>
  BY DEF Insert, Running, Goto, AfterInsert
<1>2. /\ ChainTypes /\ Handles /\ Minting
      /\ \A v \in Worker : HandlerLocal(v)
  BY DEF ChainInv
<1>3. PICK m \in Handle, s \in Session, i \in Item :
        /\ m = mine[w] /\ s = cur[w] /\ i = job[s].item
        /\ ~Known(m) /\ Created(s) /\ s # 0 /\ runs[s] = 0 /\ s \notin lost
        /\ job[s].type \in Registers /\ job[s] = Registration(i)
  <2>1. job[cur[w]].type \in Registers /\ mine[w] \in Handle /\ ~Known(mine[w])
    BY <1>1, <1>2 DEF HandlerLocal
  <2>2. /\ cur[w] \in Session /\ Created(cur[w]) /\ cur[w] # 0 /\ runs[cur[w]] = 0
        /\ cur[w] \notin lost
    BY <1>1, ChainMaxAssumption DEF QueueLocal, Created, Session
  <2>3. job[cur[w]] \in Jobs
    BY <1>2, <2>2
  <2>. QED
    BY <2>1, <2>2, <2>3, JobShape
<1>4. /\ activity'[m] = [item |-> i, by |-> s]
      /\ \A h \in Handle \ {m} : activity'[h] = activity[h]
  BY <1>1, <1>2, <1>3
<1>5. Known(m)' /\ \A h \in Handle \ {m} : Known(h)' <=> Known(h)
  <2>1. i # NoItem
    BY ItemAssumption
  <2>2. activity'[m].item # NoActivity.item
    BY <1>4, <2>1 DEF NoActivity
  <2>. QED
    BY <1>4, <2>2 DEF Known
<1>6. m \notin configured
  BY <1>2, <1>3 DEF Handles
<1>7. \A h \in Handle : Known(h) => activity[h].by # s
  BY <1>2, <1>3 DEF Handles, QueueLocal
<1>8. ChainTypes'
  <2>1. activity' \in [Handle -> [item : Item \cup {NoItem}, by : Session \cup {NoHandle}]]
    BY <1>1, <1>2, <1>3
  <2>. QED
    BY <1>1, <1>2, <2>1 DEF Steps
<1>9. HandlerLocal(w)'
  <2>1. Made(w)'
    BY <1>1, <1>3, <1>4 DEF Made, queueVars
  <2>2. step'[w] = "sidecars"
    BY <1>1, <1>2
  <2>3. /\ at'[w] = at[w] /\ helper'[w] = helper[w] /\ job'[cur'[w]] = job[cur[w]]
        /\ mine' = mine /\ configured' = configured
    BY <1>1 DEF queueVars
  <2>4. helper[w] = NoSubmitter
    BY <1>1, <1>2 DEF HandlerLocal
  <2>. QED
    BY <1>1, <1>3, <1>6, <2>1, <2>2, <2>3, <2>4 DEF HandlerLocal
<1>10. Minting'
  <2>1. Kept
    BY <1>1 DEF Kept, queueVars
  <2>. QED
    BY <1>1, <2>1, MintingFrame
<1>11. Handles'
  <2>1. ASSUME NEW h \in Handle, Known(h)'
        PROVE  LET t == activity'[h].by IN
               /\ h <= minted /\ activity'[h].item \in Item
               /\ Created(t) /\ job[t] = Registration(activity'[h].item)
               /\ runs[t] = 1 \/ t \in lost \/ \E v \in Worker : cur[v] = t /\ mine[v] = h
    <3>1. CASE h = m
      <4>1. activity'[h].by = s /\ activity'[h].item = i
        BY <1>4, <3>1
      <4>2. m <= minted
        BY <1>2, <1>3 DEF Handles
      <4>. QED
        BY <1>3, <3>1, <4>1, <4>2
    <3>2. CASE h # m
      BY <1>2, <1>4, <1>5, <2>1, <3>2 DEF Handles
    <3>. QED
      BY <3>1, <3>2
  <2>2. ASSUME NEW g \in Handle, NEW h \in Handle, Known(g)', Known(h)',
               activity'[g].by = activity'[h].by
        PROVE  g = h
    <3>1. CASE g # m /\ h # m
      BY <1>2, <1>4, <1>5, <2>2, <3>1 DEF Handles
    <3>2. CASE g = m \/ h = m
      BY <1>4, <1>5, <1>7, <2>2, <3>2
    <3>. QED
      BY <3>1, <3>2
  <2>3. \A h \in configured : Known(h)'
    BY <1>2, <1>5 DEF Handles
  <2>4. \A t : Created(t)' <=> Created(t)
    BY <1>1 DEF Created, queueVars
  <2>. QED
    BY <1>1, <1>2, <2>1, <2>2, <2>3, <2>4 DEF Handles, queueVars
<1>12. job[cur[w]] # Batch
  BY <1>3, JobKinds
<1>13. /\ \A v \in Worker \ {w} : step'[v] = step[v]
       /\ step'[w] = "sidecars"
  BY <1>1, <1>2
<1>14. \A v \in Worker \ {w} : mine[v] \in Handle => mine[v] # m
  BY <1>2, <1>3 DEF Handles, Handle, NoHandle
<1>. QED
  BY <1>1, <1>4, <1>8, <1>9, <1>10, <1>11, <1>12, <1>13, <1>14, OwnStepFrame DEF ChainInv

\* Its sidecars make the activity complete.
LEMMA SidecarsStep ==
  ASSUME ChainInv, QueueTypes, QueueLocal, Grows, NEW w \in Worker, EnsureSidecars(w)
  PROVE  ChainInv'
<1> USE DEF ChainTypes, QueueTypes
<1>1. /\ at[w] = "run" /\ step[w] = "sidecars"
      /\ configured' = configured \cup {mine[w]}
      /\ step' = [step EXCEPT ![w] = "submit"]
      /\ UNCHANGED <<queueVars, asks, job, turn, mine, helper, minted, activity, graph>>
  BY DEF EnsureSidecars, Running, Goto
<1>2. /\ ChainTypes /\ Handles /\ Minting
      /\ \A v \in Worker : HandlerLocal(v)
  BY DEF ChainInv
<1>3. /\ job[cur[w]].type \in Registers /\ mine[w] \in Handle /\ Made(w)
      /\ helper[w] = NoSubmitter
  BY <1>1, <1>2 DEF HandlerLocal
<1>4. cur[w] # 0
  BY <1>1, ChainMaxAssumption DEF QueueLocal, Created, Session
<1>5. Known(mine[w])
  BY <1>3, <1>4 DEF Made, Known, NoActivity, NoHandle
<1>6. /\ \A v \in Worker \ {w} : step'[v] = step[v]
      /\ step'[w] = "submit"
  BY <1>1, <1>2
<1>7. ChainTypes'
  BY <1>1, <1>2, <1>3 DEF Steps
<1>8. HandlerLocal(w)'
  <2>1. Made(w)' <=> Made(w)
    BY <1>1 DEF Made, queueVars
  <2>2. /\ at'[w] = at[w] /\ helper'[w] = helper[w] /\ job'[cur'[w]] = job[cur[w]]
        /\ mine' = mine /\ mine[w] \in configured'
    BY <1>1 DEF queueVars
  <2>. QED
    BY <1>1, <1>3, <1>6, <2>1, <2>2 DEF HandlerLocal
<1>9. Minting'
  <2>1. Kept
    BY <1>1 DEF Kept, queueVars
  <2>. QED
    BY <1>1, <2>1, MintingFrame
<1>10. Handles'
  <2>1. \A h : Known(h)' <=> Known(h)
    BY <1>1 DEF Known
  <2>2. /\ \A h \in configured' : Known(h)'
        /\ \A e \in graph' : e.activity \in configured'
    BY <1>1, <1>2, <1>5, <2>1 DEF Handles
  <2>3. \A t : Created(t)' <=> Created(t)
    BY <1>1 DEF Created, queueVars
  <2>. QED
    BY <1>1, <1>2, <2>1, <2>2, <2>3 DEF Handles, queueVars
<1>11. job[cur[w]] # Batch
  BY <1>3, JobKinds
<1>12. \A v \in Worker \ {w} : mine[v] \in Handle => mine[v] # mine[w]
  BY <1>2, <1>3 DEF Handles, Handle, NoHandle
<1>. QED
  BY <1>1, <1>6, <1>7, <1>8, <1>9, <1>10, <1>11, <1>12, OwnStepFrame DEF ChainInv

\* An edge is written, and with it all those before it are there.
LEMMA UpsertStep ==
  ASSUME ChainInv, QueueTypes, QueueLocal, Grows, NEW w \in Worker, UpsertEdge(w)
  PROVE  ChainInv'
<1> USE DEF ChainTypes, QueueTypes
<1> DEFINE j == job[cur[w]]
           relations == Relations(j.item)
           edge == [relation |-> relations[turn[w] + 1], activity |-> j.activity]
           next == IF turn[w] + 1 = Len(relations) THEN "return" ELSE "upsert"
<1>1. /\ at[w] = "run" /\ step[w] = "upsert"
      /\ graph' = graph \cup {edge}
      /\ turn' = [turn EXCEPT ![w] = turn[w] + 1]
      /\ step' = [step EXCEPT ![w] = next]
      /\ UNCHANGED <<queueVars, asks, job, mine, helper, minted, activity, configured>>
  BY DEF UpsertEdge, Running, Goto
<1>2. /\ ChainTypes /\ Handles /\ Minting /\ \A s \in Session : Named(job[s])
      /\ \A v \in Worker : HandlerLocal(v)
  BY DEF ChainInv
<1>3. /\ j.type \in Lodges /\ turn[w] < Len(relations) /\ turn[w] \in Nat
      /\ \A n \in 1..turn[w] : [relation |-> relations[n], activity |-> j.activity] \in graph
      /\ helper[w] = NoSubmitter
  BY <1>1, <1>2 DEF HandlerLocal
<1>4. j.activity \in configured
  BY <1>1, <1>2, <1>3 DEF Named, QueueLocal, Created
<1>5. /\ \A v \in Worker \ {w} : step'[v] = step[v] /\ turn'[v] = turn[v]
      /\ step'[w] = next /\ turn'[w] = turn[w] + 1
  BY <1>1, <1>2
<1>6. ChainTypes'
  BY <1>1, <1>2, <1>3 DEF Steps
<1>7. Len(relations) \in Nat /\ DOMAIN relations = 1..Len(relations)
  BY RelationsAreMany
<1>8. HandlerLocal(w)'
  <2>1. \A n \in 1..(turn[w] + 1) :
          [relation |-> relations[n], activity |-> j.activity] \in graph'
    <3>1. ASSUME NEW n \in 1..(turn[w] + 1)
          PROVE  n \in 1..turn[w] \/ n = turn[w] + 1
      BY <1>3
    <3>. QED
      BY <1>1, <1>3, <3>1
  <2>2. turn[w] + 1 = Len(relations) \/ turn[w] + 1 < Len(relations)
    BY <1>3, <1>7
  <2>3. /\ at'[w] = "run" /\ job'[cur'[w]] = j /\ helper'[w] = NoSubmitter
    BY <1>1, <1>3 DEF queueVars
  <2>4. j.type \notin Registers /\ j # Batch
    BY <1>3, JobKinds
  <2>5. CASE turn[w] + 1 = Len(relations)
    <3>1. IsLodged(j.activity, j.item)'
      BY <1>1, <1>7, <2>1, <2>5 DEF IsLodged, queueVars
    <3>2. step'[w] = "return"
      BY <1>5, <2>5
    <3>. QED
      BY <2>3, <2>4, <3>1, <3>2 DEF HandlerLocal
  <2>6. CASE turn[w] + 1 < Len(relations)
    <3>1. step'[w] = "upsert"
      BY <1>3, <1>5, <1>7, <2>6
    <3>. QED
      BY <1>3, <1>5, <2>1, <2>3, <2>6, <3>1 DEF HandlerLocal
  <2>. QED
    BY <2>2, <2>5, <2>6
<1>9. Kept
  BY <1>1 DEF Kept, queueVars
<1>10. Minting'
  BY <1>1, <1>9, MintingFrame
<1>11. Handles'
  BY <1>1, <1>4, <1>9, HandlesFrame
<1>12. j # Batch
  BY <1>3, JobKinds
<1>13. step'[w] \notin {"none", "await"}
  BY <1>5
<1>. QED
  BY <1>1, <1>5, <1>6, <1>8, <1>10, <1>11, <1>12, <1>13, OwnStepFrame DEF ChainInv

-----------------------------------------------------------------------------
(* The steps of the callback.                                              *)

\* A worker goes on, and its handler keeps its handle or is through.
LEMMA WorkerFrame ==
  ASSUME ChainInv, QueueTypes, QueueLocal, Grows, NEW w \in Worker,
         UNCHANGED <<asks, job, helper, recordVars, wants, holds, retryOf>>,
         \A p \in (Submitter \cup Worker) \ {w} : at'[p] = at[p],
         \A v \in Worker \ {w} : /\ cur'[v] = cur[v] /\ step'[v] = step[v]
                                 /\ turn'[v] = turn[v] /\ mine'[v] = mine[v],
         mine'[w] \in {mine[w], NoHandle},
         mine[w] # NoHandle => runs'[cur[w]] = 1 \/ cur[w] \in lost',
         \A s \in Session : Created(s)' => Created(s)
  PROVE  /\ \A s \in Session : Named(job[s])'
         /\ \A c \in Submitter : Named(asks[c])' /\ SubmissionLocal(c)'
         /\ \A v \in Worker \ {w} : /\ HandlerLocal(v)' /\ Awaited(v)'
                                    /\ step'[v] # "none" => CarriesOn(v)
         /\ OwnHelpers' /\ Minting' /\ Handles'
         /\ \A s \in Session : Submitted(s)' => Submitted(s)
<1> USE DEF recordVars
<1>1. \A s \in Session : Named(job[s])'
  BY NamedFrame
<1>2. \A c \in Submitter : c # w
  BY NoClientIsAWorker
<1>3. \A c \in Submitter : Named(asks[c])' /\ SubmissionLocal(c)'
  BY <1>2, SubmissionFrame
<1>4. ASSUME NEW v \in Worker \ {w}
      PROVE  HandlerLocal(v)' /\ Awaited(v)' /\ (step'[v] # "none" => CarriesOn(v))
  <2>1. Rests(v)
    BY DEF Rests
  <2>2. HandlerLocal(v)'
    BY <2>1, HandlerFrame
  <2>3. step[v] = "await" => /\ helper[v] \in Submitter /\ at'[helper[v]] = at[helper[v]]
                             /\ at[helper[v]] \in {"create", "send"}
    BY <1>2 DEF ChainInv, Awaited
  <2>4. Awaited(v)'
    BY <2>1, <2>3, AwaitedFrame
  <2>5. Sent(v)' = Sent(v)
    BY <2>3 DEF Sent
  <2>. QED
    BY <2>2, <2>4, <2>5 DEF CarriesOn
<1>5. OwnHelpers'
  BY DEF ChainInv, OwnHelpers
<1>6. Kept
  BY DEF Kept
<1>7. Minting'
  BY <1>6, MintingFrame
<1>8. Handles'
  BY <1>6, HandlesFrame
<1>9. \A s \in Session : Submitted(s)' => Submitted(s)
  BY DEF Submitted
<1>. QED
  BY <1>1, <1>3, <1>4, <1>5, <1>7, <1>8, <1>9

\* A worker that has no handler running goes on.
LEMMA CallbackStep ==
  ASSUME ChainInv, QueueTypes, QueueLocal, Grows, NEW w \in Worker, Callback(w)
  PROVE  ChainInv'
<1> USE DEF ChainTypes, QueueTypes
<1>1. /\ at[w] \notin {"run", "start"}
      /\ UNCHANGED <<retryOf, wants, holds, runs, effects, lost>>
      /\ UNCHANGED <<asks, job, handlerVars, recordVars>>
  BY DEF Callback, Queue!Fetch, Queue!Dequeue, Queue!RecordSuccess,
     Queue!SuccessWriteFails, Queue!RecordFailure, Queue!clientVars
<1>2. PICK label \in {"idle", "take", "start", "fail"} : at' = [at EXCEPT ![w] = label]
  BY DEF Callback, Queue!Fetch, Queue!Dequeue, Queue!RecordSuccess,
     Queue!SuccessWriteFails, Queue!RecordFailure, Queue!EndSession, Queue!Goto
<1>3. \A v \in Worker \ {w} : cur'[v] = cur[v]
  BY DEF Callback, Queue!Fetch, Queue!Dequeue, Queue!RecordSuccess,
     Queue!SuccessWriteFails, Queue!RecordFailure, Queue!EndSession, Queue!workerVars
<1>4. ASSUME NEW s \in Session
      PROVE  /\ Created(s)' => Created(s)
             /\ status'[s] = "SUCCEEDED" =>
                  status[s] = "SUCCEEDED" \/ (at[w] = "succeed" /\ s = cur[w])
  <2>1. CASE Queue!Fetch(w)
    BY <2>1 DEF Queue!Fetch, Created
  <2>2. CASE Queue!Dequeue(w)
    BY <2>2 DEF Queue!Dequeue, Queue!SetStatus, Created, QueueLocal
  <2>3. CASE Queue!RecordSuccess(w)
    <3>1. Created(cur[w])
      BY <2>3 DEF Queue!RecordSuccess, QueueLocal
    <3>. QED
      BY <2>3, <3>1 DEF Queue!RecordSuccess, Queue!SetStatus, Created
  <2>4. CASE Queue!SuccessWriteFails(w)
    <3>1. Created(cur[w])
      BY <2>4 DEF Queue!SuccessWriteFails, QueueLocal
    <3>. QED
      BY <2>4, <3>1 DEF Queue!SuccessWriteFails, Queue!SetStatus, Created
  <2>5. CASE Queue!RecordFailure(w)
    <3>1. Created(cur[w])
      BY <2>5 DEF Queue!RecordFailure, QueueLocal
    <3>. QED
      BY <2>5, <3>1 DEF Queue!RecordFailure, Queue!SetStatus, Created
  <2>. QED
    BY <2>1, <2>2, <2>3, <2>4, <2>5 DEF Callback
<1>5. ChainTypes /\ HandlerLocal(w) /\ Succeeded
  BY DEF ChainInv
<1>6. step[w] = "none" /\ mine[w] = NoHandle /\ turn[w] = 0 /\ helper[w] = NoSubmitter
  BY <1>1, <1>5 DEF HandlerLocal
<1>7. /\ at'[w] = label
      /\ \A p \in (Submitter \cup Worker) \ {w} : at'[p] = at[p]
  BY <1>2
<1>8. HandlerLocal(w)' /\ Awaited(w)'
  BY <1>1, <1>6, <1>7 DEF HandlerLocal, Awaited, handlerVars
<1>9. ChainTypes'
  BY <1>1, <1>5 DEF handlerVars, recordVars
<1>10. Succeeded'
  <2>1. ASSUME NEW s \in Session, status'[s] = "SUCCEEDED"
        PROVE  status[s] = "SUCCEEDED" \/ (Created(s) /\ Done(s))
    BY <1>4, <1>5, <2>1 DEF Succeeded, QueueLocal
  <2>2. \A v \in Worker : at'[v] = "succeed" => at[v] = "succeed" /\ cur'[v] = cur[v]
    BY <1>3, <1>7
  <2>. QED
    BY <2>1, <2>2, SucceededFrame
<1>11. /\ \A s \in Session : Named(job[s])'
       /\ \A c \in Submitter : Named(asks[c])' /\ SubmissionLocal(c)'
       /\ \A v \in Worker \ {w} : /\ HandlerLocal(v)' /\ Awaited(v)'
                                  /\ step'[v] # "none" => CarriesOn(v)
       /\ OwnHelpers' /\ Minting' /\ Handles'
       /\ \A s \in Session : Submitted(s)' => Submitted(s)
  BY <1>1, <1>3, <1>4, <1>6, <1>7, WorkerFrame DEF handlerVars
<1>12. Batches'
  <2>1. \A v \in Worker : step'[v] # "none" => CarriesOn(v)
    BY <1>1, <1>6, <1>11 DEF handlerVars
  <2>2. \A v \in Worker : at[v] = "run" => cur'[v] = cur[v] /\ at'[v] = "run"
    BY <1>1, <1>3, <1>7
  <2>. QED
    BY <1>9, <1>11, <2>1, <2>2, BatchesFrame
<1>. QED
  BY <1>8, <1>9, <1>10, <1>11, <1>12 DEF ChainInv

\* A handler begins.
LEMMA BeginStep ==
  ASSUME ChainInv, QueueTypes, QueueLocal, Grows, NEW w \in Worker, Begin(w)
  PROVE  ChainInv'
<1> USE DEF ChainTypes, QueueTypes
<1> DEFINE j == job[cur[w]]
<1>1. /\ at[w] = "start" /\ at' = [at EXCEPT ![w] = "run"]
      /\ status' = [status EXCEPT ![cur[w]] = "IN_PROGRESS"]
      /\ step' = [step EXCEPT ![w] = FirstStep(j.type)]
      /\ UNCHANGED <<retryOf, queue, wants, holds, batch, cur, runs, effects, lost>>
      /\ UNCHANGED <<asks, job, turn, mine, helper, recordVars>>
  BY DEF Begin, Queue!Begin, Queue!SetStatus, Queue!Goto, Queue!clientVars,
     Queue!workerVars, Goto
<1>2. ChainTypes /\ HandlerLocal(w)
  BY DEF ChainInv
<1>3. step[w] = "none" /\ mine[w] = NoHandle /\ turn[w] = 0 /\ helper[w] = NoSubmitter
  BY <1>1, <1>2 DEF HandlerLocal
<1>4. cur[w] \in Session /\ Created(cur[w]) /\ j \in Jobs
  BY <1>1, <1>2 DEF QueueLocal, Created
<1>5. /\ at'[w] = "run" /\ step'[w] = FirstStep(j.type)
      /\ \A p \in (Submitter \cup Worker) \ {w} : at'[p] = at[p]
      /\ \A v \in Worker \ {w} : step'[v] = step[v]
  BY <1>1, <1>2
<1>6. \A s \in Session : /\ Created(s)' => Created(s)
                         /\ status'[s] = "SUCCEEDED" => status[s] = "SUCCEEDED"
  BY <1>1, <1>4 DEF Created
<1>7. /\ \A s \in Session : Named(job[s])'
      /\ \A c \in Submitter : Named(asks[c])' /\ SubmissionLocal(c)'
      /\ \A v \in Worker \ {w} : /\ HandlerLocal(v)' /\ Awaited(v)'
                                 /\ step'[v] # "none" => CarriesOn(v)
      /\ OwnHelpers' /\ Minting' /\ Handles'
      /\ \A s \in Session : Submitted(s)' => Submitted(s)
  BY <1>1, <1>3, <1>5, <1>6, WorkerFrame
<1>8. \/ j.type \in Registers /\ FirstStep(j.type) = "mint"
      \/ j.type \in Lodges /\ FirstStep(j.type) = "upsert"
      \/ j = Batch /\ FirstStep(j.type) = "submit"
      \/ /\ j.type \notin Registers \cup Lodges /\ j # Batch
         /\ FirstStep(j.type) = "return"
  BY <1>4, JobShape, JobKinds DEF FirstStep
<1>9. ChainTypes'
  BY <1>1, <1>2, <1>8 DEF recordVars, Steps
<1>10. HandlerLocal(w)'
  <2>1. /\ job'[cur'[w]] = j /\ mine'[w] = NoHandle /\ turn'[w] = 0
        /\ helper'[w] = NoSubmitter /\ at'[w] = "run"
    BY <1>1, <1>3, <1>5
  <2>2. 0 < Len(Relations(j.item)) /\ 0 < BatchLength
    BY RelationsAreMany, BatchAssumption
  <2>3. CASE j.type \in Registers /\ FirstStep(j.type) = "mint"
    BY <1>5, <2>1, <2>3 DEF HandlerLocal
  <2>4. CASE j.type \in Lodges /\ FirstStep(j.type) = "upsert"
    BY <1>5, <2>1, <2>2, <2>4 DEF HandlerLocal
  <2>5. CASE j = Batch /\ FirstStep(j.type) = "submit"
    BY <1>5, <2>1, <2>2, <2>5 DEF HandlerLocal
  <2>6. CASE /\ j.type \notin Registers \cup Lodges /\ j # Batch
             /\ FirstStep(j.type) = "return"
    BY <1>5, <2>1, <2>6 DEF HandlerLocal
  <2>. QED
    BY <1>8, <2>3, <2>4, <2>5, <2>6
<1>11. step'[w] # "await"
  BY <1>5, <1>8
<1>12. Awaited(w)'
  BY <1>11 DEF Awaited
<1>13. Succeeded'
  BY <1>1, <1>5, <1>6, SucceededFrame
<1>14. Batches'
  <2>1. CarriesOn(w)
    BY <1>1, <1>3, <1>11 DEF CarriesOn
  <2>2. \A v \in Worker : at[v] = "run" => cur'[v] = cur[v] /\ at'[v] = "run"
    BY <1>1
  <2>. QED
    BY <1>7, <1>9, <2>1, <2>2, BatchesFrame
<1>. QED
  BY <1>7, <1>9, <1>10, <1>12, <1>13, <1>14 DEF ChainInv

\* What a handler has done when it returns.
LEMMA ReturnIsDone ==
  ASSUME ChainInv, QueueTypes, QueueLocal, NEW w \in Worker, step[w] = "return"
  PROVE  cur[w] \in Session /\ Created(cur[w]) /\ Done(cur[w])
<1> DEFINE s == cur[w]
<1>1. /\ ChainTypes /\ Handles /\ HandlerLocal(w)
      /\ \A t \in Session : Named(job[t])
  BY DEF ChainInv
<1>2. at[w] = "run" /\ s \in Session /\ Created(s)
  BY <1>1 DEF HandlerLocal, QueueLocal, Created
<1>3. job[s].type \in Registers =>
        \E h \in configured : activity[h].by = s /\ LodgingsOf(h) # {}
  BY <1>1 DEF HandlerLocal, Made
<1>4. ASSUME job[s].type \in Lodges
      PROVE  job[s].activity \in LodgedActivities
  <2>1. /\ IsLodged(job[s].activity, job[s].item)
        /\ job[s].activity \in configured
        /\ activity[job[s].activity].item = job[s].item
    BY <1>1, <1>2, <1>4 DEF HandlerLocal, Named
  <2>2. job[s].activity \in Handle /\ Known(job[s].activity)
    BY <1>1, <2>1 DEF Handles, ChainTypes
  <2>. QED
    BY <2>1, <2>2 DEF LodgedActivities
<1>5. ASSUME job[s] = Batch, NEW k \in 1..BatchLength
      PROVE  SessionsOf(ModelRun(k)) # {}
  <2>1. PICK owner \in [Session -> Session] : OwedTo(owner)
    BY DEF ChainInv, Batches
  <2>2. k <= Sent(w)
    BY <1>1, <1>5, BatchAssumption DEF HandlerLocal, Sent
  <2>3. \E t \in Session : Runs(t, k)
    BY <1>5, <2>1, <2>2 DEF OwedTo
  <2>. QED
    BY <2>3 DEF Runs, Submitted, SessionsOf
<1>. QED
  BY <1>2, <1>3, <1>4, <1>5 DEF Done

\* A handler is through, whether it returned, threw or was cut short.
LEMMA LeaveStep ==
  ASSUME ChainInv, QueueTypes, QueueLocal, Grows, NEW w \in Worker,
         Return(w) \/ Throw(w) \/ Abandon(w)
  PROVE  ChainInv'
<1> USE DEF ChainTypes, QueueTypes
<1>1. /\ step' = [step EXCEPT ![w] = "none"] /\ turn' = [turn EXCEPT ![w] = 0]
      /\ mine' = [mine EXCEPT ![w] = NoHandle]
      /\ UNCHANGED <<asks, job, helper, recordVars, wants, holds, retryOf, status>>
      /\ step[w] # "await"
  BY DEF Return, Throw, Abandon, Leave, Goto, Running, Queue!RunHandler,
     Queue!Abandon, Queue!clientVars
<1>2. PICK label \in {"idle", "succeed", "fail"} :
        /\ at' = [at EXCEPT ![w] = label]
        /\ label = "succeed" => step[w] = "return" /\ cur' = cur
  <2>1. CASE Return(w)
    BY <2>1 DEF Return, Running, Queue!RunHandler, Queue!Goto, Queue!AfterHandler,
       Queue!workerVars
  <2>2. CASE Throw(w)
    BY <2>2 DEF Throw, Throws, Queue!RunHandler, Queue!Goto, Queue!AfterHandler
  <2>3. CASE Abandon(w)
    BY <2>3 DEF Abandon, Queue!Abandon, Queue!Goto
  <2>. QED
    BY <2>1, <2>2, <2>3
<1>3. \A v \in Worker \ {w} : cur'[v] = cur[v]
  BY DEF Return, Throw, Abandon, Queue!RunHandler, Queue!Abandon, Queue!workerVars
<1>4. at[w] = "run" => runs'[cur[w]] = 1 \/ cur[w] \in lost'
  BY DEF Return, Throw, Abandon, Queue!RunHandler, Queue!Abandon, QueueLocal, Created
<1>5. ChainTypes /\ HandlerLocal(w)
  BY DEF ChainInv
<1>6. /\ mine[w] # NoHandle => at[w] = "run"
      /\ helper[w] = NoSubmitter
  BY <1>1, <1>5 DEF HandlerLocal
<1>7. /\ at'[w] = label /\ step'[w] = "none" /\ turn'[w] = 0 /\ mine'[w] = NoHandle
      /\ \A p \in (Submitter \cup Worker) \ {w} : at'[p] = at[p]
      /\ \A v \in Worker \ {w} : /\ step'[v] = step[v] /\ turn'[v] = turn[v]
                                 /\ mine'[v] = mine[v]
  BY <1>1, <1>2, <1>5
<1>8. ChainTypes'
  BY <1>1, <1>5 DEF recordVars, Steps
<1>9. HandlerLocal(w)' /\ Awaited(w)'
  BY <1>1, <1>6, <1>7 DEF HandlerLocal, Awaited
<1>10. /\ \A s \in Session : Named(job[s])'
       /\ \A c \in Submitter : Named(asks[c])' /\ SubmissionLocal(c)'
       /\ \A v \in Worker \ {w} : /\ HandlerLocal(v)' /\ Awaited(v)'
                                  /\ step'[v] # "none" => CarriesOn(v)
       /\ OwnHelpers' /\ Minting' /\ Handles'
       /\ \A s \in Session : Submitted(s)' => Submitted(s)
  BY <1>1, <1>3, <1>4, <1>6, <1>7, WorkerFrame DEF Created
<1>11. Succeeded'
  <2>1. ASSUME NEW v \in Worker, at'[v] = "succeed"
        PROVE  \/ at[v] = "succeed" /\ cur'[v] = cur[v]
               \/ cur'[v] \in Session /\ Created(cur'[v]) /\ Done(cur'[v])
    <3>1. CASE v = w
      BY <1>2, <1>7, <2>1, <3>1, ReturnIsDone
    <3>2. CASE v # w
      BY <1>3, <1>7, <2>1, <3>2
    <3>. QED
      BY <3>1, <3>2
  <2>. QED
    BY <1>1, <2>1, SucceededFrame
<1>12. Batches'
  <2>1. \A v \in Worker : step'[v] # "none" => CarriesOn(v)
    BY <1>7, <1>10
  <2>2. \A v \in Worker : at[v] = "run" =>
          \/ cur'[v] = cur[v] /\ at'[v] = "run"
          \/ runs'[cur[v]] = 1 \/ cur[v] \in lost'
    BY <1>3, <1>4, <1>7
  <2>. QED
    BY <1>8, <1>10, <2>1, <2>2, BatchesFrame
<1>. QED
  BY <1>8, <1>9, <1>10, <1>11, <1>12 DEF ChainInv

-----------------------------------------------------------------------------
(* The invariant holds.                                                    *)

\* The invariant holds at the start.
LEMMA InitChain == Init => ChainInv
<1> SUFFICES ASSUME Init PROVE ChainInv
  OBVIOUS
<1> USE DEF Init, Queue!Init, Queue!Session, Queue!Launch, Queue!NoSession, Queue!Process,
      Session, Submitter, Handle, NoHandle, NoSubmitter
<1>1. ChainTypes
  BY ChainMaxAssumption DEF ChainTypes, Jobs, Steps, NoActivity
<1>2. ASSUME NEW j, j = NoJob PROVE Named(j)
  BY <1>2, JobKinds DEF Named
<1>3. ASSUME NEW c \in Submitter PROVE SubmissionLocal(c)
  BY <1>3, ChainWorkerAssumption DEF SubmissionLocal
<1>4. ASSUME NEW w \in Worker PROVE HandlerLocal(w) /\ Awaited(w)
  BY <1>4, ChainWorkerAssumption DEF HandlerLocal, Awaited
<1>5. Minting
  <2>1. minted = 0
    OBVIOUS
  <2>2. Cardinality({s \in Session : Spent(s)}) \in Nat
    BY SpentAreFinite
  <2>3. \A n \in Nat : 0 <= n
    OBVIOUS
  <2>. QED
    BY <2>1, <2>2, <2>3 DEF Minting
<1>6. \A h \in Handle : ~Known(h)
  BY DEF Known
<1>7. \A w \in Worker : mine[w] = 0
  OBVIOUS
<1>8. Handles
  BY <1>6, <1>7 DEF Handles
<1>9. OwnHelpers
  BY DEF OwnHelpers
<1>10. Succeeded
  BY ChainWorkerAssumption DEF Succeeded
<1>11. Batches
  <2>1. \A s \in Session : ~Submitted(s)
    BY DEF Submitted, Created
  <2>2. OwedTo([s \in Session |-> s])
    BY <2>1 DEF OwedTo, Runs
  <2>3. [s \in Session |-> s] \in [Session -> Session]
    OBVIOUS
  <2>. QED
    BY <2>2, <2>3 DEF Batches
<1>. QED
  BY <1>1, <1>2, <1>3, <1>4, <1>5, <1>8, <1>9, <1>10, <1>11 DEF ChainInv

\* It holds when nothing happens,
LEMMA ChainStutter ==
  ASSUME ChainInv, QueueTypes, QueueLocal, Grows, UNCHANGED vars
  PROVE  ChainInv'
<1> USE DEF vars, queueVars, handlerVars, recordVars
<1>1. ChainTypes'
  BY DEF ChainInv, ChainTypes
<1>2. /\ \A w \in Worker : Rests(w) /\ HandlerLocal(w)'
      /\ Minting' /\ Handles' /\ OwnHelpers' /\ Succeeded'
  BY ClientFrame
<1>3. ASSUME NEW w \in Worker PROVE Awaited(w)'
  <2>1. Rests(w)
    BY <1>2
  <2>2. step[w] = "await" => at[helper[w]] \in {"create", "send"}
    BY DEF ChainInv, Awaited
  <2>. QED
    BY <2>1, <2>2, AwaitedFrame
<1>4. ASSUME NEW c \in Submitter PROVE SubmissionLocal(c)' /\ Named(asks[c])'
  BY SubmissionFrame
<1>5. \A s \in Session : Named(job[s])'
  BY NamedFrame
<1>6. Batches'
  <2>1. \A s \in Session : Submitted(s)' => Submitted(s)
    BY DEF Submitted, Created
  <2>2. \A w \in Worker : step'[w] # "none" => CarriesOn(w)
    BY DEF CarriesOn, Sent
  <2>. QED
    BY <1>1, <2>1, <2>2, BatchesFrame
<1>. QED
  BY <1>1, <1>2, <1>3, <1>4, <1>5, <1>6 DEF ChainInv

\* and every step keeps it.
LEMMA ChainStep ==
  ASSUME ChainInv, QueueTypes, QueueLocal, Q!Inv, [Next]_vars
  PROVE  ChainInv'
<1> Grows
  BY GrowsStep
<1>1. CASE UNCHANGED vars
  BY <1>1, ChainStutter
<1>2. CASE Finished
  BY <1>2, ChainStutter DEF Finished
<1>3. ASSUME NEW c \in Submitter, ClientStep(c) PROVE ChainInv'
  BY <1>3, AskStep, CreateStep, SendStep, FailSubmissionStep DEF ClientStep
<1>4. ASSUME NEW w \in Worker, Progress(w) \/ Abandon(w) PROVE ChainInv'
  BY <1>4, CallbackStep, BeginStep, MintStep, InsertStep, SidecarsStep, SubmitNextStep,
     UpsertStep, LeaveStep DEF Progress
<1>. QED
  BY <1>1, <1>2, <1>3, <1>4 DEF Next

\* ChainInv and what is proved of the queue hold of every behaviour of the
\* handlers.
THEOREM ChainInvariance == Spec => [](ChainInv /\ Q!Inv /\ Q!Dropped)
<1>1. Q!Inv /\ Q!Dropped /\ ChainInv /\ [Next]_vars => ChainInv'
  BY QueueFacts, ChainStep
<1>. QED
  BY <1>1, InitChain, QueueInvariance, PTL DEF Spec

-----------------------------------------------------------------------------
(* The properties.                                                         *)

\* A job that lodges an activity names a complete one of its item, and no edge
\* points at an activity that was not there, as long as administrators delete
\* none: whatever fails between the writes of a REGISTER handler, the job of the
\* LODGE handler is submitted after all of them.
THEOREM GraphIsNamed == Spec => []GraphNamesCompleteActivities
<1>1. ASSUME ChainInv PROVE GraphNamesCompleteActivities
  <2>1. ChainTypes /\ Handles
    BY <1>1 DEF ChainInv
  <2>2. \A s \in Session : job[s].type \in Lodges =>
          /\ job[s].activity \in configured
          /\ activity[job[s].activity].item = job[s].item
    BY <1>1 DEF ChainInv, Named
  <2>3. configured \subseteq {h \in Handle : Known(h)}
    BY <2>1 DEF ChainTypes, Handles
  <2>4. \A e \in graph : e.activity \in configured
    BY <2>1 DEF Handles
  <2>5. \A h \in Handle : /\ activity[h].item \in Item \cup {NoItem}
                          /\ activity[h].by \in Session \cup {NoHandle}
    BY <2>1 DEF ChainTypes
  <2>6. TypeOK
    BY <2>1, <2>3, <2>4, <2>5 DEF TypeOK, ChainTypes, Jobs, Steps
  <2>. QED
    BY <2>2, <2>4, <2>6 DEF GraphNamesCompleteActivities
<1>. QED
  BY <1>1, ChainInvariance, PTL

\* Sets of sessions are finite.
LEMMA SessionSetsAreFinite ==
  ASSUME NEW S, S \subseteq Session
  PROVE  IsFiniteSet(S) /\ Cardinality(S) \in Nat
<1>1. IsFiniteSet(Session)
  BY ChainMaxAssumption, FS_Interval DEF Session
<1>2. IsFiniteSet(S)
  BY <1>1, FS_Subset
<1>. QED
  BY <1>2, FS_CardinalityType

\* A set that maps into a set of sessions one to one is no larger.
LEMMA NoMore ==
  ASSUME NEW S, NEW T, T \subseteq Session, NEW f \in [S -> T],
         \A s, t \in S : f[s] = f[t] => s = t
  PROVE  IsFiniteSet(S) /\ Cardinality(S) <= Cardinality(T)
<1>1. f \in Injection(S, T)
  BY DEF Injection, IsInjective
<1>. QED
  BY <1>1, SessionSetsAreFinite, FS_Injection

\* The sessions launched for record k of a batch.
LaunchedFor(k) == {s \in SessionsOf(ModelRun(k)) : retryOf[s].by = "launch"}

\* These are the runs that OwedTo speaks of.
LEMMA LaunchedAreRuns ==
  ASSUME NEW k
  PROVE  /\ LaunchedFor(k) = {s \in Session : Runs(s, k)}
         /\ LaunchedFor(k) \subseteq Session
<1>1. ModelRun(k).type = "MODEL_RUN_PROV_LODGE"
  BY JobKinds
<1>. QED
  BY <1>1 DEF LaunchedFor, SessionsOf, Runs, Submitted, Created

\* Every run is matched with the one before it of the same batch.
LEMMA BatchIsInOrder ==
  ASSUME ChainInv
  PROVE  BatchIsSubmittedInOrder
<1>1. PICK owner \in [Session -> Session] : OwedTo(owner)
  BY DEF ChainInv, Batches
<1>2. ASSUME NEW k \in 2..BatchLength
      PROVE  Cardinality(LaunchedFor(k)) <= Cardinality(LaunchedFor(k - 1))
  <2> DEFINE S == LaunchedFor(k)
             T == LaunchedFor(k - 1)
             before(s) == CHOOSE t \in Session : Runs(t, k - 1) /\ owner[t] = owner[s]
             f == [s \in S |-> before(s)]
  <2>1. ASSUME NEW s \in S
        PROVE  before(s) \in T /\ owner[before(s)] = owner[s]
    <3>1. s \in Session /\ Runs(s, k)
      BY LaunchedAreRuns
    <3>2. \E t \in Session : Runs(t, k - 1) /\ owner[t] = owner[s]
      BY <1>1, <3>1 DEF OwedTo
    <3>3. before(s) \in Session /\ Runs(before(s), k - 1) /\ owner[before(s)] = owner[s]
      BY <3>2
    <3> HIDE DEF before
    <3>. QED
      BY <3>3, LaunchedAreRuns
  <2> HIDE DEF before
  <2>2. f \in [S -> T]
    BY <2>1
  <2>3. ASSUME NEW s \in S, NEW t \in S, f[s] = f[t] PROVE s = t
    <3>1. owner[s] = owner[t]
      BY <2>1, <2>3
    <3>2. s \in Session /\ t \in Session /\ Runs(s, k) /\ Runs(t, k)
      BY LaunchedAreRuns
    <3>. QED
      BY <1>1, <3>1, <3>2 DEF OwedTo, Runs
  <2>4. T \subseteq Session
    BY LaunchedAreRuns
  <2> HIDE DEF S, T, f
  <2>5. Cardinality(S) <= Cardinality(T)
    BY <2>2, <2>3, <2>4, NoMore
  <2>. QED
    BY <2>5 DEF S, T
<1>3. Cardinality(LaunchedFor(1)) <= Cardinality(SessionsOf(Batch))
  <2> DEFINE S == LaunchedFor(1)
             T == SessionsOf(Batch)
             f == [s \in S |-> owner[s]]
  <2>1. ASSUME NEW s \in S PROVE s \in Session /\ Runs(s, 1) /\ owner[s] \in T
    <3>1. s \in Session /\ Runs(s, 1)
      BY LaunchedAreRuns
    <3>. QED
      BY <1>1, <3>1 DEF OwedTo, Runs, SessionsOf, Created
  <2>2. f \in [S -> T]
    BY <2>1
  <2>3. ASSUME NEW s \in S, NEW t \in S, f[s] = f[t] PROVE s = t
    BY <1>1, <2>1, <2>3 DEF OwedTo, Runs
  <2>4. T \subseteq Session
    BY DEF SessionsOf
  <2> HIDE DEF S, T, f
  <2>5. Cardinality(S) <= Cardinality(T)
    BY <2>2, <2>3, <2>4, NoMore
  <2>. QED
    BY <2>5 DEF S, T
<1>. QED
  BY <1>2, <1>3 DEF BatchIsSubmittedInOrder, LaunchedFor

\* When all is quiet, a session that has not failed and was not dropped has
\* succeeded.
LEMMA QuietSessionsEnded ==
  ASSUME Q!Inv, queue = {}, \A p \in Submitter \cup Worker : at[p] \in {"idle", "done"},
         NEW s \in Session, Created(s), s \notin lost
  PROVE  status[s] \in {"SUCCEEDED", "FAILED"}
<1>1. \A w \in Worker : batch[w] = {}
  BY DEF Q!Inv, Q!WorkerLocal
<1>2. Q!AtRest(s)
  BY <1>1 DEF Q!AtRest
<1>. QED
  BY <1>2 DEF Q!Inv, Q!Types, Q!Rows, Q!Session, Session, Created

\* Without a failure or a drop, the chain of jobs of an activity has lodged it.
LEMMA CulpritIsFound ==
  ASSUME ChainInv, Q!Inv
  PROVE  UnlodgedActivityHasACulprit
<1> SUFFICES ASSUME queue = {},
                    \A p \in Submitter \cup Worker : at[p] \in {"idle", "done"},
                    NEW h \in Handle, Known(h), h \notin LodgedActivities
             PROVE  \E s \in {activity[h].by} \cup LodgingsOf(h) :
                      status[s] = "FAILED" \/ s \in lost
  BY DEF UnlodgedActivityHasACulprit
<1> DEFINE s == activity[h].by
           i == activity[h].item
<1>1. ChainTypes /\ Handles /\ Succeeded
  BY DEF ChainInv
<1>2. i \in Item /\ Created(s) /\ s \in Session /\ job[s] = Registration(i)
  BY <1>1 DEF Handles, Created
<1>3. SUFFICES ASSUME \A t \in {s} \cup LodgingsOf(h) :
                        status[t] # "FAILED" /\ t \notin lost
               PROVE  FALSE
  OBVIOUS
<1>4. status[s] = "SUCCEEDED"
  BY <1>2, <1>3, QuietSessionsEnded
<1>5. Done(s) /\ job[s].type \in Registers
  BY <1>1, <1>2, <1>4, JobKinds DEF Succeeded
<1>6. PICK g \in configured : activity[g].by = s /\ LodgingsOf(g) # {}
  BY <1>5 DEF Done
<1>7. g = h
  BY <1>1, <1>6 DEF Handles, ChainTypes
<1>8. PICK t \in LodgingsOf(h) : TRUE
  BY <1>6, <1>7
<1>9. t \in Session /\ Created(t) /\ job[t] = Lodging(i, h)
  BY <1>8 DEF LodgingsOf, SessionsOf
<1>10. status[t] = "SUCCEEDED"
  BY <1>3, <1>8, <1>9, QuietSessionsEnded
<1>11. Done(t) /\ job[t].type \in Lodges /\ job[t].activity = h
  BY <1>1, <1>2, <1>9, <1>10, JobKinds DEF Succeeded
<1>. QED
  BY <1>11 DEF Done

\* The sessions account for the work: what SUCCEEDED is done, what is missing
\* when all is quiet has a session that FAILED or was dropped, and the records
\* of a batch have been submitted in order, one job each.
THEOREM WorkIsAccountedFor == Spec => []SessionsAccountForWork
<1>1. ChainInv => SucceededMeansDone
  BY DEF ChainInv, Succeeded, Done, SucceededMeansDone
<1>2. ChainInv /\ Q!Inv => SessionsAccountForWork
  BY <1>1, CulpritIsFound, BatchIsInOrder DEF SessionsAccountForWork
<1>. QED
  BY <1>2, ChainInvariance, PTL

-----------------------------------------------------------------------------
(* The chain implements the ledger.                                        *)

\* Nothing the ledger speaks of changes.
LedgerRests ==
  /\ UNCHANGED <<activity, configured, graph>>
  /\ \A i \in Item : SessionsOf(Registration(i))' = SessionsOf(Registration(i))

\* Then the ledger stutters.
LEMMA LedgerFrame == LedgerRests => UNCHANGED Ledger!ledger
<1> SUFFICES ASSUME LedgerRests PROVE UNCHANGED Ledger!ledger
  OBVIOUS
<1>1. LodgedActivities' = LodgedActivities
  BY DEF LedgerRests, LodgedActivities, Known, IsLodged
<1>2. \A i \in Item : Cardinality(SessionsOf(Registration(i)))'
                        = Cardinality(SessionsOf(Registration(i)))
  BY DEF LedgerRests
<1>3. [i \in Item |-> Cardinality(SessionsOf(Registration(i)))]'
        = [i \in Item |-> Cardinality(SessionsOf(Registration(i)))]
  BY <1>2
<1>. QED
  BY <1>1, <1>3 DEF Ledger!ledger, LedgerRests

\* Sessions come into being by CreateSession alone.
LEMMA NoNewSession ==
  ASSUME Grows, \A s \in Session : Created(s)' => Created(s)
  PROVE  \A j : SessionsOf(j)' = SessionsOf(j)
BY DEF Grows, SessionsOf, Created

\* Workers create no session.
LEMMA WorkersCreateNone ==
  ASSUME QueueTypes, QueueLocal, NEW w \in Worker, Progress(w) \/ Abandon(w)
  PROVE  \A s \in Session : Created(s)' => Created(s)
<1> SUFFICES ASSUME NEW s \in Session, status'[s] # status[s]
             PROVE  Created(s)
  BY DEF Created
<1> USE DEF QueueTypes
<1>1. CASE Mint(w) \/ Insert(w) \/ EnsureSidecars(w) \/ UpsertEdge(w)
  BY <1>1 DEF Mint, Insert, EnsureSidecars, UpsertEdge, queueVars
<1>2. CASE SubmitNext(w) \/ Return(w) \/ Throw(w) \/ Abandon(w)
  BY <1>2 DEF SubmitNext, Submit, Queue!BeginSubmit, Queue!Ask, Return, Throw,
     Queue!RunHandler, Abandon, Queue!Abandon
<1>3. CASE Begin(w)
  <2>1. Created(cur[w])
    BY <1>3 DEF Begin, Queue!Begin, QueueLocal
  <2>. QED
    BY <1>3, <2>1 DEF Begin, Queue!Begin, Queue!SetStatus
<1>4. CASE Queue!Fetch(w)
  BY <1>4 DEF Queue!Fetch
<1>5. CASE Queue!Dequeue(w)
  BY <1>5 DEF Queue!Dequeue, Queue!SetStatus, QueueLocal
<1>6. CASE Queue!RecordSuccess(w) \/ Queue!SuccessWriteFails(w) \/ Queue!RecordFailure(w)
  <2>1. Created(cur[w])
    BY <1>6 DEF Queue!RecordSuccess, Queue!SuccessWriteFails, Queue!RecordFailure,
       QueueLocal
  <2>. QED
    BY <1>6, <2>1 DEF Queue!RecordSuccess, Queue!SuccessWriteFails,
       Queue!RecordFailure, Queue!SetStatus
<1>. QED
  BY <1>1, <1>2, <1>3, <1>4, <1>5, <1>6 DEF Progress, Callback

\* A session asks for an activity, or for something the ledger knows nothing of.
LEMMA CreateAsks ==
  ASSUME ChainInv, QueueTypes, Grows, NEW c \in Submitter, CreateSession(c)
  PROVE  [Ledger!LedgerNext]_(Ledger!ledger)
<1>1. ChainTypes
  BY DEF ChainInv
<1>2. PICK new \in Session :
        /\ ~Created(new)
        /\ status' = [status EXCEPT ![new] = "PENDING"]
        /\ job' = [job EXCEPT ![new] = asks[c]]
        /\ UNCHANGED recordVars
  BY <1>1, CreateEffect
<1>3. ASSUME NEW j
      PROVE  SessionsOf(j)' = IF asks[c] = j THEN SessionsOf(j) \cup {new}
                              ELSE SessionsOf(j)
  BY <1>1, <1>2 DEF SessionsOf, Created, ChainTypes, QueueTypes
<1>4. CASE \E i \in Item : asks[c] = Registration(i)
  <2>1. PICK i \in Item : asks[c] = Registration(i)
    BY <1>4
  <2>2. \A k \in Item : Registration(k) = Registration(i) => k = i
    BY JobKinds
  <2> DEFINE asked == [k \in Item |-> Cardinality(SessionsOf(Registration(k)))]
  <2>3. Cardinality(SessionsOf(Registration(i)))'
          = Cardinality(SessionsOf(Registration(i))) + 1
    <3> DEFINE S == SessionsOf(Registration(i))
    <3>1. S \subseteq Session /\ new \notin S
      BY <1>2 DEF SessionsOf
    <3>2. S' = S \cup {new}
      BY <1>3, <2>1
    <3>3. IsFiniteSet(S)
      BY <3>1, SessionSetsAreFinite
    <3> HIDE DEF S
    <3>4. Cardinality(S \cup {new}) = Cardinality(S) + 1
      BY <3>1, <3>3, FS_AddElement
    <3>5. Cardinality(S') = Cardinality(S) + 1
      BY <3>2, <3>4
    <3>. QED
      BY <3>5 DEF S
  <2>4. \A k \in Item \ {i} : Cardinality(SessionsOf(Registration(k)))'
                                = Cardinality(SessionsOf(Registration(k)))
    BY <1>3, <2>1, <2>2
  <2>5. asked' = [asked EXCEPT ![i] = @ + 1]
    BY <2>3, <2>4
  <2>6. LodgedActivities' = LodgedActivities
    BY <1>2 DEF recordVars, LodgedActivities, Known, IsLodged
  <2>7. Ledger!Ask(i)
    BY <1>2, <2>5, <2>6 DEF Ledger!Ask, recordVars
  <2>. QED
    BY <2>7 DEF Ledger!LedgerNext
<1>5. CASE ~ \E i \in Item : asks[c] = Registration(i)
  BY <1>2, <1>3, <1>5, LedgerFrame DEF LedgerRests, recordVars
<1>. QED
  BY <1>4, <1>5

\* The ledger counts as the chain does.
LEMMA LedgerCounts == ASSUME NEW S PROVE Ledger!Cardinality(S) = Cardinality(S)
BY DEF Ledger!Cardinality, Cardinality

\* The sidecars record an activity: there are fewer of the item than sessions
\* that ask for one, because each has a session of its own and this one's has
\* none yet.
LEMMA SidecarsRecord ==
  ASSUME ChainInv, QueueTypes, QueueLocal, Grows, NEW w \in Worker, EnsureSidecars(w)
  PROVE  [Ledger!LedgerNext]_(Ledger!ledger)
<1> DEFINE s == cur[w]
           h == mine[w]
           i == job[s].item
           recorded == [g \in Handle |-> IF g \in configured THEN activity[g].item
                                         ELSE NoItem]
           B == {b \in Handle : recorded[b] = i}
           S == SessionsOf(Registration(i))
           T == S \ {s}
           f == [b \in B |-> activity[b].by]
<1>1. ChainTypes /\ Handles /\ HandlerLocal(w)
  BY DEF ChainInv
<1>2. /\ step[w] = "sidecars" /\ at[w] = "run"
      /\ configured' = configured \cup {h}
      /\ UNCHANGED <<status, job, activity, graph>>
  BY DEF EnsureSidecars, Running, queueVars
<1>3. /\ job[s].type \in Registers /\ h \in Handle /\ h \notin configured
      /\ activity[h] = [item |-> i, by |-> s]
  BY <1>1, <1>2 DEF HandlerLocal, Made
<1>4. s \in Session /\ Created(s) /\ job[s] \in Jobs
  BY <1>1, <1>2 DEF QueueLocal, Created, ChainTypes
<1>5. i \in Item /\ job[s] = Registration(i)
  BY <1>3, <1>4, JobShape
<1>6. i # NoItem
  BY <1>5, ItemAssumption
<1>7. ASSUME NEW b \in B
      PROVE  b \in configured /\ b \in Handle /\ Known(b) /\ activity[b].by \in T
  <2>1. b \in configured /\ b \in Handle /\ activity[b].item = i
    BY <1>6
  <2>2. Known(b) /\ Known(h)
    BY <1>1, <1>3, <1>4, <2>1, ChainMaxAssumption
    DEF Handles, Known, NoActivity, NoHandle, Session
  <2>3. activity[b].by \in S
    BY <1>1, <2>1, <2>2 DEF Handles, SessionsOf, Created
  <2>4. activity[b].by # s
    BY <1>1, <1>3, <2>1, <2>2 DEF Handles
  <2>. QED
    BY <2>1, <2>2, <2>3, <2>4
<1>8. f \in [B -> T]
  BY <1>7
<1>9. ASSUME NEW a \in B, NEW b \in B, f[a] = f[b] PROVE a = b
  BY <1>1, <1>7, <1>9 DEF Handles
<1>10. S \subseteq Session /\ T \subseteq Session /\ s \in S
  BY <1>4, <1>5 DEF SessionsOf
<1>11. Cardinality(B) < Cardinality(S)
  <2> HIDE DEF B, S, f
  <2>1. IsFiniteSet(B) /\ Cardinality(B) <= Cardinality(T)
    BY <1>8, <1>9, <1>10, NoMore
  <2>2. IsFiniteSet(S) /\ Cardinality(S) \in Nat
    BY <1>10, SessionSetsAreFinite
  <2>3. Cardinality(T) = Cardinality(S) - 1
    BY <1>10, <2>2, FS_RemoveElement
  <2>4. Cardinality(B) \in Nat
    BY <2>1, FS_CardinalityType
  <2>. QED
    BY <2>1, <2>2, <2>3, <2>4
<1>12. recorded[h] = NoItem /\ h \in Handle
  BY <1>3
<1>13. recorded' = [recorded EXCEPT ![h] = i]
  <2>1. activity[h].item = i /\ activity' = activity
    BY <1>2, <1>3
  <2>2. recorded' = [g \in Handle |-> IF g \in configured \cup {h} THEN activity[g].item
                                      ELSE NoItem]
    BY <1>2, <2>1
  <2> HIDE DEF h, i
  <2>3. [recorded EXCEPT ![h] = i] = [g \in Handle |-> IF g = h THEN i ELSE recorded[g]]
    OBVIOUS
  <2>4. \A g \in Handle : (IF g \in configured \cup {h} THEN activity[g].item ELSE NoItem)
                           = IF g = h THEN i ELSE recorded[g]
    BY <2>1
  <2>. QED
    BY <2>2, <2>3, <2>4
<1>14. LodgedActivities' = LodgedActivities
  BY <1>2 DEF LodgedActivities, Known, IsLodged
<1>15. [k \in Item |-> Cardinality(SessionsOf(Registration(k)))]'
         = [k \in Item |-> Cardinality(SessionsOf(Registration(k)))]
  BY <1>2 DEF SessionsOf, Created
<1>16. [k \in Item |-> Cardinality(SessionsOf(Registration(k)))][i] = Cardinality(S)
  BY <1>5
<1> PICK a \in Handle, k \in Item : a = h /\ k = i
  BY <1>5, <1>12
<1>17. Ledger!Record(a, k)
  <2> HIDE DEF s, h, i, S
  <2>1. recorded[a] = NoItem /\ recorded' = [recorded EXCEPT ![a] = k]
    BY <1>12, <1>13
  <2>2. Cardinality({b \in Handle : recorded[b] = k})
          < [j \in Item |-> Cardinality(SessionsOf(Registration(j)))][k]
    BY <1>11, <1>16
  <2>. QED
    BY <1>14, <1>15, <2>1, <2>2, LedgerCounts DEF Ledger!Record
<1>. QED
  BY <1>17 DEF Ledger!LedgerNext

\* An activity the registry has just inserted is not lodged: no edge points at
\* what has no sidecars.
LEMMA InsertRests ==
  ASSUME ChainInv, QueueTypes, QueueLocal, Grows, NEW w \in Worker, Insert(w)
  PROVE  UNCHANGED Ledger!ledger
<1> DEFINE h == mine[w]
<1>1. ChainTypes /\ Handles /\ HandlerLocal(w)
  BY DEF ChainInv
<1>2. /\ step[w] = "insert"
      /\ activity' = [activity EXCEPT ![h] = [item |-> job[cur[w]].item, by |-> cur[w]]]
      /\ UNCHANGED <<status, job, configured, graph>>
  BY DEF Insert, Running, queueVars
<1>3. h \in Handle /\ ~Known(h) /\ h \notin configured
  BY <1>1, <1>2 DEF HandlerLocal, Handles
<1>4. \A g \in Handle \ {h} : activity'[g] = activity[g]
  BY <1>1, <1>2 DEF ChainTypes
<1>5. \A i : ~IsLodged(h, i)
  <2> SUFFICES ASSUME NEW i, IsLodged(h, i) PROVE FALSE
    OBVIOUS
  <2>1. 1 \in DOMAIN Relations(i)
    BY RelationsAreMany
  <2>2. [relation |-> Relations(i)[1], activity |-> h] \in graph
    BY <2>1 DEF IsLodged
  <2>. QED
    BY <1>1, <1>3, <2>2 DEF Handles
<1>6. LodgedActivities' = LodgedActivities
  <2>1. \A g, i : IsLodged(g, i)' <=> IsLodged(g, i)
    BY <1>2 DEF IsLodged
  <2>2. \A g \in Handle \ {h} : Known(g)' <=> Known(g)
    BY <1>4 DEF Known
  <2>3. \A g \in Handle : g \in LodgedActivities' <=>
                            Known(g)' /\ IsLodged(g, activity'[g].item)
    BY <2>1 DEF LodgedActivities, IsLodged
  <2>. QED
    BY <1>4, <1>5, <2>2, <2>3 DEF LodgedActivities
<1>7. [g \in Handle |-> IF g \in configured THEN activity[g].item ELSE NoItem]'
        = [g \in Handle |-> IF g \in configured THEN activity[g].item ELSE NoItem]
  BY <1>2, <1>3, <1>4
<1>8. [k \in Item |-> Cardinality(SessionsOf(Registration(k)))]'
        = [k \in Item |-> Cardinality(SessionsOf(Registration(k)))]
  BY <1>2 DEF SessionsOf, Created
<1>. QED
  BY <1>6, <1>7, <1>8 DEF Ledger!ledger

\* An edge lodges the job's activity, when it was the last one missing.
LEMMA UpsertLodges ==
  ASSUME ChainInv, QueueTypes, QueueLocal, Grows, NEW w \in Worker, UpsertEdge(w)
  PROVE  [Ledger!LedgerNext]_(Ledger!ledger)
<1> DEFINE a == job[cur[w]].activity
<1>1. ChainTypes /\ Handles /\ HandlerLocal(w) /\ \A s \in Session : Named(job[s])
  BY DEF ChainInv
<1>2. /\ step[w] = "upsert" /\ at[w] = "run"
      /\ UNCHANGED <<status, job, activity, configured>>
      /\ \A e \in graph' : e \in graph \/ e.activity = a
      /\ graph \subseteq graph'
  BY DEF UpsertEdge, Running, queueVars
<1>3. a \in configured
  <2>1. cur[w] \in Session /\ job[cur[w]].type \in Lodges
    BY <1>1, <1>2 DEF HandlerLocal, QueueLocal, Created
  <2>. QED
    BY <1>1, <2>1 DEF Named
<1>4. a \in Handle /\ Known(a) /\ activity[a].item \in Item
  BY <1>1, <1>3 DEF ChainTypes, Handles
<1>5. \A h, i : IsLodged(h, i)' => IsLodged(h, i) \/ h = a
  <2> SUFFICES ASSUME NEW h, NEW i, IsLodged(h, i)', h # a PROVE IsLodged(h, i)
    OBVIOUS
  <2>1. ASSUME NEW n \in DOMAIN Relations(i)
        PROVE  [relation |-> Relations(i)[n], activity |-> h] \in graph
    <3>1. [relation |-> Relations(i)[n], activity |-> h] \in graph'
      BY DEF IsLodged
    <3>. QED
      BY <1>2, <3>1
  <2>. QED
    BY <2>1 DEF IsLodged
<1>6. \A h, i : IsLodged(h, i) => IsLodged(h, i)'
  BY <1>2 DEF IsLodged
<1>7. \/ LodgedActivities' = LodgedActivities
      \/ LodgedActivities' = LodgedActivities \cup {a}
  <2>1. ASSUME NEW h \in Handle, h # a
        PROVE  h \in LodgedActivities' <=> h \in LodgedActivities
    <3>1. PICK i : i = activity[h].item
      OBVIOUS
    <3>2. h \in LodgedActivities' <=> Known(h) /\ IsLodged(h, i)'
      BY <1>2, <3>1 DEF LodgedActivities, Known, IsLodged
    <3>3. h \in LodgedActivities <=> Known(h) /\ IsLodged(h, i)
      BY <3>1 DEF LodgedActivities
    <3>. QED
      BY <1>5, <1>6, <2>1, <3>2, <3>3
  <2>2. LodgedActivities \subseteq LodgedActivities'
    BY Stable
  <2>3. LodgedActivities \subseteq Handle /\ LodgedActivities' \subseteq Handle
    BY DEF LodgedActivities
  <2>. QED
    BY <1>4, <2>1, <2>2, <2>3
<1>8. [k \in Item |-> Cardinality(SessionsOf(Registration(k)))]'
        = [k \in Item |-> Cardinality(SessionsOf(Registration(k)))]
  BY <1>2 DEF SessionsOf, Created
<1>9. [h \in Handle |-> IF h \in configured THEN activity[h].item ELSE NoItem][a] # NoItem
  BY <1>3, <1>4, ItemAssumption
<1>10. CASE LodgedActivities' = LodgedActivities
  BY <1>2, <1>8, <1>10 DEF Ledger!ledger
<1>11. CASE LodgedActivities' = LodgedActivities \cup {a}
  <2> HIDE DEF a
  <2>1. Ledger!Lodge(a)
    BY <1>2, <1>8, <1>9, <1>11 DEF Ledger!Lodge
  <2>. QED
    BY <1>4, <2>1 DEF Ledger!LedgerNext
<1>. QED
  BY <1>7, <1>10, <1>11

\* The ledger starts empty.
LEMMA LedgerStarts == Init => Ledger!LedgerInit
<1> SUFFICES ASSUME Init PROVE Ledger!LedgerInit
  OBVIOUS
<1>1. ASSUME NEW j PROVE Cardinality(SessionsOf(j)) = 0
  <2>1. SessionsOf(j) = {}
    BY DEF Init, Queue!Init, Queue!Session, Session, SessionsOf, Created
  <2>. QED
    BY <2>1, FS_EmptySet
<1>2. LodgedActivities = {}
  BY DEF Init, LodgedActivities, Known
<1>3. configured = {}
  BY DEF Init
<1>. QED
  BY <1>1, <1>2, <1>3 DEF Ledger!LedgerInit

\* Every step of the chain is one of the ledger, or none.
LEMMA LedgerStep ==
  ASSUME ChainInv, QueueTypes, QueueLocal, Q!Inv, [Next]_vars
  PROVE  [Ledger!LedgerNext]_(Ledger!ledger)
<1> Grows
  BY GrowsStep
<1>1. CASE UNCHANGED vars \/ Finished
  BY <1>1, LedgerFrame
  DEF LedgerRests, Finished, vars, queueVars, recordVars, SessionsOf, Created
<1>2. ASSUME NEW c \in Submitter, ClientStep(c) PROVE [Ledger!LedgerNext]_(Ledger!ledger)
  <2>1. CASE CreateSession(c)
    BY <2>1, CreateAsks
  <2>2. CASE ~CreateSession(c)
    <3>1. UNCHANGED <<activity, configured, graph, job, status>>
      BY <1>2, <2>2
      DEF ClientStep, Launch, Retry, Submit, Send, FailSubmission, recordVars,
          Queue!BeginSubmit, Queue!BeginAdminRetry, Queue!Ask, Queue!Send,
          Queue!FailClient
    <3>. QED
      BY <3>1, LedgerFrame DEF LedgerRests, SessionsOf, Created
  <2>. QED
    BY <2>1, <2>2
<1>3. ASSUME NEW w \in Worker, Progress(w) \/ Abandon(w)
      PROVE  [Ledger!LedgerNext]_(Ledger!ledger)
  <2>1. CASE Insert(w)
    BY <2>1, InsertRests
  <2>2. CASE EnsureSidecars(w)
    BY <2>2, SidecarsRecord
  <2>3. CASE UpsertEdge(w)
    BY <2>3, UpsertLodges
  <2>4. CASE ~Insert(w) /\ ~EnsureSidecars(w) /\ ~UpsertEdge(w)
    <3>1. UNCHANGED <<activity, configured, graph>>
      BY <1>3, <2>4
      DEF Progress, Abandon, Callback, Begin, Mint, SubmitNext, Return, Throw, recordVars
    <3>2. \A j : SessionsOf(j)' = SessionsOf(j)
      BY <1>3, WorkersCreateNone, NoNewSession
    <3>. QED
      BY <3>1, <3>2, LedgerFrame DEF LedgerRests
  <2>. QED
    BY <2>1, <2>2, <2>3, <2>4
<1>. QED
  BY <1>1, <1>2, <1>3 DEF Next

\* The handlers keep the ledger's promise: no item has more activities than it
\* was registered, no activity is final in the graph before its record is
\* complete, and they take neither record back, whatever is retried, dropped or
\* submitted again on the way.
THEOREM ChainImplementsLedger == Spec => ImplementsLedger
<1>1. ChainInv /\ Q!Inv /\ Q!Dropped /\ [Next]_vars => [Ledger!LedgerNext]_(Ledger!ledger)
  BY QueueFacts, LedgerStep
<1>. QED
  BY <1>1, LedgerStarts, ChainInvariance, PTL
  DEF Spec, ImplementsLedger, Ledger!LedgerSpec
===============================================================================
