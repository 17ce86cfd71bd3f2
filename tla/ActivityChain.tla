--------------------------- MODULE ActivityChain ---------------------------
(***************************************************************************)
(* The job handlers that submit further jobs                               *)
(* (apps/api/src/services/jobHandlers.ts), composed with the queue: a      *)
(* REGISTER job mints a handle, inserts a Create or Version activity and   *)
(* submits the LODGE job that writes its edges to the graph; a BATCH job   *)
(* submits a MODEL_RUN job for each record.                                *)
(*                                                                         *)
(* Every step of the queue is a step of JobQueue, whose RunHandler is here *)
(* the end of a handler, reached over a step per await.  A handler submits *)
(* through a client of the queue, as everybody does, and waits for it.     *)
(*                                                                         *)
(* Abstractions.  Clients are numbered in the order in which they ask.  A  *)
(* handler's search document is left to Registry, and what a MODEL_RUN job *)
(* does to ProvGraph.  An edge stands with the activity that asserts it.   *)
(* Administrators do not interfere: none deletes an activity (the DELETE   *)
(* route of routers/registry/factory.ts, an import that deletes) or clears *)
(* the graph (routers/prov/index.ts:325).  What is said of activities and  *)
(* edges is said of what the handlers do.                                  *)
(***************************************************************************)
EXTENDS Integers, Sequences, FiniteSets

CONSTANTS
  Item,           \* the items whose registration asks for an activity
  NoItem,
  Version,        \* those of Item that are versions of others
  BatchLength,    \* the model run records of a batch
  MaxLaunch,      \* bound: registrations and batches submitted by services
  Worker, MaxSession, BatchSize, AnswerMayGetLost  \* see JobQueue

ASSUME ItemAssumption == NoItem \notin Item /\ Version \subseteq Item
ASSUME BatchAssumption == BatchLength \in Nat \ {0} /\ MaxLaunch \in Nat
ASSUME ChainMaxAssumption == MaxSession \in Nat \ {0} /\ BatchSize \in Nat \ {0}
ASSUME ChainWorkerAssumption == (1..MaxSession) \cap Worker = {}
ASSUME ChainAnswerAssumption == AnswerMayGetLost \in BOOLEAN

VARIABLES
  status, retryOf, queue, at, wants, holds, batch, cur, runs, effects, lost,
  asks,       \* per client: the job it submits
  job,        \* per session: sub type and payload of the job_session row
  step,       \* per worker: the await its handler performs next
  turn,       \* per worker: rounds of its handler's loop that are through
  mine,       \* per worker: the handle its handler minted
  helper,     \* per worker: the client its handler waits for
  minted,     \* the handle sequence
  activity,   \* the registry's activity items, by handle
  configured, \* the activities that have their sidecars
  graph       \* the edges, each with the activity that asserts it

\* One client for every session.
Submitter == 1..MaxSession
NoSubmitter == 0

Queue == INSTANCE JobQueue WITH Client <- Submitter

queueVars == <<status, retryOf, queue, at, wants, holds, batch, cur, runs,
               effects, lost>>
handlerVars == <<step, turn, mine, helper>>
recordVars == <<minted, activity, configured, graph>>
vars == <<queueVars, asks, job, handlerVars, recordVars>>

-----------------------------------------------------------------------------
Session == 1..MaxSession
\* A session's handler is called once and mints at most one handle.
Handle == 1..MaxSession
NoHandle == 0

Job(type, item, act, record) ==
  [type |-> type, item |-> item, activity |-> act, record |-> record]
NoJob == Job("none", NoItem, NoHandle, 0)

Registers == {"REGISTER_CREATE_ACTIVITY", "REGISTER_VERSION_ACTIVITY"}
Lodges == {"LODGE_CREATE_ACTIVITY", "LODGE_VERSION_ACTIVITY"}

\* What the registration of an item submits (spawnCreateActivity, versionItem).
Registration(i) ==
  Job(IF i \in Version THEN "REGISTER_VERSION_ACTIVITY"
      ELSE "REGISTER_CREATE_ACTIVITY", i, NoHandle, 0)
\* What its handler submits once it has made activity h.
Lodging(i, h) ==
  Job(IF i \in Version THEN "LODGE_VERSION_ACTIVITY"
      ELSE "LODGE_CREATE_ACTIVITY", i, h, 0)
Batch == Job("MODEL_RUN_BATCH_SUBMIT", NoItem, NoHandle, 0)
ModelRun(k) == Job("MODEL_RUN_PROV_LODGE", NoItem, NoHandle, k)

NoActivity == [item |-> NoItem, by |-> NoHandle]

\* createActivityEdges, versionActivityEdges.
Relations(i) ==
  <<"wasGeneratedBy", "wasAssociatedWith", "wasAttributedTo">>
    \o (IF i \in Version THEN <<"used">> ELSE <<>>)

FirstStep(type) ==
  CASE type \in Registers -> "mint"
    [] type \in Lodges -> "upsert"
    [] type = "MODEL_RUN_BATCH_SUBMIT" -> "submit"
    [] OTHER -> "return"

Goto(w, label) == step' = [step EXCEPT ![w] = label]

Init ==
  /\ Queue!Init
  /\ asks = [c \in Submitter |-> NoJob]
  /\ job = [s \in Session |-> NoJob]
  /\ step = [w \in Worker |-> "none"]
  /\ turn = [w \in Worker |-> 0]
  /\ mine = [w \in Worker |-> NoHandle]
  /\ helper = [w \in Worker |-> NoSubmitter]
  /\ minted = 0
  /\ activity = [h \in Handle |-> NoActivity]
  /\ configured = {}
  /\ graph = {}

-----------------------------------------------------------------------------
(* Clients: services, the retry routes, and handlers that submit.          *)

\* Clients ask in the order of their numbers.
IsNext(c) ==
  at[c] = "idle" /\ \A d \in Submitter : d < c => at[d] # "idle"

Submit(c, submitted) ==
  /\ IsNext(c)
  /\ Queue!BeginSubmit(c)
  /\ asks' = [asks EXCEPT ![c] = submitted]

\* An item is registered, or a batch of model runs is posted (bound: MaxLaunch
\* of these, since chains share nothing but the queue).
Launch(c) ==
  \E launched \in {Registration(i) : i \in Item} \cup {Batch} :
    /\ launched \notin {asks[d] : d \in Submitter}
    /\ Cardinality({d \in Submitter : /\ wants[d].by = "launch"
                                      /\ asks[d].type \in Registers \/ asks[d] = Batch})
         < MaxLaunch
    /\ Submit(c, launched)
    /\ UNCHANGED <<job, handlerVars, recordVars>>

\* (seeded bug) the payload is made anew, without what the handler had added
RetriedPayload_Reset(s) == [job[s] EXCEPT !.activity = NoHandle]
RetriedPayload(s) == job[s]

\* retryJob: a new session with the payload of the old one.  What users may
\* retry, administrators may, and nothing here tells the two apart.
Retry(c) ==
  /\ IsNext(c)
  /\ Queue!BeginAdminRetry(c)
  /\ asks' = [asks EXCEPT ![c] = RetriedPayload(wants'[c].of)]
  /\ UNCHANGED <<job, handlerVars, recordVars>>

CreateSession(c) ==
  /\ Queue!CreateSession(c)
  /\ job' = [job EXCEPT ![holds'[c]] = asks[c]]
  /\ UNCHANGED <<asks, handlerVars, recordVars>>

\* (seeded bug) the loop over a batch submits the same record again
NextTurn_Same(w) == turn[w]
NextTurn(w) == turn[w] + 1

\* What a handler does when its submission is through.
AfterSubmit(w) ==
  IF job[cur[w]].type \in Registers \/ turn[w] + 1 = BatchLength
  THEN "return" ELSE "submit"

Send(c) ==
  /\ Queue!Send(c)
  /\ IF \E w \in Worker : helper[w] = c
     THEN \E w \in Worker :
            /\ helper[w] = c
            /\ helper' = [helper EXCEPT ![w] = NoSubmitter]
            /\ turn' = [turn EXCEPT ![w] = NextTurn(w)]
            /\ Goto(w, AfterSubmit(w))
     ELSE UNCHANGED <<helper, turn, step>>
  /\ UNCHANGED <<asks, job, mine, recordVars>>

\* The submission fails, and so does the handler that awaits it.
FailSubmission(c) ==
  /\ Queue!FailClient(c)
  /\ helper' = [w \in Worker |->
                  IF helper[w] = c THEN NoSubmitter ELSE helper[w]]
  /\ step' = [w \in Worker |-> IF helper[w] = c THEN "throw" ELSE step[w]]
  /\ UNCHANGED <<asks, job, turn, mine, recordVars>>

-----------------------------------------------------------------------------
(* The handlers.                                                           *)

Begin(w) ==
  /\ Queue!Begin(w)
  /\ Goto(w, FirstStep(job[cur[w]].type))
  /\ UNCHANGED <<asks, job, turn, mine, helper, recordVars>>

Running(w, label) == at[w] = "run" /\ step[w] = label

\* registry.mintHandle.
Mint(w) ==
  /\ Running(w, "mint")
  /\ minted' = minted + 1
  /\ mine' = [mine EXCEPT ![w] = minted + 1]
  /\ Goto(w, "insert")
  /\ UNCHANGED <<queueVars, asks, job, turn, helper, activity, configured,
                 graph>>

\* (seeded bug) the lodge job is submitted first
AfterInsert_Submit == "submit"
AfterInsert == "sidecars"

\* items.createCompleteItem.
Insert(w) ==
  /\ Running(w, "insert")
  /\ activity' = [activity EXCEPT ![mine[w]] =
                    [item |-> job[cur[w]].item, by |-> cur[w]]]
  /\ Goto(w, AfterInsert)
  /\ UNCHANGED <<queueVars, asks, job, turn, mine, helper, minted, configured,
                 graph>>

EnsureSidecars(w) ==
  /\ Running(w, "sidecars")
  /\ configured' = configured \cup {mine[w]}
  /\ Goto(w, "submit")
  /\ UNCHANGED <<queueVars, asks, job, turn, mine, helper, minted, activity,
                 graph>>

\* submitJob of the lodge job, or of the next record of the batch.
SubmitNext(w) ==
  /\ Running(w, "submit")
  /\ \E c \in Submitter :
       /\ Submit(c, IF job[cur[w]].type \in Registers
                    THEN Lodging(job[cur[w]].item, mine[w])
                    ELSE ModelRun(turn[w] + 1))
       /\ helper' = [helper EXCEPT ![w] = c]
  /\ Goto(w, "await")
  /\ UNCHANGED <<job, turn, mine, recordVars>>

\* upsertEdges: one edge after the other, merged with those that are there.
UpsertEdge(w) ==
  LET relations == Relations(job[cur[w]].item) IN
  /\ Running(w, "upsert")
  /\ graph' = graph \cup {[relation |-> relations[turn[w] + 1],
                           activity |-> job[cur[w]].activity]}
  /\ turn' = [turn EXCEPT ![w] = @ + 1]
  /\ Goto(w, IF turn[w] + 1 = Len(relations) THEN "return" ELSE "upsert")
  /\ UNCHANGED <<queueVars, asks, job, mine, helper, minted, activity,
                 configured>>

\* The handler's locals are gone.
Leave(w) ==
  /\ Goto(w, "none")
  /\ turn' = [turn EXCEPT ![w] = 0]
  /\ mine' = [mine EXCEPT ![w] = NoHandle]

\* (seeded bug) what an await throws is swallowed by the handler
Throws_Swallowed(w) == at'[w] = "succeed"
Throws(w) == at'[w] = "fail" /\ effects' = effects

Return(w) ==
  /\ Running(w, "return")
  /\ Queue!RunHandler(w) /\ at'[w] = "succeed"
  /\ Leave(w)
  /\ UNCHANGED <<asks, job, helper, recordVars>>

\* An await throws (for MODEL_RUN_PROV_LODGE: anywhere in its handler).
Throw(w) ==
  /\ at[w] = "run"
  /\ step[w] \notin {"await", "none"}
  /\ step[w] = "return" => job[cur[w]].type = "MODEL_RUN_PROV_LODGE"
  /\ Queue!RunHandler(w) /\ Throws(w)
  /\ Leave(w)
  /\ UNCHANGED <<asks, job, helper, recordVars>>

\* The rest of the callback.
Callback(w) ==
  /\ \/ Queue!Fetch(w) \/ Queue!Dequeue(w)
     \/ Queue!RecordSuccess(w) \/ Queue!SuccessWriteFails(w)
     \/ Queue!RecordFailure(w)
  /\ UNCHANGED <<asks, job, handlerVars, recordVars>>

\* The process stops.  Its submission, if it waits for one, stops first.
Abandon(w) ==
  /\ step[w] # "await"
  /\ Queue!Abandon(w)
  /\ Leave(w)
  /\ UNCHANGED <<asks, job, helper, recordVars>>

-----------------------------------------------------------------------------
ClientStep(c) ==
  \/ Launch(c) \/ Retry(c) \/ CreateSession(c) \/ Send(c) \/ FailSubmission(c)

Progress(w) ==
  \/ Callback(w) \/ Begin(w)
  \/ Mint(w) \/ Insert(w) \/ EnsureSidecars(w) \/ SubmitNext(w)
  \/ UpsertEdge(w) \/ Return(w) \/ Throw(w)

Finished == Queue!Finished /\ UNCHANGED vars

Next ==
  \/ \E c \in Submitter : ClientStep(c)
  \/ \E w \in Worker : Progress(w) \/ Abandon(w)
  \/ Finished

\* The fairness of JobQueue, over the steps its RunHandler is now made of.
Fairness ==
  /\ \A w \in Worker : WF_vars(Progress(w))
  /\ \A c \in Submitter : WF_vars(CreateSession(c)) /\ WF_vars(Send(c))

Spec == Init /\ [][Next]_vars /\ Fairness

-----------------------------------------------------------------------------
(* Properties.                                                             *)

Known(h) == activity[h] # NoActivity

\* All edges of an activity of an item are in the graph.
IsLodged(h, i) ==
  \A n \in DOMAIN Relations(i) :
    [relation |-> Relations(i)[n], activity |-> h] \in graph

LodgedActivities == {h \in Handle : Known(h) /\ IsLodged(h, activity[h].item)}

Created(s) == s \in Session /\ status[s] # "ABSENT"
SessionsOf(j) == {s \in Session : Created(s) /\ job[s] = j}
LodgingsOf(h) == SessionsOf(Lodging(activity[h].item, h))

\* Every variable of the handlers holds values of its type; no more handles
\* are minted than there are sessions.
TypeOK ==
  LET jobs == {NoJob, Batch} \cup {Registration(i) : i \in Item}
                \cup {Lodging(i, h) : i \in Item, h \in Handle}
                \cup {ModelRun(k) : k \in 1..BatchLength}
  IN  /\ asks \in [Submitter -> jobs]
      /\ job \in [Session -> jobs]
      /\ step \in [Worker -> {"none", "mint", "insert", "sidecars", "submit",
                              "await", "upsert", "return", "throw"}]
      /\ turn \in [Worker -> Nat]
      /\ mine \in [Worker -> Handle \cup {NoHandle}]
      /\ helper \in [Worker -> Submitter \cup {NoSubmitter}]
      /\ minted \in 0..MaxSession
      /\ \A h \in Handle : /\ activity[h].item \in Item \cup {NoItem}
                           /\ activity[h].by \in Session \cup {NoHandle}
      /\ configured \subseteq {h \in Handle : Known(h)}
      /\ \A e \in graph : e.activity \in Handle

\* A job that lodges an activity, retries included, names an activity of its
\* item that is in the registry with its sidecars, and so does every edge:
\* no handler makes the graph point at an activity that is not there.
GraphNamesCompleteActivities ==
  /\ TypeOK
  /\ \A s \in Session : job[s].type \in Lodges =>
       /\ job[s].activity \in configured
       /\ activity[job[s].activity].item = job[s].item
  /\ \A e \in graph : e.activity \in configured

\* SUCCEEDED covers what the job set in motion: a registration's activity is
\* in the registry and its lodge job exists, a lodge job's edges are all in the
\* graph, and every record of a batch has its job.
SucceededMeansDone ==
  \A s \in Session : status[s] = "SUCCEEDED" =>
    /\ job[s].type \in Registers =>
         \E h \in configured : activity[h].by = s /\ LodgingsOf(h) # {}
    /\ job[s].type \in Lodges => job[s].activity \in LodgedActivities
    /\ job[s] = Batch => \A k \in 1..BatchLength : SessionsOf(ModelRun(k)) # {}

\* An activity that nobody will lodge any more has a culprit an operator can
\* find: the session that made it has FAILED, or a failure dropped it, or one
\* of these is true of its lodge jobs.
UnlodgedActivityHasACulprit ==
  LET over == status # [s \in Session |-> "ABSENT"] /\ queue = {}
                /\ \A p \in Submitter \cup Worker : at[p] \in {"idle", "done"}
  IN  over => \A h \in Handle :
        Known(h) /\ h \notin LodgedActivities =>
          \E s \in {activity[h].by} \cup LodgingsOf(h) :
            status[s] = "FAILED" \/ s \in lost

\* A batch is submitted from its first record on, and only retries of the
\* batch or of a run's own job make more of a record than one: no more jobs
\* were launched for a record than for the one before it, nor than batches.
BatchIsSubmittedInOrder ==
  LET launched(j) ==
        Cardinality({s \in SessionsOf(j) : retryOf[s].by = "launch"})
  IN  /\ \A k \in 2..BatchLength :
           launched(ModelRun(k)) <= launched(ModelRun(k - 1))
      /\ launched(ModelRun(1)) <= Cardinality(SessionsOf(Batch))

\* The sessions account for the work: success for what was done, failure for
\* what is missing, and one batch for each run of jobs of its records.
SessionsAccountForWork ==
  /\ SucceededMeansDone
  /\ UnlodgedActivityHasACulprit
  /\ BatchIsSubmittedInOrder

\* The chain implements the ledger: an activity counts as recorded once it has
\* its sidecars.
Ledger == INSTANCE ActivityLedger WITH
  Activity <- Handle,
  asked <- [i \in Item |-> Cardinality(SessionsOf(Registration(i)))],
  recorded <- [h \in Handle |-> IF h \in configured THEN activity[h].item
                                ELSE NoItem],
  lodged <- LodgedActivities

ImplementsLedger == Ledger!LedgerSpec

\* Whoever asked for an activity gets it into the graph, unless a session of
\* the item's FAILED or was dropped.
RegistrationIsLodged ==
  \A i \in Item :
    SessionsOf(Registration(i)) # {} ~>
      \/ \E h \in LodgedActivities : activity[h].item = i
      \/ \E s \in Session : /\ job[s].item = i
                            /\ status[s] = "FAILED" \/ s \in lost
=============================================================================
