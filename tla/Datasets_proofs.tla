-------------------------- MODULE Datasets_proofs --------------------------
(* Theorems about Datasets, for any requests, handles, collection formats, *)
(* persons and operations.                                                 *)
EXTENDS Datasets, TLAPS, WellFoundedInduction, FiniteSetTheorems

-----------------------------------------------------------------------------
(* The inductive invariant.                                                *)

\* A domain info that a proper review would leave, and that shows what was
\* reviewed.
Sound(i) == Alternates(i.trail) /\ TellsItsState(i) /\ ShowsReviewed(i)

\* The approver of a pending domain info is, or was, a reviewer.
Named(i) == i.status = "PENDING" => i.approver \in reviewers \cup dropped

Proper(i) == i # NoInfo => Sound(i) /\ Named(i)

Tables ==
  \A h \in Handle :
    /\ Proper(info[h])
    /\ info[h] = NoInfo => history[h] = <<>>
    /\ h \notin drawn => info[h] = NoInfo

\* r has not inserted the dataset it drew a handle for.
Ahead(r) == pc[r] = "insert" \/ (pc[r] = "construct" /\ req[r].op = "mint")

Handles ==
  /\ \A r \in Request : fresh[r] # NoHandle => fresh[r] \in drawn
  /\ \A q, r \in Request : fresh[q] = fresh[r] /\ fresh[q] # NoHandle => q = r
  /\ \A r \in Request : Ahead(r) => fresh[r] \in Handle /\ info[fresh[r]] = NoInfo

\* What the label of r says of its locals.
Ready(r) ==
  /\ pc[r] = "idle" => fresh[r] = NoHandle
  /\ pc[r] \in {"lockCheck", "approver", "broker"} =>
       /\ req[r].id \in Handle /\ info[req[r].id] \in Info
       /\ seen[r] \in Info /\ fresh[r] = NoHandle
  /\ pc[r] = "lockCheck" /\ req[r].op = "update" => req[r].meta \in Meta
  /\ pc[r] = "lockCheck" /\ req[r].op = "revert" =>
       req[r].entry \in 1..Len(history[req[r].id])
  /\ pc[r] = "approver" => req[r].by \in Person /\ Editable(seen[r])
  /\ pc[r] = "fetch" =>
       req[r].id \in Handle /\ req[r].by \in Person /\ fresh[r] = NoHandle
  /\ pc[r] = "draw" => fresh[r] = NoHandle
  /\ pc[r] \in {"draw", "construct", "insert"} =>
       IF req[r].op = "mint" THEN req[r].meta \in Meta
       ELSE seen[r] \in Info /\ req[r].id \in Handle
  /\ pc[r] \in {"link", "refetch"} => req[r].op # "mint" /\ req[r].id \in Handle
  /\ pc[r] \in {"construct", "insert", "link", "refetch"} => fresh[r] \in Handle
  /\ pc[r] = "insert" /\ req[r].op = "mint" => out[r] \in Info
  /\ pc[r] \in {"link", "refetch"} => info[fresh[r]] \in Info
  /\ pc[r] = "construct" /\ req[r].op # "mint" => info[fresh[r]] \in Info
  /\ pc[r] \in {"repoFetch", "commit"} =>
       Target(r) \in Handle /\ info[Target(r)] \in Info /\ out[r] \in Info
  /\ pc[r] = "file" => out[r] \in Info

Local(r) == Proper(seen[r]) /\ Proper(out[r]) /\ Ready(r)

Inv ==
  /\ TypeOK
  /\ Tables
  /\ Handles
  /\ \A r \in Request : Local(r)

-----------------------------------------------------------------------------
(* Domain infos.                                                           *)

\* Handles are numbers, and no dataset has the number that stands for none.
LEMMA HandleFacts == Handle \subseteq Nat /\ NoHandle \notin Handle
BY HandleAssumption DEF NoHandle

\* NoInfo is no domain info, and it is not pending.
LEMMA NoInfoFacts ==
  /\ NoInfo \notin Info
  /\ NoInfo.status = "ABSENT"
BY DEF NoInfo, Info

\* A new domain info is sound.
LEMMA NewIsSound ==
  ASSUME NEW m \in Meta, NEW h \in Handle
  PROVE  /\ NewInfo(m, h) \in Info
         /\ Sound(NewInfo(m, h))
         /\ NewInfo(m, h).status # "PENDING"
<1>1. NewInfo(m, h) \in Info
  BY DEF NewInfo, Info, PersonOrNone
<1>2. Alternates(<<>>)
  BY DEF Alternates
<1>. QED
  BY <1>1, <1>2 DEF NewInfo, Sound, TellsItsState, ShowsReviewed

\* A domain info with another storage location is as sound as it was.
LEMMA MoveIsSound ==
  ASSUME NEW i \in Info, Sound(i), NEW h \in Handle
  PROVE  LET j == [i EXCEPT !.path = h]
         IN  /\ j \in Info /\ Sound(j)
             /\ j.status = i.status /\ j.approver = i.approver
<1> DEFINE j == [i EXCEPT !.path = h]
<1>1. j \in Info
  BY DEF Info
<1>2. /\ j.trail = i.trail /\ j.status = i.status
      /\ j.approver = i.approver /\ j.meta = i.meta
  BY DEF Info
<1>. QED
  BY <1>1, <1>2 DEF Sound, TellsItsState, ShowsReviewed

\* Editing a domain info that passes the release check keeps it sound.
LEMMA EditIsSound ==
  ASSUME NEW i \in Info, Sound(i), Editable(i), NEW m \in Meta
  PROVE  LET j == [i EXCEPT !.meta = m]
         IN  j \in Info /\ Sound(j) /\ j.status # "PENDING"
<1> DEFINE j == [i EXCEPT !.meta = m]
<1>1. j \in Info
  BY DEF Info
<1>2. j.trail = i.trail /\ j.status = i.status /\ j.approver = i.approver
  BY DEF Info
<1>. QED
  BY <1>1, <1>2 DEF Sound, TellsItsState, ShowsReviewed, Editable

\* What appending an entry does to a release history.
LEMMA AppendFacts ==
  ASSUME NEW t \in Seq(Entry), NEW e \in Entry
  PROVE  /\ Append(t, e) \in Seq(Entry)
         /\ Len(Append(t, e)) = Len(t) + 1
         /\ DOMAIN Append(t, e) = 1..(Len(t) + 1)
         /\ DOMAIN t = 1..Len(t)
         /\ Len(t) \in Nat
         /\ Append(t, e)[Len(t) + 1] = e
         /\ \A k \in 1..Len(t) : Append(t, e)[k] = t[k]
OBVIOUS

\* An entry takes its turn when the history is none or its last entry is of the
\* other kind, and the approver is the one the last request named.
LEMMA AppendAlternates ==
  ASSUME NEW t \in Seq(Entry), Alternates(t), NEW e \in Entry,
         t = <<>> => e.act = "REQUEST",
         t # <<>> => IF e.act = "REQUEST" THEN t[Len(t)].act = "REJECT"
                     ELSE t[Len(t)].act = "REQUEST" /\ e.by = t[Len(t)].by
  PROVE  Alternates(Append(t, e))
<1> DEFINE n == Len(t)
           u == Append(t, e)
<1>1. /\ DOMAIN u = 1..(n + 1) /\ DOMAIN t = 1..n /\ n \in Nat /\ Len(u) = n + 1
      /\ u[n + 1] = e /\ \A k \in 1..n : u[k] = t[k]
  BY AppendFacts
<1>2. e.act \in {"REQUEST", "APPROVE", "REJECT"}
  BY DEF Entry
<1>3. t = <<>> <=> n = 0
  OBVIOUS
<1>4. n # 0 => /\ n \in DOMAIN t
               /\ t[n].act = "REQUEST" <=> n % 2 = 1
  BY <1>1 DEF Alternates
<1>5. ASSUME NEW k \in 1..n
      PROVE  /\ u[k].act = "REQUEST" <=> k % 2 = 1
             /\ k % 2 = 0 => u[k].by = u[k - 1].by
             /\ u[k].act # "APPROVE"
  <2>1. /\ t[k].act = "REQUEST" <=> k % 2 = 1
        /\ k % 2 = 0 => t[k].by = t[k - 1].by
        /\ t[k].act = "APPROVE" => k = n
    BY <1>1 DEF Alternates
  <2>2. k % 2 = 0 => k - 1 \in 1..n
    BY <1>1
  <2>3. t[n].act # "APPROVE"
    BY <1>1, <1>3
  <2>. QED
    BY <1>1, <2>1, <2>2, <2>3
<1>6. /\ e.act = "REQUEST" <=> (n + 1) % 2 = 1
      /\ (n + 1) % 2 = 0 => n # 0 /\ e.by = t[n].by
  <2>1. CASE n = 0
    BY <2>1, <1>3
  <2>2. CASE n # 0
    BY <2>2, <1>1, <1>2, <1>3, <1>4
  <2>. QED
    BY <2>1, <2>2
<1>7. /\ u[n + 1].act = "REQUEST" <=> (n + 1) % 2 = 1
      /\ (n + 1) % 2 = 0 => u[n + 1].by = u[n + 1 - 1].by
  <2>1. n + 1 - 1 = n
    BY <1>1
  <2>2. n # 0 => n \in 1..n
    BY <1>1
  <2>. QED
    BY <1>1, <1>6, <2>1, <2>2
<1>8. ASSUME NEW k \in DOMAIN u
      PROVE  /\ u[k].act = "REQUEST" <=> k % 2 = 1
             /\ k % 2 = 0 => u[k].by = u[k - 1].by
             /\ u[k].act = "APPROVE" => k = Len(u)
  <2>1. CASE k = n + 1
    <3>1. u[n + 1].act = "APPROVE" => n + 1 = Len(u)
      BY <1>1
    <3>. QED
      BY ONLY <2>1, <3>1, <1>7
  <2>2. CASE k \in 1..n
    BY <2>2, <1>5
  <2>. QED
    BY <2>1, <2>2, <1>1
<1>. QED
  BY <1>8 DEF Alternates

\* The domain info with an entry more.
LEMMA WithEntryFacts ==
  ASSUME NEW i \in Info, NEW p \in Person,
         NEW act \in {"REQUEST", "APPROVE", "REJECT"},
         NEW status \in {"NOT_RELEASED", "PENDING", "RELEASED"},
         NEW e, e = [act |-> act, by |-> p, meta |-> i.meta],
         NEW j, j = WithEntry(i, p, act, status)
  PROVE  /\ e \in Entry /\ j \in Info
         /\ i.trail \in Seq(Entry) /\ j.trail = Append(i.trail, e)
         /\ j.status = status /\ j.approver = p /\ j.meta = i.meta
<1>1. e \in Entry /\ i.trail \in Seq(Entry)
  BY DEF Entry, Info
<1>2. Append(i.trail, e) \in Seq(Entry)
  BY <1>1, AppendFacts
<1>3. /\ j.trail = Append(i.trail, e) /\ j.status = status
      /\ j.approver = p /\ j.meta = i.meta
  BY DEF WithEntry, Info
<1>4. j \in Info
  BY <1>2 DEF WithEntry, Info, PersonOrNone
<1>. QED
  BY <1>1, <1>3, <1>4

\* A review request on a domain info that is neither pending nor released.
LEMMA RequestIsSound ==
  ASSUME NEW i \in Info, Sound(i), Editable(i), NEW p \in Person
  PROVE  LET j == WithEntry(i, p, "REQUEST", "PENDING")
         IN  j \in Info /\ Sound(j) /\ j.approver = p
<1> DEFINE e == [act |-> "REQUEST", by |-> p, meta |-> i.meta]
           j == WithEntry(i, p, "REQUEST", "PENDING")
           n == Len(i.trail)
<1>1. /\ e \in Entry /\ j \in Info
      /\ i.trail \in Seq(Entry) /\ j.trail = Append(i.trail, e)
      /\ j.status = "PENDING" /\ j.approver = p /\ j.meta = i.meta
  BY WithEntryFacts
<1>2. i.trail # <<>> => i.trail[n].act = "REJECT"
  <2>1. i.trail # <<>> => n \in 1..n /\ i.trail[n] \in Entry
    BY <1>1
  <2>2. i.status = "NOT_RELEASED"
    BY DEF Editable, Info
  <2>3. i.trail # <<>> => i.status = StatusAfter(i.trail[n].act)
    BY DEF Sound, TellsItsState
  <2>4. i.trail # <<>> => i.trail[n].act \in {"REQUEST", "APPROVE", "REJECT"}
    BY <2>1 DEF Entry
  <2>. QED
    BY <2>2, <2>3, <2>4 DEF StatusAfter
<1>3. Alternates(j.trail)
  BY <1>1, <1>2, AppendAlternates DEF Sound
<1>4. j.trail # <<>> /\ j.trail[Len(j.trail)] = e
  BY <1>1, AppendFacts
<1>. QED
  BY <1>1, <1>3, <1>4 DEF Sound, TellsItsState, StatusAfter, ShowsReviewed

\* A decision by the approver of a pending domain info.
LEMMA DecisionIsSound ==
  ASSUME NEW i \in Info, Sound(i), NEW p \in Person, MayDecide(i, p),
         NEW approve \in BOOLEAN
  PROVE  LET j == Decided(i, p, approve)
         IN  j \in Info /\ Sound(j) /\ j.status # "PENDING"
<1> DEFINE act == IF approve THEN "APPROVE" ELSE "REJECT"
           status == IF approve THEN "RELEASED" ELSE "NOT_RELEASED"
           e == [act |-> act, by |-> p, meta |-> i.meta]
           j == WithEntry(i, p, act, status)
           n == Len(i.trail)
<1>1. Decided(i, p, approve) = j
  BY DEF Decided
<1>2. /\ e \in Entry /\ j \in Info
      /\ i.trail \in Seq(Entry) /\ j.trail = Append(i.trail, e)
      /\ j.status = status /\ j.approver = p /\ j.meta = i.meta
  <2>1. /\ act \in {"REQUEST", "APPROVE", "REJECT"}
        /\ status \in {"NOT_RELEASED", "PENDING", "RELEASED"}
    OBVIOUS
  <2>. QED
    BY <2>1, WithEntryFacts
<1>3. /\ i.trail # <<>> /\ n \in 1..n /\ n \in Nat
      /\ i.trail[n].act = "REQUEST" /\ i.trail[n].by = p
      /\ i.trail[n].meta = i.meta
  <2>1. i.trail # <<>>
    BY DEF Sound, TellsItsState, MayDecide
  <2>2. n \in 1..n /\ n \in Nat /\ i.trail[n] \in Entry
    BY <1>2, <2>1
  <2>3. i.status = StatusAfter(i.trail[n].act) /\ i.approver = i.trail[n].by
    BY <2>1 DEF Sound, TellsItsState
  <2>4. i.trail[n].act \in {"REQUEST", "APPROVE", "REJECT"}
    BY <2>2 DEF Entry
  <2>5. i.status = "PENDING" /\ i.approver = p
    BY DEF MayDecide
  <2>6. i.trail[n].act = "REQUEST"
    BY <2>3, <2>4, <2>5 DEF StatusAfter
  <2>7. i.trail[n].meta = i.meta
    BY <2>5 DEF Sound, ShowsReviewed
  <2>. QED
    BY <2>1, <2>2, <2>3, <2>5, <2>6, <2>7
<1>4. Alternates(j.trail)
  BY <1>2, <1>3, AppendAlternates DEF Sound
<1>5. /\ j.trail # <<>> /\ Len(j.trail) = n + 1
      /\ j.trail[n + 1] = e /\ j.trail[n] = i.trail[n]
  <2>1. /\ Len(Append(i.trail, e)) = n + 1
        /\ Append(i.trail, e)[n + 1] = e
        /\ \A k \in 1..n : Append(i.trail, e)[k] = i.trail[k]
    BY <1>2, AppendFacts
  <2>2. Append(i.trail, e) # <<>>
    BY <1>2, <1>3, <2>1
  <2>. QED
    BY <1>2, <1>3, <2>1, <2>2
<1>6. TellsItsState(j)
  <2>1. status = StatusAfter(act)
    BY DEF StatusAfter
  <2>2. j.trail[Len(j.trail)].act = act /\ j.trail[Len(j.trail)].by = p
    BY <1>5
  <2>. QED
    BY <1>2, <1>5, <2>1, <2>2 DEF TellsItsState
<1>7. ShowsReviewed(j)
  <2>1. n + 1 - 1 = n
    BY <1>3
  <2>. QED
    BY <1>2, <1>3, <1>5, <2>1 DEF ShowsReviewed
<1>. QED
  BY <1>1, <1>2, <1>4, <1>6, <1>7 DEF Sound

-----------------------------------------------------------------------------
(* The initial states.                                                     *)

\* The invariant holds initially, with one dataset that nobody reviewed.
LEMMA InitInv == Init => Inv
<1> SUFFICES ASSUME Init PROVE Inv
  OBVIOUS
<1> DEFINE h == Min(Handle)
<1>1. h \in Handle
  <2>1. Handle \subseteq Nat /\ Handle # {}
    BY HandleAssumption
  <2>2. \E k \in Handle : \A x \in Handle : ~(<<x, k>> \in OpToRel(<, Nat))
    BY <2>1, NatLessThanWellFounded, WFMin
  <2>3. ASSUME NEW k \in Handle, NEW x \in Handle,
               ~(<<x, k>> \in OpToRel(<, Nat))
        PROVE  k <= x
    BY <2>1, <2>3 DEF OpToRel
  <2>4. \E k \in Handle : \A x \in Handle : k <= x
    BY <2>2, <2>3
  <2>. QED
    BY <2>4 DEF Min
<1>2. PICK m \in Meta :
        /\ info = [k \in Handle |-> IF k = h THEN NewInfo(m, h) ELSE NoInfo]
        /\ history = [k \in Handle |-> IF k = h THEN <<NewInfo(m, h)>> ELSE <<>>]
        /\ file = [k \in Handle |-> IF k = h THEN m ELSE NoMeta]
  BY DEF Init
<1>3. /\ NewInfo(m, h) \in Info /\ Sound(NewInfo(m, h))
      /\ NewInfo(m, h).status # "PENDING"
  BY <1>1, NewIsSound
<1>4. Asks("none", NoHandle) \in ReqRecord
  BY DEF Asks, ReqRecord, HandleOrNone, PersonOrNone
<1>5. TypeOK
  BY <1>1, <1>2, <1>3, <1>4
     DEF Init, TypeOK, InfoOrNone, HandleOrNone, NoHandle
<1>6. Tables
  BY <1>1, <1>2, <1>3, NoInfoFacts DEF Init, Tables, Proper, Named
<1>7. Handles
  BY DEF Init, Handles, Ahead, NoHandle
<1>8. \A r \in Request : Local(r)
  BY DEF Init, Local, Proper, Ready
<1>. QED
  BY <1>5, <1>6, <1>7, <1>8 DEF Inv

-----------------------------------------------------------------------------
(* Steps of r that leave the datasets and the handles alone.               *)

\* What the locals of the other requests do in a step of r.
OthersStay(r) ==
  \A q \in Request : q # r =>
    /\ pc'[q] = pc[q] /\ req'[q] = req[q] /\ seen'[q] = seen[q]
    /\ out'[q] = out[q] /\ fresh'[q] = fresh[q]

\* Such a step keeps the invariant if it keeps the types and what is local to r.
LEMMA Quiet ==
  ASSUME Inv, TypeOK', NEW r \in Request, OthersStay(r),
         UNCHANGED <<info, history, reviewers, dropped, drawn>>,
         fresh'[r] = fresh[r], Ahead(r)' => Ahead(r), Local(r)'
  PROVE  Inv'
<1> USE DEF Inv
<1>1. Tables'
  BY DEF Tables, Proper, Named
<1>2. \A q \in Request : fresh'[q] = fresh[q]
  BY DEF OthersStay
<1>3. Handles'
  <2>1. ASSUME NEW q \in Request, Ahead(q)'
        PROVE  Ahead(q)
    BY <2>1 DEF OthersStay, Ahead
  <2>. QED
    BY <1>2, <2>1 DEF Handles
<1>4. ASSUME NEW q \in Request
      PROVE  Local(q)'
  <2>1. CASE q = r
    BY <2>1
  <2>2. CASE q # r
    <3>1. Target(q)' = Target(q)
      BY <2>2 DEF Target, OthersStay
    <3>. QED
      BY <2>2, <3>1 DEF OthersStay, Local, Proper, Named, Ready
  <2>. QED
    BY <2>1, <2>2
<1>. QED
  BY <1>1, <1>3, <1>4

\* Fetching a dataset, for a request that is well formed.
LEMMA FetchStep ==
  ASSUME Inv, NEW r \in Request, NEW request \in ReqRecord,
         NEW label \in {"lockCheck", "approver"}, Fetch(r, request, label),
         request.id \in Handle, request.op # "mint",
         label = "lockCheck" /\ request.op = "update" => request.meta \in Meta,
         label = "lockCheck" /\ request.op = "revert" =>
           request.entry \in 1..Len(history[request.id]),
         label = "approver" =>
           request.by \in Person /\ Editable(info[request.id])
  PROVE  Inv'
<1> USE DEF Fetch, Goto, store
<1>1. TypeOK'
  BY DEF Inv, TypeOK, InFlight
<1>2. /\ OthersStay(r) /\ fresh'[r] = fresh[r]
      /\ UNCHANGED <<info, history, reviewers, dropped, drawn>>
  BY DEF Inv, TypeOK, OthersStay
<1>3. /\ pc'[r] = label /\ req'[r] = request /\ seen'[r] = info[request.id]
      /\ out'[r] = out[r] /\ pc[r] = "idle"
  BY DEF Inv, TypeOK
<1>4. ~Ahead(r)'
  BY <1>3 DEF Ahead
<1>5. info[request.id] \in Info /\ Proper(info[request.id])
  BY DEF Inv, TypeOK, Tables, InfoOrNone, Exists
<1>6. fresh[r] = NoHandle /\ Proper(out[r])
  BY <1>3 DEF Inv, Local, Ready
<1>7. Proper(seen[r])' /\ Proper(out[r])'
  BY <1>2, <1>3, <1>5, <1>6 DEF Proper, Named
<1>8. Ready(r)'
  BY <1>2, <1>3, <1>5, <1>6 DEF Ready
<1>. QED
  BY <1>1, <1>2, <1>4, <1>7, <1>8, Quiet DEF Local

\* Updates, reverts, versions, write credentials and review requests begin.
LEMMA BeginStep ==
  ASSUME Inv, NEW r \in Request,
         BeginUpdate(r) \/ BeginRevert(r) \/ BeginVersion(r) \/ BeginGrant(r)
           \/ BeginRequest(r)
  PROVE  Inv'
<1>1. CASE BeginUpdate(r)
  <2>1. PICK h \in Handle, m \in Meta :
          Fetch(r, [Asks("update", h) EXCEPT !.meta = m], "lockCheck")
    BY <1>1 DEF BeginUpdate
  <2> DEFINE q == [Asks("update", h) EXCEPT !.meta = m]
  <2>2. q \in ReqRecord /\ q.id = h /\ q.op = "update" /\ q.meta = m
    BY DEF Asks, ReqRecord, AllOps, HandleOrNone, PersonOrNone
  <2>. QED
    BY <2>1, <2>2, FetchStep
<1>2. CASE BeginRevert(r)
  <2>0. PICK h \in Handle : \E i \in DOMAIN history[h] :
          Fetch(r, [Asks("revert", h) EXCEPT !.entry = i], "lockCheck")
    BY <1>2 DEF BeginRevert
  <2>1. PICK i \in DOMAIN history[h] :
          Fetch(r, [Asks("revert", h) EXCEPT !.entry = i], "lockCheck")
    BY <2>0
  <2> DEFINE q == [Asks("revert", h) EXCEPT !.entry = i]
  <2>2. i \in 1..Len(history[h]) /\ i \in Nat
    BY DEF Inv, TypeOK
  <2>3. q \in ReqRecord /\ q.id = h /\ q.op = "revert" /\ q.entry = i
    BY <2>2 DEF Asks, ReqRecord, AllOps, HandleOrNone, PersonOrNone
  <2>. QED
    BY <2>1, <2>2, <2>3, FetchStep
<1>3. CASE BeginVersion(r)
  <2>1. PICK h \in Handle : Fetch(r, Asks("version", h), "lockCheck")
    BY <1>3 DEF BeginVersion
  <2>2. /\ Asks("version", h) \in ReqRecord
        /\ Asks("version", h).id = h /\ Asks("version", h).op = "version"
    BY DEF Asks, ReqRecord, AllOps, HandleOrNone, PersonOrNone
  <2>. QED
    BY <2>1, <2>2, FetchStep
<1>4. CASE BeginGrant(r)
  <2>1. PICK h \in Handle : Fetch(r, Asks("grant", h), "lockCheck")
    BY <1>4 DEF BeginGrant
  <2>2. /\ Asks("grant", h) \in ReqRecord
        /\ Asks("grant", h).id = h /\ Asks("grant", h).op = "grant"
    BY DEF Asks, ReqRecord, AllOps, HandleOrNone, PersonOrNone
  <2>. QED
    BY <2>1, <2>2, FetchStep
<1>5. CASE BeginRequest(r)
  <2>1. PICK h \in Handle, p \in Person :
          /\ Editable(info[h])
          /\ Fetch(r, [Asks("request", h) EXCEPT !.by = p], "approver")
    BY <1>5 DEF BeginRequest
  <2> DEFINE q == [Asks("request", h) EXCEPT !.by = p]
  <2>2. q \in ReqRecord /\ q.id = h /\ q.op = "request" /\ q.by = p
    BY DEF Asks, ReqRecord, AllOps, HandleOrNone, PersonOrNone
  <2>. QED
    BY <2>1, <2>2, FetchStep
<1>. QED
  BY <1>1, <1>2, <1>3, <1>4, <1>5

\* A step of r that changes no more than its label and out[r] is quiet.
LEMMA CheckStep ==
  ASSUME Inv, NEW r \in Request, NEW label, NEW i \in InfoOrNone,
         pc' = [pc EXCEPT ![r] = label], out' = [out EXCEPT ![r] = i],
         label \in InFlight \cup Ended, UNCHANGED <<store, req, seen, base, fresh>>,
         pc[r] # "insert" => label # "insert",
         label # "construct", Proper(i), Ready(r)'
  PROVE  Inv'
<1> USE DEF store
<1>1. TypeOK'
  BY DEF Inv, TypeOK
<1>2. /\ OthersStay(r) /\ fresh'[r] = fresh[r]
      /\ UNCHANGED <<info, history, reviewers, dropped, drawn>>
  BY DEF Inv, TypeOK, OthersStay
<1>3. Ahead(r)' => Ahead(r)
  BY DEF Ahead, Inv, TypeOK
<1>4. out'[r] = i /\ seen'[r] = seen[r]
  BY DEF Inv, TypeOK
<1>5. Local(r)'
  BY <1>2, <1>4 DEF Inv, Local, Proper, Named
<1>. QED
  BY <1>1, <1>2, <1>3, <1>5, Quiet

\* Requests that have not drawn a handle write to the dataset they name.
LEMMA TargetOfEdit ==
  ASSUME NEW r \in Request, fresh[r] = NoHandle
  PROVE  Target(r) = req[r].id
BY DEF Target

\* A request that is about to write has a target and something to write.
LEMMA ReadyToWrite ==
  ASSUME NEW r \in Request, TypeOK,
         pc' = [pc EXCEPT ![r] = "repoFetch"], out'[r] \in Info,
         UNCHANGED <<info, req, fresh>>,
         Target(r) \in Handle, info[Target(r)] \in Info
  PROVE  Ready(r)'
<1>1. Target(r)' = Target(r) /\ pc'[r] = "repoFetch"
  BY DEF Target, TypeOK
<1>. QED
  BY <1>1 DEF Ready

\* The lock and release checks let edits through with a sound domain info.
LEMMA CheckLockStep ==
  ASSUME Inv, NEW r \in Request, CheckLock(r)
  PROVE  Inv'
<1> USE DEF Goto
<1>1. /\ pc[r] = "lockCheck" /\ seen[r] \in Info /\ Sound(seen[r])
      /\ req[r].id \in Handle /\ info[req[r].id] \in Info /\ fresh[r] = NoHandle
      /\ Proper(out[r]) /\ out[r] \in InfoOrNone
  BY NoInfoFacts DEF CheckLock, Inv, Local, Ready, Proper, TypeOK
<1>2. Target(r) = req[r].id
  BY <1>1, TargetOfEdit
<1>3. out = [out EXCEPT ![r] = out[r]]
  BY DEF Inv, TypeOK
<1>4. CASE pc' = [pc EXCEPT ![r] = "refused"] /\ out' = out
  <2>1. Ready(r)'
    BY <1>4 DEF Ready, Inv, TypeOK
  <2>. QED
    BY <1>1, <1>3, <1>4, <2>1, CheckStep DEF CheckLock, InFlight, Ended
<1>5. CASE /\ Editable(seen[r]) /\ req[r].op = "update"
           /\ out' = [out EXCEPT ![r] = [seen[r] EXCEPT !.meta = req[r].meta]]
           /\ pc' = [pc EXCEPT ![r] = "repoFetch"]
  <2> DEFINE i == [seen[r] EXCEPT !.meta = req[r].meta]
  <2>1. req[r].meta \in Meta
    BY <1>1, <1>5 DEF Inv, Local, Ready
  <2>2. i \in Info /\ Sound(i) /\ i.status # "PENDING"
    BY <1>1, <1>5, <2>1, EditIsSound
  <2>3. Proper(i) /\ i \in InfoOrNone
    BY <2>2 DEF Proper, Named, InfoOrNone
  <2>4. out'[r] \in Info /\ UNCHANGED <<store, info, req, seen, base, fresh>>
    BY <1>5, <2>2 DEF CheckLock, store, Inv, TypeOK
  <2>5. Ready(r)'
    BY <1>1, <1>2, <1>5, <2>4, ReadyToWrite DEF Inv
  <2>. QED
    BY <1>1, <1>5, <2>3, <2>4, <2>5, CheckStep DEF InFlight
<1>6. CASE /\ Editable(seen[r]) /\ req[r].op = "revert"
           /\ out' = [out EXCEPT ![r] = Reverted(r)]
           /\ pc' = [pc EXCEPT ![r] = "repoFetch"]
  <2> DEFINE m == history[req[r].id][req[r].entry].meta
             i == [seen[r] EXCEPT !.meta = m]
  <2>1. m \in Meta
    <3>1. req[r].entry \in 1..Len(history[req[r].id])
      BY <1>1, <1>6 DEF Inv, Local, Ready
    <3>2. history[req[r].id] \in Seq(Info)
      BY <1>1 DEF Inv, TypeOK
    <3>3. history[req[r].id][req[r].entry] \in Info
      BY <3>1, <3>2
    <3>. QED
      BY <3>3 DEF Info
  <2>2. i \in Info /\ Sound(i) /\ i.status # "PENDING"
    BY <1>1, <1>6, <2>1, EditIsSound
  <2>3. Proper(i) /\ i \in InfoOrNone /\ Reverted(r) = i
    BY <2>2 DEF Proper, Named, InfoOrNone, Reverted
  <2>4. out'[r] \in Info /\ UNCHANGED <<store, info, req, seen, base, fresh>>
    BY <1>6, <2>2, <2>3 DEF CheckLock, store, Inv, TypeOK
  <2>5. Ready(r)'
    BY <1>1, <1>2, <1>6, <2>4, ReadyToWrite DEF Inv
  <2>. QED
    BY <1>1, <1>6, <2>3, <2>4, <2>5, CheckStep DEF InFlight
<1>7. CASE /\ req[r].op \in {"version", "grant"} /\ out' = out
           /\ pc' = [pc EXCEPT ![r] = IF req[r].op = "version" THEN "draw" ELSE "broker"]
  <2> DEFINE label == IF req[r].op = "version" THEN "draw" ELSE "broker"
  <2>1. pc'[r] = label /\ label \in InFlight /\ UNCHANGED <<store, info, req, seen, base, fresh>>
    BY <1>7 DEF CheckLock, store, Inv, TypeOK, InFlight
  <2>2. Ready(r)'
    BY <1>1, <1>7, <2>1 DEF Ready
  <2>. QED
    BY <1>1, <1>3, <1>7, <2>1, <2>2, CheckStep
<1>. QED
  BY <1>4, <1>5, <1>6, <1>7 DEF CheckLock

\* A review request names a reviewer.
LEMMA CheckApproverStep ==
  ASSUME Inv, NEW r \in Request, CheckApprover(r)
  PROVE  Inv'
<1> USE DEF Goto
<1>1. /\ pc[r] = "approver" /\ seen[r] \in Info /\ Sound(seen[r])
      /\ req[r].id \in Handle /\ info[req[r].id] \in Info /\ fresh[r] = NoHandle
      /\ Proper(out[r]) /\ out[r] \in InfoOrNone
      /\ req[r].by \in Person /\ Editable(seen[r])
  BY NoInfoFacts DEF CheckApprover, Inv, Local, Ready, Proper, TypeOK
<1>2. Target(r) = req[r].id
  BY <1>1, TargetOfEdit
<1>3. out = [out EXCEPT ![r] = out[r]]
  BY DEF Inv, TypeOK
<1>4. CASE pc' = [pc EXCEPT ![r] = "refused"] /\ out' = out
  <2>1. Ready(r)'
    BY <1>4 DEF Ready, Inv, TypeOK
  <2>. QED
    BY <1>1, <1>3, <1>4, <2>1, CheckStep DEF CheckApprover, InFlight, Ended
<1>5. CASE /\ IsReviewer(req[r].by)
           /\ out' = [out EXCEPT ![r] =
                        WithEntry(seen[r], req[r].by, "REQUEST", "PENDING")]
           /\ pc' = [pc EXCEPT ![r] = "repoFetch"]
  <2> DEFINE i == WithEntry(seen[r], req[r].by, "REQUEST", "PENDING")
  <2>1. i \in Info /\ Sound(i) /\ i.approver = req[r].by
    BY <1>1, RequestIsSound
  <2>2. Proper(i) /\ i \in InfoOrNone
    BY <1>5, <2>1 DEF Proper, Named, InfoOrNone, IsReviewer
  <2>3. out'[r] \in Info /\ UNCHANGED <<store, info, req, seen, base, fresh>>
    BY <1>5, <2>1 DEF CheckApprover, store, Inv, TypeOK
  <2>4. Ready(r)'
    BY <1>1, <1>2, <1>5, <2>3, ReadyToWrite DEF Inv
  <2>. QED
    BY <1>1, <1>5, <2>2, <2>3, <2>4, CheckStep DEF InFlight
<1>. QED
  BY <1>4, <1>5 DEF CheckApprover

\* A reviewer's decision begins with the reviewer check.
LEMMA BeginDecisionStep ==
  ASSUME Inv, NEW r \in Request, BeginDecision(r)
  PROVE  Inv'
<1> USE DEF Goto, store
<1>1. PICK h \in Handle, p \in Person, approve \in BOOLEAN :
        /\ pc[r] = "idle"
        /\ req' = [req EXCEPT ![r] =
                     [Asks("decide", h) EXCEPT !.by = p, !.approve = approve]]
        /\ pc' = [pc EXCEPT ![r] = "fetch"]
        /\ UNCHANGED <<store, seen, out, base, fresh>>
  BY DEF BeginDecision
<1> DEFINE q == [Asks("decide", h) EXCEPT !.by = p, !.approve = approve]
<1>2. q \in ReqRecord /\ q.id = h /\ q.by = p
  BY DEF Asks, ReqRecord, AllOps, HandleOrNone, PersonOrNone
<1>3. TypeOK'
  BY <1>1, <1>2 DEF Inv, TypeOK, InFlight
<1>4. /\ OthersStay(r) /\ fresh'[r] = fresh[r]
      /\ UNCHANGED <<info, history, reviewers, dropped, drawn>>
      /\ req'[r] = q /\ pc'[r] = "fetch"
  BY <1>1 DEF Inv, TypeOK, OthersStay
<1>5. Ready(r)'
  BY <1>1, <1>2, <1>4 DEF Inv, Local, Ready
<1>6. Local(r)' /\ ~Ahead(r)'
  BY <1>1, <1>4, <1>5 DEF Inv, Local, Proper, Named, Ahead
<1>. QED
  BY <1>3, <1>4, <1>6, Quiet

\* A decision is made on a pending dataset by its approver.
LEMMA FetchForDecisionStep ==
  ASSUME Inv, NEW r \in Request, FetchForDecision(r)
  PROVE  Inv'
<1> USE DEF Goto, store
<1> DEFINE i == info[req[r].id]
           j == Decided(i, req[r].by, req[r].approve)
<1>1. /\ pc[r] = "fetch" /\ req[r].id \in Handle /\ req[r].by \in Person
      /\ fresh[r] = NoHandle /\ i \in InfoOrNone /\ Proper(i) /\ Proper(out[r])
      /\ req[r].approve \in BOOLEAN /\ out[r] \in InfoOrNone
  BY DEF FetchForDecision, Inv, Tables, Local, Ready, TypeOK, ReqRecord
<1>2. Target(r) = req[r].id
  BY <1>1, TargetOfEdit
<1>3. /\ seen' = [seen EXCEPT ![r] = i]
      /\ UNCHANGED <<store, req, base, fresh>>
  BY DEF FetchForDecision
<1>4. CASE pc' = [pc EXCEPT ![r] = "refused"] /\ out' = out
  <2>1. TypeOK'
    BY <1>1, <1>3, <1>4 DEF Inv, TypeOK, Ended
  <2>2. /\ OthersStay(r) /\ fresh'[r] = fresh[r]
        /\ UNCHANGED <<info, history, reviewers, dropped, drawn>>
        /\ seen'[r] = i /\ pc'[r] = "refused" /\ out'[r] = out[r]
    BY <1>3, <1>4 DEF Inv, TypeOK, OthersStay
  <2>3. Ready(r)' /\ ~Ahead(r)'
    BY <2>2 DEF Ready, Ahead
  <2>4. Local(r)'
    BY <1>1, <2>2, <2>3 DEF Local, Proper, Named
  <2>. QED
    BY <2>1, <2>2, <2>3, <2>4, Quiet
<1>5. CASE /\ MayDecide(i, req[r].by)
           /\ out' = [out EXCEPT ![r] = j]
           /\ pc' = [pc EXCEPT ![r] = "repoFetch"]
  <2>1. i \in Info /\ Sound(i)
    BY <1>1, <1>5, NoInfoFacts DEF MayDecide, InfoOrNone, Proper
  <2>2. j \in Info /\ Sound(j) /\ j.status # "PENDING"
    BY <1>1, <1>5, <2>1, DecisionIsSound
  <2>3. Proper(j) /\ j \in InfoOrNone
    BY <2>2 DEF Proper, Named, InfoOrNone
  <2>4. TypeOK'
    BY <1>1, <1>3, <1>5, <2>3 DEF Inv, TypeOK, InFlight
  <2>5. /\ OthersStay(r) /\ fresh'[r] = fresh[r]
        /\ UNCHANGED <<info, history, reviewers, dropped, drawn>>
        /\ seen'[r] = i /\ pc'[r] = "repoFetch" /\ out'[r] = j
    BY <1>3, <1>5 DEF Inv, TypeOK, OthersStay
  <2>6. Ready(r)'
    BY <1>1, <1>2, <1>3, <1>5, <2>1, <2>2, <2>5, ReadyToWrite DEF Inv
  <2>7. Local(r)' /\ ~Ahead(r)'
    BY <1>1, <2>3, <2>5, <2>6 DEF Local, Proper, Named, Ahead
  <2>. QED
    BY <2>4, <2>5, <2>7, Quiet
<1>. QED
  BY <1>4, <1>5 DEF FetchForDecision

\* A request to mint a dataset has a collection format.
LEMMA BeginMintStep ==
  ASSUME Inv, NEW r \in Request, BeginMint(r)
  PROVE  Inv'
<1> USE DEF Goto, store
<1>1. PICK m \in Meta :
        /\ pc[r] = "idle"
        /\ req' = [req EXCEPT ![r] = [Asks("mint", NoHandle) EXCEPT !.meta = m]]
        /\ pc' = [pc EXCEPT ![r] = "draw"]
        /\ UNCHANGED <<store, seen, out, base, fresh>>
  BY DEF BeginMint
<1> DEFINE q == [Asks("mint", NoHandle) EXCEPT !.meta = m]
<1>2. q \in ReqRecord /\ q.op = "mint" /\ q.meta = m
  BY DEF Asks, ReqRecord, AllOps, HandleOrNone, PersonOrNone
<1>3. TypeOK'
  BY <1>1, <1>2 DEF Inv, TypeOK, InFlight
<1>4. /\ OthersStay(r) /\ fresh'[r] = fresh[r]
      /\ UNCHANGED <<info, history, reviewers, dropped, drawn>>
      /\ req'[r] = q /\ pc'[r] = "draw"
  BY <1>1 DEF Inv, TypeOK, OthersStay
<1>5. Ready(r)'
  BY <1>1, <1>2, <1>4 DEF Inv, Local, Ready
<1>6. Local(r)' /\ ~Ahead(r)'
  BY <1>1, <1>4, <1>5 DEF Inv, Local, Proper, Named, Ahead
<1>. QED
  BY <1>3, <1>4, <1>6, Quiet

\* A new location leaves what is written about a dataset sound.
LEMMA ConstructStep ==
  ASSUME Inv, NEW r \in Request, Construct(r)
  PROVE  Inv'
<1> USE DEF Goto, store
<1>1. /\ pc[r] = "construct" /\ fresh[r] \in Handle /\ Proper(out[r])
      /\ fresh[r] # NoHandle /\ out[r] \in InfoOrNone /\ Proper(seen[r])
  BY HandleFacts DEF Construct, Inv, Local, Ready, TypeOK
<1>2. UNCHANGED <<store, req, seen, base, fresh>>
  BY DEF Construct
<1>3. Target(r) = fresh[r] /\ Target(r)' = Target(r)
  BY <1>1, <1>2 DEF Target
<1>4. OthersStay(r) /\ UNCHANGED <<info, history, reviewers, dropped, drawn>>
  BY <1>2 DEF Construct, Inv, TypeOK, OthersStay
<1>5. CASE pc' = [pc EXCEPT ![r] = "failed"] /\ out' = out
  <2>1. TypeOK'
    BY <1>2, <1>5 DEF Inv, TypeOK, Ended
  <2>2. Local(r)' /\ ~Ahead(r)'
    BY <1>1, <1>2, <1>5 DEF Inv, TypeOK, Local, Ready, Proper, Named, Ahead
  <2>. QED
    BY <1>2, <1>4, <2>1, <2>2, Quiet
<1>6. CASE /\ req[r].op = "mint"
           /\ out' = [out EXCEPT ![r] = NewInfo(req[r].meta, fresh[r])]
           /\ pc' = [pc EXCEPT ![r] = "insert"]
  <2> DEFINE i == NewInfo(req[r].meta, fresh[r])
  <2>1. i \in Info /\ Sound(i) /\ i.status # "PENDING" /\ req[r].meta \in Meta
    BY <1>1, <1>6, NewIsSound DEF Inv, Local, Ready
  <2>2. TypeOK'
    BY <1>2, <1>6, <2>1 DEF Inv, TypeOK, InFlight, InfoOrNone
  <2>3. pc'[r] = "insert" /\ out'[r] = i
    BY <1>6 DEF Inv, TypeOK
  <2>4. Local(r)'
    BY <1>1, <1>2, <1>6, <2>1, <2>3 DEF Local, Ready, Proper, Named
  <2>5. Ahead(r)
    BY <1>1, <1>6 DEF Ahead
  <2>. QED
    BY <1>2, <1>4, <2>2, <2>4, <2>5, Quiet
<1>7. CASE /\ req[r].op # "mint"
           /\ out' = [out EXCEPT ![r] = [seen[r] EXCEPT !.path = fresh[r]]]
           /\ pc' = [pc EXCEPT ![r] = "repoFetch"]
  <2> DEFINE i == [seen[r] EXCEPT !.path = fresh[r]]
  <2>1. seen[r] \in Info /\ info[fresh[r]] \in Info
    BY <1>1, <1>7 DEF Inv, Local, Ready
  <2>2. Sound(seen[r]) /\ Named(seen[r])
    BY <1>1, <2>1, NoInfoFacts DEF Proper
  <2>3. /\ i \in Info /\ Sound(i)
        /\ i.status = seen[r].status /\ i.approver = seen[r].approver
    BY <1>1, <2>1, <2>2, MoveIsSound
  <2>4. Proper(i)
    BY <2>2, <2>3 DEF Proper, Named
  <2>5. TypeOK'
    BY <1>2, <1>7, <2>3 DEF Inv, TypeOK, InFlight, InfoOrNone
  <2>6. pc'[r] = "repoFetch" /\ out'[r] = i
    BY <1>7 DEF Inv, TypeOK
  <2>7. Ready(r)'
    BY <1>1, <1>2, <1>3, <1>7, <2>1, <2>3, <2>6, ReadyToWrite DEF Inv
  <2>8. Local(r)' /\ ~Ahead(r)'
    BY <1>1, <1>2, <2>4, <2>6, <2>7 DEF Local, Proper, Named, Ahead
  <2>. QED
    BY <1>2, <1>4, <2>5, <2>8, Quiet
<1>. QED
  BY <1>5, <1>6, <1>7 DEF Construct, Location

\* Links, metadata files and credentials are no domain infos.
LEMMA SideStep ==
  ASSUME Inv, NEW r \in Request,
         Link(r) \/ RepoFetch(r) \/ WriteFile(r) \/ Broker(r) \/ Fail(r)
  PROVE  Inv'
<1> USE DEF Goto, store
<1>1. CASE Link(r)
  <2>1. pc[r] = "link" /\ fresh[r] \in Handle /\ req[r].id \in Handle
    BY <1>1 DEF Link, Inv, Local, Ready
  <2>2. TypeOK'
    BY <1>1, <2>1 DEF Link, Inv, TypeOK, HandleOrNone, InFlight
  <2>3. /\ OthersStay(r) /\ fresh'[r] = fresh[r]
        /\ UNCHANGED <<info, history, reviewers, dropped, drawn>>
    BY <1>1 DEF Link, Inv, TypeOK, OthersStay
  <2>4. Local(r)' /\ ~Ahead(r)'
    BY <1>1, <2>1 DEF Link, Inv, TypeOK, Local, Ready, Proper, Named, Ahead
  <2>. QED
    BY <2>2, <2>3, <2>4, Quiet
<1>2. CASE RepoFetch(r)
  <2>1. pc[r] = "repoFetch" /\ Target(r) \in Handle
    BY <1>2 DEF RepoFetch, Inv, Local, Ready
  <2>2. Len(history[Target(r)]) \in Nat
    BY <2>1 DEF Inv, TypeOK
  <2>3. TypeOK'
    BY <1>2, <2>2 DEF RepoFetch, Inv, TypeOK, InFlight
  <2>4. /\ OthersStay(r) /\ fresh'[r] = fresh[r]
        /\ UNCHANGED <<info, history, reviewers, dropped, drawn>>
    BY <1>2 DEF RepoFetch, Inv, TypeOK, OthersStay
  <2>5. Target(r)' = Target(r)
    BY <1>2 DEF Target, RepoFetch
  <2>6. Local(r)' /\ ~Ahead(r)'
    BY <1>2, <2>1, <2>5
       DEF RepoFetch, Inv, TypeOK, Local, Ready, Proper, Named, Ahead
  <2>. QED
    BY <2>3, <2>4, <2>6, Quiet
<1>3. CASE WriteFile(r)
  <2>1. pc[r] = "file" /\ out[r] \in Info
    BY <1>3 DEF WriteFile, Inv, Local, Ready
  <2>2. out[r].meta \in Meta
    BY <2>1 DEF Info
  <2>3. TypeOK'
    BY <1>3, <2>2 DEF WriteFile, FileContent, Inv, TypeOK, Ended
  <2>4. /\ OthersStay(r) /\ fresh'[r] = fresh[r]
        /\ UNCHANGED <<info, history, reviewers, dropped, drawn>>
    BY <1>3 DEF WriteFile, Inv, TypeOK, OthersStay
  <2>5. Local(r)' /\ ~Ahead(r)'
    BY <1>3, <2>1 DEF WriteFile, Inv, TypeOK, Local, Ready, Proper, Named, Ahead
  <2>. QED
    BY <2>3, <2>4, <2>5, Quiet
<1>4. CASE Broker(r)
  <2>1. pc[r] = "broker" /\ seen[r] \in Info
    BY <1>4 DEF Broker, Inv, Local, Ready
  <2>2. seen[r].path \in Handle
    BY <2>1 DEF Info
  <2>3. TypeOK'
    BY <1>4, <2>2 DEF Broker, Inv, TypeOK, Ended
  <2>4. /\ OthersStay(r) /\ fresh'[r] = fresh[r]
        /\ UNCHANGED <<info, history, reviewers, dropped, drawn>>
    BY <1>4 DEF Broker, Inv, TypeOK, OthersStay
  <2>5. Local(r)' /\ ~Ahead(r)'
    BY <1>4, <2>1 DEF Broker, Inv, TypeOK, Local, Ready, Proper, Named, Ahead
  <2>. QED
    BY <2>3, <2>4, <2>5, Quiet
<1>5. CASE Fail(r)
  <2>1. TypeOK'
    BY <1>5 DEF Fail, Inv, TypeOK, Ended
  <2>2. /\ OthersStay(r) /\ fresh'[r] = fresh[r]
        /\ UNCHANGED <<info, history, reviewers, dropped, drawn>>
    BY <1>5 DEF Fail, Inv, TypeOK, OthersStay
  <2>3. Local(r)' /\ ~Ahead(r)'
    BY <1>5 DEF Fail, Inv, TypeOK, Local, Ready, Proper, Named, Ahead
  <2>. QED
    BY <2>1, <2>2, <2>3, Quiet
<1>. QED
  BY <1>1, <1>2, <1>3, <1>4, <1>5

\* The new version is fetched as it is.
LEMMA RefetchStep ==
  ASSUME Inv, NEW r \in Request, Refetch(r)
  PROVE  Inv'
<1> USE DEF Goto, store
<1>1. /\ pc[r] = "refetch" /\ fresh[r] \in Handle /\ req[r].id \in Handle
      /\ info[fresh[r]] \in Info /\ req[r].op # "mint"
      /\ Proper(info[fresh[r]]) /\ Proper(out[r])
  BY DEF Refetch, Inv, Tables, Local, Ready
<1>2. TypeOK'
  BY <1>1 DEF Refetch, Inv, TypeOK, InfoOrNone, InFlight
<1>3. /\ OthersStay(r) /\ fresh'[r] = fresh[r]
      /\ UNCHANGED <<info, history, reviewers, dropped, drawn>>
      /\ seen'[r] = info[fresh[r]] /\ pc'[r] = "construct"
      /\ req'[r] = req[r] /\ out'[r] = out[r]
  BY DEF Refetch, Inv, TypeOK, OthersStay
<1>4. Local(r)' /\ ~Ahead(r)'
  BY <1>1, <1>3 DEF Local, Ready, Proper, Named, Ahead
<1>. QED
  BY <1>2, <1>3, <1>4, Quiet

-----------------------------------------------------------------------------
(* Steps that change the datasets or the handles.                          *)

\* A handle that is drawn belongs to no dataset and to no other request.
LEMMA DrawStep ==
  ASSUME Inv, NEW r \in Request, Draw(r)
  PROVE  Inv'
<1> USE DEF Goto
<1>1. PICK h \in Handle : /\ \A k \in drawn : k < h
                          /\ drawn' = drawn \cup {h}
                          /\ fresh' = [fresh EXCEPT ![r] = h]
  BY DEF Draw
<1>2. /\ pc[r] = "draw" /\ fresh[r] = NoHandle
      /\ UNCHANGED <<info, history, reviewers, dropped, req, seen, out>>
  BY DEF Draw, Inv, Local, Ready
<1>3. h \notin drawn /\ h # NoHandle /\ info[h] = NoInfo
  BY <1>1, HandleFacts DEF Inv, Tables
<1>4. TypeOK'
  BY <1>1 DEF Draw, Inv, TypeOK, HandleOrNone, InFlight
<1>5. /\ pc'[r] = IF req[r].op = "mint" THEN "construct" ELSE "insert"
      /\ fresh'[r] = h
      /\ \A q \in Request : q # r => pc'[q] = pc[q] /\ fresh'[q] = fresh[q]
  BY <1>1 DEF Draw, Inv, TypeOK
<1>6. Tables'
  BY <1>1, <1>2 DEF Inv, Tables, Proper, Named
<1>7. Handles'
  <2>1. \A q \in Request : fresh'[q] # NoHandle => fresh'[q] \in drawn'
    BY <1>1, <1>5 DEF Inv, Handles
  <2>2. \A q \in Request : q # r => fresh'[q] # h
    BY <1>3, <1>5 DEF Inv, Handles
  <2>3. \A p, q \in Request : fresh'[p] = fresh'[q] /\ fresh'[p] # NoHandle => p = q
    BY <1>5, <2>2 DEF Inv, Handles
  <2>4. ASSUME NEW q \in Request, Ahead(q)'
        PROVE  fresh'[q] \in Handle /\ info'[fresh'[q]] = NoInfo
    <3>1. CASE q = r
      BY <1>2, <1>3, <1>5, <3>1
    <3>2. CASE q # r
      BY <1>2, <1>5, <2>4, <3>2 DEF Inv, Handles, Ahead
    <3>. QED
      BY <3>1, <3>2
  <2>. QED
    BY <2>1, <2>3, <2>4 DEF Handles
<1>8. ASSUME NEW q \in Request
      PROVE  Local(q)'
  <2>1. Proper(seen[q])' /\ Proper(out[q])'
    BY <1>2 DEF Inv, Local, Proper, Named
  <2>2. CASE q = r
    <3>1. Ready(r)'
      <4>1. req[r].op \in AllOps \cup {"none"}
        BY DEF Inv, TypeOK, ReqRecord
      <4>2. IF req[r].op = "mint" THEN req[r].meta \in Meta
            ELSE seen[r] \in Info /\ req[r].id \in Handle
        BY <1>2 DEF Inv, Local, Ready
      <4>. QED
        BY <1>2, <1>5, <4>2 DEF Ready
    <3>. QED
      BY <2>1, <2>2, <3>1 DEF Local
  <2>3. CASE q # r
    <3>1. Target(q)' = Target(q)
      BY <1>2, <1>5, <2>3 DEF Target
    <3>2. Ready(q)'
      BY <1>2, <1>5, <2>3, <3>1 DEF Inv, Local, Ready
    <3>. QED
      BY <2>1, <3>2 DEF Local
  <2>. QED
    BY <2>2, <2>3
<1>. QED
  BY <1>4, <1>6, <1>7, <1>8 DEF Inv

\* Storing a proper domain info keeps the invariant, if no other request is
\* about to insert a dataset there and no history entry is lost.
LEMMA PutStep ==
  ASSUME Inv, TypeOK', NEW r \in Request, OthersStay(r),
         NEW h \in Handle, NEW i \in Info, Proper(i), h \in drawn,
         info' = [info EXCEPT ![h] = i],
         Len(history'[h]) >= Len(history[h]),
         \A k \in Handle \ {h} : history'[k] = history[k],
         UNCHANGED <<reviewers, dropped, drawn>>, fresh'[r] = fresh[r],
         ~Ahead(r)', \A q \in Request \ {r} : Ahead(q) => fresh[q] # h,
         Local(r)'
  PROVE  Inv'
<1>1. /\ info'[h] = i
      /\ \A k \in Handle : k # h => info'[k] = info[k]
  BY DEF Inv, TypeOK
<1>2. Tables'
  BY <1>1, NoInfoFacts DEF Inv, Tables, Proper, Named
<1>3. \A q \in Request : fresh'[q] = fresh[q]
  BY DEF OthersStay
<1>4. Handles'
  <2>1. ASSUME NEW q \in Request, Ahead(q)'
        PROVE  fresh'[q] \in Handle /\ info'[fresh'[q]] = NoInfo
    <3>1. q # r
      BY <2>1
    <3>2. Ahead(q)
      BY <2>1, <3>1 DEF OthersStay, Ahead
    <3>. QED
      BY <1>1, <1>3, <3>1, <3>2 DEF Inv, Handles
  <2>. QED
    BY <1>3, <2>1 DEF Inv, Handles
<1>5. \A k \in Handle : info[k] \in Info => info'[k] \in Info
  BY <1>1
<1>6. \A k \in Handle : /\ Len(history[k]) \in Nat /\ Len(history'[k]) \in Nat
                        /\ Len(history[k]) <= Len(history'[k])
  <2>1. ASSUME NEW k \in Handle
        PROVE  Len(history[k]) \in Nat /\ Len(history'[k]) \in Nat
    <3>1. history[k] \in Seq(Info) /\ history'[k] \in Seq(Info)
      BY DEF Inv, TypeOK
    <3>. QED
      BY <3>1
  <2>. QED
    BY <2>1
<1>7. ASSUME NEW q \in Request, q # r
      PROVE  Local(q)'
  <2>1. /\ pc'[q] = pc[q] /\ req'[q] = req[q] /\ seen'[q] = seen[q]
        /\ out'[q] = out[q] /\ fresh'[q] = fresh[q] /\ Target(q)' = Target(q)
    BY <1>7 DEF OthersStay, Target
  <2>2. Proper(seen[q])' /\ Proper(out[q])'
    BY <2>1 DEF Inv, Local, Proper, Named
  <2>3. Ready(q)
    BY DEF Inv, Local
  <2>4. pc[q] = "lockCheck" /\ req[q].op = "revert" =>
          req[q].entry \in 1..Len(history'[req[q].id])
    BY <1>6, <2>3 DEF Ready
  <2>5. Ready(q)'
    BY <1>5, <2>1, <2>3, <2>4 DEF Ready
  <2>. QED
    BY <2>2, <2>5 DEF Local
<1>. QED
  BY <1>2, <1>4, <1>7 DEF Inv

\* A new dataset, or the copy that is a new version, is as sound as what it was
\* made of.
LEMMA InsertStep ==
  ASSUME Inv, NEW r \in Request, Insert(r)
  PROVE  Inv'
<1> USE DEF Goto
<1> DEFINE h == fresh[r]
           i == IF req[r].op = "mint" THEN out[r] ELSE seen[r]
<1>1. /\ pc[r] = "insert" /\ h \in Handle /\ h # NoHandle /\ Ahead(r)
      /\ info' = [info EXCEPT ![h] = i] /\ history' = [history EXCEPT ![h] = <<i>>]
      /\ UNCHANGED <<reviewers, dropped, drawn, req, seen, out, base, fresh>>
      /\ UNCHANGED <<next, locked, file, grants>>
      /\ pc' = [pc EXCEPT ![r] = IF req[r].op = "mint" THEN "file" ELSE "link"]
  BY HandleFacts DEF Insert, Inv, Local, Ready, Ahead
<1>2. i \in Info /\ (req[r].op # "mint" => req[r].id \in Handle)
  BY <1>1 DEF Inv, Local, Ready
<1>3. Proper(i)
  BY DEF Inv, Local
<1>4. info[h] = NoInfo /\ h \in drawn /\ history[h] = <<>>
  BY <1>1 DEF Inv, Handles, Tables
<1>5. TypeOK'
  BY <1>1, <1>2 DEF Inv, TypeOK, InFlight, InfoOrNone
<1>6. /\ OthersStay(r) /\ fresh'[r] = fresh[r] /\ req'[r] = req[r]
      /\ seen'[r] = seen[r] /\ out'[r] = out[r]
      /\ pc'[r] = IF req[r].op = "mint" THEN "file" ELSE "link"
      /\ info'[h] = i
  BY <1>1 DEF Inv, TypeOK, OthersStay
<1>7. /\ Len(history'[h]) >= Len(history[h])
      /\ \A k \in Handle \ {h} : history'[k] = history[k]
  BY <1>1, <1>4 DEF Inv, TypeOK
<1>8. ~Ahead(r)' /\ \A q \in Request \ {r} : Ahead(q) => fresh[q] # h
  BY <1>1, <1>6 DEF Inv, Handles, Ahead
<1>9. Ready(r)'
  BY <1>1, <1>2, <1>6 DEF Ready
<1>10. Local(r)'
  BY <1>1, <1>6, <1>9 DEF Inv, Local, Proper, Named
<1>. QED
  BY <1>1, <1>2, <1>3, <1>4, <1>5, <1>6, <1>7, <1>8, <1>10, PutStep

\* A transaction stores what its request prepared, or fails.
LEMMA CommitStep ==
  ASSUME Inv, NEW r \in Request, Commit(r)
  PROVE  Inv'
<1> USE DEF Goto
<1> DEFINE h == Target(r)
<1>1. /\ pc[r] = "commit" /\ h \in Handle /\ info[h] \in Info /\ out[r] \in Info
      /\ UNCHANGED <<reviewers, dropped, drawn, req, seen, out, base, fresh>>
      /\ UNCHANGED <<next, locked, file, grants>>
  BY DEF Commit, Inv, Local, Ready
<1>2. Proper(out[r]) /\ Proper(seen[r])
  BY DEF Inv, Local
<1>3. CASE pc' = [pc EXCEPT ![r] = "failed"] /\ UNCHANGED <<info, history>>
  <2>1. TypeOK'
    BY <1>1, <1>3 DEF Inv, TypeOK, Ended
  <2>2. OthersStay(r)
    BY <1>1, <1>3 DEF Inv, TypeOK, OthersStay
  <2>3. Local(r)' /\ ~Ahead(r)'
    BY <1>1, <1>2, <1>3 DEF Inv, TypeOK, Local, Ready, Proper, Named, Ahead
  <2>. QED
    BY <1>1, <1>3, <2>1, <2>2, <2>3, Quiet
<1>4. CASE /\ info' = [info EXCEPT ![h] = out[r]]
           /\ history' = IF Audited(r)
                         THEN [history EXCEPT ![h] = Append(@, out[r])]
                         ELSE history
           /\ pc' = [pc EXCEPT ![r] = IF Audited(r) THEN "file" ELSE "done"]
  <2>1. /\ history[h] \in Seq(Info) /\ Len(history[h]) \in Nat
        /\ Append(history[h], out[r]) \in Seq(Info)
        /\ Len(Append(history[h], out[r])) = Len(history[h]) + 1
    BY <1>1 DEF Inv, TypeOK
  <2>2. history' \in [Handle -> Seq(Info)]
    BY <1>1, <1>4, <2>1 DEF Inv, TypeOK
  <2>3. TypeOK'
    BY <1>1, <1>4, <2>2 DEF Inv, TypeOK, InFlight, Ended, InfoOrNone
  <2>4. h \in drawn
    BY <1>1, NoInfoFacts DEF Inv, Tables
  <2>5. /\ OthersStay(r) /\ fresh'[r] = fresh[r] /\ req'[r] = req[r]
        /\ seen'[r] = seen[r] /\ out'[r] = out[r] /\ pc'[r] \in {"file", "done"}
    BY <1>1, <1>4 DEF Inv, TypeOK, OthersStay
  <2>6. /\ Len(history'[h]) >= Len(history[h])
        /\ \A k \in Handle \ {h} : history'[k] = history[k]
    BY <1>1, <1>4, <2>1 DEF Inv, TypeOK
  <2>7. ~Ahead(r)' /\ \A q \in Request \ {r} : Ahead(q) => fresh[q] # h
    BY <1>1, <2>5, NoInfoFacts DEF Inv, Handles, Ahead
  <2>8. Ready(r)'
    BY <1>1, <2>5 DEF Ready
  <2>9. Local(r)'
    BY <1>1, <1>2, <2>5, <2>8 DEF Local, Proper, Named
  <2>. QED
    BY <1>1, <1>2, <1>4, <2>3, <2>4, <2>5, <2>6, <2>7, <2>9, PutStep
<1>. QED
  BY <1>3, <1>4 DEF Commit

\* What happens around the requests.
LEMMA AroundStep ==
  ASSUME Inv,
         \/ \E h \in Handle : SetLocked(h) \/ Expire(h)
         \/ \E p \in Person : AddReviewer(p) \/ RemoveReviewer(p)
         \/ Finished
         \/ UNCHANGED vars
  PROVE  Inv'
<1> USE DEF locals
<1>1. /\ UNCHANGED <<info, history, drawn, locals>>
      /\ reviewers \cup dropped \subseteq reviewers' \cup dropped'
  BY DEF SetLocked, Expire, AddReviewer, RemoveReviewer, Finished, vars, store
<1>2. TypeOK'
  BY DEF Inv, TypeOK, SetLocked, Expire, AddReviewer, RemoveReviewer, Finished,
         vars, store
<1>3. Tables'
  BY <1>1 DEF Inv, Tables, Proper, Named
<1>4. Handles'
  BY <1>1 DEF Inv, Handles, Ahead
<1>5. ASSUME NEW r \in Request
      PROVE  Local(r)'
  <2>1. Proper(seen[r])' /\ Proper(out[r])'
    BY <1>1 DEF Inv, Local, Proper, Named
  <2>2. Target(r)' = Target(r)
    BY <1>1 DEF Target
  <2>3. Ready(r)'
    BY <1>1, <2>2 DEF Inv, Local, Ready
  <2>. QED
    BY <2>1, <2>3 DEF Local
<1>. QED
  BY <1>2, <1>3, <1>4, <1>5 DEF Inv

-----------------------------------------------------------------------------
(* The theorems.                                                           *)

\* The invariant holds in every behaviour.
THEOREM Invariance == Spec => []Inv
<1>1. ASSUME Inv, [Next]_vars
      PROVE  Inv'
  <2>1. ASSUME NEW r \in Request, Step(r)
        PROVE  Inv'
    BY <1>1, <2>1, BeginStep, CheckLockStep, CheckApproverStep, BeginDecisionStep,
       FetchForDecisionStep, BeginMintStep, DrawStep, ConstructStep, InsertStep,
       SideStep, RefetchStep, CommitStep DEF Step
  <2>2. CASE ~\E r \in Request : Step(r)
    BY <1>1, <2>2, AroundStep DEF Next
  <2>. QED
    BY <2>1, <2>2
<1>. QED
  BY <1>1, InitInv, PTL DEF Spec

\* Every variable keeps its type (datasetService.ts, all handlers).
THEOREM TypeCorrectness == Spec => []TypeOK
<1>1. Inv => TypeOK
  BY DEF Inv
<1>. QED
  BY <1>1, Invariance, PTL

\* However edits, reverts, versions, review requests and decisions interleave,
\* release status, approver and release history of a dataset fit together, and
\* the history is one a proper review leaves.
THEOREM ReleaseHistoryIsProper == Spec => []ReleaseTrail
<1>1. Inv => ReleaseTrail
  BY DEF Inv, Tables, Proper, Sound, ReleaseTrail, Exists
<1>. QED
  BY <1>1, Invariance, PTL

\* Nothing is pending or released that its approver did not have in front of
\* them, although the release check of an edit may be stale when it writes.
THEOREM OnlyReviewedIsReleased == Spec => []ReviewedIsReleased
<1>1. Inv => ReviewedIsReleased
  BY DEF Inv, Tables, Proper, Sound, ReviewedIsReleased, Exists
<1>. QED
  BY <1>1, Invariance, PTL

\* Only persons that are or were reviewers have pending reviews to decide.
THEOREM ApproversAreReviewers == Spec => []ApproverWasReviewer
<1>1. Inv => ApproverWasReviewer
  BY NoInfoFacts DEF Inv, Tables, Proper, Named, ApproverWasReviewer
<1>. QED
  BY <1>1, Invariance, PTL

-----------------------------------------------------------------------------
(* Write credentials.                                                      *)

Granted(r, p) ==
  /\ req[r].op = "grant" /\ pc[r] = "done"
  /\ seen[r].path = p /\ seen[r].status = "NOT_RELEASED"

\* Credentials are for what a request saw to be editable.
GrantInv ==
  /\ \A r \in Request :
       pc[r] = "broker" => req[r].op = "grant" /\ seen[r].status = "NOT_RELEASED"
  /\ \A p \in grants : \E r \in Request : Granted(r, p)

\* A request that has ended changes no more, and no other gets credentials.
LEMMA OthersKeep ==
  ASSUME Inv, GrantInv, NEW r \in Request, pc[r] # "done", grants' \subseteq grants,
         pc'[r] = "broker" => req'[r].op = "grant" /\ seen'[r].status = "NOT_RELEASED",
         \A q \in Request \ {r} : pc'[q] = pc[q] /\ req'[q] = req[q] /\ seen'[q] = seen[q]
  PROVE  GrantInv'
<1>2. \A q \in Request :
        pc'[q] = "broker" => req'[q].op = "grant" /\ seen'[q].status = "NOT_RELEASED"
  BY DEF GrantInv
<1>3. ASSUME NEW p \in grants' PROVE \E q \in Request : Granted(q, p)'
  <2>1. PICK q \in Request : Granted(q, p)
    BY <1>3 DEF GrantInv
  <2>2. q # r
    BY <2>1 DEF Granted
  <2>3. Granted(q, p)'
    BY <2>1, <2>2 DEF Granted
  <2>. QED
    BY <2>3
<1>. QED
  BY <1>2, <1>3 DEF GrantInv

\* Only CheckLock leads to the broker, with an editable dataset.
LEMMA GrantStep ==
  ASSUME Inv, GrantInv, NEW r \in Request, Step(r)
  PROVE  GrantInv'
<1>1. /\ DOMAIN pc = Request /\ DOMAIN req = Request /\ DOMAIN seen = Request
      /\ pc = [q \in Request |-> pc[q]] /\ req = [q \in Request |-> req[q]]
      /\ seen = [q \in Request |-> seen[q]]
  BY DEF Inv, TypeOK
<1>2. CASE \/ BeginUpdate(r) \/ BeginRevert(r) \/ BeginVersion(r) \/ BeginGrant(r)
           \/ BeginRequest(r)
  <2>1. PICK request, label : label \in {"lockCheck", "approver"} /\ Fetch(r, request, label)
    BY <1>2 DEF BeginUpdate, BeginRevert, BeginVersion, BeginGrant, BeginRequest
  <2>2. pc[r] = "idle" /\ pc'[r] \in {"lockCheck", "approver"} /\ UNCHANGED grants
        /\ \A q \in Request \ {r} : pc'[q] = pc[q] /\ req'[q] = req[q] /\ seen'[q] = seen[q]
    BY <1>1, <2>1 DEF Fetch, Goto, store
  <2>3. pc[r] # "done" /\ pc'[r] # "broker"
    BY <2>2
  <2>. QED
    BY <2>2, <2>3, OthersKeep
<1>3. CASE CheckLock(r)
  <2>1. pc[r] = "lockCheck" /\ UNCHANGED <<req, seen, grants>>
        /\ \A q \in Request \ {r} : pc'[q] = pc[q]
    BY <1>1, <1>3 DEF CheckLock, Goto, store
  <2>2. seen[r].status \in {"NOT_RELEASED", "PENDING", "RELEASED"}
    BY <2>1 DEF Inv, Local, Ready, Info
  <2>3. pc'[r] = "broker" => req[r].op = "grant" /\ Editable(seen[r])
    BY <1>1, <1>3 DEF CheckLock, Goto
  <2>4. pc'[r] = "broker" => req'[r].op = "grant" /\ seen'[r].status = "NOT_RELEASED"
    BY <2>1, <2>2, <2>3 DEF Editable
  <2>. QED
    BY <2>1, <2>4, OthersKeep
<1>4. CASE Broker(r)
  <2>1. /\ pc[r] = "broker" /\ grants' = grants \cup {seen[r].path}
        /\ pc'[r] = "done" /\ UNCHANGED <<req, seen>>
        /\ \A q \in Request \ {r} : pc'[q] = pc[q]
    BY <1>1, <1>4 DEF Broker, Goto
  <2>2. Granted(r, seen[r].path)'
    BY <2>1 DEF Granted, GrantInv
  <2>4. \A q \in Request :
          pc'[q] = "broker" => req'[q].op = "grant" /\ seen'[q].status = "NOT_RELEASED"
    BY <2>1 DEF GrantInv
  <2>5. ASSUME NEW p \in grants' PROVE \E q \in Request : Granted(q, p)'
    <3>1. CASE p \in grants
      <4>1. PICK q \in Request : Granted(q, p)
        BY <3>1 DEF GrantInv
      <4>2. Granted(q, p)'
        BY <2>1, <4>1 DEF Granted
      <4>. QED
        BY <4>2
    <3>2. CASE p = seen[r].path
      BY <3>2, <2>1, <2>2 DEF Granted
    <3>. QED
      BY <3>1, <3>2, <2>1
  <2>. QED
    BY <2>4, <2>5 DEF GrantInv
<1>5. CASE \/ CheckApprover(r) \/ BeginDecision(r) \/ FetchForDecision(r)
           \/ BeginMint(r) \/ Draw(r) \/ Construct(r) \/ Insert(r)
  <2>1. pc[r] # "done" /\ UNCHANGED grants /\ pc'[r] # "broker"
        /\ \A q \in Request \ {r} : pc'[q] = pc[q] /\ req'[q] = req[q] /\ seen'[q] = seen[q]
    BY <1>1, <1>5 DEF CheckApprover, BeginDecision, FetchForDecision, BeginMint, Draw,
       Construct, Insert, Goto, store
  <2>. QED
    BY <2>1, OthersKeep
<1>6. CASE \/ Link(r) \/ Refetch(r) \/ RepoFetch(r) \/ Commit(r)
           \/ WriteFile(r) \/ Fail(r)
  <2>1. pc[r] # "done" /\ UNCHANGED grants /\ pc'[r] # "broker"
        /\ \A q \in Request \ {r} : pc'[q] = pc[q] /\ req'[q] = req[q] /\ seen'[q] = seen[q]
    BY <1>1, <1>6 DEF Link, Refetch, RepoFetch, Commit, WriteFile, Fail, InFlight,
       Goto, store
  <2>. QED
    BY <2>1, OthersKeep
<1>. QED
  BY <1>2, <1>3, <1>4, <1>5, <1>6 DEF Step

\* Whoever can still write to the files of a dataset under review or released
\* got the credentials from a request that had fetched it as editable.
THEOREM LateWritersSawItEditable == Spec => []LateWriterSawItEditable
<1>1. Init => GrantInv
  BY DEF Init, GrantInv
<1>2. ASSUME Inv, GrantInv, [Next]_vars PROVE GrantInv'
  <2>1. CASE \E r \in Request : Step(r)
    BY <1>2, <2>1, GrantStep
  <2>2. CASE \/ \E h \in Handle : SetLocked(h) \/ Expire(h)
             \/ \E p \in Person : AddReviewer(p) \/ RemoveReviewer(p)
             \/ Finished \/ UNCHANGED vars
    <3>1. UNCHANGED <<pc, req, seen>> /\ grants' \subseteq grants
      BY <2>2 DEF SetLocked, Expire, AddReviewer, RemoveReviewer, Finished, vars,
         locals, store
    <3>. QED
      BY <1>2, <3>1 DEF GrantInv, Granted
  <2>. QED
    BY <1>2, <2>1, <2>2 DEF Next
<1>3. Inv /\ GrantInv => LateWriterSawItEditable
  BY DEF GrantInv, Granted, LateWriterSawItEditable
<1>. QED
  BY <1>1, <1>2, <1>3, Invariance, PTL DEF Spec

\* What is released is what was reviewed, by somebody who was a reviewer.
THEOREM ReviewsAreReal == Spec => []ReviewWasReal
BY OnlyReviewedIsReleased, ApproversAreReviewers, PTL DEF ReviewWasReal

-----------------------------------------------------------------------------
(* Storage locations and metadata files: what requests alone do to a       *)
(* dataset.                                                                *)

\* The requests that have decided what to write to h, or have drawn it.
Active(h) ==
  {r \in Request : Target(r) = h /\ (out[r] # NoInfo \/ fresh[r] = h)}

Started == {r \in Request : pc[r] # "idle"}

\* h has its folder, with a metadata file that describes it unless somebody
\* wrote another dataset's there.
Furnished(h) ==
  /\ info[h].path = h
  /\ ~Intruded(h) => file[h] = info[h].meta

\* What label, operation and locals of r say of each other.
Course(r) ==
  /\ pc[r] = "idle" => req[r].id = NoHandle
  /\ pc[r] \in {"idle", "lockCheck", "approver", "fetch", "draw", "broker", "refused"} =>
       out[r] = NoInfo /\ fresh[r] = NoHandle
  /\ pc[r] \in {"construct", "link", "refetch"} => out[r] = NoInfo
  /\ pc[r] = "lockCheck" => req[r].op \in {"update", "revert", "version", "grant"}
  /\ pc[r] = "approver" => req[r].op = "request"
  /\ pc[r] = "fetch" => req[r].op = "decide"
  /\ pc[r] \in {"draw", "construct", "insert"} => req[r].op \in {"mint", "version"}
  /\ pc[r] \in {"construct", "insert"} => fresh[r] # NoHandle
  /\ pc[r] = "insert" /\ req[r].op = "version" => out[r] = NoInfo
  /\ pc[r] = "broker" => req[r].op = "grant"
  /\ pc[r] \in {"repoFetch", "commit"} => req[r].op # "mint"
  /\ pc[r] \in {"repoFetch", "commit", "file"} => out[r] # NoInfo
  /\ pc[r] = "done" => req[r].op = "grant" \/ out[r] # NoInfo
  /\ fresh[r] # NoHandle => req[r].op \in {"mint", "version"}
  /\ fresh[r] = NoHandle /\ out[r] # NoInfo =>
       req[r].op \in {"update", "revert", "request", "decide"}

\* Nobody wrote h, and who fetched it to check it has it as it is.
Untouched(h) ==
  Exists(h) =>
    /\ Furnished(h)
    /\ \A r \in Request :
         req[r].id = h /\ pc[r] \in {"lockCheck", "approver"} => seen[r] = info[h]

\* How far r, alone, has got with h.
Alone(r, h) ==
  /\ out[r] # NoInfo => out[r].path = h
  /\ fresh[r] = NoHandle => info[h].path = h
  /\ fresh[r] = NoHandle /\ pc[r] \in {"repoFetch", "commit"} =>
       /\ Furnished(h)
       /\ req[r].op \in {"request", "decide"} => out[r].meta = info[h].meta
  /\ pc[r] = "file" => info[h] = out[r]
  /\ pc[r] = "done" => Furnished(h)

Storage ==
  /\ IsFiniteSet(Started)
  /\ \A r \in Request : Course(r)
  /\ \A h \in Handle : Active(h) = {} => Untouched(h)
  /\ \A h \in Handle : \A r \in Active(h) : Active(h) = {r} => Alone(r, h)

\* Requests fetch a dataset only as their first step.
LEMMA FetchFacts ==
  ASSUME Inv, NEW q \in Request,
         BeginUpdate(q) \/ BeginRevert(q) \/ BeginVersion(q) \/ BeginGrant(q)
           \/ BeginRequest(q)
  PROVE  \E request \in ReqRecord, label \in {"lockCheck", "approver"} :
           /\ Fetch(q, request, label)
           /\ label = "lockCheck" => request.op \in {"update", "revert", "version", "grant"}
           /\ label = "approver" => request.op = "request"
<1> USE DEF Asks, ReqRecord, AllOps, HandleOrNone, PersonOrNone
<1>1. CASE BeginUpdate(q)
  <2>1. PICK h \in Handle, m \in Meta :
          Fetch(q, [Asks("update", h) EXCEPT !.meta = m], "lockCheck")
    BY <1>1 DEF BeginUpdate
  <2> DEFINE w == [Asks("update", h) EXCEPT !.meta = m]
  <2>2. w \in ReqRecord /\ w.op = "update"
    OBVIOUS
  <2>. QED
    BY <2>1, <2>2
<1>2. CASE BeginRevert(q)
  <2>0. PICK h \in Handle : \E i \in DOMAIN history[h] :
          Fetch(q, [Asks("revert", h) EXCEPT !.entry = i], "lockCheck")
    BY <1>2 DEF BeginRevert
  <2>1. PICK i \in DOMAIN history[h] :
          Fetch(q, [Asks("revert", h) EXCEPT !.entry = i], "lockCheck")
    BY <2>0
  <2> DEFINE w == [Asks("revert", h) EXCEPT !.entry = i]
  <2>2. i \in Nat
    BY <2>1 DEF Inv, TypeOK
  <2>3. w \in ReqRecord /\ w.op = "revert"
    BY <2>2
  <2>. QED
    BY <2>1, <2>3
<1>3. CASE BeginVersion(q)
  <2>1. PICK h \in Handle : Fetch(q, Asks("version", h), "lockCheck")
    BY <1>3 DEF BeginVersion
  <2>2. Asks("version", h) \in ReqRecord /\ Asks("version", h).op = "version"
    OBVIOUS
  <2>. QED
    BY <2>1, <2>2
<1>4. CASE BeginGrant(q)
  <2>1. PICK h \in Handle : Fetch(q, Asks("grant", h), "lockCheck")
    BY <1>4 DEF BeginGrant
  <2>2. Asks("grant", h) \in ReqRecord /\ Asks("grant", h).op = "grant"
    OBVIOUS
  <2>. QED
    BY <2>1, <2>2
<1>5. CASE BeginRequest(q)
  <2>1. PICK h \in Handle, p \in Person :
          Fetch(q, [Asks("request", h) EXCEPT !.by = p], "approver")
    BY <1>5 DEF BeginRequest
  <2> DEFINE w == [Asks("request", h) EXCEPT !.by = p]
  <2>2. w \in ReqRecord /\ w.op = "request"
    OBVIOUS
  <2>. QED
    BY <2>1, <2>2
<1>. QED
  BY <1>1, <1>2, <1>3, <1>4, <1>5

\* What a step of q leaves alone: the locals of others, and of its own what it
\* was asked, a handle it drew and a domain info it decided on.
LEMMA LocalsFrame ==
  ASSUME Inv, NEW q \in Request, Step(q), Course(q)
  PROVE  /\ \A r \in Request \ {q} :
              /\ pc'[r] = pc[r] /\ req'[r] = req[r] /\ seen'[r] = seen[r]
              /\ out'[r] = out[r] /\ fresh'[r] = fresh[r]
         /\ pc[q] # "idle" => req' = req
         /\ out[q] # NoInfo => out'[q] = out[q]
         /\ fresh[q] # NoHandle => fresh'[q] = fresh[q]
<1> USE DEF Inv, TypeOK, Goto
<1>1. CASE \/ BeginUpdate(q) \/ BeginRevert(q) \/ BeginVersion(q) \/ BeginGrant(q)
           \/ BeginRequest(q)
  <2>1. PICK request \in ReqRecord, label \in {"lockCheck", "approver"} :
           Fetch(q, request, label)
    BY <1>1, FetchFacts
  <2>. QED
    BY <2>1 DEF Fetch
<1>2. CASE CheckLock(q)
  BY <1>2 DEF CheckLock, store, Course
<1>3. CASE CheckApprover(q) \/ BeginDecision(q) \/ FetchForDecision(q)
  <2>1. CASE CheckApprover(q)
    BY <2>1 DEF CheckApprover, Course
  <2>2. CASE BeginDecision(q)
    BY <2>2 DEF BeginDecision
  <2>3. CASE FetchForDecision(q)
    BY <2>3 DEF FetchForDecision, Course
  <2>. QED
    BY <1>3, <2>1, <2>2, <2>3
<1>4. CASE BeginMint(q) \/ Draw(q) \/ Construct(q) \/ Insert(q)
  <2>1. CASE BeginMint(q)
    BY <2>1 DEF BeginMint
  <2>2. CASE Draw(q)
    BY <2>2 DEF Draw, Course
  <2>3. CASE Construct(q)
    BY <2>3 DEF Construct, Course
  <2>4. CASE Insert(q)
    BY <2>4 DEF Insert
  <2>. QED
    BY <1>4, <2>1, <2>2, <2>3, <2>4
<1>5. CASE Link(q) \/ Refetch(q) \/ RepoFetch(q)
  BY <1>5 DEF Link, Refetch, RepoFetch
<1>6. CASE Commit(q)
  BY <1>6 DEF Commit
<1>7. CASE WriteFile(q) \/ Broker(q) \/ Fail(q)
  BY <1>7 DEF WriteFile, Broker, Fail
<1>. QED
  BY <1>1, <1>2, <1>3, <1>4, <1>5, <1>6, <1>7 DEF Step

\* Whoever has decided on a write, or drawn a handle, keeps its target.
LEMMA TargetStays ==
  ASSUME Inv, NEW q \in Request, Step(q), Course(q), NEW r \in Request, Course(r),
         out[r] # NoInfo \/ fresh[r] # NoHandle
  PROVE  Target(r)' = Target(r) /\ (fresh'[r] = fresh[r])
<1>1. CASE r # q
  BY <1>1, LocalsFrame DEF Target
<1>2. CASE r = q
  <2>1. pc[q] \notin {"idle", "draw"}
    BY <1>2 DEF Course
  <2>2. req' = req
    BY <2>1, LocalsFrame
  <2>3. fresh'[q] = fresh[q]
    <3>1. ~Draw(q)
      BY <2>1 DEF Draw
    <3>2. CASE \/ BeginUpdate(q) \/ BeginRevert(q) \/ BeginVersion(q) \/ BeginGrant(q)
               \/ BeginRequest(q) \/ BeginDecision(q) \/ BeginMint(q)
      BY <2>1, <3>2 DEF BeginUpdate, BeginRevert, BeginVersion, BeginGrant,
         BeginRequest, BeginDecision, BeginMint, Fetch
    <3>3. CASE CheckLock(q) \/ CheckApprover(q) \/ FetchForDecision(q) \/ Construct(q)
      BY <3>3 DEF CheckLock, CheckApprover, FetchForDecision, Construct
    <3>4. CASE \/ Insert(q) \/ Link(q) \/ Refetch(q) \/ RepoFetch(q) \/ Commit(q)
               \/ WriteFile(q) \/ Broker(q) \/ Fail(q)
      BY <3>4 DEF Insert, Link, Refetch, RepoFetch, Commit, WriteFile, Broker, Fail
    <3>. QED
      BY <3>1, <3>2, <3>3, <3>4 DEF Step
  <2>. QED
    BY <1>2, <2>2, <2>3 DEF Target
<1>. QED
  BY <1>1, <1>2

\* Who writes to a dataset goes on writing to it.
LEMMA ActiveGrows ==
  ASSUME Inv, \A r \in Request : Course(r), NEW q \in Request, Step(q), NEW h \in Handle
  PROVE  Active(h) \subseteq Active(h)'
<1> SUFFICES ASSUME NEW r \in Active(h) PROVE r \in Active(h)'
  OBVIOUS
<1>1. r \in Request /\ Target(r) = h /\ (out[r] # NoInfo \/ fresh[r] = h)
  BY DEF Active
<1>2. Target(r)' = h /\ fresh'[r] = fresh[r]
  BY <1>1, TargetStays, HandleFacts
<1>3. out[r] # NoInfo => out'[r] = out[r]
  BY <1>1, LocalsFrame
<1>. QED
  BY <1>1, <1>2, <1>3 DEF Active

\* Only who is active for h changes its domain info.
LEMMA InfoStays ==
  ASSUME Inv, NEW q \in Request, Course(q), Step(q), NEW h \in Handle, q \notin Active(h)
  PROVE  info'[h] = info[h]
<1>1. CASE Insert(q)
  <2>1. fresh[q] # h
    BY <1>1, HandleFacts DEF Active, Insert, Target
  <2>. QED
    BY <1>1, <2>1 DEF Insert, Inv, TypeOK
<1>2. CASE Commit(q)
  <2>1. Target(q) # h
    BY <1>2 DEF Active, Commit, Course
  <2>. QED
    BY <1>2, <2>1 DEF Commit, Inv, TypeOK
<1>3. CASE \/ BeginUpdate(q) \/ BeginRevert(q) \/ BeginVersion(q) \/ BeginGrant(q)
           \/ BeginRequest(q) \/ BeginDecision(q) \/ BeginMint(q)
  BY <1>3 DEF BeginUpdate, BeginRevert, BeginVersion, BeginGrant,
     BeginRequest, BeginDecision, BeginMint, Fetch, store
<1>4. CASE \/ CheckLock(q) \/ CheckApprover(q) \/ FetchForDecision(q) \/ Construct(q)
           \/ Draw(q)
  BY <1>4 DEF CheckLock, CheckApprover, FetchForDecision, Construct, Draw, store
<1>5. CASE Link(q) \/ Refetch(q) \/ RepoFetch(q) \/ WriteFile(q) \/ Broker(q) \/ Fail(q)
  BY <1>5 DEF Link, Refetch, RepoFetch, WriteFile, Broker, Fail, store
<1>. QED
  BY <1>1, <1>2, <1>3, <1>4, <1>5 DEF Step

\* Another dataset's metadata file in the folder of h is somebody's who goes on
\* having written it.
LEMMA IntrudedGrows ==
  ASSUME Inv, \A r \in Request : Course(r), NEW q \in Request, Step(q),
         NEW h \in Handle, info[h].path = h, info'[h].path = h, Intruded(h)
  PROVE  Intruded(h)'
<1>1. PICK r \in Request : Target(r) # h /\ out[r].path = h
  BY DEF Intruded
<1>2. out[r] # NoInfo
  BY <1>1, HandleFacts DEF NoInfo
<1>3. Target(r)' = Target(r) /\ out'[r] = out[r]
  BY <1>2, TargetStays, LocalsFrame
<1>. QED
  BY <1>1, <1>3 DEF Intruded

\* A dataset stays furnished while nobody is active for it.
LEMMA FurnishedStays ==
  ASSUME Inv, \A r \in Request : Course(r), NEW q \in Request, Step(q),
         NEW h \in Handle, Furnished(h), q \notin Active(h)
  PROVE  Furnished(h)' /\ info'[h] = info[h]
<1>1. info'[h] = info[h] /\ info[h].path = h
  BY InfoStays DEF Furnished
<1>2. Intruded(h) => Intruded(h)'
  BY <1>1, IntrudedGrows
<1>3. file'[h] = file[h] \/ Intruded(h)'
  <2>1. CASE WriteFile(q)
    <3>1. CASE out[q].path = h
      <4>1. out[q] # NoInfo /\ Target(q) # h
        BY <2>1 DEF WriteFile, Course, Active
      <4>2. Target(q)' = Target(q) /\ out'[q] = out[q]
        BY <4>1, TargetStays, LocalsFrame
      <4>. QED
        BY <1>1, <3>1, <4>1, <4>2 DEF Intruded
    <3>2. CASE out[q].path # h
      BY <2>1, <3>2 DEF WriteFile, Inv, TypeOK
    <3>. QED
      BY <3>1, <3>2
  <2>2. CASE \/ BeginUpdate(q) \/ BeginRevert(q) \/ BeginVersion(q) \/ BeginGrant(q)
             \/ BeginRequest(q) \/ BeginDecision(q) \/ BeginMint(q)
    BY <2>2 DEF BeginUpdate, BeginRevert, BeginVersion, BeginGrant,
       BeginRequest, BeginDecision, BeginMint, Fetch, store
  <2>3. CASE \/ CheckLock(q) \/ CheckApprover(q) \/ FetchForDecision(q) \/ Construct(q)
             \/ Draw(q)
    BY <2>3 DEF CheckLock, CheckApprover, FetchForDecision, Construct, Draw, store
  <2>4. CASE \/ Insert(q) \/ Link(q) \/ Refetch(q) \/ RepoFetch(q) \/ Commit(q)
             \/ Broker(q) \/ Fail(q)
    BY <2>4 DEF Insert, Link, Refetch, RepoFetch, Commit, Broker, Fail, store
  <2>. QED
    BY <2>1, <2>2, <2>3, <2>4 DEF Step
<1>. QED
  BY <1>1, <1>2, <1>3 DEF Furnished

\* Every step keeps what label, operation and locals say of each other.
LEMMA CourseStep ==
  ASSUME Inv, NEW q \in Request, Step(q), Course(q), NEW r \in Request, Course(r)
  PROVE  Course(r)'
<1>1. CASE r # q
  BY <1>1, LocalsFrame DEF Course
<1>2. CASE r = q
  <2> USE DEF Inv, TypeOK, Goto
  <2> SUFFICES Course(q)'
    BY <1>2
  <2>1. CASE \/ BeginUpdate(q) \/ BeginRevert(q) \/ BeginVersion(q) \/ BeginGrant(q)
             \/ BeginRequest(q)
    <3>1. PICK request \in ReqRecord, label \in {"lockCheck", "approver"} :
             /\ Fetch(q, request, label)
             /\ label = "lockCheck" => request.op \in {"update", "revert", "version", "grant"}
             /\ label = "approver" => request.op = "request"
      BY <2>1, FetchFacts
    <3>2. /\ pc'[q] = label /\ req'[q] = request /\ pc[q] = "idle"
          /\ out'[q] = out[q] /\ fresh'[q] = fresh[q]
      BY <3>1 DEF Fetch
    <3>. QED
      BY <3>1, <3>2 DEF Course
  <2>2. CASE CheckLock(q)
    <3>1. /\ pc[q] = "lockCheck" /\ req' = req /\ fresh' = fresh /\ seen[q] \in Info
          /\ out[q] = NoInfo /\ fresh[q] = NoHandle
          /\ req[q].op \in {"update", "revert", "version", "grant"}
      BY <2>2 DEF CheckLock, Course, Local, Ready
    <3>2. CASE Goto(q, "refused") /\ UNCHANGED out
      BY <3>1, <3>2 DEF Course
    <3>3. CASE req[q].op \in {"update", "revert"} /\ pc'[q] = "repoFetch"
               /\ out'[q] # NoInfo
      BY <3>1, <3>3 DEF Course
    <3>4. CASE UNCHANGED out /\ (\/ req[q].op = "version" /\ Goto(q, "draw")
                                 \/ req[q].op = "grant" /\ Goto(q, "broker"))
      BY <3>1, <3>4 DEF Course
    <3>5. ASSUME NEW m, out' = [out EXCEPT ![q] = [seen[q] EXCEPT !.meta = m]]
          PROVE  out'[q].path # NoHandle
      BY <3>1, <3>5, HandleFacts DEF Info
    <3>6. NoInfo.path = NoHandle
      BY DEF NoInfo
    <3>7. CASE \E m : /\ out' = [out EXCEPT ![q] = [seen[q] EXCEPT !.meta = m]]
                      /\ req[q].op \in {"update", "revert"} /\ Goto(q, "repoFetch")
      BY <3>3, <3>5, <3>6, <3>7
    <3>. QED
      BY <2>2, <3>2, <3>4, <3>7 DEF CheckLock, Reverted
  <2>3. CASE CheckApprover(q)
    <3>1. /\ pc[q] = "approver" /\ req' = req /\ fresh' = fresh /\ seen[q] \in Info
          /\ out[q] = NoInfo /\ fresh[q] = NoHandle
          /\ req[q].op = "request" /\ req[q].by \in Person
          /\ Editable(seen[q]) /\ Sound(seen[q])
      BY <2>3, NoInfoFacts DEF CheckApprover, Course, Local, Ready, Proper
    <3>2. WithEntry(seen[q], req[q].by, "REQUEST", "PENDING") \in Info
      BY <3>1, RequestIsSound
    <3>3. CASE Goto(q, "refused") /\ UNCHANGED out
      BY <3>1, <3>3 DEF Course
    <3>4. CASE out'[q] \in Info /\ pc'[q] = "repoFetch"
      BY <3>1, <3>4, NoInfoFacts DEF Course
    <3>. QED
      BY <2>3, <3>2, <3>3, <3>4 DEF CheckApprover
  <2>4. CASE BeginDecision(q)
    <3>1. PICK h \in Handle, p \in Person, approve \in BOOLEAN :
            /\ pc[q] = "idle"
            /\ req' = [req EXCEPT ![q] =
                         [Asks("decide", h) EXCEPT !.by = p, !.approve = approve]]
            /\ Goto(q, "fetch")
            /\ UNCHANGED <<store, seen, out, base, fresh>>
      BY <2>4 DEF BeginDecision
    <3>2. req'[q].op = "decide"
      BY <3>1 DEF Asks
    <3>. QED
      BY <3>1, <3>2 DEF Course
  <2>5. CASE FetchForDecision(q)
    <3>1. /\ pc[q] = "fetch" /\ req' = req /\ fresh' = fresh
          /\ out[q] = NoInfo /\ fresh[q] = NoHandle
          /\ req[q].op = "decide" /\ req[q].by \in Person /\ req[q].id \in Handle
      BY <2>5 DEF FetchForDecision, Course, Local, Ready
    <3>2. CASE Goto(q, "refused") /\ UNCHANGED out
      BY <3>1, <3>2 DEF Course
    <3>3. CASE /\ MayDecide(info[req[q].id], req[q].by)
               /\ out' = [out EXCEPT ![q] =
                            Decided(info[req[q].id], req[q].by, req[q].approve)]
               /\ Goto(q, "repoFetch")
      <4>1. Decided(info[req[q].id], req[q].by, req[q].approve) \in Info
        <5>1. info[req[q].id] \in Info /\ Sound(info[req[q].id])
          BY <3>1, <3>3, NoInfoFacts DEF MayDecide, InfoOrNone, Tables, Proper
        <5>2. req[q].approve \in BOOLEAN
          BY DEF ReqRecord
        <5>. QED
          BY <3>1, <3>3, <5>1, <5>2, DecisionIsSound
      <4>2. out'[q] # NoInfo /\ pc'[q] = "repoFetch"
        BY <3>3, <4>1, NoInfoFacts
      <4>. QED
        BY <3>1, <4>2 DEF Course
    <3>. QED
      BY <2>5, <3>2, <3>3 DEF FetchForDecision
  <2>6. CASE BeginMint(q)
    <3>1. PICK m \in Meta :
            /\ pc[q] = "idle"
            /\ req' = [req EXCEPT ![q] = [Asks("mint", NoHandle) EXCEPT !.meta = m]]
            /\ Goto(q, "draw")
            /\ UNCHANGED <<store, seen, out, base, fresh>>
      BY <2>6 DEF BeginMint
    <3>2. req'[q].op = "mint"
      BY <3>1 DEF Asks
    <3>. QED
      BY <3>1, <3>2 DEF Course
  <2>7. CASE Draw(q)
    <3>1. PICK h \in Handle : fresh' = [fresh EXCEPT ![q] = h]
      BY <2>7 DEF Draw
    <3>2. /\ pc[q] = "draw" /\ req' = req /\ out' = out /\ fresh'[q] # NoHandle
          /\ pc'[q] = IF req[q].op = "mint" THEN "construct" ELSE "insert"
      BY <2>7, <3>1, HandleFacts DEF Draw
    <3>. QED
      BY <3>2 DEF Course
  <2>8. CASE Construct(q)
    <3>1. /\ pc[q] = "construct" /\ req' = req /\ fresh' = fresh
          /\ fresh[q] \in Handle /\ fresh[q] # NoHandle
          /\ req[q].op \in {"mint", "version"}
          /\ req[q].op = "version" => seen[q] \in Info
          /\ out[q] = NoInfo
      BY <2>8 DEF Construct, Course, Local, Ready
    <3>2. CASE Goto(q, "failed") /\ UNCHANGED out
      BY <3>1, <3>2 DEF Course
    <3>3. CASE /\ out' = [out EXCEPT ![q] =
                            IF req[q].op = "mint" THEN NewInfo(req[q].meta, fresh[q])
                            ELSE [seen[q] EXCEPT !.path = fresh[q]]]
               /\ Goto(q, IF req[q].op = "mint" THEN "insert" ELSE "repoFetch")
      <4>1. out'[q].path = fresh[q]
        BY <3>1, <3>3 DEF NewInfo, Info
      <4>2. out'[q] # NoInfo
        BY <3>1, <4>1 DEF NoInfo
      <4>. QED
        BY <3>1, <3>3, <4>2 DEF Course
    <3>. QED
      BY <2>8, <3>2, <3>3 DEF Construct, Location
  <2>9. CASE Insert(q)
    <3>1. /\ pc[q] = "insert" /\ UNCHANGED <<req, out, fresh>>
          /\ pc'[q] = IF req[q].op = "mint" THEN "file" ELSE "link"
          /\ req[q].op = "mint" => out[q] # NoInfo
      BY <2>9, NoInfoFacts DEF Insert, Local, Ready
    <3>. QED
      BY <3>1 DEF Course
  <2>10. CASE Link(q) \/ Refetch(q) \/ RepoFetch(q)
    <3>1. CASE Link(q)
      BY <3>1 DEF Link, Course
    <3>2. CASE Refetch(q)
      <4>1. fresh[q] # NoHandle /\ req[q].op # "mint"
        BY <3>2, HandleFacts DEF Refetch, Local, Ready
      <4>. QED
        BY <3>2, <4>1 DEF Refetch, Course
    <3>3. CASE RepoFetch(q)
      BY <3>3 DEF RepoFetch, Course
    <3>. QED
      BY <2>10, <3>1, <3>2, <3>3
  <2>11. CASE Commit(q)
    <3>1. /\ pc[q] = "commit" /\ UNCHANGED <<req, out, fresh>>
          /\ pc'[q] \in {"failed", "file", "done"}
      BY <2>11 DEF Commit
    <3>. QED
      BY <3>1 DEF Course
  <2>12. CASE WriteFile(q) \/ Broker(q) \/ Fail(q)
    <3>1. CASE WriteFile(q)
      BY <3>1 DEF WriteFile, Course
    <3>2. CASE Broker(q)
      BY <3>2 DEF Broker, Course
    <3>3. CASE Fail(q)
      BY <3>3 DEF Fail, Course
    <3>. QED
      BY <2>12, <3>1, <3>2, <3>3
  <2>. QED
    BY <2>1, <2>2, <2>3, <2>4, <2>5, <2>6, <2>7, <2>8, <2>9, <2>10, <2>11, <2>12
       DEF Step
<1>. QED
  BY <1>1, <1>2

\* Only finitely many requests have started.
LEMMA StartedStep ==
  ASSUME Inv, \A r \in Request : Course(r), IsFiniteSet(Started),
         NEW q \in Request, Step(q)
  PROVE  IsFiniteSet(Started)'
<1>1. IsFiniteSet(Started \cup {q})
  BY FS_AddElement
<1>2. Started' \in SUBSET (Started \cup {q})
  BY LocalsFrame DEF Started
<1>. QED
  BY <1>1, <1>2, FS_Subset

\* A finite set with at most one element has no two.
LEMMA AtMostOne ==
  ASSUME NEW S, IsFiniteSet(S), Cardinality(S) <= 1
  PROVE  \A a, b \in S : a = b
<1> SUFFICES ASSUME NEW a \in S, NEW b \in S, a # b PROVE FALSE
  OBVIOUS
<1>1. IsFiniteSet(S \ {a}) /\ Cardinality(S \ {a}) = Cardinality(S) - 1
  BY FS_RemoveElement
<1>2. Cardinality(S) \in Nat /\ Cardinality(S \ {a}) \in Nat
  BY <1>1, FS_CardinalityType
<1>3. Cardinality(S \ {a}) = 0
  BY <1>1, <1>2
<1>4. S \ {a} = {}
  BY <1>1, <1>3, FS_EmptySet
<1>. QED
  BY <1>4

\* A dataset that nobody wrote stays as it was.
LEMMA UntouchedStep ==
  ASSUME Inv, Storage, NEW q \in Request, Step(q), NEW h \in Handle, Active(h)' = {}
  PROVE  Untouched(h)'
<1>1. Active(h) = {} /\ Untouched(h)
  BY ActiveGrows DEF Storage
<1>2. info'[h] = info[h]
  BY <1>1, InfoStays DEF Storage
<1> SUFFICES ASSUME Exists(h)'
             PROVE  /\ Furnished(h)'
                    /\ \A r \in Request :
                         req'[r].id = h /\ pc'[r] \in {"lockCheck", "approver"} =>
                           seen'[r] = info'[h]
  BY DEF Untouched
<1>3. Exists(h)
  BY <1>2 DEF Exists
<1>4. Furnished(h)'
  BY <1>1, <1>3, FurnishedStays DEF Storage, Untouched
<1>5. ASSUME NEW r \in Request, req'[r].id = h, pc'[r] \in {"lockCheck", "approver"}
      PROVE  seen'[r] = info'[h]
  <2>1. CASE r # q
    BY <1>1, <1>2, <1>3, <1>5, <2>1, LocalsFrame DEF Storage, Untouched
  <2>2. CASE r = q
    <3> USE DEF Inv, TypeOK, Goto
    <3>1. \/ BeginUpdate(q) \/ BeginRevert(q) \/ BeginVersion(q) \/ BeginGrant(q)
          \/ BeginRequest(q)
      <4>1. ~CheckLock(q) /\ ~CheckApprover(q) /\ ~BeginDecision(q) /\ ~FetchForDecision(q)
        BY <1>5, <2>2 DEF CheckLock, CheckApprover, BeginDecision, FetchForDecision
      <4>2. ~BeginMint(q) /\ ~Draw(q) /\ ~Construct(q) /\ ~Insert(q)
        BY <1>5, <2>2 DEF BeginMint, Draw, Construct, Insert
      <4>3. ~Link(q) /\ ~Refetch(q) /\ ~RepoFetch(q) /\ ~Commit(q)
        BY <1>5, <2>2 DEF Link, Refetch, RepoFetch, Commit
      <4>4. ~WriteFile(q) /\ ~Broker(q) /\ ~Fail(q)
        BY <1>5, <2>2 DEF WriteFile, Broker, Fail
      <4>. QED
        BY <4>1, <4>2, <4>3, <4>4 DEF Step
    <3>2. PICK request \in ReqRecord, label \in {"lockCheck", "approver"} :
             Fetch(q, request, label)
      BY <3>1, FetchFacts
    <3>3. req'[q] = request /\ seen'[q] = info[request.id]
      BY <3>2 DEF Fetch
    <3>. QED
      BY <1>2, <1>5, <2>2, <3>3
  <2>. QED
    BY <2>1, <2>2
<1>. QED
  BY <1>4, <1>5

\* Steps of others leave the only writer of h where it is.
LEMMA AloneOthers ==
  ASSUME Inv, Storage, NEW q \in Request, Step(q), NEW h \in Handle,
         NEW r \in Request \ {q}, Active(h)' = {r}
  PROVE  Alone(r, h)'
<1>1. /\ pc'[r] = pc[r] /\ req'[r] = req[r] /\ out'[r] = out[r]
      /\ fresh'[r] = fresh[r]
  BY LocalsFrame DEF Storage
<1>2. Active(h) = {r}
  <2>1. Target(r)' = Target(r) /\ r \in Active(h)'
    BY <1>1, LocalsFrame DEF Target, Storage
  <2>2. r \in Active(h)
    BY <1>1, <2>1 DEF Active
  <2>. QED
    BY <2>2, ActiveGrows DEF Storage
<1>3. Alone(r, h) /\ q \notin Active(h)
  BY <1>2 DEF Storage
<1>4. info'[h] = info[h]
  BY <1>3, InfoStays DEF Storage
<1>5. Furnished(h) => Furnished(h)'
  BY <1>3, FurnishedStays DEF Storage
<1>. QED
  BY <1>1, <1>3, <1>4, <1>5 DEF Alone

\* A request that has just decided on an edit, a review request or a decision.
LEMMA DecidedStep ==
  ASSUME Inv, Storage, NEW q \in Request, Step(q), NEW h \in Handle,
         Active(h)' = {q}, CheckLock(q) \/ CheckApprover(q) \/ FetchForDecision(q)
  PROVE  Alone(q, h)'
<1> USE DEF Goto
<1>1. Course(q)
  BY DEF Storage
<1>2. /\ pc[q] \in {"lockCheck", "approver", "fetch"} /\ out[q] = NoInfo
      /\ fresh' = fresh /\ fresh[q] = NoHandle /\ req' = req /\ info' = info
      /\ file' = file /\ req[q].id \in Handle
  BY <1>1 DEF CheckLock, CheckApprover, FetchForDecision, Course, store, Inv, Local,
     Ready
<1>3. req[q].id = h /\ out'[q] # NoInfo
  <2>1. q \in Active(h)'
    OBVIOUS
  <2>. QED
    BY <1>2, <2>1, HandleFacts DEF Active, Target
<1>4. Active(h) = {}
  <2>1. q \notin Active(h)
    BY <1>2, HandleFacts DEF Active
  <2>. QED
    BY <2>1, ActiveGrows DEF Storage
<1>5. /\ pc[q] \in {"lockCheck", "approver"} => seen[q] = info[h] /\ info[h] \in Info
      /\ MayDecide(info[h], req[q].by) => info[h] \in Info /\ Sound(info[h])
  BY <1>2, <1>3, <1>4, NoInfoFacts
     DEF Inv, Local, Ready, Storage, Untouched, Exists, Tables, Proper, MayDecide,
         TypeOK, InfoOrNone
<1>6. Exists(h) => Furnished(h)
  BY <1>4 DEF Storage, Untouched
<1>7. /\ info[h] \in Info /\ out'[q].path = info[h].path /\ pc'[q] = "repoFetch"
      /\ req[q].op \in {"request", "decide"} => out'[q].meta = info[h].meta
  <2>1. CASE CheckLock(q)
    <3>1. pc[q] = "lockCheck" /\ req[q].op \notin {"request", "decide"}
      BY <1>1, <2>1 DEF CheckLock, Course
    <3>2. PICK m : /\ out' = [out EXCEPT ![q] = [seen[q] EXCEPT !.meta = m]]
                   /\ pc' = [pc EXCEPT ![q] = "repoFetch"]
      BY <1>2, <1>3, <2>1 DEF CheckLock, Reverted
    <3>3. out'[q] = [seen[q] EXCEPT !.meta = m] /\ pc'[q] = "repoFetch"
      BY <3>2 DEF Inv, TypeOK
    <3>4. out'[q].path = seen[q].path
      BY <1>5, <3>1, <3>3 DEF Info
    <3>. QED
      BY <1>5, <3>1, <3>3, <3>4
  <2>2. CASE CheckApprover(q)
    <3>1. pc[q] = "approver"
      BY <2>2 DEF CheckApprover
    <3>2. /\ out'[q] = WithEntry(seen[q], req[q].by, "REQUEST", "PENDING")
          /\ pc'[q] = "repoFetch"
      BY <1>2, <1>3, <2>2 DEF CheckApprover, Inv, TypeOK
    <3>3. out'[q].path = seen[q].path /\ out'[q].meta = seen[q].meta
      BY <1>5, <3>1, <3>2 DEF WithEntry, Info
    <3>. QED
      BY <1>5, <3>1, <3>2, <3>3
  <2>3. CASE FetchForDecision(q)
    <3>1. /\ MayDecide(info[h], req[q].by) /\ pc'[q] = "repoFetch"
          /\ out'[q] = Decided(info[h], req[q].by, req[q].approve)
      BY <1>2, <1>3, <2>3 DEF FetchForDecision, Inv, TypeOK
    <3>2. info[h] \in Info
      BY <1>5, <3>1
    <3>3. out'[q].path = info[h].path /\ out'[q].meta = info[h].meta
      BY <3>1, <3>2 DEF Decided, WithEntry, Info
    <3>. QED
      BY <3>1, <3>2, <3>3
  <2>. QED
    BY <2>1, <2>2, <2>3
<1>8. Furnished(h)
  BY <1>6, <1>7, NoInfoFacts DEF Exists
<1>9. Furnished(h)'
  <2>1. Intruded(h) => Intruded(h)'
    BY <1>2, <1>8, IntrudedGrows DEF Storage, Furnished
  <2>. QED
    BY <1>2, <1>8, <2>1 DEF Furnished
<1>. QED
  BY <1>2, <1>7, <1>8, <1>9 DEF Alone, Furnished

\* Drawing a handle, constructing a location and inserting a dataset.
LEMMA CreatingStep ==
  ASSUME Inv, Storage, NEW q \in Request, Step(q), NEW h \in Handle,
         Active(h)' = {q}, Draw(q) \/ Construct(q) \/ Insert(q)
  PROVE  Alone(q, h)'
<1> USE DEF Goto, Inv, TypeOK
<1>1. Course(q) /\ Course(q)'
  BY CourseStep DEF Storage
<1>2. fresh'[q] = h /\ fresh'[q] # NoHandle
  <2>1. fresh'[q] # NoHandle
    BY <1>1, HandleFacts DEF Draw, Construct, Insert, Course
  <2>2. q \in Active(h)'
    OBVIOUS
  <2>. QED
    BY <2>1, <2>2 DEF Active, Target
<1>3. CASE Draw(q)
  <2>1. out'[q] = NoInfo /\ pc'[q] \in {"construct", "insert"}
    BY <1>1, <1>3 DEF Draw, Course
  <2>. QED
    BY <1>2, <2>1 DEF Alone
<1>4. CASE Construct(q)
  <2>1. /\ pc[q] = "construct" /\ fresh' = fresh /\ out[q] = NoInfo
        /\ req[q].op = "mint" \/ seen[q] \in Info
    BY <1>1, <1>4 DEF Construct, Course, Local, Ready
  <2>2. /\ pc'[q] \in {"failed", "insert", "repoFetch"}
        /\ out'[q] = NoInfo \/ out'[q] = NewInfo(req[q].meta, h)
           \/ (seen[q] \in Info /\ out'[q] = [seen[q] EXCEPT !.path = h])
    <3>1. CASE pc' = [pc EXCEPT ![q] = "failed"] /\ UNCHANGED out
      BY <2>1, <3>1
    <3>2. CASE req[q].op = "mint"
               /\ pc' = [pc EXCEPT ![q] = "insert"]
               /\ out' = [out EXCEPT ![q] = NewInfo(req[q].meta, fresh[q])]
      BY <1>2, <2>1, <3>2
    <3>3. CASE req[q].op # "mint"
               /\ pc' = [pc EXCEPT ![q] = "repoFetch"]
               /\ out' = [out EXCEPT ![q] = [seen[q] EXCEPT !.path = fresh[q]]]
      BY <1>2, <2>1, <3>3
    <3>. QED
      BY <1>4, <3>1, <3>2, <3>3 DEF Construct, Location
  <2>3. out'[q] # NoInfo => out'[q].path = h
    BY <2>2 DEF NewInfo, Info
  <2>. QED
    BY <1>2, <2>2, <2>3 DEF Alone
<1>5. CASE Insert(q)
  <2>1. /\ pc[q] = "insert" /\ fresh' = fresh /\ out' = out /\ req' = req
        /\ req[q].op \in {"mint", "version"}
        /\ pc'[q] = IF req[q].op = "mint" THEN "file" ELSE "link"
        /\ req[q].op = "mint" => info'[h] = out[q]
    BY <1>1, <1>2, <1>5 DEF Insert, Course
  <2>2. CASE req[q].op = "mint"
    <3>1. out[q] # NoInfo
      BY <2>1, <2>2, NoInfoFacts DEF Local, Ready
    <3>2. q \in Active(h)
      BY <1>2, <2>1 DEF Active, Target
    <3>3. Active(h) = {q}
      BY <3>2, ActiveGrows DEF Storage
    <3>4. out[q].path = h
      BY <3>1, <3>2, <3>3 DEF Storage, Alone
    <3>. QED
      BY <1>2, <2>1, <2>2, <3>4 DEF Alone
  <2>3. CASE req[q].op = "version"
    <3>1. out[q] = NoInfo
      BY <1>1, <2>1, <2>3 DEF Course
    <3>. QED
      BY <1>2, <2>1, <2>3, <3>1 DEF Alone
  <2>. QED
    BY <2>1, <2>2, <2>3
<1>. QED
  BY <1>3, <1>4, <1>5

\* The writes themselves.
LEMMA WritingStep ==
  ASSUME Inv, Storage, NEW q \in Request, Step(q), NEW h \in Handle,
         Active(h)' = {q},
         Link(q) \/ Refetch(q) \/ RepoFetch(q) \/ Commit(q) \/ WriteFile(q) \/ Fail(q)
  PROVE  Alone(q, h)'
<1> USE DEF Goto, Inv, TypeOK
<1>1. /\ UNCHANGED <<req, out, fresh>>
      /\ Course(q)
  BY DEF Link, Refetch, RepoFetch, Commit, WriteFile, Fail, Storage
<1>2. Active(h) = {q} /\ Target(q) = h /\ (out[q] # NoInfo \/ fresh[q] = h)
  <2>1. q \in Active(h)'
    OBVIOUS
  <2>2. q \in Active(h)
    BY <1>1, <2>1 DEF Active, Target
  <2>. QED
    BY <2>2, ActiveGrows DEF Storage, Active
<1>3. Alone(q, h)
  BY <1>2 DEF Storage
<1>4. CASE Link(q) \/ Refetch(q)
  <2>1. pc'[q] \in {"refetch", "construct"} /\ info' = info
    BY <1>4 DEF Link, Refetch, store
  <2>. QED
    BY <1>1, <1>3, <2>1 DEF Alone
<1>5. CASE RepoFetch(q)
  <2>1. pc[q] = "repoFetch" /\ pc'[q] = "commit" /\ info' = info /\ file' = file
    BY <1>5 DEF RepoFetch, store
  <2>2. Furnished(h) => Furnished(h)'
    BY <2>1, IntrudedGrows DEF Furnished, Storage
  <2>. QED
    BY <1>1, <1>3, <2>1, <2>2 DEF Alone
<1>6. CASE Commit(q)
  <2>1. pc[q] = "commit" /\ out[q] # NoInfo /\ out[q].path = h /\ file' = file
    BY <1>1, <1>3, <1>6 DEF Commit, Course, Alone
  <2>2. CASE pc'[q] = "failed" /\ info' = info
    BY <1>1, <1>3, <2>1, <2>2 DEF Alone
  <2>3. CASE info'[h] = out[q] /\ Audited(q) /\ pc'[q] = "file"
    BY <1>1, <2>1, <2>3 DEF Alone
  <2>4. CASE info'[h] = out[q] /\ ~Audited(q) /\ pc'[q] = "done"
    <3>1. fresh[q] = NoHandle /\ req[q].op \in {"request", "decide"}
      BY <1>1, <2>1, <2>4 DEF Course, Audited
    <3>2. Furnished(h) /\ out[q].meta = info[h].meta
      BY <1>3, <2>1, <3>1 DEF Alone
    <3>3. Intruded(h) => Intruded(h)'
      BY <2>1, <2>4, <3>2, IntrudedGrows DEF Furnished, Storage
    <3>4. Furnished(h)'
      BY <2>1, <2>4, <3>2, <3>3 DEF Furnished
    <3>. QED
      BY <1>1, <2>1, <2>4, <3>4 DEF Alone
  <2>. QED
    BY <1>2, <1>6, <2>2, <2>3, <2>4 DEF Commit
<1>7. CASE WriteFile(q)
  <2>1. pc[q] = "file" /\ out[q] # NoInfo
    BY <1>1, <1>7 DEF WriteFile, Course
  <2>2. /\ out[q].path = h /\ info[h] = out[q] /\ info' = info /\ pc'[q] = "done"
        /\ file'[h] = out[q].meta
    BY <1>3, <1>7, <2>1 DEF WriteFile, FileContent, Alone
  <2>3. Furnished(h)'
    BY <2>2 DEF Furnished
  <2>. QED
    BY <1>1, <1>3, <2>2, <2>3 DEF Alone
<1>8. CASE Fail(q)
  <2>1. pc'[q] = "failed" /\ info' = info
    BY <1>8 DEF Fail, store
  <2>. QED
    BY <1>1, <1>3, <2>1 DEF Alone
<1>. QED
  BY <1>4, <1>5, <1>6, <1>7, <1>8

\* Steps of the only writer of h.
LEMMA AloneStep ==
  ASSUME Inv, Storage, NEW q \in Request, Step(q), NEW h \in Handle, Active(h)' = {q}
  PROVE  Alone(q, h)'
<1> USE DEF Goto, Inv, TypeOK
<1>1. out'[q] # NoInfo \/ fresh'[q] # NoHandle
  <2>1. q \in Active(h)'
    OBVIOUS
  <2>. QED
    BY <2>1, HandleFacts DEF Active
<1>2. Course(q)'
  BY CourseStep DEF Storage
<1>3. pc'[q] \notin {"lockCheck", "approver", "fetch", "draw", "broker"}
  BY <1>1, <1>2 DEF Course
<1>4. ~Broker(q)
  BY <1>1 DEF Broker, Storage, Course
<1>5. ~BeginDecision(q) /\ ~BeginMint(q)
  BY <1>3 DEF BeginDecision, BeginMint
<1>6. ~(\/ BeginUpdate(q) \/ BeginRevert(q) \/ BeginVersion(q) \/ BeginGrant(q)
        \/ BeginRequest(q))
  BY <1>3, FetchFacts DEF Fetch
<1>. QED
  BY <1>4, <1>5, <1>6, DecidedStep, CreatingStep, WritingStep DEF Step

-----------------------------------------------------------------------------
\* Nobody is active initially.
LEMMA InitStorage == Init => Storage
<1> SUFFICES ASSUME Init PROVE Storage
  OBVIOUS
<1>1. IsFiniteSet(Started)
  <2>1. Started = {}
    BY DEF Init, Started
  <2>. QED
    BY <2>1, FS_EmptySet
<1>2. \A r \in Request : Course(r)
  BY DEF Init, Course, Asks
<1>3. \A h \in Handle : Active(h) = {}
  BY HandleFacts DEF Init, Active
<1>4. ASSUME NEW h \in Handle
      PROVE  Untouched(h)
  <2>1. Exists(h) => h = Min(Handle)
    BY <1>4 DEF Init, Exists
  <2>2. PICK m \in Meta :
          /\ info = [k \in Handle |-> IF k = Min(Handle) THEN NewInfo(m, Min(Handle))
                                      ELSE NoInfo]
          /\ file = [k \in Handle |-> IF k = Min(Handle) THEN m ELSE NoMeta]
    BY DEF Init
  <2>3. Exists(h) => info[h].path = h /\ file[h] = info[h].meta
    BY <1>4, <2>1, <2>2 DEF NewInfo
  <2>4. \A r \in Request : pc[r] = "idle"
    BY DEF Init
  <2>. QED
    BY <2>3, <2>4 DEF Untouched, Furnished
<1>. QED
  BY <1>1, <1>2, <1>3, <1>4 DEF Storage

\* What happens around the requests touches neither domain infos nor files.
LEMMA AroundStorage ==
  ASSUME Storage, UNCHANGED <<info, file, locals>>
  PROVE  Storage'
BY DEF Storage, locals, Started, Active, Target, Course, Untouched, Exists, Furnished,
       Intruded, Alone

\* Datasets are furnished as far as their writers have got with them.
THEOREM StorageInvariance == Spec => []Storage
<1>1. ASSUME Inv, Storage, [Next]_vars
      PROVE  Storage'
  <2>1. ASSUME NEW q \in Request, Step(q)
        PROVE  Storage'
    <3>1. IsFiniteSet(Started)'
      BY <1>1, <2>1, StartedStep DEF Storage
    <3>2. \A r \in Request : Course(r)'
      BY <1>1, <2>1, CourseStep DEF Storage
    <3>3. \A h \in Handle : Active(h)' = {} => Untouched(h)'
      BY <1>1, <2>1, UntouchedStep
    <3>4. ASSUME NEW h \in Handle, NEW r \in Active(h)', Active(h)' = {r}
          PROVE  Alone(r, h)'
      <4>1. r \in Request
        BY <3>4 DEF Active
      <4>. QED
        BY <1>1, <2>1, <3>4, <4>1, AloneStep, AloneOthers
    <3>. QED
      BY <3>1, <3>2, <3>3, <3>4 DEF Storage
  <2>2. CASE ~\E q \in Request : Step(q)
    <3>1. UNCHANGED <<info, file, locals>>
      BY <1>1, <2>2 DEF Next, SetLocked, Expire, AddReviewer, RemoveReviewer,
         Finished, vars, store
    <3>. QED
      BY <1>1, <3>1, AroundStorage
  <2>. QED
    BY <2>1, <2>2
<1>. QED
  BY <1>1, Invariance, InitStorage, PTL DEF Spec

\* A dataset with at most one writer, who is through, is furnished.
LEMMA SettledIsFurnished ==
  ASSUME Storage, NEW h \in Handle, Exists(h), Settled(h), Cardinality(Writers(h)) <= 1
  PROVE  Furnished(h)
<1>1. Active(h) \subseteq Writers(h)
  <2> SUFFICES ASSUME NEW r \in Active(h) PROVE r \in Writers(h)
    OBVIOUS
  <2>1. /\ r \in Request /\ Course(r) /\ Target(r) = h
        /\ out[r] # NoInfo \/ fresh[r] # NoHandle
    BY HandleFacts DEF Storage, Active
  <2>2. pc[r] # "refused"
    BY <2>1 DEF Course
  <2>3. CASE fresh[r] = NoHandle
    <3>1. req[r].op \in {"update", "revert", "request", "decide"}
      BY <2>1, <2>3 DEF Course
    <3>. QED
      BY <2>1, <2>2, <3>1 DEF Writers
  <2>4. CASE fresh[r] # NoHandle
    <3>1. fresh[r] = h
      BY <2>1, <2>4 DEF Target
    <3>. QED
      BY <2>1, <2>2, <3>1 DEF Writers
  <2>. QED
    BY <2>3, <2>4
<1>2. IsFiniteSet(Writers(h))
  <2>1. Writers(h) \in SUBSET Started
    BY HandleFacts DEF Writers, Started, Storage, Course, Target
  <2>. QED
    BY <2>1, FS_Subset DEF Storage
<1>3. \A a, b \in Writers(h) : a = b
  BY <1>2, AtMostOne
<1>4. CASE Active(h) = {}
  BY <1>4 DEF Storage, Untouched
<1>5. CASE Active(h) # {}
  <2>1. PICK r \in Active(h) : TRUE
    BY <1>5
  <2>2. Active(h) = {r} /\ pc[r] = "done"
    BY <1>1, <1>3, <2>1 DEF Settled
  <2>. QED
    BY <2>1, <2>2 DEF Storage, Alone
<1>. QED
  BY <1>4, <1>5

\* A dataset that one request alone minted, versioned or edited has a location
\* of its own, and the metadata file there describes it (datasetService.ts,
\* constructS3Path and writeMetadataFile).
THEOREM FoldersAreOwnAndFresh == Spec => []FoldersMatchDatasets
<1>1. Storage => FoldersMatchDatasets
  <2> SUFFICES ASSUME Storage PROVE OwnStorage /\ MetadataFileIsFresh
    BY DEF FoldersMatchDatasets
  <2>1. OwnStorage
    BY SettledIsFurnished DEF OwnStorage, Furnished
  <2>2. MetadataFileIsFresh
    BY SettledIsFurnished DEF MetadataFileIsFresh, Furnished
  <2>. QED
    BY <2>1, <2>2
<1>. QED
  BY <1>1, StorageInvariance, PTL
=============================================================================
