--------------------------- MODULE Auxiliary_proofs ---------------------------
(***************************************************************************)
(* For any number of requests, users, persons and groups: what is lodged   *)
(* is kept, decisions and notes stand, links are to persons that were      *)
(* complete, what is replaced unasked was written meanwhile, and an import *)
(* of groups that nobody disturbs does what it says; and the lists of      *)
(* handles are sound.                                                      *)
(***************************************************************************)
EXTENDS Auxiliary, WellFoundedInduction, SequenceTheorems, FiniteSetTheorems, TLAPS

-----------------------------------------------------------------------------
(* Where requests are.                                                     *)

HandleLabels == {"insertHandle", "setProperties"}
AccessLabels == {"createRequest", "mailRequest", "update"}
LinkLabels == {"validate", "assign"}
GroupLabels == {"addMember", "removeMembers", "putGroup", "importGroup",
                "importMembers"}
ItemLabels == {"readSettings", "readGroups", "readOwner", "putSettings"}

\* The steps of requests about what the behaviour is about.
AreaLabels ==
  IF area = "handles" THEN HandleLabels
  ELSE IF area = "accessRequests" THEN AccessLabels
  ELSE IF area = "links" THEN LinkLabels
  ELSE IF area = "groups" THEN GroupLabels
  ELSE ItemLabels

PcInv ==
  /\ area \in Areas
  /\ pc \in [Request -> {"idle", "done", "failed"} \cup AreaLabels]

\* A request goes on to a step of its area.
LEMMA GotoInv ==
  ASSUME PcInv, NEW r \in Request,
         NEW label \in {"idle", "done", "failed"} \cup AreaLabels,
         Goto(r, label), UNCHANGED area
  PROVE  PcInv'
BY DEF PcInv, Goto, AreaLabels

LEMMA PcInit == Init => PcInv
BY DEF Init, PoolInit, PcInv, AreaLabels

LEMMA PcStep == PcInv /\ [Next]_vars => PcInv'
<1> SUFFICES ASSUME PcInv, [Next]_vars PROVE PcInv'
  OBVIOUS
<1> USE DEF AreaLabels
<1>1. CASE UNCHANGED vars \/ Finished
  BY <1>1 DEF vars, Finished, PcInv
<1>2. CASE Step
  <2>0. UNCHANGED area
    BY <1>2 DEF Step
  <2>1. CASE area = "handles" /\ HandleNext
    <3>1. PICK r \in Request :
            BeginMint(r) \/ InsertHandle(r) \/ BeginChange(r) \/ SetProperties(r)
      BY <2>1 DEF HandleNext
    <3>2. Goto(r, "insertHandle") \/ Goto(r, "done") \/ Goto(r, "setProperties")
      BY <3>1 DEF BeginMint, InsertHandle, BeginChange, SetProperties
    <3>. QED
      BY <2>0, <2>1, <3>2, GotoInv DEF HandleLabels
  <2>2. CASE area = "accessRequests" /\ AccessNext
    <3>1. CASE Tick
      BY <3>1, <2>0 DEF Tick, PcInv
    <3>2. ASSUME NEW r \in Request,
                 \/ BeginRequestChange(r) \/ CreateRequest(r) \/ MailRequest(r)
                 \/ BeginAddNote(r) \/ BeginChangeState(r) \/ Update(r)
                 \/ DeleteRequest(r)
          PROVE  PcInv'
      <4>1. \E label \in {"createRequest", "mailRequest", "update", "done", "failed"} :
              Goto(r, label)
        BY <3>2 DEF BeginRequestChange, CreateRequest, MailRequest, BeginAddNote,
             BeginChangeState, Update, DeleteRequest, BeginAct
      <4>. QED
        BY <2>0, <2>2, <4>1, GotoInv DEF AccessLabels
    <3>. QED
      BY <2>2, <3>1, <3>2 DEF AccessNext
  <2>3. CASE area = "links" /\ LinkNext
    <3>1. PICK r \in Request :
            ChangePerson(r) \/ BeginAssign(r) \/ Validate(r) \/ Assign(r)
            \/ ClearLink(r)
      BY <2>3 DEF LinkNext
    <3>2. \E label \in {"validate", "assign", "done", "failed"} : Goto(r, label)
      BY <3>1 DEF ChangePerson, BeginAssign, Validate, Assign, ClearLink
    <3>. QED
      BY <2>0, <2>3, <3>2, GotoInv DEF LinkLabels
  <2>4. CASE area = "groups" /\ GroupNext
    <3>1. PICK r \in Request :
            \/ BeginAddMember(r) \/ AddMember(r)
            \/ BeginRemoveMembers(r) \/ RemoveMember(r)
            \/ BeginPutGroup(r) \/ PutGroup(r)
            \/ RemoveGroup(r)
            \/ BeginImport(r) \/ ImportGroup(r) \/ ImportMembers(r)
            \/ ImportDelete(r) \/ EndImport(r)
      BY <2>4 DEF GroupNext
    <3>2. UNCHANGED pc \/ \E label \in GroupLabels \cup {"done", "failed"} : Goto(r, label)
      <4> USE DEF GroupLabels
      <4>1. CASE BeginAddMember(r) \/ BeginRemoveMembers(r) \/ BeginPutGroup(r)
                 \/ RemoveGroup(r)
        BY <4>1 DEF BeginAddMember, BeginRemoveMembers, BeginPutGroup, RemoveGroup,
             BeginGroup
      <4>2. CASE AddMember(r) \/ RemoveMember(r) \/ PutGroup(r)
        BY <4>2 DEF AddMember, RemoveMember, PutGroup
      <4>3. CASE BeginImport(r)
        BY <4>3 DEF BeginImport
      <4>4. CASE ImportGroup(r) \/ ImportMembers(r) \/ ImportDelete(r) \/ EndImport(r)
        BY <4>4 DEF ImportGroup, ImportMembers, ImportDelete, EndImport
      <4>. QED
        BY <3>1, <4>1, <4>2, <4>3, <4>4
    <3>3. CASE UNCHANGED pc
      BY <3>3, <2>0 DEF PcInv
    <3>. QED
      BY <2>0, <2>4, <3>2, <3>3, GotoInv
  <2>5. CASE area = "items" /\ ItemNext
    <3>1. PICK r \in Request :
            \/ NoItem(r) \/ BeginDecision(r) \/ ReadSettings(r) \/ ReadGroups(r)
            \/ BeginPut(r) \/ ReadOwner(r) \/ PutSettings(r)
            \/ ChangeLock(r) \/ ChangeMember(r) \/ DeleteAskedItem(r)
      BY <2>5 DEF ItemNext
    <3>2. \E label \in ItemLabels \cup {"done", "failed"} : Goto(r, label)
      BY <3>1 DEF NoItem, BeginDecision, ReadSettings, ReadGroups, BeginPut, ReadOwner,
         PutSettings, ChangeLock, ChangeMember, DeleteAskedItem, Answered, ItemLabels
    <3>. QED
      BY <2>0, <2>5, <3>2, GotoInv
  <2>6. CASE \E r \in Request : Fail(r)
    BY <2>6, <2>0, GotoInv DEF Fail
  <2>. QED
    BY <1>2, <2>1, <2>2, <2>3, <2>4, <2>5, <2>6 DEF Step
<1>. QED
  BY <1>1, <1>2 DEF Next

-----------------------------------------------------------------------------
(* Access requests.                                                        *)

\* What is lodged is in the table once it is there, until it is deleted.
KeptFromTheStart ==
  \A r \in Request :
    act[r].op = "requestChange" /\ pc[r] \in {"mailRequest", "done"} =>
      \/ r \in removed
      \/ Lodged(act[r].key) /\ access[act[r].key].by = r

\* A request is at a step of its operation, and is about a row that may exist.
ActInv ==
  \A r \in Request :
    /\ act[r].op # "none" => area = "accessRequests" /\ act[r].key \in Key
    /\ act[r].op = "requestChange" =>
         pc[r] \in {"createRequest", "mailRequest", "done", "failed"}
    /\ pc[r] \in {"createRequest", "mailRequest"} => act[r].op = "requestChange"
    /\ pc[r] = "update" => act[r].op \in {"addNote", "changeState"}
    /\ pc[r] \in AccessLabels => act[r].key \in Key
    /\ act[r].op = "requestChange" /\ pc[r] = "done" /\ act[r].flag => r \in mailed

AccessInv ==
  /\ PcInv
  /\ AccessTypeOK
  /\ ActInv
  /\ KeptFromTheStart
  /\ DecisionStands
  /\ UndisturbedNotesAreKept

LEMMA AccessInvInit == Init => AccessInv
<1> SUFFICES ASSUME Init PROVE AccessInv
  OBVIOUS
<1>1. PcInv
  BY PcInit
<1>2. /\ now = 0 /\ access = [k \in Key |-> NoRequest] /\ mailed = {}
      /\ act = [r \in Request |-> NoAct] /\ found = [r \in Request |-> <<>>]
      /\ answered = [k \in Key |-> <<>>] /\ decided = [k \in Key |-> Pending]
      /\ removed = {} /\ crossed = {}
      /\ pc = [r \in Request |-> "idle"]
  BY DEF Init, AccessInit, PoolInit
<1>3. AccessTypeOK
  BY <1>2, MaxTimeAssumption
     DEF AccessTypeOK, Second, Act, NoAct, RequestStatus, Pending
<1>4. ActInv /\ KeptFromTheStart
  BY <1>2 DEF ActInv, KeptFromTheStart, NoAct, AccessLabels
<1>5. DecisionStands /\ UndisturbedNotesAreKept
  BY <1>2 DEF DecisionStands, UndisturbedNotesAreKept, Lodged
<1>. QED
  BY <1>1, <1>3, <1>4, <1>5 DEF AccessInv

\* Lodging a request, and telling the approvers.
LEMMA LodgeStep ==
  ASSUME AccessInv, PcInv', UNCHANGED area, area = "accessRequests",
         NEW r \in Request,
         BeginRequestChange(r) \/ CreateRequest(r) \/ MailRequest(r)
  PROVE  AccessInv'
<1> USE DEF AccessInv
<1>1. CASE BeginRequestChange(r)
  <2>1. PICK u \in User, flag \in BOOLEAN :
          BeginAct(r, "requestChange", <<u, now>>, Pending, flag, "createRequest")
    BY <1>1 DEF BeginRequestChange
  <2>2. UNCHANGED <<now, access, mailed, found, answered, decided, removed, crossed>>
    BY <1>1, <2>1 DEF BeginRequestChange, BeginAct, accessTables, accessHistory
  <2>3. <<u, now>> \in Key /\ Pending \in RequestStatus
    BY DEF AccessTypeOK, Key, RequestStatus
  <2>4. AccessTypeOK'
    BY <2>1, <2>2, <2>3 DEF AccessTypeOK, BeginAct, Act
  <2>5. \A q \in Request : q # r => act'[q] = act[q] /\ pc'[q] = pc[q]
    BY <2>1 DEF BeginAct, Goto, PcInv, AccessTypeOK
  <2>6. pc[r] = "idle" /\ pc'[r] = "createRequest" /\ act'[r].op = "requestChange"
        /\ act'[r].key = <<u, now>>
    BY <2>1 DEF BeginAct, Goto, PcInv, AccessTypeOK
  <2>7. ActInv'
    BY <2>2, <2>3, <2>5, <2>6 DEF ActInv, AccessLabels
  <2>8. KeptFromTheStart'
    BY <2>2, <2>5, <2>6 DEF KeptFromTheStart, Lodged
  <2>9. (DecisionStands /\ UndisturbedNotesAreKept)'
    BY <2>2 DEF DecisionStands, UndisturbedNotesAreKept, Lodged
  <2>. QED
    BY <2>4, <2>7, <2>8, <2>9
<1>2. CASE CreateRequest(r)
  <2> DEFINE k == act[r].key
  <2>1. pc[r] = "createRequest" /\ k \in Key /\ act[r].op = "requestChange"
    BY <1>2 DEF CreateRequest, ActInv, AccessLabels
  <2>2. UNCHANGED <<now, mailed, act, found, removed>>
    BY <1>2 DEF CreateRequest, accessLocals
  <2>3. CASE Collides(k)
    <3>1. UNCHANGED <<access, answered, decided, crossed>> /\ Goto(r, "failed")
      BY <1>2, <2>3 DEF CreateRequest
    <3>2. \A q \in Request : pc'[q] = IF q = r THEN "failed" ELSE pc[q]
      BY <3>1 DEF Goto, PcInv
    <3>3. AccessTypeOK'
      BY <2>2, <3>1 DEF AccessTypeOK
    <3>4. ActInv' /\ KeptFromTheStart'
      BY <2>2, <3>1, <3>2 DEF ActInv, KeptFromTheStart, Lodged, AccessLabels
    <3>5. (DecisionStands /\ UndisturbedNotesAreKept)'
      BY <3>1 DEF DecisionStands, UndisturbedNotesAreKept, Lodged
    <3>. QED
      BY <3>3, <3>4, <3>5
  <2>4. CASE ~Collides(k)
    <3> DEFINE new == [status |-> Pending, notes |-> <<>>, by |-> r]
               label == IF act[r].flag THEN "mailRequest" ELSE "done"
    <3>1. /\ access' = [access EXCEPT ![k] = new]
          /\ answered' = [answered EXCEPT ![k] = <<>>]
          /\ decided' = [decided EXCEPT ![k] = Pending]
          /\ crossed' = crossed \ {k}
          /\ Goto(r, label)
      BY <1>2, <2>4 DEF CreateRequest
    <3>2. new \in AccessRow /\ new # NoRequest /\ new.status = Pending
          /\ new.notes = <<>> /\ new.by = r
      BY DEF AccessRow, NoRequest, RequestStatus, Pending
    <3>3. ~Lodged(k)
      BY <2>4 DEF Collides
    <3> HIDE DEF new
    <3>4. \A q \in Request : pc'[q] = IF q = r THEN label ELSE pc[q]
      BY <3>1 DEF Goto, PcInv
    <3>5. \A j \in Key : j # k => access'[j] = access[j]
                                  /\ answered'[j] = answered[j] /\ decided'[j] = decided[j]
      BY <3>1 DEF AccessTypeOK
    <3>6. access'[k] = new /\ answered'[k] = <<>> /\ decided'[k] = Pending
      BY <2>1, <3>1 DEF AccessTypeOK
    <3>7. AccessTypeOK'
      BY <2>1, <2>2, <3>1, <3>2 DEF AccessTypeOK, RequestStatus
    <3>8. ActInv'
      BY <2>1, <2>2, <3>4 DEF ActInv, AccessLabels
    <3>9. KeptFromTheStart'
      <4> SUFFICES ASSUME NEW q \in Request, act[q].op = "requestChange",
                          pc'[q] \in {"mailRequest", "done"}, q \notin removed
                   PROVE  Lodged(act[q].key)' /\ access'[act[q].key].by = q
        BY <2>2 DEF KeptFromTheStart
      <4>1. CASE q = r
        BY <4>1, <3>2, <3>6, <2>2 DEF Lodged
      <4>2. CASE q # r
        <5>1. Lodged(act[q].key) /\ access[act[q].key].by = q
          BY <4>2, <3>4 DEF KeptFromTheStart
        <5>2. act[q].key # k
          BY <5>1, <3>3
        <5>3. access'[act[q].key] = access[act[q].key]
          BY <3>1, <5>2 DEF AccessTypeOK
        <5>. QED
          BY <5>1, <5>3, <2>2 DEF Lodged
      <4>. QED
        BY <4>1, <4>2
    <3>10. DecisionStands'
      BY <3>2, <3>5, <3>6 DEF DecisionStands, Lodged
    <3>11. UndisturbedNotesAreKept'
      BY <3>1, <3>2, <3>5, <3>6 DEF UndisturbedNotesAreKept, Lodged
    <3>. QED
      BY <3>7, <3>8, <3>9, <3>10, <3>11
  <2>. QED
    BY <2>3, <2>4
<1>3. CASE MailRequest(r)
  <2>1. pc[r] = "mailRequest" /\ mailed' = mailed \cup {r} /\ Goto(r, "done")
        /\ UNCHANGED <<now, access, act, found, answered, decided, removed, crossed>>
    BY <1>3 DEF MailRequest, accessLocals, accessHistory
  <2>2. \A q \in Request : pc'[q] = IF q = r THEN "done" ELSE pc[q]
    BY <2>1 DEF Goto, PcInv
  <2>3. AccessTypeOK'
    BY <2>1 DEF AccessTypeOK
  <2>4. ActInv' /\ KeptFromTheStart'
    BY <2>1, <2>2 DEF ActInv, KeptFromTheStart, Lodged, AccessLabels
  <2>5. (DecisionStands /\ UndisturbedNotesAreKept)'
    BY <2>1 DEF DecisionStands, UndisturbedNotesAreKept, Lodged
  <2>. QED
    BY <2>3, <2>4, <2>5
<1>. QED
  BY <1>1, <1>2, <1>3

\* Fetching a row to add a note or to decide.
LEMMA FetchStep ==
  ASSUME AccessInv, PcInv', UNCHANGED area, area = "accessRequests",
         NEW r \in Request, BeginAddNote(r) \/ BeginChangeState(r)
  PROVE  AccessInv'
<1> USE DEF AccessInv
<1>1. PICK k \in Key, op \in {"addNote", "changeState"}, to \in RequestStatus,
           flag \in BOOLEAN :
        /\ Lodged(k)
        /\ BeginAct(r, op, k, to, flag, "update")
        /\ found' = [found EXCEPT ![r] = access[k].notes]
  <2>1. Pending \in RequestStatus
    BY DEF RequestStatus
  <2>. QED
    BY <2>1 DEF BeginAddNote, BeginChangeState
<1>2. UNCHANGED <<now, access, mailed, answered, decided, removed, crossed>>
  BY <1>1 DEF BeginAddNote, BeginChangeState, BeginAct, accessTables, accessHistory
<1>3. access[k] \in AccessRow
  BY <1>1 DEF Lodged, AccessTypeOK
<1>4. AccessTypeOK'
  <2>1. access[k].notes \in Seq(Request)
    BY <1>3 DEF AccessRow
  <2>2. found' \in [Request -> Seq(Request)]
    BY <1>1, <2>1 DEF AccessTypeOK
  <2>3. act' \in [Request -> Act]
    BY <1>1 DEF AccessTypeOK, BeginAct, Act
  <2>. QED
    BY <1>2, <2>2, <2>3 DEF AccessTypeOK
<1>5. \A q \in Request : q # r => act'[q] = act[q] /\ pc'[q] = pc[q]
  BY <1>1 DEF BeginAct, Goto, PcInv, AccessTypeOK
<1>6. pc'[r] = "update" /\ act'[r].op = op /\ act'[r].key = k
  BY <1>1 DEF BeginAct, Goto, PcInv, AccessTypeOK
<1>7. ActInv'
  BY <1>2, <1>5, <1>6 DEF ActInv, AccessLabels
<1>8. KeptFromTheStart'
  BY <1>2, <1>5, <1>6 DEF KeptFromTheStart, Lodged
<1>9. (DecisionStands /\ UndisturbedNotesAreKept)'
  BY <1>2 DEF DecisionStands, UndisturbedNotesAreKept, Lodged
<1>. QED
  BY <1>4, <1>7, <1>8, <1>9

\* Writing the notes, and the state, back.
LEMMA UpdateStep ==
  ASSUME AccessInv, PcInv', UNCHANGED area, area = "accessRequests",
         NEW r \in Request, Update(r)
  PROVE  AccessInv'
<1> USE DEF AccessInv
<1> DEFINE k == act[r].key
<1>1. pc[r] = "update" /\ k \in Key /\ act[r].op \in {"addNote", "changeState"}
  BY DEF Update, ActInv, AccessLabels
<1>2. UNCHANGED <<now, mailed, act, found, removed>> /\ Goto(r, "done")
  BY DEF Update, accessLocals
<1>3. \A q \in Request : pc'[q] = IF q = r THEN "done" ELSE pc[q]
  BY <1>2 DEF Goto, PcInv
<1>4. ActInv'
  BY <1>1, <1>2, <1>3 DEF ActInv, AccessLabels
<1>5. CASE ~Lodged(k)
  <2>1. UNCHANGED <<access, answered, decided, crossed>>
    BY <1>5 DEF Update
  <2>2. AccessTypeOK'
    BY <1>2, <2>1 DEF AccessTypeOK
  <2>3. KeptFromTheStart'
    BY <1>1, <1>2, <1>3, <2>1 DEF KeptFromTheStart, Lodged
  <2>4. (DecisionStands /\ UndisturbedNotesAreKept)'
    BY <2>1 DEF DecisionStands, UndisturbedNotesAreKept, Lodged
  <2>. QED
    BY <1>4, <2>2, <2>3, <2>4
<1>6. CASE Lodged(k)
  <2> DEFINE new == access'[k]
  <2>1. /\ access' = [access EXCEPT ![k].notes = Notes(r),
                                    ![k].status = StatusWritten(r, @)]
        /\ answered' = [answered EXCEPT ![k] =
                          IF act[r].flag THEN Append(@, r) ELSE @]
        /\ decided' = [decided EXCEPT ![k] =
                         IF act[r].op = "changeState" THEN act[r].to ELSE @]
        /\ crossed' = IF access[k].notes = found[r] THEN crossed
                      ELSE crossed \cup {k}
    BY <1>6 DEF Update
  <2>2. /\ access[k] \in AccessRow
        /\ answered[k] \in Seq(Request) /\ found[r] \in Seq(Request)
        /\ act[r].to \in RequestStatus /\ decided[k] \in RequestStatus
        /\ k \in DOMAIN access /\ k \in DOMAIN answered /\ k \in DOMAIN decided
    BY <1>1, <1>6 DEF Lodged, AccessTypeOK, Act
  <2>3. Notes(r) \in Seq(Request)
    BY <2>2 DEF Notes
  <2>4. StatusWritten(r, access[k].status) \in RequestStatus
    BY <2>2 DEF StatusWritten, AccessRow
  <2>5. new = [access[k] EXCEPT !.notes = Notes(r),
                                !.status = StatusWritten(r, access[k].status)]
    BY <2>1, <2>2
  <2>6. /\ new \in AccessRow
        /\ new.notes = Notes(r) /\ new.by = access[k].by
        /\ new.status = StatusWritten(r, access[k].status)
    BY <2>2, <2>3, <2>4, <2>5 DEF AccessRow
  <2>7. new # NoRequest
    BY <2>6 DEF AccessRow, NoRequest, RequestStatus, Pending
  <2>8. \A j \in Key : j # k => access'[j] = access[j]
                                /\ answered'[j] = answered[j] /\ decided'[j] = decided[j]
    BY <2>1 DEF AccessTypeOK
  <2>9. answered'[k] = IF act[r].flag THEN Append(answered[k], r) ELSE answered[k]
    BY <2>1, <2>2
  <2>10. decided'[k] = IF act[r].op = "changeState" THEN act[r].to ELSE decided[k]
    BY <2>1, <2>2
  <2>11. answered'[k] \in Seq(Request) /\ decided'[k] \in RequestStatus
    BY <2>2, <2>9, <2>10
  <2>12. /\ DOMAIN access' = Key /\ access' = [j \in Key |-> access'[j]]
         /\ DOMAIN answered' = Key /\ answered' = [j \in Key |-> answered'[j]]
         /\ DOMAIN decided' = Key /\ decided' = [j \in Key |-> decided'[j]]
    BY <2>1 DEF AccessTypeOK
  <2> HIDE DEF new
  <2>13. AccessTypeOK'
    <3>1. \A j \in Key : /\ access'[j] \in AccessRow \cup {NoRequest}
                         /\ answered'[j] \in Seq(Request) /\ decided'[j] \in RequestStatus
      BY <2>6, <2>8, <2>11 DEF AccessTypeOK, new
    <3>2. crossed' \subseteq Key
      BY <1>1, <2>1 DEF AccessTypeOK
    <3>. QED
      BY <1>2, <2>12, <3>1, <3>2 DEF AccessTypeOK
  <2>14. \A j \in Key : Lodged(j)' <=> Lodged(j)
    BY <1>6, <2>7, <2>8 DEF Lodged, new
  <2>15. \A j \in Key : access'[j].by = access[j].by
    BY <2>6, <2>8 DEF new
  <2>16. KeptFromTheStart'
    <3> SUFFICES ASSUME NEW q \in Request, act[q].op = "requestChange",
                        pc'[q] \in {"mailRequest", "done"}, q \notin removed
                 PROVE  Lodged(act[q].key)' /\ access'[act[q].key].by = q
      BY <1>2 DEF KeptFromTheStart
    <3>1. q # r /\ pc'[q] = pc[q]
      BY <1>1, <1>3
    <3>2. Lodged(act[q].key) /\ access[act[q].key].by = q
      BY <3>1 DEF KeptFromTheStart
    <3>3. act[q].key \in Key
      BY DEF ActInv
    <3>. QED
      BY <3>2, <3>3, <2>14, <2>15, <1>2 DEF Lodged
  <2>17. DecisionStands'
    <3>1. access[k].status = decided[k]
      BY <1>1, <1>6 DEF DecisionStands
    <3>2. access'[k].status = decided'[k]
      BY <3>1, <2>6, <2>10 DEF StatusWritten, new
    <3>. QED
      BY <2>8, <2>14, <3>2 DEF DecisionStands
  <2>18. UndisturbedNotesAreKept'
    <3> SUFFICES ASSUME NEW j \in Key, Lodged(j), j \notin crossed'
                 PROVE  access'[j].notes = answered'[j]
      BY <2>14 DEF UndisturbedNotesAreKept
    <3>1. j \notin crossed /\ access[j].notes = answered[j]
      BY <2>1 DEF UndisturbedNotesAreKept
    <3>2. CASE j = k
      <4>1. access[k].notes = found[r]
        BY <3>2, <2>1
      <4>. QED
        BY <3>1, <3>2, <4>1, <2>6, <2>9 DEF Notes, new
    <3>3. CASE j # k
      BY <3>1, <3>3, <2>8
    <3>. QED
      BY <3>2, <3>3
  <2>. QED
    BY <1>4, <2>13, <2>16, <2>17, <2>18
<1>. QED
  BY <1>5, <1>6

LEMMA DeleteRequestStep ==
  ASSUME AccessInv, PcInv', UNCHANGED area, area = "accessRequests",
         NEW r \in Request, DeleteRequest(r)
  PROVE  AccessInv'
<1> USE DEF AccessInv
<1>1. PICK k \in Key :
        /\ Lodged(k)
        /\ BeginAct(r, "delete", k, Pending, FALSE, "done")
        /\ access' = [access EXCEPT ![k] = NoRequest]
        /\ removed' = removed \cup {access[k].by}
        /\ UNCHANGED <<mailed, found, answered, decided, crossed>>
  BY DEF DeleteRequest
<1>2. UNCHANGED now
  BY <1>1 DEF BeginAct
<1>3. access[k] \in AccessRow
  BY <1>1 DEF Lodged, AccessTypeOK
<1>4. AccessTypeOK'
  <2>1. act' \in [Request -> Act]
    BY <1>1 DEF AccessTypeOK, BeginAct, Act, RequestStatus
  <2>2. access[k].by \in Request
    BY <1>3 DEF AccessRow
  <2>3. access' \in [Key -> AccessRow \cup {NoRequest}]
    BY <1>1 DEF AccessTypeOK
  <2>. QED
    BY <1>1, <1>2, <2>1, <2>2, <2>3 DEF AccessTypeOK
<1>5. \A q \in Request : q # r => act'[q] = act[q] /\ pc'[q] = pc[q]
  BY <1>1 DEF BeginAct, Goto, PcInv, AccessTypeOK
<1>6. pc'[r] = "done" /\ act'[r].op = "delete" /\ act'[r].key = k
  BY <1>1 DEF BeginAct, Goto, PcInv, AccessTypeOK
<1>7. ActInv'
  BY <1>1, <1>5, <1>6 DEF ActInv, AccessLabels
<1>8. \A j \in Key : access'[j] = IF j = k THEN NoRequest ELSE access[j]
  BY <1>1 DEF AccessTypeOK
<1>9. KeptFromTheStart'
  <2> SUFFICES ASSUME NEW q \in Request, act'[q].op = "requestChange",
                      pc'[q] \in {"mailRequest", "done"}, q \notin removed'
               PROVE  Lodged(act[q].key)' /\ access'[act'[q].key].by = q
    BY <1>5, <1>6 DEF KeptFromTheStart, Lodged
  <2>1. q # r /\ act'[q] = act[q] /\ pc'[q] = pc[q]
    BY <1>5, <1>6
  <2>2. Lodged(act[q].key) /\ access[act[q].key].by = q /\ act[q].key \in Key
    BY <1>1, <2>1 DEF KeptFromTheStart, ActInv
  <2>3. act[q].key # k
    BY <1>1, <2>2
  <2>. QED
    BY <1>8, <2>1, <2>2, <2>3 DEF Lodged
<1>10. \A j \in Key : Lodged(j)' => j # k /\ Lodged(j) /\ access'[j] = access[j]
  BY <1>8 DEF Lodged
<1>11. (DecisionStands /\ UndisturbedNotesAreKept)'
  BY <1>1, <1>10 DEF DecisionStands, UndisturbedNotesAreKept
<1>. QED
  BY <1>4, <1>7, <1>9, <1>11

\* Time goes on, a request fails, or the behaviour is about something else.
LEMMA AccessUnchanged ==
  ASSUME AccessInv, PcInv', UNCHANGED <<area, act, access, mailed, found, answered,
                                        decided, removed, crossed>>,
         now' \in Second,
         \A r \in Request : \/ pc'[r] = pc[r] \/ pc'[r] = "failed"
                           \/ area # "accessRequests"
  PROVE  AccessInv'
<1> USE DEF AccessInv
<1>1. AccessTypeOK'
  BY DEF AccessTypeOK
<1>2. ASSUME area # "accessRequests"
      PROVE  \A r \in Request : act[r].op = "none" /\ pc'[r] \notin AccessLabels
  BY <1>2 DEF ActInv, PcInv, AreaLabels, HandleLabels, LinkLabels, GroupLabels,
       ItemLabels, AccessLabels
<1>3. ActInv'
  BY <1>2 DEF ActInv, AccessLabels
<1>4. KeptFromTheStart'
  BY <1>2 DEF KeptFromTheStart, Lodged
<1>5. (DecisionStands /\ UndisturbedNotesAreKept)'
  BY DEF DecisionStands, UndisturbedNotesAreKept, Lodged
<1>. QED
  BY <1>1, <1>3, <1>4, <1>5

LEMMA AccessStep == AccessInv /\ [Next]_vars => AccessInv'
<1> SUFFICES ASSUME AccessInv, [Next]_vars PROVE AccessInv'
  OBVIOUS
<1>1. PcInv' /\ PcInv
  BY PcStep DEF AccessInv
<1>2. now \in Second
  BY DEF AccessInv, AccessTypeOK
<1>3. CASE UNCHANGED vars \/ Finished
  <2>1. UNCHANGED vars
    BY <1>3 DEF Finished
  <2>. QED
    BY <2>1, <1>1, <1>2, AccessUnchanged
       DEF vars, accessVars, accessTables, accessLocals, accessHistory
<1>4. CASE Step
  <2>0. UNCHANGED area
    BY <1>4 DEF Step
  <2>1. CASE area = "accessRequests" /\ AccessNext
    <3>1. CASE Tick
      <4>1. now' \in Second
        BY <3>1, <1>2, MaxTimeAssumption DEF Tick, Second
      <4>. QED
        BY <3>1, <4>1, <2>0, <1>1, AccessUnchanged
           DEF Tick, accessTables, accessLocals, accessHistory
    <3>2. CASE \E r \in Request :
                 \/ BeginRequestChange(r) \/ CreateRequest(r) \/ MailRequest(r)
                 \/ BeginAddNote(r) \/ BeginChangeState(r) \/ Update(r)
                 \/ DeleteRequest(r)
      BY <3>2, <2>1, <2>0, <1>1, LodgeStep, FetchStep, UpdateStep, DeleteRequestStep
    <3>. QED
      BY <2>1, <3>1, <3>2 DEF AccessNext
  <2>2. CASE \E r \in Request : Fail(r) /\ UNCHANGED accessVars
    <3>1. UNCHANGED accessVars /\ \A q \in Request : pc'[q] = pc[q] \/ pc'[q] = "failed"
      BY <2>2, <1>1 DEF Fail, Goto, PcInv
    <3>. QED
      BY <3>1, <2>0, <1>1, <1>2, AccessUnchanged
         DEF accessVars, accessTables, accessLocals, accessHistory
  <2>3. CASE area # "accessRequests" /\ UNCHANGED accessVars
    BY <2>3, <2>0, <1>1, <1>2, AccessUnchanged
       DEF accessVars, accessTables, accessLocals, accessHistory
  <2>. QED
    BY <1>4, <2>1, <2>2, <2>3 DEF Step
<1>. QED
  BY <1>3, <1>4 DEF Next

\* Who is told that a request for access was lodged finds it in the table until
\* an administrator deletes it, whoever else asks in the same second.
THEOREM RequestTheorem == Spec => []AcknowledgedRequestIsKept
<1>1. AccessInv => AcknowledgedRequestIsKept
  BY DEF AccessInv, KeptFromTheStart, ActInv, AcknowledgedRequestIsKept
<1>. QED
  BY AccessInvInit, AccessStep, <1>1, PTL DEF Spec

\* The state of a request is the last one that an administrator gave it.
THEOREM DecisionTheorem == Spec => []DecisionStands
<1>1. AccessInv => DecisionStands
  BY DEF AccessInv
<1>. QED
  BY AccessInvInit, AccessStep, <1>1, PTL DEF Spec

\* Notes are lost only when one is written over notes that it had not seen.
THEOREM NotesTheorem == Spec => []UndisturbedNotesAreKept
<1>1. AccessInv => UndisturbedNotesAreKept
  BY DEF AccessInv
<1>. QED
  BY AccessInvInit, AccessStep, <1>1, PTL DEF Spec

-----------------------------------------------------------------------------
(* Links.                                                                  *)

\* A request that has looked a link up knows of every change since, or the
\* link is as it found it; and what it will link is valid, or unchecked.
AssignInv ==
  /\ \A p \in Person : person[p] = "complete" => p \in wasComplete
  /\ \A r \in Request :
       pc[r] \in LinkLabels =>
         /\ assign[r].user \in User /\ assign[r].person \in Person
         /\ linksSeen[r] <= links[assign[r].user]
         /\ ~assign[r].force /\ link[assign[r].user] # NoPerson
              => links[assign[r].user] > linksSeen[r]
         /\ pc[r] = "assign" /\ assign[r].validate => assign[r].person \in wasComplete

LinkInv == PcInv /\ LinkTypeOK /\ AssignInv /\ LinkedPersonWasComplete

LEMMA LinkInvInit == Init => LinkInv
<1> SUFFICES ASSUME Init PROVE LinkInv
  OBVIOUS
<1>1. PcInv
  BY PcInit
<1>2. LinkTypeOK /\ AssignInv /\ LinkedPersonWasComplete
  BY DEF Init, LinkInit, PoolInit, LinkTypeOK, AssignInv, LinkedPersonWasComplete,
     Assignment, NoAssignment, LinkLabels
<1>. QED
  BY <1>1, <1>2 DEF LinkInv

\* A request that looks a link up, or checks a person.
LEMMA LookupStep ==
  ASSUME LinkInv, PcInv', area = "links", UNCHANGED area, NEW r \in Request,
         BeginAssign(r) \/ Validate(r)
  PROVE  LinkInv'
<1> USE DEF LinkInv
<1>1. CASE BeginAssign(r)
  <2>1. PICK u \in User, p \in Person, force \in BOOLEAN, validate \in BOOLEAN :
          /\ MayAssign(u, force)
          /\ assign' = [assign EXCEPT ![r] =
               [user |-> u, person |-> p, force |-> force, validate |-> validate]]
          /\ linksSeen' = [linksSeen EXCEPT ![r] = links[u]]
          /\ Goto(r, IF validate THEN "validate" ELSE "assign")
    BY <1>1 DEF BeginAssign
  <2>2. UNCHANGED <<person, link, links, wasComplete, unchecked>>
    BY <1>1 DEF BeginAssign
  <2>3. links[u] \in Nat
    BY DEF LinkTypeOK
  <2>4. LinkTypeOK'
    BY <2>1, <2>2, <2>3 DEF LinkTypeOK, Assignment
  <2>5. /\ assign'[r].user = u /\ assign'[r].person = p /\ assign'[r].force = force
        /\ assign'[r].validate = validate /\ linksSeen'[r] = links[u]
        /\ pc'[r] = IF validate THEN "validate" ELSE "assign"
    BY <2>1 DEF LinkTypeOK, PcInv, Goto
  <2>6. \A q \in Request : q # r => /\ assign'[q] = assign[q] /\ pc'[q] = pc[q]
                                    /\ linksSeen'[q] = linksSeen[q]
    BY <2>1 DEF LinkTypeOK, PcInv, Goto
  <2>7. AssignInv'
    BY <2>1, <2>2, <2>3, <2>5, <2>6 DEF AssignInv, MayAssign
  <2>8. LinkedPersonWasComplete'
    BY <2>2 DEF LinkedPersonWasComplete
  <2>. QED
    BY <2>4, <2>7, <2>8
<1>2. CASE Validate(r)
  <2>1. /\ pc[r] = "validate" /\ UNCHANGED linkVars
        /\ Goto(r, IF ValidPerson(assign[r].person) THEN "assign" ELSE "failed")
    BY <1>2 DEF Validate
  <2>2. \A q \in Request : q # r => pc'[q] = pc[q]
    BY <2>1 DEF PcInv, Goto
  <2>3. \/ pc'[r] = "failed"
        \/ pc'[r] = "assign" /\ person[assign[r].person] = "complete"
    BY <2>1 DEF PcInv, Goto, ValidPerson
  <2>4. AssignInv'
    BY <2>1, <2>2, <2>3 DEF AssignInv, linkVars, LinkLabels
  <2>. QED
    BY <2>1, <2>4 DEF linkVars, LinkTypeOK, LinkedPersonWasComplete
<1>. QED
  BY <1>1, <1>2

\* A request that changes a link.
LEMMA ChangeLinkStep ==
  ASSUME LinkInv, PcInv', area = "links", UNCHANGED area, NEW r \in Request,
         Assign(r) \/ ClearLink(r)
  PROVE  LinkInv'
<1> USE DEF LinkInv
<1>1. PICK u \in User, p \in Person \cup {NoPerson} :
        /\ link' = [link EXCEPT ![u] = p]
        /\ links' = [links EXCEPT ![u] = @ + 1]
        /\ Goto(r, "done") /\ UNCHANGED <<person, assign, linksSeen, wasComplete>>
        /\ \/ p = NoPerson /\ UNCHANGED unchecked
           \/ p \in wasComplete /\ unchecked' = unchecked \ {u}
           \/ unchecked' = unchecked \cup {u}
  <2>1. CASE Assign(r)
    <3>1. assign[r].user \in User /\ assign[r].person \in Person
          /\ (assign[r].validate => assign[r].person \in wasComplete)
      BY <2>1 DEF Assign, AssignInv, LinkLabels
    <3>. QED
      BY <2>1, <3>1 DEF Assign
  <2>2. CASE ClearLink(r)
    BY <2>2 DEF ClearLink
  <2>. QED
    BY <2>1, <2>2
<1>2. links[u] \in Nat
  BY DEF LinkTypeOK
<1>3. LinkTypeOK'
  BY <1>1, <1>2 DEF LinkTypeOK
<1>4. \A q \in Request : pc'[q] = IF q = r THEN "done" ELSE pc[q]
  BY <1>1 DEF PcInv, Goto
<1>5. \A v \in User : /\ link'[v] = IF v = u THEN p ELSE link[v]
                      /\ links'[v] = IF v = u THEN links[u] + 1 ELSE links[v]
  BY <1>1 DEF LinkTypeOK
<1>6. AssignInv'
  <2>1. ASSUME NEW q \in Request, pc'[q] \in LinkLabels
        PROVE  /\ pc[q] = pc'[q]
               /\ linksSeen[q] <= links'[assign[q].user]
               /\ ~assign[q].force /\ link'[assign[q].user] # NoPerson
                    => links'[assign[q].user] > linksSeen[q]
    <3>1. pc'[q] = pc[q]
      BY <1>4, <2>1 DEF LinkLabels
    <3>2. assign[q].user \in User /\ linksSeen[q] \in Nat
          /\ linksSeen[q] <= links[assign[q].user]
          /\ (~assign[q].force /\ link[assign[q].user] # NoPerson
              => links[assign[q].user] > linksSeen[q])
      BY <2>1, <3>1 DEF AssignInv, LinkTypeOK
    <3>. QED
      BY <1>2, <1>5, <3>1, <3>2
  <2>. QED
    BY <1>1, <2>1 DEF AssignInv
<1>7. LinkedPersonWasComplete'
  BY <1>1, <1>5 DEF LinkedPersonWasComplete
<1>. QED
  BY <1>3, <1>6, <1>7

LEMMA ChangePersonStep ==
  ASSUME LinkInv, PcInv', area = "links", UNCHANGED area, NEW r \in Request,
         ChangePerson(r)
  PROVE  LinkInv'
<1> USE DEF LinkInv
<1>1. UNCHANGED <<link, assign, links, linksSeen, unchecked>> /\ Goto(r, "done")
  BY DEF ChangePerson
<1>2. LinkTypeOK' /\ wasComplete \subseteq wasComplete'
      /\ \A p \in Person : person'[p] = "complete" => p \in wasComplete'
  BY <1>1 DEF ChangePerson, LinkTypeOK, ItemState, AssignInv
<1>3. \A q \in Request : pc'[q] = IF q = r THEN "done" ELSE pc[q]
  BY <1>1 DEF PcInv, Goto
<1>4. AssignInv'
  BY <1>1, <1>2, <1>3 DEF AssignInv, LinkLabels
<1>5. LinkedPersonWasComplete'
  BY <1>1, <1>2 DEF LinkedPersonWasComplete
<1>. QED
  BY <1>2, <1>4, <1>5

LEMMA LinksUnchanged ==
  ASSUME LinkInv, PcInv', UNCHANGED <<area, linkVars>>,
         \A r \in Request : \/ pc'[r] = pc[r] \/ pc'[r] = "failed"
                           \/ area # "links"
  PROVE  LinkInv'
<1> USE DEF LinkInv
<1>1. area # "links" => \A r \in Request : pc'[r] \notin LinkLabels
  BY DEF PcInv, AreaLabels, HandleLabels, AccessLabels, GroupLabels, LinkLabels,
       ItemLabels
<1>2. AssignInv'
  BY <1>1 DEF AssignInv, linkVars, LinkLabels
<1>. QED
  BY <1>2 DEF linkVars, LinkTypeOK, LinkedPersonWasComplete

LEMMA LinkStep == LinkInv /\ [Next]_vars => LinkInv'
<1> SUFFICES ASSUME LinkInv, [Next]_vars PROVE LinkInv'
  OBVIOUS
<1>1. PcInv' /\ PcInv
  BY PcStep DEF LinkInv
<1>2. CASE UNCHANGED vars \/ Finished
  <2>1. UNCHANGED vars
    BY <1>2 DEF Finished
  <2>. QED
    BY <2>1, <1>1, LinksUnchanged DEF vars
<1>3. CASE Step
  <2>0. UNCHANGED area
    BY <1>3 DEF Step
  <2>1. CASE area = "links" /\ LinkNext
    BY <2>1, <2>0, <1>1, LookupStep, ChangeLinkStep, ChangePersonStep DEF LinkNext
  <2>2. CASE \E r \in Request : Fail(r) /\ UNCHANGED linkVars
    <3>1. UNCHANGED linkVars /\ \A q \in Request : pc'[q] = pc[q] \/ pc'[q] = "failed"
      BY <2>2, <1>1 DEF Fail, Goto, PcInv
    <3>. QED
      BY <3>1, <2>0, <1>1, LinksUnchanged
  <2>3. CASE area # "links" /\ UNCHANGED linkVars
    BY <2>3, <2>0, <1>1, LinksUnchanged
  <2>. QED
    BY <1>3, <2>1, <2>2, <2>3 DEF Step
<1>. QED
  BY <1>2, <1>3 DEF Next

\* Unless validation was waived, who is linked was a complete person once.
THEOREM LinkTheorem == Spec => []LinkedPersonWasComplete
<1>1. LinkInv => LinkedPersonWasComplete
  BY DEF LinkInv
<1>. QED
  BY LinkInvInit, LinkStep, <1>1, PTL DEF Spec

\* A link replaced without force was made after the request looked it up.
THEOREM UnforcedTheorem == Spec => UnforcedAssignmentOverlapped
<1> DEFINE A == \A r \in Request :
                  pc[r] = "assign" /\ pc'[r] = "done" /\ ~assign[r].force
                  /\ link[assign[r].user] # NoPerson
                  => links[assign[r].user] > linksSeen[r]
<1>1. LinkInv => A
  BY DEF LinkInv, AssignInv, LinkLabels
<1>2. Spec => []LinkInv
  BY LinkInvInit, LinkStep, PTL DEF Spec
<1> HIDE DEF A
<1>3. Spec => [][A]_<<linkVars, pc>>
  BY <1>1, <1>2, PTL
<1>. QED
  BY <1>3 DEF A, UnforcedAssignmentOverlapped

-----------------------------------------------------------------------------
(* Groups.                                                                 *)

\* A request about to put a group knows of every write of its row, or the row
\* is there, or not, as the request wants it.
PutInv ==
  \A r \in Request :
    pc[r] = "putGroup" =>
      /\ about[r] \in Group
      /\ gop[r] \in {"addGroup", "updateGroup"}
      /\ writesSeen[r] <= writes[about[r]]
      /\ (gop[r] = "addGroup" <=> about[r] \in Present)
           => writes[about[r]] > writesSeen[r]

PutTypeOK ==
  /\ group \in [Group -> Request \cup {NoGroup, Before}]
  /\ gop \in [Request -> GroupOps]
  /\ about \in [Request -> Group \cup {NoGroup}]
  /\ writes \in [Group -> Nat]
  /\ writesSeen \in [Request -> Nat]
  /\ todo \in [Request -> SUBSET Group]
  /\ deleting \in [Request -> SUBSET Group]

GroupInv == PcInv /\ PutTypeOK /\ PutInv

LEMMA GroupInvInit == Init => GroupInv
<1> SUFFICES ASSUME Init PROVE GroupInv
  OBVIOUS
<1>1. PcInv
  BY PcInit
<1>2. PutTypeOK /\ PutInv
  BY DEF Init, GroupInit, PoolInit, PutTypeOK, PutInv, GroupOps
<1>. QED
  BY <1>1, <1>2 DEF GroupInv

\* A request that begins with a look at a group.
LEMMA BeginGroupStep ==
  ASSUME GroupInv, PcInv', NEW r \in Request,
         NEW op \in GroupOps, NEW g \in Group, NEW us,
         NEW label \in {"addMember", "removeMembers", "putGroup"},
         BeginGroup(r, op, g, us, label),
         label = "putGroup" => MayPut(op, g) /\ op \in {"addGroup", "updateGroup"},
         UNCHANGED <<group, writes, todo, deleting>>
  PROVE  GroupInv'
<1> USE DEF GroupInv
<1>1. /\ gop' = [gop EXCEPT ![r] = op] /\ about' = [about EXCEPT ![r] = g]
      /\ writesSeen' = [writesSeen EXCEPT ![r] = writes[g]] /\ Goto(r, label)
  BY DEF BeginGroup
<1>2. writes[g] \in Nat
  BY DEF PutTypeOK
<1>3. PutTypeOK'
  BY <1>1, <1>2 DEF PutTypeOK
<1>4. \A q \in Request : q # r => /\ gop'[q] = gop[q] /\ about'[q] = about[q]
                                  /\ writesSeen'[q] = writesSeen[q] /\ pc'[q] = pc[q]
  BY <1>1 DEF PutTypeOK, PcInv, Goto
<1>5. /\ gop'[r] = op /\ about'[r] = g /\ writesSeen'[r] = writes[g]
      /\ pc'[r] = label
  BY <1>1 DEF PutTypeOK, PcInv, Goto
<1>6. Present' = Present
  BY DEF Present
<1>7. PutInv'
  BY <1>2, <1>4, <1>5, <1>6 DEF PutInv, MayPut
<1>. QED
  BY <1>3, <1>7

\* A request that writes the row of a group.
LEMMA WriteGroupStep ==
  ASSUME GroupInv, PcInv', NEW r \in Request,
         PutGroup(r) \/ RemoveGroup(r) \/ ImportGroup(r) \/ ImportDelete(r)
  PROVE  GroupInv'
<1> USE DEF GroupInv
<1>1. PICK g \in Group, by \in Request \cup {NoGroup} :
        /\ group' = [group EXCEPT ![g] = by]
        /\ writes' = [writes EXCEPT ![g] = @ + 1]
  <2>1. CASE PutGroup(r)
    BY <2>1 DEF PutGroup, CountWrite, PutInv
  <2>2. CASE RemoveGroup(r)
    BY <2>2 DEF RemoveGroup, GroupRemoved, CountWrite, Present
  <2>3. CASE ImportGroup(r)
    <3>1. PICK g \in todo[r] : group' = [group EXCEPT ![g] = r]
                               /\ writes' = [writes EXCEPT ![g] = @ + 1]
      BY <2>3 DEF ImportGroup, CountWrite
    <3>2. g \in Group
      BY <3>1 DEF PutTypeOK
    <3>. QED
      BY <3>1, <3>2
  <2>4. CASE ImportDelete(r)
    <3>1. PICK g \in deleting[r] : GroupRemoved(g)
      BY <2>4 DEF ImportDelete
    <3>2. g \in Group
      BY <3>1 DEF PutTypeOK
    <3>. QED
      BY <3>1, <3>2 DEF GroupRemoved, CountWrite
  <2>. QED
    BY <2>1, <2>2, <2>3, <2>4
<1>2. /\ todo' \in [Request -> SUBSET Group] /\ deleting' \in [Request -> SUBSET Group]
      /\ gop' \in [Request -> GroupOps] /\ about' \in [Request -> Group \cup {NoGroup}]
      /\ writesSeen' \in [Request -> Nat]
  <2>1. CASE PutGroup(r)
    BY <2>1 DEF PutGroup, requestVars, importVars, PutTypeOK
  <2>2. CASE RemoveGroup(r)
    <3>1. PICK h \in Present : BeginGroup(r, "removeGroup", h, {}, "done")
      BY <2>2 DEF RemoveGroup
    <3>2. h \in Group /\ writes[h] \in Nat /\ "removeGroup" \in GroupOps
      BY DEF Present, PutTypeOK, GroupOps
    <3>. QED
      BY <2>2, <3>1, <3>2 DEF RemoveGroup, BeginGroup, importVars, PutTypeOK
  <2>3. CASE ImportGroup(r)
    BY <2>3 DEF ImportGroup, importVars, PutTypeOK
  <2>4. CASE ImportDelete(r)
    <3>1. UNCHANGED <<gop, about, todo, writesSeen>>
          /\ \E h \in deleting[r] : deleting' = [deleting EXCEPT ![r] = @ \ {h}]
      BY <2>4 DEF ImportDelete, requestVars
    <3>. QED
      BY <3>1 DEF PutTypeOK
  <2>. QED
    BY <2>1, <2>2, <2>3, <2>4
<1>3. PutTypeOK'
  BY <1>1, <1>2 DEF PutTypeOK
<1>4. pc'[r] # "putGroup"
  BY DEF PutGroup, RemoveGroup, BeginGroup, ImportGroup, ImportDelete, Goto, PcInv
<1>5. \A q \in Request : q # r => /\ gop'[q] = gop[q] /\ about'[q] = about[q]
                                  /\ writesSeen'[q] = writesSeen[q] /\ pc'[q] = pc[q]
  <2>1. CASE PutGroup(r)
    BY <2>1 DEF PutGroup, requestVars, Goto, PutTypeOK, PcInv
  <2>2. CASE RemoveGroup(r)
    BY <2>2 DEF RemoveGroup, BeginGroup, Goto, PutTypeOK, PcInv
  <2>3. CASE ImportGroup(r)
    BY <2>3 DEF ImportGroup, Goto, PutTypeOK, PcInv
  <2>4. CASE ImportDelete(r)
    BY <2>4 DEF ImportDelete, requestVars
  <2>. QED
    BY <2>1, <2>2, <2>3, <2>4
<1>6. \A h \in Group : /\ writes'[h] = IF h = g THEN writes[g] + 1 ELSE writes[h]
                       /\ h # g => (h \in Present' <=> h \in Present)
  BY <1>1 DEF PutTypeOK, Present
<1>7. PutInv'
  <2> SUFFICES ASSUME NEW q \in Request, pc'[q] = "putGroup"
               PROVE  /\ about'[q] \in Group
                      /\ gop'[q] \in {"addGroup", "updateGroup"}
                      /\ writesSeen'[q] <= writes'[about'[q]]
                      /\ (gop'[q] = "addGroup" <=> about'[q] \in Present')
                           => writes'[about'[q]] > writesSeen'[q]
    BY DEF PutInv
  <2>1. /\ q # r /\ pc[q] = "putGroup" /\ gop'[q] = gop[q] /\ about'[q] = about[q]
        /\ writesSeen'[q] = writesSeen[q]
    BY <1>4, <1>5
  <2>2. writes[about[q]] \in Nat /\ writesSeen[q] \in Nat
    BY <2>1 DEF PutTypeOK, PutInv
  <2>. QED
    BY <1>6, <2>1, <2>2 DEF PutInv
<1>. QED
  BY <1>3, <1>7

\* A request that writes members, or begins or ends an import.
LEMMA MembersStep ==
  ASSUME GroupInv, PcInv', NEW r \in Request,
         \/ AddMember(r) \/ RemoveMember(r)
         \/ BeginImport(r) \/ ImportMembers(r) \/ EndImport(r)
  PROVE  GroupInv'
<1> USE DEF GroupInv
<1>1. UNCHANGED <<group, about, writes, writesSeen>>
  BY DEF AddMember, RemoveMember, BeginImport, ImportMembers, EndImport,
     requestVars, groupTables, groupHistory, groupVars
<1>2. /\ pc'[r] # "putGroup"
      /\ \A q \in Request : q # r => pc'[q] = pc[q] /\ gop'[q] = gop[q]
  BY DEF AddMember, RemoveMember, BeginImport, ImportMembers, EndImport, Goto,
     requestVars, groupVars, PcInv, PutTypeOK
<1>3. gop' \in [Request -> GroupOps]
  BY DEF AddMember, RemoveMember, BeginImport, ImportMembers, EndImport,
     requestVars, groupVars, PutTypeOK, GroupOps
<1>4. todo' \in [Request -> SUBSET Group] /\ deleting' \in [Request -> SUBSET Group]
  <2>1. CASE AddMember(r) \/ RemoveMember(r) \/ EndImport(r)
    BY <2>1 DEF AddMember, RemoveMember, EndImport, importVars, groupVars, PutTypeOK
  <2>2. CASE ImportMembers(r)
    <3>1. \/ UNCHANGED <<todo, deleting>>
          \/ UNCHANGED deleting /\ \E h : todo' = [todo EXCEPT ![r] = @ \ {h}]
      BY <2>2 DEF ImportMembers
    <3>. QED
      BY <3>1 DEF PutTypeOK
  <2>3. CASE BeginImport(r)
    <3>1. \/ UNCHANGED <<todo, deleting>>
          \/ \E f \in Files, drop \in SUBSET Present :
               /\ todo' = [todo EXCEPT ![r] = DOMAIN f]
               /\ deleting' = [deleting EXCEPT ![r] = drop]
      BY <2>3 DEF BeginImport, importVars, Unmatched
    <3>2. \A f \in Files : DOMAIN f \subseteq Group
      BY DEF Files
    <3>3. Present \subseteq Group
      BY DEF Present
    <3>. QED
      BY <3>1, <3>2, <3>3 DEF PutTypeOK
  <2>. QED
    BY <2>1, <2>2, <2>3
<1>5. PutTypeOK'
  BY <1>1, <1>3, <1>4 DEF PutTypeOK
<1>6. PutInv'
  BY <1>1, <1>2 DEF PutInv, Present
<1>. QED
  BY <1>5, <1>6

LEMMA GroupsUnchanged ==
  ASSUME GroupInv, PcInv', UNCHANGED <<area, groupVars>>,
         \A r \in Request : \/ pc'[r] = pc[r] \/ pc'[r] = "failed"
                           \/ area # "groups"
  PROVE  GroupInv'
<1> USE DEF GroupInv
<1>1. area # "groups" => \A r \in Request : pc'[r] # "putGroup"
  BY DEF PcInv, AreaLabels, Areas, HandleLabels, AccessLabels, LinkLabels, ItemLabels
<1>2. UNCHANGED <<group, gop, about, writes, writesSeen, todo, deleting>>
  BY DEF groupVars, groupTables, requestVars, importVars, groupHistory
<1>3. PutTypeOK'
  BY <1>2 DEF PutTypeOK
<1>4. PutInv'
  BY <1>1, <1>2 DEF PutInv, Present
<1>. QED
  BY <1>3, <1>4

LEMMA GroupStep == GroupInv /\ [Next]_vars => GroupInv'
<1> SUFFICES ASSUME GroupInv, [Next]_vars PROVE GroupInv'
  OBVIOUS
<1>1. PcInv' /\ PcInv
  BY PcStep DEF GroupInv
<1>2. CASE UNCHANGED vars \/ Finished
  <2>1. UNCHANGED vars
    BY <1>2 DEF Finished
  <2>. QED
    BY <2>1, <1>1, GroupsUnchanged DEF vars
<1>3. CASE Step
  <2>0. UNCHANGED area
    BY <1>3 DEF Step
  <2>1. CASE area = "groups" /\ GroupNext
    <3>1. CASE \E r \in Request :
                 BeginAddMember(r) \/ BeginRemoveMembers(r) \/ BeginPutGroup(r)
      <4>1. PICK r \in Request :
              BeginAddMember(r) \/ BeginRemoveMembers(r) \/ BeginPutGroup(r)
        BY <3>1
      <4>2. \E op \in GroupOps, g \in Group, us \in SUBSET User,
                label \in {"addMember", "removeMembers", "putGroup"} :
              /\ BeginGroup(r, op, g, us, label)
              /\ label = "putGroup" => MayPut(op, g) /\ op \in {"addGroup", "updateGroup"}
        <5>1. CASE BeginAddMember(r)
          BY <5>1 DEF BeginAddMember, Present, GroupOps
        <5>2. CASE BeginRemoveMembers(r)
          BY <5>2 DEF BeginRemoveMembers, GroupOps
        <5>3. CASE BeginPutGroup(r)
          BY <5>3 DEF BeginPutGroup, GroupOps
        <5>. QED
          BY <4>1, <5>1, <5>2, <5>3
      <4>3. UNCHANGED <<group, writes, todo, deleting>>
        BY <4>1 DEF BeginAddMember, BeginRemoveMembers, BeginPutGroup, groupTables,
           importVars
      <4>. QED
        BY <4>2, <4>3, <1>1, BeginGroupStep
    <3>2. CASE \E r \in Request :
                 PutGroup(r) \/ RemoveGroup(r) \/ ImportGroup(r) \/ ImportDelete(r)
      BY <3>2, <1>1, WriteGroupStep
    <3>3. CASE \E r \in Request :
                 \/ AddMember(r) \/ RemoveMember(r)
                 \/ BeginImport(r) \/ ImportMembers(r) \/ EndImport(r)
      BY <3>3, <1>1, MembersStep
    <3>. QED
      BY <2>1, <3>1, <3>2, <3>3 DEF GroupNext
  <2>2. CASE \E r \in Request : Fail(r) /\ UNCHANGED groupVars
    <3>1. UNCHANGED groupVars /\ \A q \in Request : pc'[q] = pc[q] \/ pc'[q] = "failed"
      BY <2>2, <1>1 DEF Fail, Goto, PcInv
    <3>. QED
      BY <3>1, <2>0, <1>1, GroupsUnchanged
  <2>3. CASE area # "groups" /\ UNCHANGED groupVars
    BY <2>3, <2>0, <1>1, GroupsUnchanged
  <2>. QED
    BY <1>3, <2>1, <2>2, <2>3 DEF Step
<1>. QED
  BY <1>2, <1>3 DEF Next

\* add_group replaces a group, and update_group revives one, only if the group
\* was written after they looked it up.
THEOREM PutTheorem == Spec => StalePutGroupOverlapped
<1> DEFINE A == \A r \in Request :
                  pc[r] = "putGroup" /\ pc'[r] = "done"
                  /\ (gop[r] = "addGroup" <=> about[r] \in Present)
                  => writes[about[r]] > writesSeen[r]
<1>1. GroupInv => A
  BY DEF GroupInv, PutInv
<1>2. Spec => []GroupInv
  BY GroupInvInit, GroupStep, PTL DEF Spec
<1> HIDE DEF A
<1>3. Spec => [][A]_<<groupVars, pc>>
  BY <1>1, <1>2, PTL
<1>. QED
  BY <1>3 DEF A, StalePutGroupOverlapped

-----------------------------------------------------------------------------
(* The import of groups.                                                   *)

\* The import has written the description of g, and not yet its members.
Halfway(r, g) ==
  /\ g = about[r] /\ group[g] = r
  /\ members[g] = base[r].members[g]

\* How far the import of r, undisturbed, has got with the tables it listed.
Importing(r) ==
  /\ pc[r] \in {"importGroup", "importMembers", "done", "failed"}
  /\ base[r].drop = {} \/ base[r].drop = Listed(r) \ DOMAIN file[r]
  /\ deleting[r] \subseteq base[r].drop
  /\ newSize[r] = Cardinality(Listed(r)) + Cardinality(DOMAIN file[r] \ Listed(r))
                    - Cardinality(base[r].drop)
  /\ todo[r] # {} => deleting[r] = base[r].drop
  /\ pc[r] = "done" => todo[r] = {} /\ deleting[r] = {}
  /\ pc[r] = "importMembers" => Halfway(r, about[r])
  /\ \A g \in DOMAIN file[r] \ todo[r] : Imported(r, g)
  /\ \A g \in todo[r] :
       \/ Untouched(r, g)
       \/ pc[r] \in {"importMembers", "failed"} /\ Halfway(r, g)
  /\ \A g \in Group \ DOMAIN file[r] :
       IF g \in base[r].drop \ deleting[r] THEN group[g] = NoGroup
       ELSE Untouched(r, g)

ImportLocal(r) ==
  /\ pc[r] \in {"addMember", "removeMembers", "putGroup"} => about[r] \in Group
  /\ pc[r] = "importMembers" => about[r] \in todo[r]
  /\ pc[r] = "idle" \/ area # "groups" => base[r] = NoBase
  /\ Undisturbed(r) => Importing(r)

\* What an import keeps, it keeps per request.
ImportTypeOK ==
  /\ GroupTypeOK
  /\ file = [r \in Request |-> file[r]] /\ todo = [r \in Request |-> todo[r]]
  /\ newSize = [r \in Request |-> newSize[r]] /\ base = [r \in Request |-> base[r]]

ImportInv == PcInv /\ ImportTypeOK /\ \A r \in Request : ImportLocal(r)

LEMMA ImportInvInit == Init => ImportInv
<1> SUFFICES ASSUME Init PROVE ImportInv
  OBVIOUS
<1>1. PcInv
  BY PcInit
<1>2. NoFile \in Files /\ DOMAIN NoFile = {}
  BY DEF NoFile, Files
<1>3. GroupTypeOK
  BY <1>2 DEF Init, GroupInit, GroupTypeOK, GroupOps
<1>5. ImportTypeOK
  BY <1>3 DEF ImportTypeOK, Init, GroupInit
<1>4. \A r \in Request : ImportLocal(r)
  BY DEF Init, PoolInit, GroupInit, ImportLocal, Undisturbed
<1>. QED
  BY <1>1, <1>5, <1>4 DEF ImportInv

\* What a file names are groups, with users.
LEMMA FileFacts ==
  ASSUME NEW f \in Files
  PROVE  /\ DOMAIN f \subseteq Group
         /\ \A g \in DOMAIN f : f[g] \in SUBSET User
BY DEF Files

\* Others' imports after a step of q: disturbed, or as they were.
LEMMA OthersImport ==
  ASSUME ImportInv, UNCHANGED area, NEW q \in Request,
         \A r \in Request \ {q} :
           /\ pc'[r] = pc[r] /\ gop'[r] = gop[r] /\ about'[r] = about[r]
           /\ file'[r] = file[r] /\ todo'[r] = todo[r] /\ deleting'[r] = deleting[r]
           /\ newSize'[r] = newSize[r]
           /\ \/ base'[r] = NoBase
              \/ base'[r] = base[r] /\ UNCHANGED <<group, members>>
  PROVE  \A r \in Request \ {q} : ImportLocal(r)'
<1> SUFFICES ASSUME NEW r \in Request \ {q} PROVE ImportLocal(r)'
  OBVIOUS
<1>1. ImportLocal(r)
  BY DEF ImportInv
<1>2. CASE base'[r] = NoBase
  BY <1>1, <1>2 DEF ImportLocal, Undisturbed
<1>3. CASE base'[r] = base[r] /\ UNCHANGED <<group, members>>
  <2>1. Undisturbed(r)' => Undisturbed(r)
    BY <1>3 DEF Undisturbed
  <2>2. /\ Listed(r)' = Listed(r)
        /\ \A g \in Group : Imported(r, g)' <=> Imported(r, g)
        /\ \A g \in Group : Untouched(r, g)' <=> Untouched(r, g)
        /\ \A g : Halfway(r, g)' <=> Halfway(r, g)
    <3>1. /\ base'[r] = base[r] /\ group' = group /\ members' = members
          /\ about'[r] = about[r] /\ file'[r] = file[r]
      BY <1>3
    <3>2. Listed(r)' = Listed(r)
      BY <3>1 DEF Listed
    <3>3. \A g \in Group : Imported(r, g)' <=> Imported(r, g)
      BY <3>1 DEF Imported
    <3>4. \A g \in Group : Untouched(r, g)' <=> Untouched(r, g)
      BY <3>1 DEF Untouched
    <3>5. \A g : Halfway(r, g)' <=> Halfway(r, g)
      BY <3>1 DEF Halfway
    <3>. QED
      BY <3>2, <3>3, <3>4, <3>5
  <2>3. DOMAIN file[r] \subseteq Group /\ todo[r] \subseteq Group
    BY FileFacts DEF ImportInv, ImportTypeOK, GroupTypeOK
  <2>4. Importing(r) => Importing(r)'
    BY <1>3, <2>2, <2>3 DEF Importing
  <2>. QED
    BY <1>1, <1>3, <2>1, <2>4 DEF ImportLocal
<1>. QED
  BY <1>2, <1>3

\* Whose operation is no import is not importing.
LEMMA NotImporting ==
  ASSUME ImportInv, NEW q \in Request, Undisturbed(q)
  PROVE  pc[q] \in {"importGroup", "importMembers", "done", "failed"}
BY DEF ImportInv, ImportLocal, Importing

\* Steps that begin, and steps of operations that are no imports.
LEMMA PlainGroupStep ==
  ASSUME ImportInv, PcInv', UNCHANGED area, area = "groups", NEW q \in Request,
         \/ BeginAddMember(q) \/ AddMember(q)
         \/ BeginRemoveMembers(q) \/ RemoveMember(q)
         \/ BeginPutGroup(q) \/ PutGroup(q) \/ RemoveGroup(q)
  PROVE  ImportInv'
<1> USE DEF ImportInv, ImportTypeOK
<1>1. \/ base' = base /\ UNCHANGED <<group, members>>
      \/ base' = [r \in Request |-> IF r = q THEN base[r] ELSE NoBase]
  BY DEF BeginAddMember, AddMember, BeginRemoveMembers, RemoveMember, BeginPutGroup,
     PutGroup, RemoveGroup, DisturbOthers, groupTables
<1>2. UNCHANGED <<file, todo, deleting, newSize>>
  BY DEF BeginAddMember, AddMember, BeginRemoveMembers, RemoveMember, BeginPutGroup,
     PutGroup, RemoveGroup, importVars
<1>3. /\ pc[q] \in {"idle", "addMember", "removeMembers", "putGroup"}
      /\ ~Undisturbed(q)
  <2>1. pc[q] \in {"idle", "addMember", "removeMembers", "putGroup"}
    BY DEF BeginAddMember, AddMember, BeginRemoveMembers, RemoveMember, BeginPutGroup,
       PutGroup, RemoveGroup, BeginGroup
  <2>. QED
    BY <2>1, NotImporting
<1>4. \A r \in Request \ {q} :
        pc'[r] = pc[r] /\ gop'[r] = gop[r] /\ about'[r] = about[r]
  BY DEF BeginAddMember, AddMember, BeginRemoveMembers, RemoveMember, BeginPutGroup,
     PutGroup, RemoveGroup, BeginGroup, Goto, requestVars, PcInv, GroupTypeOK
<1>5. \A r \in Request \ {q} : ImportLocal(r)'
  BY <1>1, <1>2, <1>4, OthersImport
<1>6. /\ pc'[q] \in {"addMember", "removeMembers", "putGroup"} => about'[q] \in Group
      /\ pc'[q] \notin {"idle", "importMembers"}
      /\ gop'[q] = "import" => gop[q] = "import"
  <2> USE DEF Goto, PcInv, GroupTypeOK, ImportLocal
  <2>1. CASE BeginAddMember(q) \/ BeginRemoveMembers(q) \/ BeginPutGroup(q) \/ RemoveGroup(q)
    BY <2>1 DEF BeginAddMember, BeginRemoveMembers, BeginPutGroup, RemoveGroup,
       BeginGroup, Present
  <2>2. CASE AddMember(q) \/ PutGroup(q)
    BY <2>2 DEF AddMember, PutGroup, requestVars
  <2>3. CASE RemoveMember(q)
    BY <2>3 DEF RemoveMember
  <2>. QED
    BY <2>1, <2>2, <2>3
<1>7. base'[q] = base[q]
  BY <1>1
<1>8. ImportLocal(q)'
  BY <1>3, <1>6, <1>7 DEF ImportLocal, Undisturbed
<1>9. GroupTypeOK'
  <2> USE DEF GroupTypeOK, ImportLocal
  <2>1. CASE BeginAddMember(q) \/ BeginRemoveMembers(q) \/ BeginPutGroup(q)
    <3>1. PICK op \in GroupOps, g \in Group, us \in SUBSET User,
              label \in GroupLabels :
            BeginGroup(q, op, g, us, label)
      <4>1. CASE BeginAddMember(q)
        BY <4>1 DEF BeginAddMember, Present, GroupOps, GroupLabels
      <4>2. CASE BeginRemoveMembers(q)
        BY <4>2 DEF BeginRemoveMembers, GroupOps, GroupLabels
      <4>3. CASE BeginPutGroup(q)
        BY <4>3 DEF BeginPutGroup, GroupOps, GroupLabels
      <4>. QED
        BY <2>1, <4>1, <4>2, <4>3
    <3>2. UNCHANGED <<group, members>>
      BY <2>1 DEF BeginAddMember, BeginRemoveMembers, BeginPutGroup, groupTables
    <3>. QED
      BY <1>2, <3>1, <3>2 DEF BeginGroup
  <2>2. CASE AddMember(q)
    <3>1. about[q] \in Group /\ UNCHANGED <<group, gop, about, user>>
      BY <2>2 DEF AddMember, requestVars
    <3>2. \/ members' = members
          \/ group[about[q]] # NoGroup
             /\ members' = [members EXCEPT ![about[q]] = @ \cup user[q]]
      BY <2>2 DEF AddMember, Present
    <3>. QED
      BY <1>2, <3>1, <3>2
  <2>3. CASE RemoveMember(q)
    <3>1. PICK u \in user[q] :
            /\ members' = [members EXCEPT ![about[q]] = @ \ {u}]
            /\ user' = [user EXCEPT ![q] = @ \ {u}]
      BY <2>3 DEF RemoveMember
    <3>2. about[q] \in Group /\ UNCHANGED <<group, gop, about>>
      BY <2>3 DEF RemoveMember
    <3>. QED
      BY <1>2, <3>1, <3>2
  <2>4. CASE PutGroup(q)
    <3>1. /\ about[q] \in Group /\ UNCHANGED <<members, gop, about, user>>
          /\ group' = [group EXCEPT ![about[q]] = q]
      BY <2>4 DEF PutGroup, requestVars
    <3>. QED
      BY <1>2, <3>1, NoGroupAssumption
  <2>5. CASE RemoveGroup(q)
    <3>1. PICK g \in Present : BeginGroup(q, "removeGroup", g, {}, "done") /\ GroupRemoved(g)
      BY <2>5 DEF RemoveGroup
    <3>. QED
      BY <1>2, <3>1 DEF BeginGroup, GroupRemoved, Present, GroupOps
  <2>. QED
    BY <2>1, <2>2, <2>3, <2>4, <2>5
<1>10. ImportTypeOK'
  BY <1>1, <1>2, <1>9 DEF ImportTypeOK
<1>. QED
  BY <1>5, <1>8, <1>10

\* An import starts to write, with the groups of its file and those to delete.
Starts(q, f, drop) ==
  /\ drop = {} \/ drop = Present \ DOMAIN f
  /\ file' = [file EXCEPT ![q] = f]
  /\ todo' = [todo EXCEPT ![q] = DOMAIN f]
  /\ deleting' = [deleting EXCEPT ![q] = drop]
  /\ newSize' = [newSize EXCEPT ![q] = Cardinality(Present)
                   + Cardinality(DOMAIN f \ Present) - Cardinality(drop)]
  /\ base' = [base EXCEPT ![q] =
       [known |-> TRUE, group |-> group, members |-> members, drop |-> drop]]
  /\ Goto(q, "importGroup")

\* The first step of an import.
LEMMA BeginImportStep ==
  ASSUME ImportInv, PcInv', UNCHANGED area, area = "groups", NEW q \in Request,
         BeginImport(q)
  PROVE  ImportInv'
<1> USE DEF ImportInv, ImportTypeOK
<1>1. /\ pc[q] = "idle" /\ base[q] = NoBase
      /\ UNCHANGED <<group, members, about, user>>
      /\ gop' = [gop EXCEPT ![q] = "import"]
  BY DEF BeginImport, ImportLocal, groupTables
<1>2. CASE UNCHANGED <<importVars, base>> /\ Goto(q, "done")
  <2>1. \A r \in Request \ {q} : ImportLocal(r)'
    BY <1>1, <1>2, OthersImport DEF importVars, Goto, PcInv, GroupTypeOK
  <2>2. ImportLocal(q)'
    BY <1>1, <1>2 DEF ImportLocal, Undisturbed, Goto, PcInv
  <2>3. ImportTypeOK'
    BY <1>1, <1>2 DEF GroupTypeOK, GroupOps, importVars
  <2>. QED
    BY <2>1, <2>2, <2>3
<1>3. CASE \E f \in Files, drop \in SUBSET Group : Starts(q, f, drop)
  <2>1. PICK f \in Files, drop \in SUBSET Group : Starts(q, f, drop)
    BY <1>3
  <2> USE DEF Starts
  <2>2. drop \subseteq Group /\ DOMAIN f \subseteq Group
    BY <2>1, FileFacts DEF Present
  <2>3. ImportTypeOK'
    <3>1. GroupTypeOK'
      BY <1>1, <2>1, <2>2 DEF GroupTypeOK, GroupOps
    <3>. QED
      BY <2>1, <3>1
  <2>4. \A r \in Request \ {q} : ImportLocal(r)'
    <3>1. \A r \in Request \ {q} : base'[r] = base[r]
      BY <2>1
    <3>. QED
      BY <1>1, <2>1, <3>1, OthersImport DEF Goto, PcInv, GroupTypeOK
  <2>5. ImportLocal(q)'
    <3>1. /\ file'[q] = f /\ todo'[q] = DOMAIN f /\ deleting'[q] = drop
          /\ pc'[q] = "importGroup"
      BY <2>1 DEF GroupTypeOK, Goto, PcInv
    <3>2. base'[q] = [known |-> TRUE, group |-> group, members |-> members, drop |-> drop]
      BY <2>1
    <3>3. newSize'[q] = Cardinality(Present)
                              + Cardinality(DOMAIN f \ Present) - Cardinality(drop)
      BY <2>1
    <3>4. /\ base'[q].group = group' /\ base'[q].members = members'
          /\ base'[q].drop = drop /\ Listed(q)' = Present
      BY <1>1, <3>2 DEF Listed, Present
    <3>5. \A g \in Group : Untouched(q, g)'
      BY <3>4 DEF Untouched
    <3>6. Importing(q)'
      BY <2>1, <2>2, <3>1, <3>3, <3>4, <3>5 DEF Importing
    <3>. QED
      BY <3>1, <3>6 DEF ImportLocal
  <2>. QED
    BY <2>3, <2>4, <2>5
<1>4. \/ UNCHANGED <<importVars, base>> /\ Goto(q, "done")
      \/ \E f \in Files, drop \in SUBSET Group : Starts(q, f, drop)
  <2>1. PICK f \in Files, sync, allowDeletion, trial \in BOOLEAN :
          LET drop == IF sync THEN Present \ DOMAIN f ELSE {}
          IN  (UNCHANGED <<importVars, base>> /\ Goto(q, "done")) \/ Starts(q, f, drop)
    BY DEF BeginImport, Unmatched, Starts
  <2>2. Present \ DOMAIN f \in SUBSET Group /\ {} \in SUBSET Group
    BY DEF Present
  <2>. QED
    BY <2>1, <2>2
<1>. QED
  BY <1>2, <1>3, <1>4

\* One write of an import, and its end.
LEMMA ImportWriteStep ==
  ASSUME ImportInv, PcInv', UNCHANGED area, area = "groups", NEW q \in Request,
         ImportGroup(q) \/ ImportMembers(q) \/ ImportDelete(q) \/ EndImport(q)
  PROVE  ImportInv'
<1> USE DEF ImportInv
<1>0. /\ file[q] \in Files /\ DOMAIN file[q] \subseteq Group
      /\ todo[q] \subseteq DOMAIN file[q] /\ deleting[q] \subseteq Group
      /\ ImportLocal(q)
  BY FileFacts DEF ImportTypeOK, GroupTypeOK
<1>1. /\ UNCHANGED <<gop, file, newSize>>
      /\ base' = [r \in Request |-> IF r = q THEN base[r] ELSE NoBase]
         \/ UNCHANGED <<group, members, base>>
  BY DEF ImportGroup, ImportMembers, ImportDelete, EndImport, DisturbOthers,
     importVars, requestVars, groupVars, groupTables, groupHistory
<1>2. /\ \A r \in Request \ {q} : /\ pc'[r] = pc[r] /\ about'[r] = about[r]
                                  /\ todo'[r] = todo[r] /\ deleting'[r] = deleting[r]
      /\ todo' = [r \in Request |-> todo'[r]]
  <2> USE DEF Goto, PcInv, ImportTypeOK, GroupTypeOK
  <2>1. CASE ImportGroup(q)
    BY <2>1 DEF ImportGroup, importVars
  <2>2. CASE ImportMembers(q)
    BY <2>2 DEF ImportMembers, requestVars
  <2>3. CASE ImportDelete(q)
    BY <2>3 DEF ImportDelete, requestVars
  <2>4. CASE EndImport(q)
    BY <2>4 DEF EndImport, groupVars, importVars, requestVars
  <2>. QED
    BY <2>1, <2>2, <2>3, <2>4
<1>3. \A r \in Request \ {q} : ImportLocal(r)'
  BY <1>1, <1>2, OthersImport
<1>4. /\ base'[q] = base[q] /\ base' = [r \in Request |-> base'[r]]
      /\ file'[q] = file[q] /\ newSize'[q] = newSize[q]
      /\ Undisturbed(q)' => Undisturbed(q) /\ Importing(q)
  BY <1>0, <1>1 DEF ImportTypeOK, Undisturbed, ImportLocal
<1>5. Listed(q)' = Listed(q)
  BY <1>4 DEF Listed
<1>6. CASE ImportGroup(q)
  <2>1. PICK g \in todo[q] : /\ group' = [group EXCEPT ![g] = q]
                             /\ about' = [about EXCEPT ![q] = g]
    BY <1>6 DEF ImportGroup
  <2>2. /\ g \in Group /\ g \in DOMAIN file[q] /\ pc[q] = "importGroup"
        /\ pc'[q] = "importMembers" /\ UNCHANGED <<members, user, todo, deleting>>
    BY <1>0, <1>6 DEF ImportGroup, Goto, PcInv, importVars
  <2>3. ImportTypeOK'
    <3>1. GroupTypeOK'
      BY <1>1, <2>1, <2>2, NoGroupAssumption DEF ImportTypeOK, GroupTypeOK
    <3>. QED
      BY <1>1, <1>4, <2>2, <3>1 DEF ImportTypeOK
  <2>4. /\ about'[q] = g /\ group'[g] = q
        /\ \A d \in Group \ {g} : group'[d] = group[d]
    BY <2>1, <2>2 DEF ImportTypeOK, GroupTypeOK
  <2>5. ASSUME Undisturbed(q)'
        PROVE  Importing(q)'
    <3>1. Importing(q) /\ \A d \in todo[q] : Untouched(q, d)
      BY <1>4, <2>2, <2>5 DEF Importing
    <3>2. Halfway(q, g)'
      BY <1>4, <2>2, <2>4, <3>1 DEF Halfway, Untouched
    <3>3. \A d \in Group \ {g} : /\ Imported(q, d) => Imported(q, d)'
                                 /\ Untouched(q, d) => Untouched(q, d)'
                                 /\ group[d] = NoGroup => group'[d] = NoGroup
      BY <1>4, <2>2, <2>4 DEF Imported, Untouched
    <3>4. \A d \in DOMAIN file[q] \ todo[q] : Imported(q, d)'
      BY <1>0, <3>1, <3>3 DEF Importing
    <3>5. \A d \in todo[q] : Untouched(q, d)' \/ Halfway(q, d)'
      BY <1>0, <3>1, <3>2, <3>3
    <3>6. \A d \in Group \ DOMAIN file[q] :
            IF d \in base[q].drop \ deleting[q] THEN group'[d] = NoGroup
            ELSE Untouched(q, d)'
      BY <2>2, <3>1, <3>3 DEF Importing
    <3>. QED
      BY <1>4, <1>5, <2>2, <2>4, <3>1, <3>2, <3>4, <3>5, <3>6 DEF Importing
  <2>6. ImportLocal(q)'
    BY <1>0, <2>2, <2>4, <2>5 DEF ImportLocal
  <2>. QED
    BY <1>3, <2>3, <2>6
<1>7. CASE ImportMembers(q)
  <2> DEFINE g == about[q]
  <2>1. /\ pc[q] = "importMembers" /\ g \in todo[q] /\ g \in DOMAIN file[q] /\ g \in Group
        /\ UNCHANGED <<group, about, user, deleting>>
    BY <1>0, <1>7 DEF ImportMembers, ImportLocal, requestVars
  <2>2. CASE UNCHANGED <<members, todo, base>> /\ pc'[q] = "failed"
    <3>1. ImportTypeOK'
      BY <1>1, <2>1, <2>2 DEF ImportTypeOK, GroupTypeOK
    <3>2. ASSUME Undisturbed(q)'
          PROVE  Importing(q)'
      <4>1. Importing(q)
        BY <1>4, <3>2
      <4>2. \A d : /\ Imported(q, d)' <=> Imported(q, d)
                   /\ Untouched(q, d)' <=> Untouched(q, d)
                   /\ Halfway(q, d)' <=> Halfway(q, d)
        BY <1>1, <2>1, <2>2 DEF Imported, Untouched, Halfway
      <4>. QED
        BY <1>1, <1>4, <1>5, <2>1, <2>2, <4>1, <4>2 DEF Importing
    <3>3. ImportLocal(q)'
      BY <1>0, <2>1, <2>2, <3>2 DEF ImportLocal
    <3>. QED
      BY <1>3, <3>1, <3>3
  <2>3. CASE /\ g \in Present \/ file[q][g] = {}
             /\ members' = [members EXCEPT ![g] = file[q][g]]
             /\ todo' = [todo EXCEPT ![q] = @ \ {g}]
             /\ pc'[q] = "importGroup"
    <3>1. file[q][g] \in SUBSET User
      BY <1>0, <2>1, FileFacts
    <3>2. /\ members'[g] = file[q][g] /\ \A d \in Group \ {g} : members'[d] = members[d]
          /\ todo'[q] = todo[q] \ {g}
      BY <2>1, <2>3 DEF ImportTypeOK, GroupTypeOK
    <3>3. ImportTypeOK'
      <4>1. GroupTypeOK'
        <5>1. members' \in [Group -> SUBSET User]
          BY <2>3, <3>1 DEF ImportTypeOK, GroupTypeOK
        <5>2. \A d \in Group : group'[d] = NoGroup => members'[d] = {}
          BY <2>1, <2>3, <3>2 DEF ImportTypeOK, GroupTypeOK, Present
        <5>3. \A r \in Request : file'[r] \in Files /\ todo'[r] \subseteq DOMAIN file'[r]
          BY <1>1, <1>2, <3>2 DEF ImportTypeOK, GroupTypeOK
        <5>. QED
          BY <1>1, <2>1, <5>1, <5>2, <5>3 DEF ImportTypeOK, GroupTypeOK
      <4>. QED
        BY <1>1, <1>2, <1>4, <4>1 DEF ImportTypeOK
    <3>4. ASSUME Undisturbed(q)'
          PROVE  Importing(q)'
      <4>1. Importing(q) /\ Halfway(q, g)
        BY <1>4, <2>1, <3>4 DEF Importing
      <4>2. Imported(q, g)'
        BY <1>4, <2>1, <3>2, <4>1 DEF Imported, Halfway
      <4>3. \A d \in Group \ {g} : /\ Imported(q, d) => Imported(q, d)'
                                   /\ Untouched(q, d) => Untouched(q, d)'
        BY <1>4, <2>1, <3>2 DEF Imported, Untouched
      <4>4. ASSUME NEW d \in DOMAIN file[q] \ todo'[q]
            PROVE  Imported(q, d)'
        <5>1. CASE d = g
          BY <1>4, <2>1, <3>2, <4>1, <5>1 DEF Imported, Halfway
        <5>2. CASE d # g
          <6>1. d \in Group \ {g} /\ d \in DOMAIN file[q] \ todo[q]
            BY <1>0, <3>2, <5>2
          <6>. QED
            BY <4>1, <4>3, <6>1 DEF Importing
        <5>. QED
          BY <5>1, <5>2
      <4>5. \A d \in todo'[q] : Untouched(q, d)'
        BY <1>0, <3>2, <4>1, <4>3 DEF Importing, Halfway
      <4>6. \A d \in Group \ DOMAIN file[q] :
              IF d \in base[q].drop \ deleting[q] THEN group'[d] = NoGroup
              ELSE Untouched(q, d)'
        BY <2>1, <4>1, <4>3 DEF Importing
      <4>7. todo'[q] # {} => deleting[q] = base[q].drop
        BY <3>2, <4>1 DEF Importing
      <4>. QED
        BY <1>4, <1>5, <2>1, <2>3, <4>1, <4>4, <4>5, <4>6, <4>7 DEF Importing
    <3>5. ImportLocal(q)'
      BY <1>0, <2>3, <3>4 DEF ImportLocal
    <3>. QED
      BY <1>3, <3>3, <3>5
  <2>. QED
    BY <1>7, <2>2, <2>3 DEF ImportMembers, Replaced, Goto, PcInv
<1>8. CASE ImportDelete(q)
  <2>1. PICK g \in deleting[q] : /\ GroupRemoved(g)
                                 /\ deleting' = [deleting EXCEPT ![q] = @ \ {g}]
    BY <1>8 DEF ImportDelete
  <2>2. /\ g \in Group /\ todo[q] = {} /\ pc[q] = "importGroup"
        /\ UNCHANGED <<pc, about, user, todo>>
    BY <1>0, <1>8 DEF ImportDelete, MayDelete, requestVars
  <2>3. /\ group'[g] = NoGroup /\ deleting'[q] = deleting[q] \ {g}
        /\ \A d \in Group \ {g} : group'[d] = group[d] /\ members'[d] = members[d]
    BY <2>1, <2>2 DEF GroupRemoved, ImportTypeOK, GroupTypeOK
  <2>4. ImportTypeOK'
    <3>1. GroupTypeOK'
      BY <1>1, <2>1, <2>2 DEF GroupRemoved, ImportTypeOK, GroupTypeOK
    <3>. QED
      BY <1>1, <1>4, <2>2, <3>1 DEF ImportTypeOK
  <2>5. ASSUME Undisturbed(q)'
        PROVE  Importing(q)'
    <3>1. Importing(q)
      BY <1>4, <2>5
    <3>2. g \in base[q].drop /\ g \notin DOMAIN file[q]
      BY <2>1, <3>1 DEF Importing
    <3>3. \A d \in Group \ {g} : /\ Imported(q, d) => Imported(q, d)'
                                 /\ Untouched(q, d) => Untouched(q, d)'
      BY <1>4, <2>3 DEF Imported, Untouched
    <3>4. \A d \in DOMAIN file[q] : Imported(q, d)'
      BY <1>0, <2>2, <3>1, <3>2, <3>3 DEF Importing
    <3>5. \A d \in Group \ DOMAIN file[q] :
            IF d \in base[q].drop \ deleting'[q] THEN group'[d] = NoGroup
            ELSE Untouched(q, d)'
      BY <2>3, <3>1, <3>2, <3>3 DEF Importing
    <3>6. deleting'[q] \subseteq base[q].drop
      BY <2>3, <3>1 DEF Importing
    <3>. QED
      BY <1>4, <1>5, <2>2, <3>1, <3>4, <3>5, <3>6 DEF Importing
  <2>6. ImportLocal(q)'
    BY <1>0, <2>2, <2>5 DEF ImportLocal
  <2>. QED
    BY <1>3, <2>4, <2>6
<1>9. CASE EndImport(q)
  <2>1. /\ pc'[q] = "done" /\ todo[q] = {} /\ deleting[q] = {}
        /\ UNCHANGED <<group, members, gop, about, user, file, todo, deleting, newSize, base>>
    BY <1>9 DEF EndImport, Goto, PcInv, groupVars, groupTables, requestVars, importVars,
       groupHistory
  <2>2. ImportTypeOK'
    BY <2>1 DEF ImportTypeOK, GroupTypeOK
  <2>3. ASSUME Undisturbed(q)'
        PROVE  Importing(q)'
    <3>1. Importing(q)
      BY <1>4, <2>3
    <3>2. \A d : /\ Imported(q, d)' <=> Imported(q, d)
                 /\ Untouched(q, d)' <=> Untouched(q, d)
      BY <2>1 DEF Imported, Untouched
    <3>. QED
      BY <1>5, <2>1, <3>1, <3>2 DEF Importing
  <2>4. ImportLocal(q)'
    BY <1>0, <2>1, <2>3 DEF ImportLocal
  <2>. QED
    BY <1>3, <2>2, <2>4
<1>. QED
  BY <1>6, <1>7, <1>8, <1>9

\* Nothing changes, a request fails or is not about groups.
LEMMA ImportsUnchanged ==
  ASSUME ImportInv, PcInv', UNCHANGED <<area, groupVars>>,
         \A r \in Request : \/ pc'[r] = pc[r]
                            \/ pc'[r] = "failed" /\ pc[r] \notin Ended
                            \/ area # "groups"
  PROVE  ImportInv'
<1> USE DEF ImportInv
<1>1. UNCHANGED <<group, members, gop, about, user, file, todo, deleting, newSize, base>>
  BY DEF groupVars, groupTables, requestVars, importVars, groupHistory
<1>2. ImportTypeOK'
  BY <1>1 DEF ImportTypeOK, GroupTypeOK
<1>3. ASSUME NEW r \in Request
      PROVE  ImportLocal(r)'
  <2>1. ImportLocal(r)
    OBVIOUS
  <2>2. CASE area # "groups"
    <3>1. pc'[r] \notin {"addMember", "removeMembers", "putGroup", "importMembers"}
      BY <2>2 DEF PcInv, AreaLabels, HandleLabels, AccessLabels, LinkLabels, ItemLabels
    <3>2. base'[r] = NoBase
      BY <1>1, <2>1, <2>2 DEF ImportLocal
    <3>. QED
      BY <3>1, <3>2 DEF ImportLocal, Undisturbed
  <2>3. CASE area = "groups"
    <3>1. Undisturbed(r)' => Importing(r)
      BY <1>1, <2>1 DEF ImportLocal, Undisturbed
    <3>2. /\ Listed(r)' = Listed(r)
          /\ \A d : Imported(r, d)' <=> Imported(r, d)
          /\ \A d : Untouched(r, d)' <=> Untouched(r, d)
          /\ \A d : Halfway(r, d)' <=> Halfway(r, d)
      BY <1>1 DEF Listed, Imported, Untouched, Halfway
    <3>3. pc'[r] = pc[r] \/ (pc'[r] = "failed" /\ pc[r] \notin Ended)
      BY <2>3
    <3>4. Importing(r) => Importing(r)'
      BY <1>1, <3>2, <3>3 DEF Importing, Ended
    <3>. QED
      BY <1>1, <2>1, <2>3, <3>1, <3>3, <3>4 DEF ImportLocal
  <2>. QED
    BY <2>2, <2>3
<1>. QED
  BY <1>2, <1>3

LEMMA ImportStep == ImportInv /\ [Next]_vars => ImportInv'
<1> SUFFICES ASSUME ImportInv, [Next]_vars PROVE ImportInv'
  OBVIOUS
<1>1. PcInv' /\ PcInv
  BY PcStep DEF ImportInv
<1>2. CASE UNCHANGED vars \/ Finished
  <2>1. UNCHANGED vars
    BY <1>2 DEF Finished
  <2>. QED
    BY <2>1, <1>1, ImportsUnchanged DEF vars
<1>3. CASE Step
  <2>0. UNCHANGED area
    BY <1>3 DEF Step
  <2>1. CASE area = "groups" /\ GroupNext
    <3>1. PICK q \in Request :
             \/ BeginAddMember(q) \/ AddMember(q)
             \/ BeginRemoveMembers(q) \/ RemoveMember(q)
             \/ BeginPutGroup(q) \/ PutGroup(q)
             \/ RemoveGroup(q)
             \/ BeginImport(q) \/ ImportGroup(q) \/ ImportMembers(q)
             \/ ImportDelete(q) \/ EndImport(q)
      BY <2>1 DEF GroupNext
    <3>. QED
      BY <1>1, <2>0, <2>1, <3>1, PlainGroupStep, BeginImportStep, ImportWriteStep
  <2>2. CASE \E r \in Request : Fail(r) /\ UNCHANGED groupVars
    <3>1. UNCHANGED groupVars
          /\ \A q \in Request : pc'[q] = pc[q] \/ (pc'[q] = "failed" /\ pc[q] \notin Ended)
      BY <2>2, <1>1 DEF Fail, Goto, PcInv
    <3>. QED
      BY <3>1, <2>0, <1>1, ImportsUnchanged
  <2>3. CASE area # "groups" /\ UNCHANGED groupVars
    BY <2>3, <2>0, <1>1, ImportsUnchanged
  <2>. QED
    BY <1>3, <2>1, <2>2, <2>3 DEF Step
<1>. QED
  BY <1>2, <1>3 DEF Next

\* The number of groups an import reports.
LEMMA ImportedSize ==
  ASSUME NEW L \in SUBSET Group, NEW D \in SUBSET Group, NEW drop \in SUBSET (L \ D)
  PROVE  Cardinality((L \cup D) \ drop) =
           Cardinality(L) + Cardinality(D \ L) - Cardinality(drop)
<1>1. IsFiniteSet(L) /\ IsFiniteSet(D \ L) /\ IsFiniteSet(drop)
  BY GroupAssumption, FS_Subset
<1>2. /\ IsFiniteSet(L \cup (D \ L))
      /\ Cardinality(L \cup (D \ L)) =
           Cardinality(L) + Cardinality(D \ L) - Cardinality(L \cap (D \ L))
  BY <1>1, FS_Union
<1>3. L \cup (D \ L) = L \cup D /\ L \cap (D \ L) = {}
  OBVIOUS
<1>4. Cardinality((L \cup D) \ drop) =
        Cardinality(L \cup D) - Cardinality((L \cup D) \cap drop)
  BY <1>2, <1>3, FS_Difference
<1>5. (L \cup D) \cap drop = drop
  OBVIOUS
<1>6. Cardinality({}) = 0
  BY FS_EmptySet
<1>7. Cardinality(L) \in Nat /\ Cardinality(D \ L) \in Nat /\ Cardinality(drop) \in Nat
  BY <1>1, FS_CardinalityType
<1>8. Cardinality(L \cup D) = Cardinality(L) + Cardinality(D \ L) - Cardinality({})
  BY <1>2, <1>3
<1>9. Cardinality(L \cup D) = Cardinality(L) + Cardinality(D \ L)
  BY <1>6, <1>7, <1>8
<1>. QED
  <2>1. Cardinality((L \cup D) \ drop) = Cardinality(L \cup D) - Cardinality(drop)
    BY <1>4, <1>5, Zenon
  <2> DEFINE all == Cardinality(L \cup D)
             left == Cardinality((L \cup D) \ drop)
             gone == Cardinality(drop)
             a == Cardinality(L)
             b == Cardinality(D \ L)
  <2>3. left = all - gone /\ all = a + b /\ a \in Nat /\ b \in Nat /\ gone \in Nat
    BY <1>7, <1>9, <2>1
  <2> HIDE DEF all, left, gone, a, b
  <2>4. left = a + b - gone
    BY <2>3
  <2>. QED
    BY <2>4 DEF left, a, b, gone

\* An import of groups that nobody disturbs does what it says, or stops between
\* before and after (the import route of apps/api/src/routers/auth/index.ts).
THEOREM GroupImportTheorem == Spec => []GroupImportIsFaithful
<1>1. ImportInv => GroupImportIsFaithful
  <2> SUFFICES ASSUME ImportInv
               PROVE  UndisturbedGroupImport /\ OnlyOneGroupIsHalfImported
    BY DEF GroupImportIsFaithful, ImportInv, ImportTypeOK
  <2> USE DEF ImportInv
  <2>1. ASSUME NEW r \in Request
        PROVE  /\ DOMAIN file[r] \subseteq Group /\ todo[r] \subseteq DOMAIN file[r]
               /\ \A g \in Group : Imported(r, g) => g \in Present
               /\ Undisturbed(r) => Importing(r)
    BY FileFacts, NoGroupAssumption
       DEF ImportTypeOK, GroupTypeOK, ImportLocal, Imported, Present
  <2>2. ASSUME NEW r \in Request, Undisturbed(r), pc[r] = "done"
        PROVE  /\ \A g \in Group :
                    IF g \in DOMAIN file[r] THEN Imported(r, g)
                    ELSE IF g \in base[r].drop THEN g \notin Present
                    ELSE Untouched(r, g)
               /\ newSize[r] = Cardinality(Present)
    <3>1. Importing(r) /\ todo[r] = {} /\ deleting[r] = {}
      BY <2>1, <2>2 DEF Importing
    <3>2. \A g \in Group :
            IF g \in DOMAIN file[r] THEN Imported(r, g)
            ELSE IF g \in base[r].drop THEN group[g] = NoGroup
            ELSE Untouched(r, g)
      BY <3>1 DEF Importing
    <3>3. /\ Listed(r) \in SUBSET Group /\ DOMAIN file[r] \in SUBSET Group
          /\ base[r].drop \in SUBSET (Listed(r) \ DOMAIN file[r])
      BY <2>1, <3>1 DEF Importing, Listed
    <3>4. Present = (Listed(r) \cup DOMAIN file[r]) \ base[r].drop
      <4>1. ASSUME NEW g \in Group
            PROVE  g \in Present <=>
                     g \in (Listed(r) \cup DOMAIN file[r]) \ base[r].drop
        <5>1. CASE g \in DOMAIN file[r]
          BY <2>1, <3>2, <3>3, <5>1
        <5>2. CASE g \notin DOMAIN file[r] /\ g \in base[r].drop
          BY <3>2, <5>2 DEF Present
        <5>3. CASE g \notin DOMAIN file[r] /\ g \notin base[r].drop
          BY <3>2, <5>3 DEF Present, Listed, Untouched
        <5>. QED
          BY <5>1, <5>2, <5>3
      <4>2. Present \subseteq Group
        BY DEF Present
      <4>. QED
        BY <3>3, <4>1, <4>2
    <3>5. newSize[r] = Cardinality(Present)
      <4>1. newSize[r] = Cardinality(Listed(r)) + Cardinality(DOMAIN file[r] \ Listed(r))
                           - Cardinality(base[r].drop)
        BY <2>2, <3>1 DEF Importing
      <4>2. Cardinality((Listed(r) \cup DOMAIN file[r]) \ base[r].drop) =
              Cardinality(Listed(r)) + Cardinality(DOMAIN file[r] \ Listed(r))
                - Cardinality(base[r].drop)
        BY <3>3, ImportedSize
      <4>. QED
        BY <3>4, <4>1, <4>2
    <3>. QED
      BY <3>2, <3>5 DEF Present
  <2>3. ASSUME NEW r \in Request, Undisturbed(r)
        PROVE  /\ \A g \in DOMAIN file[r] :
                    \/ Imported(r, g) \/ Untouched(r, g)
                    \/ g = about[r] /\ group[g] = r /\ members[g] = base[r].members[g]
               /\ (\E g \in Listed(r) : g \notin Present)
                    => \A g \in DOMAIN file[r] : Imported(r, g)
    <3>1. Importing(r)
      BY <2>1, <2>3
    <3>2. \A g \in DOMAIN file[r] : Imported(r, g) \/ Untouched(r, g) \/ Halfway(r, g)
      BY <3>1 DEF Importing
    <3>3. ASSUME NEW g \in Listed(r), g \notin Present
          PROVE  todo[r] = {}
      <4>1. g \in Group /\ base[r].group[g] # NoGroup /\ group[g] = NoGroup
        BY <3>3 DEF Listed, Present
      <4>2. ~Imported(r, g) /\ ~Untouched(r, g) /\ ~Halfway(r, g)
        BY <4>1, NoGroupAssumption DEF Imported, Untouched, Halfway
      <4>3. g \in base[r].drop \ deleting[r]
        BY <3>1, <3>2, <4>1, <4>2 DEF Importing
      <4>. QED
        BY <3>1, <4>3 DEF Importing
    <3>4. todo[r] = {} => \A g \in DOMAIN file[r] : Imported(r, g)
      BY <3>1 DEF Importing
    <3>. QED
      BY <3>2, <3>3, <3>4 DEF Halfway
  <2>. QED
    BY <2>2, <2>3 DEF UndisturbedGroupImport, OnlyOneGroupIsHalfImported
<1>. QED
  BY ImportInvInit, ImportStep, <1>1, PTL DEF Spec

-----------------------------------------------------------------------------
(* Items.                                                                  *)

\* The evaluation of roles, as the code computes it, says what the rules say.
LEMMA EvaluationLemma ==
  ASSUME NEW ask, NEW s, NEW groups
  PROVE  Evaluated(ask, s, groups) <=> Rules(ask, s, groups)
BY AvailableAssumption DEF Evaluated, Rules, Effective

\* Between its reads a request knows what the rules say of the tables as they
\* are, and, unless the groups changed, of the settings it has read.
ReadInv(r) ==
  pc[r] = "readGroups" =>
    /\ "settings" \notin changed[r] => settings = seen[r]
    /\ settings # NoSettings
         => Rules(asks[r], settings, memberOf[asks[r].user]) \in verdicts[r]
    /\ "groups" \notin changed[r]
         => Rules(asks[r], seen[r], memberOf[asks[r].user]) \in verdicts[r]
    /\ seen[r] # NoSettings

\* What it is answered was founded, and stays so.
AnswerInv(r) ==
  answer[r] # "none" =>
    /\ area = "items" /\ pc[r] = "done"
    /\ \/ \E v \in verdicts[r] : answer[r] = Answer(v)
       \/ {"settings", "groups"} \subseteq changed[r]

\* A request that is about to put settings knows of the lock, and whose they are.
OwnerInv(r) ==
  /\ pc[r] \in {"readOwner", "putSettings"} /\ lockFlag => "lock" \in changed[r]
  /\ pc[r] = "putSettings" =>
       /\ asks[r].admin \/ asks[r].user = seen[r].owner
       /\ settings # NoSettings => seen[r].owner = settings.owner

ItemInv ==
  /\ PcInv
  /\ ItemTypeOK
  /\ \A r \in Request : ReadInv(r) /\ AnswerInv(r) /\ OwnerInv(r)

LEMMA ItemInvInit == Init => ItemInv
<1> SUFFICES ASSUME Init PROVE ItemInv
  OBVIOUS
<1>1. PcInv
  BY PcInit
<1>2. ItemTypeOK
  BY DEF Init, ItemInit, ItemTypeOK
<1>3. pc = [r \in Request |-> "idle"] /\ answer = [r \in Request |-> "none"]
  BY DEF Init, ItemInit, PoolInit
<1>. QED
  BY <1>1, <1>2, <1>3 DEF ItemInv, ReadInv, AnswerInv, OwnerInv

\* Requests that ask, look and are answered, over tables that stay.
LEMMA ItemReadStep ==
  ASSUME ItemInv, PcInv', area = "items", UNCHANGED area, NEW r \in Request,
         \/ NoItem(r) \/ BeginDecision(r) \/ ReadSettings(r) \/ ReadGroups(r)
         \/ BeginPut(r) \/ ReadOwner(r)
         \/ PutSettings(r) /\ settings = NoSettings
  PROVE  ItemInv'
<1> USE DEF ItemInv
<1>1. UNCHANGED itemTables
  BY DEF NoItem, BeginDecision, ReadSettings, ReadGroups, BeginPut, ReadOwner, itemVars,
     PutSettings, itemTables
<1>2. \A q \in Request : q # r =>
        /\ pc'[q] = pc[q] /\ asks'[q] = asks[q] /\ seen'[q] = seen[q]
        /\ answer'[q] = answer[q] /\ verdicts'[q] = verdicts[q]
        /\ changed'[q] = changed[q]
  BY DEF NoItem, BeginDecision, ReadSettings, ReadGroups, BeginPut, ReadOwner, itemVars,
     PutSettings, askVars, itemHistory, Begin, Answered, Goto, PcInv, ItemTypeOK
<1>3. \A q \in Request : q # r => ReadInv(q)' /\ AnswerInv(q)' /\ OwnerInv(q)'
  BY <1>1, <1>2 DEF itemTables, ReadInv, AnswerInv, OwnerInv
<1>4. answer[r] = "none"
  BY DEF AnswerInv, NoItem, BeginDecision, ReadSettings, ReadGroups, BeginPut, ReadOwner,
     PutSettings, Begin
<1>5. ASSUME NEW b PROVE Answer(b) \in {"granted", "refused"}
  BY DEF Answer
<1>6. ItemTypeOK' /\ ReadInv(r)' /\ AnswerInv(r)' /\ OwnerInv(r)'
  <2>1. CASE NoItem(r)
    BY <2>1, <1>4 DEF NoItem, itemVars, itemTables, askVars, itemHistory, Goto, PcInv,
       ItemTypeOK, ReadInv, AnswerInv, OwnerInv
  <2>2. CASE BeginDecision(r)
    <3>1. PICK ask \in Ask :
            /\ Begin(r, ask)
            /\ IF ask.admin
               THEN /\ Answered(r, Evaluated(ask, NoSettings, {}))
                    /\ verdicts' = [verdicts EXCEPT ![r] =
                         {Rules(ask, settings, memberOf[ask.user])}]
               ELSE /\ Goto(r, "readSettings")
                    /\ UNCHANGED <<answer, verdicts>>
      BY <2>2 DEF BeginDecision
    <3>2. UNCHANGED <<itemTables, seen, changed>>
      BY <2>2 DEF BeginDecision
    <3>3. Rules(ask, settings, memberOf[ask.user]) \in BOOLEAN
      BY DEF Rules
    <3>4. ItemTypeOK'
      BY <3>1, <3>2, <3>3, <1>5
         DEF ItemTypeOK, Begin, Answered, itemTables
    <3>5. CASE ask.admin
      <4>1. Evaluated(ask, NoSettings, {}) = Rules(ask, settings, memberOf[ask.user])
        BY <3>5, EvaluationLemma DEF Rules, Evaluated
      <4>. QED
        BY <3>1, <3>4, <3>5, <4>1
           DEF Answered, Goto, PcInv, ItemTypeOK, ReadInv, AnswerInv, OwnerInv
    <3>6. CASE ~ask.admin
      BY <3>1, <3>4, <3>6, <1>4
         DEF Goto, PcInv, ItemTypeOK, ReadInv, AnswerInv, OwnerInv
    <3>. QED
      BY <3>5, <3>6
  <2>3. CASE ReadSettings(r)
    <3>1. Rules(asks[r], settings, memberOf[asks[r].user]) \in BOOLEAN
      BY DEF Rules
    <3>2. ItemTypeOK'
      BY <2>3, <3>1 DEF ReadSettings, ItemTypeOK, itemTables, itemHistory
    <3>3. CASE settings = NoSettings
      BY <2>3, <3>2, <3>3, <1>4 DEF ReadSettings, Goto, PcInv, ReadInv, AnswerInv, OwnerInv
    <3>4. CASE settings # NoSettings
      BY <2>3, <3>2, <3>4, <1>4
         DEF ReadSettings, itemTables, Goto, PcInv, ItemTypeOK, ReadInv, AnswerInv, OwnerInv
    <3>. QED
      BY <3>3, <3>4
  <2>4. CASE ReadGroups(r)
    <3>1. ItemTypeOK'
      BY <2>4, <1>5 DEF ReadGroups, Answered, ItemTypeOK, itemTables, itemHistory
    <3>2. \/ Evaluated(asks[r], seen[r], memberOf[asks[r].user]) \in verdicts[r]
          \/ {"settings", "groups"} \subseteq changed[r]
      <4>1. Evaluated(asks[r], seen[r], memberOf[asks[r].user])
              = Rules(asks[r], seen[r], memberOf[asks[r].user])
        BY EvaluationLemma DEF Evaluated, Rules
      <4>. QED
        BY <2>4, <4>1 DEF ReadGroups, ReadInv
    <3>3. /\ answer'[r] = Answer(Evaluated(asks[r], seen[r], memberOf[asks[r].user]))
          /\ pc'[r] = "done" /\ UNCHANGED <<verdicts, changed>>
      BY <2>4 DEF ReadGroups, Answered, Goto, PcInv, ItemTypeOK, itemHistory
    <3>. QED
      BY <3>1, <3>2, <3>3 DEF ReadInv, AnswerInv, OwnerInv
  <2>5. CASE BeginPut(r)
    <3>1. PICK ask \in Ask : ask.op = "put" /\ Begin(r, ask)
      BY <2>5 DEF BeginPut
    <3>2. ItemTypeOK'
      BY <2>5, <3>1 DEF BeginPut, Begin, ItemTypeOK, itemTables
    <3>3. ~lockFlag /\ pc'[r] = "readOwner"
      BY <2>5, <3>1 DEF BeginPut, Begin, WantsUnlocked, Goto, PcInv
    <3>. QED
      BY <2>5, <3>2, <3>3, <1>1, <1>4
         DEF BeginPut, itemTables, ReadInv, AnswerInv, OwnerInv
  <2>6. CASE ReadOwner(r)
    <3>1. ItemTypeOK'
      BY <2>6 DEF ReadOwner, ItemTypeOK, itemTables, itemHistory
    <3>2. /\ seen'[r] = settings /\ pc'[r] \in {"putSettings", "failed"}
          /\ pc'[r] = "putSettings" => Owns(asks[r], settings)
      BY <2>6 DEF ReadOwner, Goto, PcInv, ItemTypeOK
    <3>. QED
      BY <2>6, <3>1, <3>2, <1>1, <1>4
         DEF ReadOwner, Owns, itemTables, itemHistory, ReadInv, AnswerInv, OwnerInv
  <2>7. CASE PutSettings(r) /\ settings = NoSettings
    <3>1. /\ ItemTypeOK' /\ pc'[r] = "failed" /\ UNCHANGED answer
      BY <2>7 DEF PutSettings, itemHistory, ItemTypeOK, Goto, PcInv
    <3>. QED
      BY <3>1, <1>4 DEF ReadInv, AnswerInv, OwnerInv
  <2>. QED
    BY <2>1, <2>2, <2>3, <2>4, <2>5, <2>6, <2>7
<1>. QED
  BY <1>3, <1>6

\* A table changes while others are at work.
LEMMA ItemWriteStep ==
  ASSUME ItemInv, PcInv', area = "items", UNCHANGED area, NEW r \in Request,
         \/ PutSettings(r) /\ settings # NoSettings
         \/ ChangeLock(r) \/ ChangeMember(r) \/ DeleteAskedItem(r)
  PROVE  ItemInv'
<1> USE DEF ItemInv
<1>1. PICK table \in {"settings", "groups", "lock"} :
        /\ Observed(table)
        /\ table # "settings" => UNCHANGED settings
        /\ table # "groups" => UNCHANGED memberOf
        /\ table # "lock" => (lockFlag' => lockFlag)
  BY DEF PutSettings, ChangeLock, ChangeMember, DeleteAskedItem, askVars
<1>2. /\ pc'[r] = "done" /\ pc[r] \notin {"done", "readGroups"}
      /\ UNCHANGED answer
      /\ \A q \in Request : q # r =>
           pc'[q] = pc[q] /\ asks'[q] = asks[q] /\ seen'[q] = seen[q]
  BY DEF PutSettings, ChangeLock, ChangeMember, DeleteAskedItem, askVars, Goto, PcInv,
     ItemTypeOK
<1>3. ItemTypeOK'
  <2>1. settings' \in Settings \cup {NoSettings} /\ lockFlag' \in BOOLEAN
    BY DEF PutSettings, ChangeLock, ChangeMember, DeleteAskedItem, ItemTypeOK
  <2>2. memberOf' \in [User -> SUBSET Group]
    <3>1. CASE ChangeMember(r)
      BY <3>1 DEF ChangeMember, ItemTypeOK
    <3>. QED
      BY <3>1 DEF PutSettings, ChangeLock, DeleteAskedItem, ItemTypeOK
  <2>3. /\ asks' \in [Request -> Ask \cup {NoAsk}]
        /\ seen' \in [Request -> Settings \cup {NoSettings}]
        /\ answer' \in [Request -> {"none", "granted", "refused"}]
    BY DEF PutSettings, ChangeLock, ChangeMember, DeleteAskedItem, askVars, ItemTypeOK
  <2>4. changed' \in [Request -> SUBSET {"settings", "groups", "lock"}]
    BY <1>1 DEF Observed, ItemTypeOK
  <2>5. verdicts' \in [Request -> SUBSET BOOLEAN]
    <3>1. \A q \in Request : Rules(asks[q], settings', memberOf'[asks[q].user]) \in BOOLEAN
      BY DEF Rules
    <3>. QED
      BY <1>1, <3>1 DEF Observed, ItemTypeOK
  <2>. QED
    BY <2>1, <2>2, <2>3, <2>4, <2>5 DEF ItemTypeOK
<1>4. ASSUME NEW q \in Request PROVE ReadInv(q)'
  <2>1. SUFFICES ASSUME pc'[q] = "readGroups" PROVE ReadInv(q)'
    BY DEF ReadInv
  <2>2. q # r /\ pc[q] = "readGroups" /\ asks'[q] = asks[q] /\ seen'[q] = seen[q]
    BY <2>1, <1>2
  <2>3. changed'[q] = IF table # "lock" THEN changed[q] \cup {table} ELSE changed[q]
    BY <1>1, <2>2 DEF Observed
  <2>4. /\ verdicts[q] \subseteq verdicts'[q]
        /\ settings' # NoSettings
             => Rules(asks[q], settings', memberOf'[asks[q].user]) \in verdicts'[q]
    BY <1>1, <2>2 DEF Observed
  <2>. QED
    BY <1>1, <2>2, <2>3, <2>4 DEF ReadInv
<1>5. ASSUME NEW q \in Request PROVE AnswerInv(q)'
  <2>1. pc[q] = "done" => changed'[q] = changed[q] /\ verdicts'[q] = verdicts[q]
    BY <1>1 DEF Observed
  <2>. QED
    BY <1>2, <2>1 DEF AnswerInv
<1>6. ASSUME NEW q \in Request PROVE OwnerInv(q)'
  <2>1. CASE q = r
    BY <2>1, <1>2 DEF OwnerInv
  <2>2. CASE q # r
    <3>1. pc[q] \in {"readOwner", "putSettings"} =>
            changed'[q] = IF table = "lock" THEN changed[q] \cup {table} ELSE changed[q]
      BY <1>1 DEF Observed
    <3>2. settings' # NoSettings =>
            settings'.owner = settings.owner /\ settings # NoSettings
      BY DEF PutSettings, KeepsOwner, OwnerInv, ChangeLock, ChangeMember, DeleteAskedItem
    <3>. QED
      BY <1>1, <1>2, <2>2, <3>1, <3>2 DEF OwnerInv
  <2>. QED
    BY <2>1, <2>2
<1>. QED
  BY <1>3, <1>4, <1>5, <1>6

LEMMA ItemsUnchanged ==
  ASSUME ItemInv, PcInv', UNCHANGED <<area, itemVars>>,
         \A r \in Request : \/ pc'[r] = pc[r]
                            \/ pc'[r] = "failed" /\ pc[r] # "done"
                            \/ area # "items"
  PROVE  ItemInv'
<1> USE DEF ItemInv
<1>1. area # "items" => \A r \in Request : pc'[r] \notin ItemLabels
  BY DEF PcInv, AreaLabels, Areas, HandleLabels, AccessLabels, LinkLabels, GroupLabels,
     ItemLabels
<1>2. ItemTypeOK'
  BY DEF itemVars, itemTables, askVars, itemHistory, ItemTypeOK
<1>3. \A r \in Request : ReadInv(r)' /\ OwnerInv(r)'
  BY <1>1 DEF itemVars, itemTables, askVars, itemHistory, ReadInv, OwnerInv, ItemLabels
<1>4. \A r \in Request : AnswerInv(r)'
  BY DEF itemVars, askVars, itemHistory, AnswerInv
<1>. QED
  BY <1>2, <1>3, <1>4

LEMMA ItemStep == ItemInv /\ [Next]_vars => ItemInv'
<1> SUFFICES ASSUME ItemInv, [Next]_vars PROVE ItemInv'
  OBVIOUS
<1>1. PcInv' /\ PcInv
  BY PcStep DEF ItemInv
<1>2. CASE UNCHANGED vars \/ Finished
  <2>1. UNCHANGED <<area, itemVars>> /\ \A r \in Request : pc'[r] = pc[r]
    BY <1>2 DEF Finished, vars
  <2>. QED
    BY <2>1, <1>1, ItemsUnchanged
<1>3. CASE Step
  <2>0. UNCHANGED area
    BY <1>3 DEF Step
  <2>1. CASE area = "items" /\ ItemNext
    <3>1. PICK r \in Request :
            \/ NoItem(r) \/ BeginDecision(r) \/ ReadSettings(r) \/ ReadGroups(r)
            \/ BeginPut(r) \/ ReadOwner(r) \/ PutSettings(r)
            \/ ChangeLock(r) \/ ChangeMember(r) \/ DeleteAskedItem(r)
      BY <2>1 DEF ItemNext
    <3>2. CASE \/ NoItem(r) \/ BeginDecision(r) \/ ReadSettings(r) \/ ReadGroups(r)
               \/ BeginPut(r) \/ ReadOwner(r)
               \/ PutSettings(r) /\ settings = NoSettings
      BY <3>2, <2>1, <2>0, <1>1, ItemReadStep
    <3>3. CASE \/ PutSettings(r) /\ settings # NoSettings
               \/ ChangeLock(r) \/ ChangeMember(r) \/ DeleteAskedItem(r)
      BY <3>3, <2>1, <2>0, <1>1, ItemWriteStep
    <3>. QED
      BY <3>1, <3>2, <3>3
  <2>2. CASE \E r \in Request : Fail(r) /\ UNCHANGED itemVars
    <3>1. /\ UNCHANGED itemVars
          /\ \A q \in Request : \/ pc'[q] = pc[q]
                                \/ pc'[q] = "failed" /\ pc[q] # "done"
      BY <2>2, <1>1 DEF Fail, Goto, PcInv, Ended
    <3>. QED
      BY <3>1, <2>0, <1>1, ItemsUnchanged
  <2>3. CASE area # "items" /\ UNCHANGED itemVars
    BY <2>3, <2>0, <1>1, ItemsUnchanged
  <2>. QED
    BY <1>3, <2>1, <2>2, <2>3 DEF Step
<1>. QED
  BY <1>2, <1>3 DEF Next

\* An answer about an item is what the rules said at one moment of the request,
\* or settings and groups both changed between its two reads.
THEOREM FoundedTheorem == Spec => []AnswersAreFounded
<1>1. ItemInv => AnswersAreFounded
  BY DEF ItemInv, AnswerInv, AnswersAreFounded
<1>. QED
  BY ItemInvInit, ItemStep, <1>1, PTL DEF Spec

\* Settings are put by an admin or the owner, who stays; and on a locked item
\* only by a request that looked before it was locked.
THEOREM SettingsTheorem == Spec => SettingsArePutByTheOwner
<1> DEFINE A == settings' # settings /\ settings' # NoSettings =>
                  /\ settings'.owner = settings.owner
                  /\ \E r \in Request :
                       /\ pc[r] = "putSettings" /\ pc'[r] = "done"
                       /\ asks[r].admin \/ asks[r].user = settings.owner
                       /\ lockFlag => "lock" \in changed[r]
<1>1. ItemInv /\ [Next]_vars => A
  <2> SUFFICES ASSUME ItemInv, Next, settings' # settings, settings' # NoSettings
               PROVE  A
    BY DEF vars, itemVars, itemTables
  <2>1. ItemNext
    BY DEF Next, Step, Finished, vars, itemVars, itemTables
  <2>2. PICK r \in Request : PutSettings(r)
    BY <2>1 DEF ItemNext, NoItem, BeginDecision, ReadSettings, ReadGroups, BeginPut,
       ReadOwner, ChangeLock, ChangeMember, DeleteAskedItem, itemVars, itemTables
  <2>3. /\ settings # NoSettings /\ settings'.owner = seen[r].owner
        /\ pc[r] = "putSettings" /\ pc'[r] = "done"
    BY <2>2 DEF PutSettings, KeepsOwner, Goto, ItemInv, PcInv
  <2>4. OwnerInv(r)
    BY DEF ItemInv
  <2>. QED
    BY <2>3, <2>4 DEF OwnerInv
<1>2. Spec => []ItemInv
  BY ItemInvInit, ItemStep, PTL DEF Spec
<1>3. UNCHANGED <<itemVars, pc>> => settings' = settings
  BY DEF itemVars, itemTables
<1> HIDE DEF A
<1>4. ItemInv /\ [Next]_vars => [A]_<<itemVars, pc>>
  BY <1>1
<1>. QED
  <2>1. Spec => [][A]_<<itemVars, pc>>
    BY <1>2, <1>4, PTL DEF Spec
  <2>. QED
    BY <2>1 DEF A, SettingsArePutByTheOwner

-----------------------------------------------------------------------------
(* The lists of handles.  A list is sound when its indexes rise; a map has *)
(* the values of a list when it gives each index the value of the list.    *)

Rising(list) ==
  \A m, n \in DOMAIN list : m < n => list[m].index < list[n].index
SoundList(list) == list \in Seq(HandleProperty) /\ Rising(list)

HasValuesOf(map, list) ==
  /\ map = [i \in DOMAIN map |-> map[i]]
  /\ DOMAIN map = Indexes(list)
  /\ \A n \in DOMAIN list : map[list[n].index] = list[n].value

\* A set of numbers has a least one.
LEMMA Least ==
  ASSUME NEW S \in SUBSET Nat, S # {}
  PROVE  \E k \in S : \A n \in S : k <= n
<1>1. PICK k \in S : \A n \in S : ~(<<n, k>> \in OpToRel(<, Nat))
  BY NatLessThanWellFounded, WFMin
<1>2. \A n \in S : ~(n < k)
  BY <1>1 DEF OpToRel
<1>. QED
  BY <1>2

\* In a sound list, an index is found at one position.
LEMMA OnePosition ==
  ASSUME NEW list, SoundList(list)
  PROVE  /\ Len(list) \in Nat /\ DOMAIN list = 1..Len(list)
         /\ \A n \in 1..Len(list) : list[n] \in HandleProperty /\ list[n].index \in Int
         /\ \A m, n \in 1..Len(list) : list[m].index = list[n].index => m = n
         /\ \A n \in 1..Len(list) : ValueAt(list, list[n].index) = list[n].value
<1>1. /\ Len(list) \in Nat /\ DOMAIN list = 1..Len(list)
      /\ \A n \in 1..Len(list) : list[n] \in HandleProperty /\ list[n].index \in Int
  <2>1. list \in Seq(HandleProperty)
    BY DEF SoundList
  <2>2. \A n \in 1..Len(list) : list[n] \in HandleProperty
    BY <2>1
  <2>. QED
    BY <2>1, <2>2 DEF HandleProperty
<1>2. \A m, n \in 1..Len(list) : list[m].index = list[n].index => m = n
  <2>1. SUFFICES ASSUME NEW m \in 1..Len(list), NEW n \in 1..Len(list), m < n
                 PROVE  list[m].index # list[n].index
    BY <1>1
  <2>2. list[m].index < list[n].index
    BY <1>1, <2>1 DEF SoundList, Rising
  <2>. QED
    BY <1>1, <2>2
<1>3. ASSUME NEW n \in 1..Len(list) PROVE ValueAt(list, list[n].index) = list[n].value
  BY <1>1, <1>2 DEF ValueAt
<1>. QED
  BY <1>1, <1>2, <1>3

LEMMA AsMapFact ==
  ASSUME NEW list, SoundList(list) PROVE HasValuesOf(AsMap(list), list)
<1>1. \A n \in DOMAIN list : list[n].index \in Indexes(list)
  BY DEF Indexes
<1>2. \A n \in DOMAIN list : ValueAt(list, list[n].index) = list[n].value
  BY OnePosition
<1>. QED
  BY <1>1, <1>2 DEF HasValuesOf, AsMap

LEMMA MapFact ==
  ASSUME NEW list, SoundList(list), NEW map, HasValuesOf(map, list)
  PROVE  AsMap(list) = map
<1>1. ASSUME NEW i \in Indexes(list) PROVE ValueAt(list, i) = map[i]
  <2>1. PICK n \in DOMAIN list : i = list[n].index
    BY DEF Indexes
  <2>. QED
    BY <2>1, OnePosition DEF HasValuesOf
<1>2. AsMap(list) = [i \in Indexes(list) |-> map[i]]
  BY <1>1 DEF AsMap
<1>. QED
  BY <1>2 DEF HasValuesOf

\* What a change makes of a map.
With(map, i, v) == [j \in DOMAIN map \cup {i} |-> IF j = i THEN v ELSE map[j]]
Less(map, i) == [j \in DOMAIN map \ {i} |-> map[j]]

\* add_value: the new index is beyond those of the list.
LEMMA NextIndexFact ==
  ASSUME NEW list, SoundList(list)
  PROVE  NextIndex(list) \in Int /\ \A i \in Indexes(list) : i < NextIndex(list)
<1>1. \E x \in Indexes(list) \cup {0} : \A y \in Indexes(list) \cup {0} : x >= y
  <2>1. CASE Len(list) = 0
    BY <2>1, OnePosition DEF Indexes
  <2>2. CASE Len(list) # 0
    <3>1. PICK n \in Nat \ {0} : n = Len(list)
      BY <2>2, OnePosition
    <3>2. \A m \in 1..n : list[m].index <= list[n].index
      <4>1. ASSUME NEW m \in 1..n PROVE m = n \/ list[m].index < list[n].index
        BY <3>1, OnePosition DEF SoundList, Rising
      <4>. QED
        BY <3>1, <4>1, OnePosition
    <3>3. PICK x \in Int : x = list[n].index
      BY <3>1, OnePosition
    <3>4. x \in Indexes(list) /\ \A y \in Indexes(list) : y \in Int /\ y <= x
      BY <3>1, <3>2, <3>3, OnePosition DEF Indexes
    <3>. QED
      BY <3>4
  <2>. QED
    BY <2>1, <2>2
<1>2. PICK x : x = Max(Indexes(list) \cup {0})
  OBVIOUS
<1>3. x \in Indexes(list) \cup {0} /\ \A y \in Indexes(list) \cup {0} : x >= y
  BY <1>1, <1>2 DEF Max
<1>4. \A i \in Indexes(list) : i \in Int
  BY OnePosition DEF Indexes
<1>. QED
  BY <1>2, <1>3, <1>4 DEF NextIndex

LEMMA AppendedFact ==
  ASSUME NEW list, SoundList(list), NEW i \in Int, \A j \in Indexes(list) : j < i,
         NEW v \in Value, NEW map, HasValuesOf(map, list)
  PROVE  LET new == Append(list, [index |-> i, value |-> v])
         IN  SoundList(new) /\ HasValuesOf(With(map, i, v), new)
<1> DEFINE p == [index |-> i, value |-> v]
           new == Append(list, p)
<1>1. PICK l \in Nat : l = Len(list)
  BY OnePosition
<1>2. /\ DOMAIN list = 1..l /\ list \in Seq(HandleProperty)
      /\ \A n \in 1..l : list[n].index \in Int /\ list[n].index \in Indexes(list)
  BY <1>1, OnePosition DEF SoundList, Indexes
<1>3. p \in HandleProperty /\ p.index = i /\ p.value = v
  BY DEF HandleProperty
<1> HIDE DEF p
<1>4. /\ new \in Seq(HandleProperty) /\ Len(new) = l + 1 /\ DOMAIN new = 1..(l + 1)
      /\ new[l + 1] = p /\ \A n \in 1..l : new[n] = list[n]
  BY <1>1, <1>2, <1>3, AppendProperties
<1> HIDE DEF new
<1>5. ASSUME NEW m \in 1..(l + 1), NEW n \in 1..(l + 1), m < n
      PROVE  new[m].index < new[n].index
  <2>1. m \in 1..l
    BY <1>5
  <2>2. CASE n = l + 1
    BY <1>2, <1>3, <1>4, <2>1, <2>2
  <2>3. CASE n \in 1..l
    BY <1>2, <1>4, <1>5, <2>1, <2>3 DEF SoundList, Rising
  <2>. QED
    BY <1>1, <2>2, <2>3
<1>6. SoundList(new)
  BY <1>4, <1>5 DEF SoundList, Rising
<1>7. Indexes(new) = Indexes(list) \cup {i}
  <2>1. \A n \in 1..(l + 1) : n \in 1..l \/ n = l + 1
    BY <1>1
  <2>2. 1..l \subseteq 1..(l + 1) /\ l + 1 \in 1..(l + 1)
    BY <1>1
  <2>. QED
    BY <1>2, <1>3, <1>4, <2>1, <2>2 DEF Indexes
<1>8. ASSUME NEW n \in 1..(l + 1) PROVE With(map, i, v)[new[n].index] = new[n].value
  <2>1. CASE n = l + 1
    BY <1>3, <1>4, <2>1 DEF With
  <2>2. CASE n \in 1..l
    <3>1. new[n] = list[n] /\ list[n].index # i /\ list[n].index \in DOMAIN map
      BY <1>2, <1>4, <2>2 DEF HasValuesOf
    <3>2. map[list[n].index] = list[n].value
      BY <1>2, <2>2 DEF HasValuesOf
    <3>. QED
      BY <3>1, <3>2 DEF With
  <2>. QED
    BY <1>1, <2>1, <2>2
<1>9. DOMAIN With(map, i, v) = Indexes(new)
  BY <1>7 DEF With, HasValuesOf
<1>10. With(map, i, v) = [j \in DOMAIN With(map, i, v) |-> With(map, i, v)[j]]
  BY DEF With
<1>11. HasValuesOf(With(map, i, v), new)
  BY <1>4, <1>8, <1>9, <1>10 DEF HasValuesOf
<1>. QED
  BY <1>6, <1>11 DEF new, p

\* modify_by_index: the values move nowhere.
LEMMA ModifiedFact ==
  ASSUME NEW list, SoundList(list), NEW i \in Indexes(list), NEW v \in Value,
         NEW map, HasValuesOf(map, list)
  PROVE  LET new == Modified(list, i, v)
         IN  SoundList(new) /\ HasValuesOf(With(map, i, v), new)
<1> DEFINE new == Modified(list, i, v)
<1>1. PICK l \in Nat : l = Len(list)
  BY OnePosition
<1>2. DOMAIN list = 1..l /\ \A n \in 1..l : list[n] \in HandleProperty
  BY <1>1, OnePosition
<1>3. DOMAIN new = 1..l
  BY <1>2 DEF Modified
<1>4. ASSUME NEW n \in 1..l
      PROVE  /\ new[n] \in HandleProperty /\ new[n].index = list[n].index
             /\ new[n].value = IF list[n].index = i THEN v ELSE list[n].value
  BY <1>2 DEF Modified, HandleProperty
<1>5. new = [n \in 1..l |-> new[n]]
  BY <1>2 DEF Modified
<1> HIDE DEF new
<1>6. new \in Seq(HandleProperty)
  BY <1>4, <1>5
<1>7. SoundList(new)
  BY <1>2, <1>3, <1>4, <1>6 DEF SoundList, Rising
<1>8. Indexes(new) = Indexes(list) /\ Indexes(list) \cup {i} = Indexes(list)
  BY <1>2, <1>3, <1>4 DEF Indexes
<1>9. \A n \in 1..l : list[n].index \in DOMAIN map /\ map[list[n].index] = list[n].value
  BY <1>2 DEF HasValuesOf, Indexes
<1>10. HasValuesOf(With(map, i, v), new)
  BY <1>3, <1>4, <1>8, <1>9 DEF HasValuesOf, With
<1>. QED
  BY <1>7, <1>10 DEF new

\* add_value_by_index: where a new index belongs in a sound list.
LEMMA PlaceFact ==
  ASSUME NEW list, SoundList(list), NEW i \in Int, i \notin Indexes(list)
  PROVE  \E k \in 1..(Len(list) + 1) : \A n \in 1..Len(list) :
           (n < k => list[n].index < i) /\ (n >= k => list[n].index > i)
<1>1. PICK l \in Nat : l = Len(list)
  BY OnePosition
<1>2. \A n \in 1..l : list[n].index \in Int /\ list[n].index # i
  BY <1>1, OnePosition DEF Indexes
<1> DEFINE S == {n \in 1..l : list[n].index > i}
<1>3. CASE S = {}
  <2>1. \A n \in 1..l : list[n].index < i
    BY <1>2, <1>3
  <2>2. l + 1 \in 1..(l + 1) /\ \A n \in 1..l : ~(n >= l + 1)
    OBVIOUS
  <2>. QED
    BY <1>1, <2>1, <2>2
<1>4. CASE S # {}
  <2>1. PICK k \in S : \A n \in S : k <= n
    <3>1. S \in SUBSET Nat
      OBVIOUS
    <3> HIDE DEF S
    <3>. QED
      BY <1>4, <3>1, Least
  <2>2. ASSUME NEW n \in 1..l, n < k PROVE list[n].index < i
    <3>1. n \notin S
      BY <2>1, <2>2
    <3>. QED
      BY <1>2, <3>1
  <2>3. ASSUME NEW n \in 1..l, n >= k PROVE list[n].index > i
    <3>1. k \in 1..l /\ list[k].index > i
      OBVIOUS
    <3>2. n = k \/ list[k].index < list[n].index
      BY <1>1, <2>3, <3>1, OnePosition DEF SoundList, Rising
    <3>. QED
      BY <1>2, <3>1, <3>2
  <2>4. k \in 1..(l + 1)
    OBVIOUS
  <2>. QED
    BY <1>1, <2>2, <2>3, <2>4
<1>. QED
  BY <1>3, <1>4

\* The list with the new value has a sorting.
LEMMA SortingFact ==
  ASSUME NEW list, SoundList(list), NEW p \in HandleProperty, p.index \notin Indexes(list)
  PROVE  LET all == Append(list, p)
         IN  \E f \in Bijection(DOMAIN all, DOMAIN all) :
               \A m, n \in DOMAIN all : m < n => all[f[m]].index <= all[f[n]].index
<1> DEFINE all == Append(list, p)
<1>1. PICK l \in Nat : l = Len(list)
  BY OnePosition
<1>2. PICK i \in Int : i = p.index
  BY DEF HandleProperty
<1>3. PICK k \in 1..(l + 1) : \A n \in 1..l :
         (n < k => list[n].index < i) /\ (n >= k => list[n].index > i)
  BY <1>1, <1>2, PlaceFact
<1>4. \A n \in 1..l : list[n].index \in Int
  BY <1>1, OnePosition
<1>5. /\ DOMAIN all = 1..(l + 1) /\ all[l + 1] = p
      /\ \A n \in 1..l : all[n] = list[n]
  BY <1>1, AppendProperties DEF SoundList
<1> HIDE DEF all
<1> DEFINE D == 1..(l + 1)
           f == [n \in D |-> IF n < k THEN n ELSE IF n = k THEN l + 1 ELSE n - 1]
<1>6. f \in Bijection(D, D)
  <2>1. f \in [D -> D]
    OBVIOUS
  <2>2. \A m, n \in D : f[m] = f[n] => m = n
    OBVIOUS
  <2>3. ASSUME NEW t \in D PROVE \E n \in D : f[n] = t
    <3>1. CASE t < k
      BY <3>1
    <3>2. CASE t = l + 1
      BY <3>2
    <3>3. CASE t >= k /\ t # l + 1
      <4>1. t + 1 \in D /\ f[t + 1] = t
        BY <3>3
      <4>. QED
        BY <4>1
    <3>. QED
      BY <3>1, <3>2, <3>3
  <2> HIDE DEF f
  <2>. QED
    BY <2>1, <2>2, <2>3 DEF Bijection, Injection, Surjection, IsInjective
<1>7. ASSUME NEW m \in D, NEW n \in D, m < n PROVE all[f[m]].index <= all[f[n]].index
  <2>1. \A x \in 1..l : all[x].index = list[x].index
    BY <1>5
  <2>2. all[l + 1].index = i
    BY <1>2, <1>5
  <2>3. ASSUME NEW x \in 1..l, NEW y \in 1..l, x < y
        PROVE  all[x].index <= all[y].index
    <3>1. list[x].index < list[y].index
      BY <1>1, <2>3, OnePosition DEF SoundList, Rising
    <3>. QED
      BY <1>4, <2>1, <3>1
  <2>4. CASE n < k
    BY <2>3, <2>4, <1>7
  <2>5. CASE n = k
    <3>1. m \in 1..l /\ m < k /\ f[m] = m /\ f[n] = l + 1
      BY <2>5, <1>7
    <3>2. list[m].index < i
      BY <1>3, <3>1
    <3>. QED
      BY <1>4, <2>1, <2>2, <3>1, <3>2
  <2>6. CASE n > k /\ m = k
    <3>1. n - 1 \in 1..l /\ n - 1 >= k /\ f[m] = l + 1 /\ f[n] = n - 1
      BY <2>6, <1>7
    <3>2. list[n - 1].index > i
      BY <1>3, <3>1
    <3>. QED
      BY <1>4, <2>1, <2>2, <3>1, <3>2
  <2>7. CASE n > k /\ m > k
    <3>1. m - 1 \in 1..l /\ n - 1 \in 1..l /\ m - 1 < n - 1 /\ f[m] = m - 1 /\ f[n] = n - 1
      BY <2>7, <1>7
    <3> HIDE DEF f
    <3>. QED
      BY <2>3, <3>1
  <2>8. CASE n > k /\ m < k
    <3>1. m \in 1..l /\ n - 1 \in 1..l /\ m < n - 1 /\ f[m] = m /\ f[n] = n - 1
      BY <2>8, <1>7
    <3> HIDE DEF f
    <3>. QED
      BY <2>3, <3>1
  <2>. QED
    BY <2>4, <2>5, <2>6, <2>7, <2>8
<1> HIDE DEF f
<1>. QED
  BY <1>5, <1>6, <1>7 DEF all

LEMMA InsertedFact ==
  ASSUME NEW list, SoundList(list), NEW i \in Int, i \notin Indexes(list),
         NEW v \in Value, NEW map, HasValuesOf(map, list)
  PROVE  LET new == Inserted(list, [index |-> i, value |-> v])
         IN  SoundList(new) /\ HasValuesOf(With(map, i, v), new)
<1> DEFINE p == [index |-> i, value |-> v]
           all == Append(list, p)
           new == Inserted(list, p)
<1>1. PICK l \in Nat : l = Len(list)
  BY OnePosition
<1>2. /\ DOMAIN list = 1..l /\ list \in Seq(HandleProperty)
      /\ \A n \in 1..l : /\ list[n] \in HandleProperty /\ list[n].index \in Int
                         /\ list[n].index \in Indexes(list)
  BY <1>1, OnePosition DEF SoundList, Indexes
<1>3. p \in HandleProperty /\ p.index = i /\ p.value = v
  BY DEF HandleProperty
<1> HIDE DEF p
<1> DEFINE D == 1..(l + 1)
<1>4. /\ DOMAIN all = D /\ all[l + 1] = p /\ \A n \in 1..l : all[n] = list[n]
  BY <1>1, <1>2, <1>3, AppendProperties
<1>5. PICK f \in Bijection(D, D) :
        /\ \A m, n \in D : m < n => all[f[m]].index <= all[f[n]].index
        /\ new = [n \in D |-> all[f[n]]]
  <2>1. \E f \in Bijection(D, D) :
          \A m, n \in D : m < n => all[f[m]].index <= all[f[n]].index
    BY <1>3, <1>4, SortingFact
  <2> DEFINE f == CHOOSE g \in Bijection(D, D) :
                    \A m, n \in D : m < n => all[g[m]].index <= all[g[n]].index
  <2>2. /\ f \in Bijection(D, D)
        /\ \A m, n \in D : m < n => all[f[m]].index <= all[f[n]].index
    BY <2>1
  <2>3. new = [n \in D |-> all[f[n]]]
    BY <1>4 DEF Inserted
  <2> HIDE DEF f, all, new
  <2>. QED
    BY <2>2, <2>3
<1> HIDE DEF all, new
<1>6. /\ \A n \in D : f[n] \in D
      /\ \A m, n \in D : f[m] = f[n] => m = n
      /\ \A t \in D : \E n \in D : f[n] = t
  BY DEF Bijection, Injection, Surjection, IsInjective
<1>7. ASSUME NEW t \in D
      PROVE  all[t] \in HandleProperty /\ all[t].index \in Int
  BY <1>2, <1>3, <1>4 DEF HandleProperty
<1>8. ASSUME NEW s \in D, NEW t \in D, s # t PROVE all[s].index # all[t].index
  <2>1. CASE s = l + 1
    <3>1. t \in 1..l
      BY <1>8, <2>1
    <3>. QED
      BY <1>2, <1>3, <1>4, <2>1, <3>1
  <2>2. CASE t = l + 1
    <3>1. s \in 1..l
      BY <1>8, <2>2
    <3>. QED
      BY <1>2, <1>3, <1>4, <2>2, <3>1
  <2>3. CASE s \in 1..l /\ t \in 1..l
    BY <1>1, <1>4, <1>8, <2>3, OnePosition
  <2>. QED
    BY <1>1, <2>1, <2>2, <2>3
<1>9. DOMAIN new = D /\ \A n \in D : new[n] = all[f[n]]
  BY <1>5
<1>10. new \in Seq(HandleProperty)
  <2>1. new \in [1..(l + 1) -> HandleProperty]
    BY <1>5, <1>6, <1>7
  <2>. QED
    BY <1>1, <2>1
<1>11. ASSUME NEW m \in D, NEW n \in D, m < n PROVE new[m].index < new[n].index
  <2>0. f[m] \in D /\ f[n] \in D /\ f[m] # f[n]
    BY <1>1, <1>6, <1>11
  <2>3. all[f[m]].index <= all[f[n]].index
    <3> HIDE DEF D
    <3>. QED
      BY <1>5, <1>11
  <2>1. all[f[m]].index <= all[f[n]].index /\ f[m] \in D /\ f[n] \in D /\ f[m] # f[n]
    BY <2>0, <2>3
  <2>2. all[f[m]].index # all[f[n]].index /\ all[f[m]].index \in Int /\ all[f[n]].index \in Int
    BY <1>7, <1>8, <2>1
  <2>. QED
    BY <1>9, <2>1, <2>2
<1>12. SoundList(new)
  BY <1>9, <1>10, <1>11 DEF SoundList, Rising
<1>13. ASSUME NEW t \in D
       PROVE  all[t].index \in Indexes(list) \cup {i}
              /\ With(map, i, v)[all[t].index] = all[t].value
  <2>1. CASE t = l + 1
    BY <1>3, <1>4, <2>1 DEF With
  <2>2. CASE t \in 1..l
    <3>1. all[t] = list[t] /\ list[t].index # i /\ list[t].index \in DOMAIN map
      BY <1>2, <1>4, <2>2 DEF HasValuesOf
    <3>2. map[list[t].index] = list[t].value
      BY <1>2, <2>2 DEF HasValuesOf
    <3>. QED
      BY <1>2, <2>2, <3>1, <3>2 DEF With
  <2>. QED
    BY <1>1, <2>1, <2>2
<1>14. Indexes(new) = Indexes(list) \cup {i}
  <2>1. ASSUME NEW j \in Indexes(new) PROVE j \in Indexes(list) \cup {i}
    <3>1. PICK n \in D : j = all[f[n]].index
      BY <1>9 DEF Indexes
    <3>. QED
      BY <1>6, <1>13, <3>1
  <2>2. ASSUME NEW j \in Indexes(list) \cup {i} PROVE j \in Indexes(new)
    <3>1. PICK t \in D : j = all[t].index
      <4>1. 1..l \subseteq D /\ l + 1 \in D
        BY <1>1
      <4>2. CASE j = i
        BY <1>3, <1>4, <4>1, <4>2
      <4>3. CASE j \in Indexes(list)
        BY <1>2, <1>4, <4>1, <4>3 DEF Indexes
      <4>. QED
        BY <4>2, <4>3
    <3>2. PICK n \in D : f[n] = t
      BY <1>6
    <3>. QED
      BY <1>9, <3>1, <3>2 DEF Indexes
  <2>. QED
    BY <2>1, <2>2
<1>15. DOMAIN With(map, i, v) = Indexes(new)
  BY <1>14 DEF With, HasValuesOf
<1>16. With(map, i, v) = [j \in DOMAIN With(map, i, v) |-> With(map, i, v)[j]]
  BY DEF With
<1>17. ASSUME NEW n \in D PROVE With(map, i, v)[new[n].index] = new[n].value
  <2>1. PICK t \in D : t = f[n]
    BY <1>6
  <2>2. new[n] = all[t]
    BY <1>9, <2>1
  <2>. QED
    BY <1>13, <2>2
<1>18. HasValuesOf(With(map, i, v), new)
  BY <1>9, <1>15, <1>16, <1>17 DEF HasValuesOf
<1>. QED
  BY <1>12, <1>18 DEF new, p

\* remove_by_index: the filter, element by element, closes the gap.
FilteredUpTo(f, list, i) ==
  f = [n \in 0..Len(list) |->
         IF n = 0 THEN <<>>
         ELSE IF list[n].index = i THEN f[n - 1]
         ELSE Append(f[n - 1], list[n])]

\* The values up to position n but the one at position m.
Gap(list, m, n) ==
  [k \in 1..(IF n < m THEN n ELSE n - 1) |-> IF k < m THEN list[k] ELSE list[k + 1]]

LEMMA GapFact ==
  ASSUME NEW list, SoundList(list), NEW m \in 1..Len(list), NEW n \in 0..Len(list)
  PROVE  /\ Gap(list, m, n) \in Seq(HandleProperty)
         /\ Len(Gap(list, m, n)) = IF n < m THEN n ELSE n - 1
         /\ \A k \in 1..(IF n < m THEN n ELSE n - 1) :
              Gap(list, m, n)[k] = IF k < m THEN list[k] ELSE list[k + 1]
<1>1. PICK l \in Nat : l = Len(list)
  BY OnePosition
<1>2. PICK c \in Nat : c = IF n < m THEN n ELSE n - 1
  BY <1>1
<1>3. \A k \in 1..l : list[k] \in HandleProperty
  BY <1>1, OnePosition
<1>4. \A k \in 1..c : (IF k < m THEN list[k] ELSE list[k + 1]) \in HandleProperty
  <2>1. \A k \in 1..c : k \in 1..l /\ (~(k < m) => k + 1 \in 1..l)
    BY <1>1, <1>2
  <2>. QED
    BY <1>3, <2>1
<1>5. Gap(list, m, n) = [k \in 1..c |-> IF k < m THEN list[k] ELSE list[k + 1]]
  BY <1>2 DEF Gap
<1>6. Gap(list, m, n) \in [1..c -> HandleProperty]
  BY <1>4, <1>5
<1>7. Gap(list, m, n) \in Seq(HandleProperty) /\ Len(Gap(list, m, n)) = c
  BY <1>2, <1>5, <1>6
<1>. QED
  BY <1>2, <1>5, <1>7

LEMMA GapGrows ==
  ASSUME NEW list, SoundList(list), NEW m \in 1..Len(list), NEW n \in 1..Len(list)
  PROVE  Gap(list, m, n) = IF list[n].index = list[m].index THEN Gap(list, m, n - 1)
                           ELSE Append(Gap(list, m, n - 1), list[n])
<1>1. PICK l \in Nat : l = Len(list)
  BY OnePosition
<1>2. CASE list[n].index = list[m].index
  <2>1. n = m
    BY <1>2, OnePosition
  <2>2. (IF n < m THEN n ELSE n - 1) = (IF n - 1 < m THEN n - 1 ELSE n - 1 - 1)
    BY <1>1, <2>1
  <2>. QED
    BY <1>2, <2>2 DEF Gap
<1>3. CASE list[n].index # list[m].index
  <2>1. n # m
    BY <1>3
  <2>2. PICK o \in 0..l : o = n - 1
    BY <1>1
  <2>3. PICK c \in Nat : c = IF o < m THEN o ELSE o - 1
    BY <1>1, <2>2
  <2>4. c + 1 = IF n < m THEN n ELSE n - 1
    BY <1>1, <2>1, <2>2, <2>3
  <2>5. PICK g : g = Gap(list, m, o)
    OBVIOUS
  <2>6. g \in Seq(HandleProperty) /\ Len(g) = c
        /\ \A k \in 1..c : g[k] = IF k < m THEN list[k] ELSE list[k + 1]
    BY <1>1, <2>2, <2>3, <2>5, GapFact
  <2>7. PICK h : h = Gap(list, m, n)
    OBVIOUS
  <2>8. h \in Seq(HandleProperty) /\ Len(h) = c + 1
        /\ \A k \in 1..(c + 1) : h[k] = IF k < m THEN list[k] ELSE list[k + 1]
    <3>1. n \in 0..Len(list)
      BY <1>1
    <3>. QED
      BY <2>4, <2>7, <3>1, GapFact
  <2>9. list[n] \in HandleProperty
    BY OnePosition
  <2>10. PICK a : a = Append(g, list[n])
    OBVIOUS
  <2>11. a \in Seq(HandleProperty) /\ Len(a) = c + 1 /\ a[c + 1] = list[n]
         /\ \A k \in 1..c : a[k] = g[k]
    BY <2>6, <2>9, <2>10, AppendProperties
  <2>12. h[c + 1] = list[n]
    <3>1. (c + 1 < m /\ c + 1 = n) \/ (~(c + 1 < m) /\ c + 1 + 1 = n)
      BY <1>1, <2>1, <2>2, <2>3
    <3>2. c + 1 \in 1..(c + 1)
      BY <2>3
    <3>. QED
      BY <2>8, <3>1, <3>2
  <2>13. \A k \in 1..(c + 1) : h[k] = a[k]
    <3>1. \A k \in 1..(c + 1) : k \in 1..c \/ k = c + 1
      BY <2>3
    <3>. QED
      BY <2>6, <2>8, <2>11, <2>12, <3>1
  <2>14. h = a
    BY <2>8, <2>11, <2>13, SeqEqual
  <2>. QED
    BY <1>3, <2>2, <2>5, <2>7, <2>10, <2>14
<1>. QED
  BY <1>2, <1>3

LEMMA WithoutIsGap ==
  ASSUME NEW list, SoundList(list), NEW m \in 1..Len(list)
  PROVE  Without(list, list[m].index) = Gap(list, m, Len(list))
<1>1. PICK l \in Nat : l = Len(list)
  BY OnePosition
<1>2. PICK i : i = list[m].index
  OBVIOUS
<1> DEFINE f == CHOOSE g : FilteredUpTo(g, list, i)
           h == [n \in 0..l |-> Gap(list, m, n)]
<1>3. Without(list, i) = f[l]
  BY <1>1 DEF Without, FilteredUpTo
<1>4. Gap(list, m, 0) = <<>>
  <2>1. 0 \in 0..Len(list) /\ 0 < m
    BY <1>1
  <2>2. Gap(list, m, 0) \in Seq(HandleProperty) /\ Len(Gap(list, m, 0)) = 0
    BY <2>1, GapFact
  <2>. QED
    BY <2>2
<1>5. FilteredUpTo(h, list, i)
  <2>1. ASSUME NEW n \in 0..l
        PROVE  h[n] = IF n = 0 THEN <<>>
                      ELSE IF list[n].index = i THEN h[n - 1]
                      ELSE Append(h[n - 1], list[n])
    <3>1. CASE n = 0
      BY <1>4, <3>1
    <3>2. CASE n # 0
      <4>1. n \in 1..Len(list) /\ n - 1 \in 0..l
        BY <1>1, <3>2
      <4>2. h[n - 1] = Gap(list, m, n - 1) /\ h[n] = Gap(list, m, n)
        BY <4>1
      <4>3. Gap(list, m, n) = IF list[n].index = list[m].index THEN Gap(list, m, n - 1)
                              ELSE Append(Gap(list, m, n - 1), list[n])
        BY <4>1, GapGrows
      <4>4. h[n] = IF list[n].index = i THEN h[n - 1] ELSE Append(h[n - 1], list[n])
        <5> HIDE DEF h
        <5>. QED
          BY <1>2, <4>2, <4>3, Zenon
      <4> HIDE DEF h
      <4>. QED
        BY <3>2, <4>4, Zenon
    <3>. QED
      BY <3>1, <3>2
  <2>2. h = [n \in 0..l |-> h[n]]
    OBVIOUS
  <2> HIDE DEF h
  <2>. QED
    BY <1>1, <2>1, <2>2 DEF FilteredUpTo
<1>6. FilteredUpTo(f, list, i)
  <2> HIDE DEF h
  <2>. QED
    BY <1>5
<1> HIDE DEF f, h
<1> DEFINE S == {n \in 0..l : f[n] # h[n]}
<1>7. ASSUME S # {} PROVE FALSE
  <2>1. PICK n \in S : \A k \in S : n <= k
    <3>1. S \in SUBSET Nat
      OBVIOUS
    <3> HIDE DEF S
    <3>. QED
      BY <1>7, <3>1, Least
  <2>2. n \in 0..l /\ f[n] # h[n]
    OBVIOUS
  <2>3. n # 0
    BY <1>1, <1>5, <1>6, <2>2 DEF FilteredUpTo
  <2>4. n - 1 \in 0..l /\ n - 1 \notin S
    BY <2>1, <2>2, <2>3
  <2>5. f[n - 1] = h[n - 1]
    BY <2>4
  <2>6. f[n] = h[n]
    BY <1>1, <1>5, <1>6, <2>2, <2>3, <2>5 DEF FilteredUpTo
  <2>. QED
    BY <2>2, <2>6
<1>8. l \in 0..l /\ f[l] = h[l]
  BY <1>1, <1>7
<1>9. h[l] = Gap(list, m, l)
  BY <1>8 DEF h
<1>. QED
  BY <1>1, <1>2, <1>3, <1>8, <1>9

LEMMA WithoutFact ==
  ASSUME NEW list, SoundList(list), NEW i \in Indexes(list),
         NEW map, HasValuesOf(map, list)
  PROVE  LET new == Without(list, i)
         IN  SoundList(new) /\ HasValuesOf(Less(map, i), new)
<1>1. PICK l \in Nat : l = Len(list)
  BY OnePosition
<1>2. PICK m \in 1..l : list[m].index = i
  BY <1>1, OnePosition DEF Indexes
<1>3. PICK new : new = Without(list, i)
  OBVIOUS
<1>4. new = Gap(list, m, l)
  BY <1>1, <1>2, <1>3, WithoutIsGap
<1>5. PICK c \in Nat : c = l - 1
  BY <1>1, <1>2
<1>6. /\ new \in Seq(HandleProperty) /\ Len(new) = c /\ DOMAIN new = 1..c
      /\ \A k \in 1..c : new[k] = IF k < m THEN list[k] ELSE list[k + 1]
  <2>1. l \in 0..l /\ (IF l < m THEN l ELSE l - 1) = c
    BY <1>1, <1>2, <1>5
  <2>2. /\ new \in Seq(HandleProperty) /\ Len(new) = c
        /\ \A k \in 1..c : new[k] = IF k < m THEN list[k] ELSE list[k + 1]
    BY <1>1, <1>4, <2>1, GapFact
  <2>. QED
    BY <2>2
<1> DEFINE At(k) == IF k < m THEN k ELSE k + 1
<1>7. ASSUME NEW k \in 1..c
      PROVE  At(k) \in 1..l /\ At(k) # m /\ new[k] = list[At(k)]
  BY <1>1, <1>2, <1>5, <1>6
<1>8. ASSUME NEW j \in 1..c, NEW k \in 1..c, j < k PROVE At(j) < At(k)
  BY <1>8
<1>9. ASSUME NEW n \in 1..l, n # m PROVE \E k \in 1..c : n = At(k)
  <2>1. CASE n < m
    BY <1>1, <1>5, <2>1
  <2>2. CASE n > m
    <3>1. n - 1 \in 1..c /\ At(n - 1) = n
      BY <1>1, <1>5, <2>2
    <3>. QED
      BY <3>1
  <2>. QED
    BY <1>9, <2>1, <2>2
<1> HIDE DEF At
<1>10. SoundList(new)
  <2>1. ASSUME NEW j \in 1..c, NEW k \in 1..c, j < k
        PROVE  new[j].index < new[k].index
    <3>1. At(j) < At(k) /\ At(j) \in 1..l /\ At(k) \in 1..l
      BY <1>7, <1>8, <2>1
    <3>2. list[At(j)].index < list[At(k)].index
      BY <1>1, <3>1, OnePosition DEF SoundList, Rising
    <3>. QED
      BY <1>7, <3>2
  <2>. QED
    BY <1>6, <2>1 DEF SoundList, Rising
<1>11. Indexes(new) = Indexes(list) \ {i}
  <2>1. ASSUME NEW x \in Indexes(new) PROVE x \in Indexes(list) \ {i}
    <3>1. PICK k \in 1..c : x = new[k].index
      BY <1>6 DEF Indexes
    <3>2. PICK n \in 1..l : n = At(k) /\ n # m /\ x = list[n].index
      BY <1>7, <3>1
    <3>. QED
      BY <1>1, <1>2, <3>2, OnePosition DEF Indexes
  <2>2. ASSUME NEW x \in Indexes(list) \ {i} PROVE x \in Indexes(new)
    <3>1. PICK n \in 1..l : x = list[n].index
      BY <1>1, OnePosition DEF Indexes
    <3>2. n # m
      BY <1>2, <3>1
    <3>3. PICK k \in 1..c : n = At(k)
      BY <1>9, <3>2
    <3>. QED
      BY <1>6, <1>7, <3>1, <3>3 DEF Indexes
  <2>. QED
    BY <2>1, <2>2
<1>12. ASSUME NEW k \in 1..c PROVE Less(map, i)[new[k].index] = new[k].value
  <2>1. PICK n \in 1..l : new[k] = list[n]
    BY <1>7
  <2>2. list[n].index \in Indexes(list) \ {i}
    BY <1>6, <1>11, <2>1 DEF Indexes
  <2>3. map[list[n].index] = list[n].value
    BY <1>1, OnePosition DEF HasValuesOf
  <2>. QED
    BY <2>1, <2>2, <2>3 DEF Less, HasValuesOf
<1>13. DOMAIN Less(map, i) = Indexes(new)
  BY <1>11 DEF Less, HasValuesOf
<1>14. Less(map, i) = [j \in DOMAIN Less(map, i) |-> Less(map, i)[j]]
  BY DEF Less
<1>15. HasValuesOf(Less(map, i), new)
  BY <1>6, <1>12, <1>13, <1>14 DEF HasValuesOf
<1>. QED
  BY <1>3, <1>10, <1>15

-----------------------------------------------------------------------------
(* Handles: rows are of numbers that were given out; what a request is     *)
(* about to write is computed from a sound list that it read, and for      *)
(* which its change was allowed.                                           *)

RowInv(h) ==
  Minted(h) =>
    /\ h <= suffix
    /\ SoundList(properties[h])
    /\ h \notin overlapped => AsMap(properties[h]) = acknowledged[h]

ChangeInv(r) ==
  /\ pc[r] = "insertHandle" => change[r].id <= suffix /\ change[r].id # 0
  /\ pc[r] = "setProperties" =>
       /\ change[r].op \in HandleOps \ {"none", "mint"}
       /\ change[r].id <= suffix /\ change[r].id # 0
       /\ Allowed(change[r].op, read[r], change[r].index)
       /\ read[r] # NoRow

HandleInv ==
  /\ PcInv
  /\ suffix \in Handle
  /\ change \in [Request -> [op : HandleOps, id : 0..MaxHandle, index : Int]]
  /\ DOMAIN properties = Handle /\ DOMAIN acknowledged = Handle
  /\ DOMAIN read = Request /\ \A r \in Request : SoundList(read[r])
  /\ \A h \in Handle : RowInv(h)
  /\ \A r \in Request : ChangeInv(r)

\* A list of one value.
LEMMA OneValue ==
  ASSUME NEW v \in Value
  PROVE  /\ SoundList(<<[index |-> 1, value |-> v]>>)
         /\ AsMap(<<[index |-> 1, value |-> v]>>) = [i \in {1} |-> v]
<1>1. PICK p : p = [index |-> 1, value |-> v]
  OBVIOUS
<1>2. p \in HandleProperty /\ p.index = 1 /\ p.value = v
  BY <1>1 DEF HandleProperty
<1>3. PICK list : list = <<p>>
  OBVIOUS
<1>4. list \in Seq(HandleProperty) /\ DOMAIN list = {1} /\ list[1] = p
  BY <1>2, <1>3
<1>5. SoundList(list)
  BY <1>4 DEF SoundList, Rising
<1>6. HasValuesOf([i \in {1} |-> v], list)
  BY <1>2, <1>4 DEF HasValuesOf, Indexes
<1>. QED
  BY <1>1, <1>3, <1>5, <1>6, MapFact

LEMMA HandleInvInit == Init => HandleInv
<1> SUFFICES ASSUME Init PROVE HandleInv
  OBVIOUS
<1>1. PcInv
  BY PcInit
<1>2. 1 \in Handle
  BY MaxHandleAssumption DEF Handle
<1>3. SoundList(<<>>)
  BY DEF SoundList, Rising
<1>4. Nobody \in Value
  BY DEF Value
<1>5. ASSUME NEW h \in Handle PROVE RowInv(h)
  <2>1. CASE h = 1
    <3>1. /\ properties[h] = <<[index |-> 1, value |-> Nobody]>>
          /\ acknowledged[h] = [i \in {1} |-> Nobody] /\ suffix = 1
      BY <1>2, <2>1 DEF Init, HandleInit
    <3>2. SoundList(properties[h]) /\ AsMap(properties[h]) = acknowledged[h]
      <4>1. PICK list, map : /\ list = <<[index |-> 1, value |-> Nobody]>>
                             /\ map = [i \in {1} |-> Nobody]
        OBVIOUS
      <4>2. SoundList(list) /\ AsMap(list) = map
        BY <1>4, <4>1, OneValue
      <4>. QED
        BY <3>1, <4>1, <4>2
    <3>. QED
      BY <2>1, <3>1, <3>2 DEF RowInv
  <2>2. CASE h # 1
    BY <2>2 DEF Init, HandleInit, RowInv, Minted
  <2>. QED
    BY <2>1, <2>2
<1>6. \A r \in Request : ChangeInv(r)
  BY DEF Init, PoolInit, ChangeInv
<1>7. change \in [Request -> [op : HandleOps, id : 0..MaxHandle, index : Int]]
  BY MaxHandleAssumption DEF Init, HandleInit, NoChange, HandleOps
<1>. QED
  BY <1>1, <1>2, <1>3, <1>5, <1>6, <1>7 DEF Init, HandleInit, HandleInv

\* A list that a request writes is sound, and has the values of the one that it
\* read with its change.
LEMMA UpdatedFact ==
  ASSUME HandleInv, NEW r \in Request, pc[r] = "setProperties"
  PROVE  SoundList(Updated(r)) /\ AsMap(Updated(r)) = Serial(AsMap(read[r]), r)
<1> DEFINE list == read[r]
           map == AsMap(list)
           i == change[r].index
<1>1. /\ change[r].op \in HandleOps \ {"none", "mint"}
      /\ Allowed(change[r].op, list, i)
  BY DEF HandleInv, ChangeInv
<1>2. SoundList(list) /\ HasValuesOf(map, list) /\ DOMAIN map = Indexes(list)
  BY AsMapFact DEF HandleInv, HasValuesOf
<1>3. i \in Int /\ r \in Value
  BY DEF HandleInv, Value
<1> HIDE DEF map, list, i
<1>4. CASE change[r].op = "addValue"
  <2>1. /\ Updated(r) = Append(list, [index |-> NextIndex(list), value |-> r])
        /\ Serial(map, r) = With(map, NextIndex(list), r)
    BY <1>2, <1>4 DEF Updated, Serial, With, NextIndex, list
  <2>2. /\ SoundList(Updated(r))
        /\ HasValuesOf(With(map, NextIndex(list), r), Updated(r))
    BY <1>2, <1>3, <2>1, NextIndexFact, AppendedFact
  <2>. QED
    BY <2>1, <2>2, MapFact DEF map, list
<1>5. CASE change[r].op = "addValueByIndex"
  <2>1. /\ Updated(r) = Inserted(list, [index |-> i, value |-> r])
        /\ Serial(map, r) = With(map, i, r)
    BY <1>5 DEF Updated, Serial, With, list, i
  <2>2. i \notin Indexes(list)
    BY <1>1, <1>5 DEF Allowed
  <2>3. SoundList(Updated(r)) /\ HasValuesOf(With(map, i, r), Updated(r))
    BY <1>2, <1>3, <2>1, <2>2, InsertedFact
  <2>. QED
    BY <2>1, <2>3, MapFact DEF map, list
<1>6. CASE change[r].op = "modifyByIndex"
  <2>1. /\ Updated(r) = Modified(list, i, r)
        /\ Serial(map, r) = With(map, i, r)
    BY <1>6 DEF Updated, Serial, With, list, i
  <2>2. i \in Indexes(list)
    BY <1>1, <1>6 DEF Allowed
  <2>3. SoundList(Updated(r)) /\ HasValuesOf(With(map, i, r), Updated(r))
    BY <1>2, <1>3, <2>1, <2>2, ModifiedFact
  <2>. QED
    BY <2>1, <2>3, MapFact DEF map, list
<1>7. CASE change[r].op = "removeByIndex"
  <2>1. /\ Updated(r) = Without(list, i)
        /\ Serial(map, r) = Less(map, i)
    BY <1>7 DEF Updated, Serial, Less, list, i
  <2>2. i \in Indexes(list)
    BY <1>1, <1>7 DEF Allowed
  <2>3. SoundList(Updated(r)) /\ HasValuesOf(Less(map, i), Updated(r))
    BY <1>2, <2>1, <2>2, WithoutFact
  <2>. QED
    BY <2>1, <2>3, MapFact DEF map, list
<1>. QED
  BY <1>1, <1>4, <1>5, <1>6, <1>7 DEF HandleOps

LEMMA MintStep ==
  ASSUME HandleInv, PcInv', NEW r \in Request, BeginMint(r) \/ InsertHandle(r)
  PROVE  HandleInv'
<1> USE DEF HandleInv
<1>1. MaxHandle \in Nat \ {0} /\ suffix \in 1..MaxHandle
  BY MaxHandleAssumption DEF Handle
<1>2. CASE BeginMint(r)
  <2>1. /\ suffix' = suffix + 1 /\ suffix < MaxHandle
        /\ UNCHANGED <<properties, read, acknowledged, overlapped>>
        /\ change' = [change EXCEPT ![r] = [op |-> "mint", id |-> suffix', index |-> 1]]
        /\ pc' = [pc EXCEPT ![r] = "insertHandle"]
    BY <1>2 DEF BeginMint, Goto
  <2>2. suffix' \in Handle
    BY <1>1, <2>1 DEF Handle
  <2>3. change' \in [Request -> [op : HandleOps, id : 0..MaxHandle, index : Int]]
    <3>1. [op |-> "mint", id |-> suffix', index |-> 1]
            \in [op : HandleOps, id : 0..MaxHandle, index : Int]
      BY <1>1, <2>1 DEF HandleOps
    <3>. QED
      BY <2>1, <3>1
  <2>4. ASSUME NEW h \in Handle PROVE RowInv(h)'
    BY <1>1, <2>1 DEF RowInv, Minted, Handle
  <2>5. ASSUME NEW q \in Request PROVE ChangeInv(q)'
    <3>1. CASE q = r
      BY <1>1, <2>1, <3>1 DEF ChangeInv, PcInv
    <3>2. CASE q # r
      <4>1. change'[q] = change[q] /\ pc'[q] = pc[q] /\ read'[q] = read[q]
        BY <2>1, <3>2 DEF PcInv
      <4>2. ChangeInv(q) /\ change[q].id \in Nat
        BY <1>1
      <4>. QED
        BY <1>1, <2>1, <4>1, <4>2 DEF ChangeInv
    <3>. QED
      BY <3>1, <3>2
  <2>. QED
    BY <2>1, <2>2, <2>3, <2>4, <2>5
<1>3. CASE InsertHandle(r)
  <2>1. PICK h : h = change[r].id
    OBVIOUS
  <2>2. /\ UNCHANGED <<suffix, change, read, overlapped>> /\ pc[r] = "insertHandle"
        /\ properties' = [properties EXCEPT ![h] = <<[index |-> 1, value |-> r]>>]
        /\ acknowledged' = [acknowledged EXCEPT ![h] = [i \in {1} |-> r]]
        /\ pc' = [pc EXCEPT ![r] = "done"]
    BY <1>3, <2>1 DEF InsertHandle, Goto
  <2>3. h \in Handle /\ h <= suffix
    BY <1>1, <2>1, <2>2 DEF ChangeInv, Handle
  <2>4. ASSUME NEW g \in Handle PROVE RowInv(g)'
    <3>1. CASE g = h
      <4>1. /\ properties'[g] = <<[index |-> 1, value |-> r]>>
            /\ acknowledged'[g] = [i \in {1} |-> r]
        BY <2>2, <2>3, <3>1
      <4>2. r \in Value
        BY DEF Value
      <4>. QED
        BY <2>2, <2>3, <3>1, <4>1, <4>2, OneValue DEF RowInv
    <3>2. CASE g # h
      BY <2>2, <3>2 DEF RowInv, Minted
    <3>. QED
      BY <3>1, <3>2
  <2>5. ASSUME NEW q \in Request PROVE ChangeInv(q)'
    BY <2>2 DEF ChangeInv, PcInv
  <2>. QED
    BY <2>2, <2>4, <2>5
<1>. QED
  BY <1>2, <1>3

LEMMA BeginChangeStep ==
  ASSUME HandleInv, PcInv', NEW r \in Request, BeginChange(r)
  PROVE  HandleInv'
<1> USE DEF HandleInv
<1>1. MaxHandle \in Nat \ {0} /\ suffix \in 1..MaxHandle
  BY MaxHandleAssumption DEF Handle
<1>2. PICK op \in HandleOps \ {"none", "mint"}, h \in Handle, i \in Index \cup {0} :
        /\ Minted(h) /\ Allowed(op, properties[h], i)
        /\ change' = [change EXCEPT ![r] = [op |-> op, id |-> h, index |-> i]]
        /\ read' = [read EXCEPT ![r] = properties[h]]
  BY DEF BeginChange
<1>3. /\ UNCHANGED <<suffix, properties, acknowledged, overlapped>>
      /\ pc' = [pc EXCEPT ![r] = "setProperties"]
  BY DEF BeginChange, Goto
<1>4. change' \in [Request -> [op : HandleOps, id : 0..MaxHandle, index : Int]]
  <2>1. [op |-> op, id |-> h, index |-> i] \in [op : HandleOps, id : 0..MaxHandle, index : Int]
    BY <1>1, IndexAssumption DEF Handle
  <2>. QED
    BY <1>2, <2>1
<1>5. SoundList(properties[h]) /\ h <= suffix
  BY <1>2 DEF RowInv
<1>6. ASSUME NEW g \in Handle PROVE RowInv(g)'
  BY <1>3 DEF RowInv, Minted
<1>7. DOMAIN read' = Request /\ \A q \in Request : SoundList(read'[q])
  BY <1>2, <1>5
<1>8. ASSUME NEW q \in Request PROVE ChangeInv(q)'
  <2>1. CASE q = r
    <3>1. /\ change'[q].op = op /\ change'[q].id = h /\ change'[q].index = i
          /\ read'[q] = properties[h] /\ pc'[q] = "setProperties"
      BY <1>2, <1>3, <2>1 DEF PcInv
    <3>2. h # 0 /\ properties[h] # NoRow
      BY <1>2 DEF Minted, Handle
    <3>. QED
      BY <1>2, <1>3, <1>5, <3>1, <3>2 DEF ChangeInv
  <2>2. CASE q # r
    <3>1. change'[q] = change[q] /\ pc'[q] = pc[q] /\ read'[q] = read[q]
      BY <1>2, <1>3, <2>2 DEF PcInv
    <3>. QED
      BY <1>3, <3>1 DEF ChangeInv
  <2>. QED
    BY <2>1, <2>2
<1>. QED
  BY <1>3, <1>4, <1>6, <1>7, <1>8

LEMMA SetPropertiesStep ==
  ASSUME HandleInv, PcInv', NEW r \in Request, SetProperties(r)
  PROVE  HandleInv'
<1>1. PICK h : h = change[r].id
  OBVIOUS
<1>2. /\ UNCHANGED <<suffix, change, read>> /\ pc[r] = "setProperties"
      /\ properties' = [properties EXCEPT ![h] = Updated(r)]
      /\ acknowledged' = [acknowledged EXCEPT ![h] = Serial(@, r)]
      /\ overlapped' = IF properties[h] = read[r] THEN overlapped ELSE overlapped \cup {h}
      /\ pc' = [pc EXCEPT ![r] = "done"]
  BY <1>1 DEF SetProperties, Goto
<1>3. h \in Handle /\ h <= suffix /\ read[r] # NoRow
  <2>1. MaxHandle \in Nat \ {0} /\ suffix \in 1..MaxHandle
    BY MaxHandleAssumption DEF Handle, HandleInv
  <2>. QED
    BY <1>1, <1>2, <2>1 DEF ChangeInv, Handle, HandleInv
<1>4. SoundList(Updated(r)) /\ AsMap(Updated(r)) = Serial(AsMap(read[r]), r)
  BY <1>2, UpdatedFact
<1>5. ASSUME NEW g \in Handle PROVE RowInv(g)'
  <2>1. CASE g = h
    <3>1. properties'[g] = Updated(r) /\ acknowledged'[g] = Serial(acknowledged[h], r)
      BY <1>2, <1>3, <2>1 DEF HandleInv
    <3>2. ASSUME g \notin overlapped' PROVE AsMap(read[r]) = acknowledged[h]
      <4>1. properties[h] = read[r] /\ h \notin overlapped
        BY <1>2, <2>1, <3>2
      <4>. QED
        BY <1>3, <4>1 DEF HandleInv, RowInv, Minted
    <3>. QED
      BY <1>2, <1>3, <1>4, <2>1, <3>1, <3>2 DEF RowInv
  <2>2. CASE g # h
    <3>1. /\ properties'[g] = properties[g] /\ acknowledged'[g] = acknowledged[g]
          /\ g \notin overlapped' => g \notin overlapped
      BY <1>2, <2>2
    <3>. QED
      BY <1>2, <3>1 DEF HandleInv, RowInv, Minted
  <2>. QED
    BY <2>1, <2>2
<1>6. ASSUME NEW q \in Request PROVE ChangeInv(q)'
  BY <1>2 DEF HandleInv, ChangeInv, PcInv
<1>. QED
  BY <1>2, <1>5, <1>6 DEF HandleInv

LEMMA HandlesUnchanged ==
  ASSUME HandleInv, PcInv', UNCHANGED handleVars,
         \A r \in Request : pc'[r] \in {"insertHandle", "setProperties"} => pc'[r] = pc[r]
  PROVE  HandleInv'
<1>1. UNCHANGED <<suffix, properties, change, read, acknowledged, overlapped>>
  BY DEF handleVars
<1>2. \A h \in Handle : RowInv(h)'
  BY <1>1 DEF HandleInv, RowInv, Minted
<1>3. \A r \in Request : ChangeInv(r)'
  BY <1>1 DEF HandleInv, ChangeInv
<1>. QED
  BY <1>1, <1>2, <1>3 DEF HandleInv

LEMMA HandleStep == HandleInv /\ [Next]_vars => HandleInv'
<1> SUFFICES ASSUME HandleInv, [Next]_vars PROVE HandleInv'
  OBVIOUS
<1>1. PcInv' /\ PcInv
  BY PcStep DEF HandleInv
<1>2. CASE UNCHANGED vars \/ Finished
  <2>1. UNCHANGED handleVars /\ UNCHANGED pc
    BY <1>2 DEF Finished, vars
  <2>. QED
    BY <2>1, <1>1, HandlesUnchanged
<1>3. CASE Step
  <2>0. UNCHANGED area
    BY <1>3 DEF Step
  <2>1. CASE area = "handles" /\ HandleNext
    <3>1. PICK r \in Request :
            BeginMint(r) \/ InsertHandle(r) \/ BeginChange(r) \/ SetProperties(r)
      BY <2>1 DEF HandleNext
    <3>. QED
      BY <1>1, <3>1, MintStep, BeginChangeStep, SetPropertiesStep
  <2>2. CASE \E r \in Request : Fail(r) /\ UNCHANGED handleVars
    <3>1. /\ UNCHANGED handleVars
          /\ \A q \in Request : pc'[q] = pc[q] \/ pc'[q] = "failed"
      BY <2>2, <1>1 DEF Fail, Goto, PcInv
    <3>. QED
      BY <3>1, <1>1, HandlesUnchanged
  <2>3. CASE area # "handles" /\ UNCHANGED handleVars
    <3>1. \A q \in Request : pc'[q] \notin {"insertHandle", "setProperties"}
      BY <2>3, <2>0, <1>1 DEF PcInv, AreaLabels, AccessLabels, LinkLabels,
         GroupLabels, ItemLabels
    <3>. QED
      BY <2>3, <3>1, <1>1, HandlesUnchanged
  <2>. QED
    BY <1>3, <2>1, <2>2, <2>3 DEF Step
<1>. QED
  BY <1>2, <1>3 DEF Next

\* The routes over handles: however their reads and writes overlap, the list of
\* a handle is in the order of its indexes, and without repeats; and it has the
\* values that its acknowledged changes give it one after the other, unless one
\* of them was written over a list it had not read.
THEOREM HandleTheorem == Spec => []HandleListsAreSound
<1>1. HandleInv => HandleListsAreSound
  <2> SUFFICES ASSUME HandleInv PROVE HandleListsAreSound
    OBVIOUS
  <2>1. HandleTypeOK
    BY DEF HandleInv, HandleTypeOK, RowInv, SoundList
  <2>2. StrictlyIndexed
    BY DEF HandleInv, StrictlyIndexed, RowInv, SoundList, Rising
  <2>3. UndisturbedHandleIsSerial
    BY DEF HandleInv, UndisturbedHandleIsSerial, RowInv
  <2>. QED
    BY <2>1, <2>2, <2>3 DEF HandleListsAreSound
<1>. QED
  BY <1>1, HandleInvInit, HandleStep, PTL DEF Spec

-----------------------------------------------------------------------------
(* The properties of the run.                                              *)

\* What requesters and administrators were answered about a request for access
\* holds, and what users were answered about an item was founded, whatever
\* requests overlap.
THEOREM AnswersTheorem == Spec => []AnswersHold
<1>1. ItemInv => ItemTypeOK
  BY DEF ItemInv
<1>2. Spec => []ItemTypeOK
  BY ItemInvInit, ItemStep, <1>1, PTL DEF Spec
<1>. QED
  BY RequestTheorem, DecisionTheorem, NotesTheorem, FoundedTheorem, <1>2, PTL
     DEF AnswersHold, AccessAnswersHold

\* Lookups that a later write relies on are stale only if another write of the
\* same row came in between.
THEOREM StaleWritesTheorem == Spec => StaleWritesOverlapped
BY UnforcedTheorem, PutTheorem, SettingsTheorem DEF StaleWritesOverlapped
=============================================================================
