------------------------------ MODULE Auxiliary ------------------------------
(***************************************************************************)
(* The handlers over the auxiliary tables and the settings of items, which *)
(* share the database and the process but no table: in each behaviour the  *)
(* requests are about one of them.                                         *)
(***************************************************************************)
EXTENDS Handles, AccessRequests, UserLinks, UserGroups, ItemAccess

VARIABLE area   \* what the requests are about

Areas == {"handles", "accessRequests", "links", "groups", "items"}

vars == <<area, pc, handleVars, accessVars, linkVars, groupVars, itemVars>>

Init ==
  /\ area \in Areas
  /\ PoolInit /\ HandleInit /\ AccessInit /\ LinkInit /\ GroupInit /\ ItemInit
  /\ area # "links" => person = [p \in Person |-> "absent"]
  /\ area # "groups" => group = [g \in Group |-> NoGroup]
  /\ area # "items" =>
       settings = NoSettings /\ ~lockFlag /\ memberOf = [u \in User |-> {}]

Finished ==
  /\ \A r \in Request : pc[r] \in Ended
  /\ UNCHANGED vars

Step ==
  /\ UNCHANGED area
  /\ \/ /\ area = "handles" /\ HandleNext
        /\ UNCHANGED <<accessVars, linkVars, groupVars, itemVars>>
     \/ /\ area = "accessRequests" /\ AccessNext
        /\ UNCHANGED <<handleVars, linkVars, groupVars, itemVars>>
     \/ /\ area = "links" /\ LinkNext
        /\ UNCHANGED <<handleVars, accessVars, groupVars, itemVars>>
     \/ /\ area = "groups" /\ GroupNext
        /\ UNCHANGED <<handleVars, accessVars, linkVars, itemVars>>
     \/ /\ area = "items" /\ ItemNext
        /\ UNCHANGED <<handleVars, accessVars, linkVars, groupVars>>
     \/ /\ \E r \in Request : Fail(r)
        /\ UNCHANGED <<handleVars, accessVars, linkVars, groupVars, itemVars>>

Next == Step \/ Finished

\* Requests end, and need not begin.
Spec == Init /\ [][Next]_vars

-----------------------------------------------------------------------------
(* Properties.                                                             *)

\* What requesters, administrators and users of items were answered holds, or
\* held when it was decided (the rows of access requests, the rules of items).
AnswersHold ==
  /\ AccessAnswersHold
  /\ ItemTypeOK
  /\ AnswersAreFounded

\* What was looked up before it is written counts, unless a write came in
\* between: links are replaced without force, groups replaced by add_group and
\* brought back by update_group, and settings put on a locked item, only by
\* requests that overlapped another.
StaleWritesOverlapped ==
  /\ UnforcedAssignmentOverlapped
  /\ StalePutGroupOverlapped
  /\ SettingsArePutByTheOwner
=============================================================================
