----------------------------- MODULE RequestPool -----------------------------
(***************************************************************************)
(* What the handlers over the auxiliary tables have in common: a request   *)
(* is a process that performs one operation, one step per await, and ends  *)
(* with an answer or an error.  A statement that fails, or an instance     *)
(* that stops, ends it wherever it is; nothing is rolled back, since none  *)
(* of these handlers opens a transaction around its steps.                 *)
(***************************************************************************)
CONSTANTS
  Request,      \* requests in flight; each performs one operation
  User,         \* usernames
  NoUser,       \* "no username"
  Group         \* ids of groups of users

ASSUME NoUserAssumption == NoUser \notin User

VARIABLE pc     \* per request: the await it performs next

Ended == {"done", "failed"}

Goto(r, label) == pc' = [pc EXCEPT ![r] = label]

PoolInit == pc = [r \in Request |-> "idle"]

\* The step of a request that has performed nothing, and may fail, too.
Fail(r) ==
  /\ pc[r] \notin Ended \cup {"idle"}
  /\ Goto(r, "failed")
=============================================================================
