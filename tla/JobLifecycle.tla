---------------------------- MODULE JobLifecycle ----------------------------
(***************************************************************************)
(* What the job system promises of one job session, as the header of       *)
(* packages/jobs/src/index.ts states it: a session goes through            *)
(* PENDING -> DEQUEUED -> IN_PROGRESS -> SUCCEEDED/FAILED, its handler     *)
(* runs at most once, while it is IN_PROGRESS, and a session that has      *)
(* SUCCEEDED has had its handler's effect.                                 *)
(***************************************************************************)
EXTENDS Naturals

CONSTANT Session

VARIABLES
  status,   \* the session's status, "ABSENT" before it is created
  runs,     \* how often its handler was called
  effects   \* how often a call of its handler took effect

life == <<status, runs, effects>>

LifeInit ==
  /\ status = [s \in Session |-> "ABSENT"]
  /\ runs = [s \in Session |-> 0]
  /\ effects = [s \in Session |-> 0]

Move(s, from, to) == status[s] = from /\ status' = [status EXCEPT ![s] = to]

Create(s) == Move(s, "ABSENT", "PENDING") /\ UNCHANGED <<runs, effects>>
Take(s) == Move(s, "PENDING", "DEQUEUED") /\ UNCHANGED <<runs, effects>>
Start(s) == Move(s, "DEQUEUED", "IN_PROGRESS") /\ UNCHANGED <<runs, effects>>

\* The one call of the handler, with or without effect.
Work(s) ==
  /\ status[s] = "IN_PROGRESS" /\ runs[s] = 0
  /\ runs' = [runs EXCEPT ![s] = 1]
  /\ effects' \in {effects, [effects EXCEPT ![s] = 1]}
  /\ UNCHANGED status

Succeed(s) ==
  /\ effects[s] = 1
  /\ Move(s, "IN_PROGRESS", "SUCCEEDED")
  /\ UNCHANGED <<runs, effects>>

GiveUp(s) == Move(s, "IN_PROGRESS", "FAILED") /\ UNCHANGED <<runs, effects>>

LifeNext ==
  \E s \in Session :
    Create(s) \/ Take(s) \/ Start(s) \/ Work(s) \/ Succeed(s) \/ GiveUp(s)

LifeSpec == LifeInit /\ [][LifeNext]_life
=============================================================================
