------------------------------ MODULE ItemAccess ------------------------------
(***************************************************************************)
(* Who may do what with an item: the evaluation of roles in                *)
(* packages/auth/src/itemAccess.ts, the requests that ask for it, and the  *)
(* change of the settings it reads (apps/api/src/services/                 *)
(* registryService.ts).                                                    *)
(*                                                                         *)
(* A request reads the access settings of the item and then the groups of  *)
(* its user, each while others change either; putAuthConfiguration looks   *)
(* at the lock, then at the settings, and then writes.                     *)
(*                                                                         *)
(* Abstractions.  One item; the requests are of users whose token makes    *)
(* them a registry admin or not.  What an update, revert, new version      *)
(* or lock writes once it is allowed is in Registry, and how members of    *)
(* groups come and go in UserGroups: here a lock or a member changes in    *)
(* one step.  The read of the item that begins a handler is one step with  *)
(* the read of the lock after it.                                          *)
(***************************************************************************)
EXTENDS RequestPool

CONSTANTS
  Decider,      \* bound: the requests that ask for a decision; the others
                \* change what decisions are about
  Stranger,     \* the owner of items that are not those of a user
  Available,    \* the roles of the item's subtype
  Grantable     \* bound: the sets of roles that settings give

Role == {"metadata-read", "metadata-write", "admin", "dataset-data-read",
         "dataset-data-write"}

ASSUME DeciderAssumption == Decider \subseteq Request
ASSUME StrangerAssumption == Stranger \notin User
ASSUME AvailableAssumption == Available \subseteq Role
ASSUME GrantableAssumption == Grantable \subseteq SUBSET Role

VARIABLES
  settings,     \* item_auth: the settings of the item, NoSettings without it
  lockFlag,     \* item_lock: whether it is locked
  memberOf,     \* user_group_member: the groups of each user
  asks,         \* per request, until its end: its operation, its user and
                \* whether that is an admin
  seen,         \* per request: the settings it read, until it has used them
  answer,       \* per request: "granted" or "refused" once it is decided
  verdicts,     \* history variable, per request: what the rules said at the
                \* moments between its reads
  changed       \* history variable, per request: the tables changed between
                \* its reads, or before its write

itemTables == <<settings, lockFlag, memberOf>>
askVars == <<asks, seen, answer>>
itemHistory == <<verdicts, changed>>
itemVars == <<itemTables, askVars, itemHistory>>

-----------------------------------------------------------------------------
Settings == [owner: User \cup {Stranger}, general: Grantable,
             groups: [Group -> Grantable]]
NoSettings == [owner |-> Stranger]
\* A lock's history is asked for like a fetch, a revert like an update.
Decisions == {"fetch", "update", "version", "lock"}
Ask == [op: Decisions \cup {"put"}, user: User, admin: BOOLEAN]
NoAsk == [op |-> "none"]

\* The roles of which an operation wants one.
Accepted(op) ==
  IF op = "fetch" THEN Role
  ELSE IF op = "update" THEN {"metadata-write", "admin", "dataset-data-write"}
  ELSE {"admin"}

\* (seeded bug) roles of another subtype count
Effective_Any(roles) == roles
\* Roles are limited to those of the subtype.
Effective(roles) == roles \cap Available

\* describeAccessRoles and evaluateUserAccess, of settings and groups read.
Evaluated(ask, s, groups) ==
  LET roles == IF ask.admin \/ s.owner = ask.user THEN Available
               ELSE Effective(s.general \cup UNION {s.groups[g] : g \in groups})
  IN  roles \cap Accepted(ask.op) # {}

\* What the rules say: an admin or the owner may do what the subtype has a role
\* for; others need one of those roles, given to all or to a group of theirs.
Rules(ask, s, groups) ==
  \E role \in Available \cap Accepted(ask.op) :
    \/ ask.admin \/ s.owner = ask.user
    \/ role \in s.general
    \/ \E g \in groups : role \in s.groups[g]

\* A table has changed: a request between its two reads, or between its look at
\* the lock and its write, goes on with what it has.
Observed(table) ==
  /\ changed' = [q \in Request |->
       IF \/ pc[q] = "readGroups" /\ table # "lock"
          \/ pc[q] \in {"readOwner", "putSettings"} /\ table = "lock"
       THEN changed[q] \cup {table} ELSE changed[q]]
  /\ verdicts' = [q \in Request |->
       IF pc[q] = "readGroups" /\ settings' # NoSettings
       THEN verdicts[q] \cup {Rules(asks[q], settings', memberOf'[asks[q].user])}
       ELSE verdicts[q]]

ItemInit ==
  /\ settings \in Settings \cup {NoSettings}
  /\ lockFlag \in BOOLEAN
  /\ memberOf \in [User -> SUBSET Group]
  /\ asks = [r \in Request |-> NoAsk]
  /\ seen = [r \in Request |-> NoSettings]
  /\ answer = [r \in Request |-> "none"]
  /\ verdicts = [r \in Request |-> {}]
  /\ changed = [r \in Request |-> {}]

-----------------------------------------------------------------------------
(* Decisions.                                                              *)

\* Which of the handlers look at the lock before they ask.
WantsUnlocked(op) == op \in {"update", "version", "put"}

Begin(r, ask) ==
  /\ pc[r] = "idle" /\ settings # NoSettings
  /\ WantsUnlocked(ask.op) => ~lockFlag
  /\ asks' = [asks EXCEPT ![r] = ask]

\* expectItem finds none.
NoItem(r) ==
  /\ pc[r] = "idle" /\ settings = NoSettings
  /\ Goto(r, "failed")
  /\ UNCHANGED itemVars

Answer(granted) == IF granted THEN "granted" ELSE "refused"

Answered(r, granted) ==
  /\ answer' = [answer EXCEPT ![r] = Answer(granted)]
  /\ Goto(r, "done")

\* expectItem, checkNotLocked, and isRegistryAdmin, which asks the token.
BeginDecision(r) ==
  /\ r \in Decider
  /\ \E ask \in Ask :
       /\ ask.op \in Decisions
       /\ Begin(r, ask)
       /\ IF ask.admin
          THEN /\ Answered(r, Evaluated(ask, NoSettings, {}))
               /\ verdicts' = [verdicts EXCEPT ![r] =
                    {Rules(ask, settings, memberOf[ask.user])}]
          ELSE /\ Goto(r, "readSettings")
               /\ UNCHANGED <<answer, verdicts>>
  /\ UNCHANGED <<itemTables, seen, changed>>

\* auth.getAccessSettings of describeAccess.
ReadSettings(r) ==
  /\ pc[r] = "readSettings"
  /\ seen' = [seen EXCEPT ![r] = settings]
  /\ IF settings = NoSettings
     THEN /\ Goto(r, "failed")
          /\ UNCHANGED itemHistory
     ELSE /\ Goto(r, "readGroups")
          /\ changed' = [changed EXCEPT ![r] = {}]
          /\ verdicts' = [verdicts EXCEPT ![r] =
               {Rules(asks[r], settings, memberOf[asks[r].user])}]
  /\ UNCHANGED <<itemTables, asks, answer>>

\* userGroupIdSet, describeAccessRoles and evaluateUserAccess.
ReadGroups(r) ==
  /\ pc[r] = "readGroups"
  /\ Answered(r, Evaluated(asks[r], seen[r], memberOf[asks[r].user]))
  /\ seen' = [seen EXCEPT ![r] = NoSettings]
  /\ asks' = [asks EXCEPT ![r] = NoAsk]
  /\ UNCHANGED <<itemTables, itemHistory>>

-----------------------------------------------------------------------------
(* Changes of the settings, of members, and of the item.                   *)

\* expectItem and checkNotLocked of putAuthConfiguration.
BeginPut(r) ==
  /\ r \notin Decider
  /\ \E ask \in Ask : ask.op = "put" /\ Begin(r, ask)
  /\ changed' = [changed EXCEPT ![r] = {}]
  /\ Goto(r, "readOwner")
  /\ UNCHANGED <<itemTables, seen, answer, verdicts>>

\* (seeded bug) anyone who may begin the request may put settings
Owns_Anyone(ask, s) == TRUE
\* Only an admin or the owner may.
Owns(ask, s) == ask.admin \/ s.owner = ask.user

\* auth.getAccessSettings of putAuthConfiguration.
ReadOwner(r) ==
  /\ pc[r] = "readOwner"
  /\ seen' = [seen EXCEPT ![r] = settings]
  /\ Goto(r, IF settings # NoSettings /\ Owns(asks[r], settings)
             THEN "putSettings" ELSE "failed")
  /\ UNCHANGED <<itemTables, asks, answer, itemHistory>>

\* (seeded bug) the owner may be another one
KeepsOwner_Not(new, old) == TRUE
\* Settings with another owner than the one read are refused.
KeepsOwner(new, old) == new.owner = old.owner

\* auth.putAccessSettings: refused by the foreign key when the item has gone.
PutSettings(r) ==
  /\ pc[r] = "putSettings"
  /\ seen' = [seen EXCEPT ![r] = NoSettings]
  /\ asks' = [asks EXCEPT ![r] = NoAsk]
  /\ UNCHANGED <<lockFlag, memberOf, answer>>
  /\ IF settings # NoSettings
     THEN /\ \E new \in Settings : KeepsOwner(new, seen[r]) /\ settings' = new
          /\ Observed("settings")
          /\ Goto(r, "done")
     ELSE /\ Goto(r, "failed")
          /\ UNCHANGED <<settings, itemHistory>>

\* setLocked of lockItem and unlockItem: a request of its own.
ChangeLock(r) ==
  /\ pc[r] = "idle" /\ settings # NoSettings /\ r \notin Decider
  /\ lockFlag' = ~lockFlag
  /\ UNCHANGED <<settings, memberOf, askVars>>
  /\ Observed("lock")
  /\ Goto(r, "done")

\* A user joins a group or leaves one: a request of its own.
ChangeMember(r) ==
  /\ pc[r] = "idle" /\ r \notin Decider
  /\ \E u \in User, g \in Group :
       memberOf' = [memberOf EXCEPT ![u] = IF g \in @ THEN @ \ {g} ELSE @ \cup {g}]
  /\ UNCHANGED <<settings, lockFlag, askVars>>
  /\ Observed("groups")
  /\ Goto(r, "done")

\* items.deleteItem, which takes the settings and the lock with it.
DeleteAskedItem(r) ==
  /\ pc[r] = "idle" /\ settings # NoSettings /\ r \notin Decider
  /\ settings' = NoSettings
  /\ lockFlag' = FALSE
  /\ UNCHANGED <<memberOf, askVars>>
  /\ Observed("settings")
  /\ Goto(r, "done")

ItemNext ==
  \E r \in Request :
    \/ NoItem(r) \/ BeginDecision(r) \/ ReadSettings(r) \/ ReadGroups(r)
    \/ BeginPut(r) \/ ReadOwner(r) \/ PutSettings(r)
    \/ ChangeLock(r) \/ ChangeMember(r) \/ DeleteAskedItem(r)

-----------------------------------------------------------------------------
(* Properties.                                                             *)

ItemTypeOK ==
  /\ settings \in Settings \cup {NoSettings}
  /\ lockFlag \in BOOLEAN
  /\ memberOf \in [User -> SUBSET Group]
  /\ asks \in [Request -> Ask \cup {NoAsk}]
  /\ seen \in [Request -> Settings \cup {NoSettings}]
  /\ answer \in [Request -> {"none", "granted", "refused"}]
  /\ verdicts \in [Request -> SUBSET BOOLEAN]
  /\ changed \in [Request -> SUBSET {"settings", "groups", "lock"}]

\* What a request is answered the rules said at one moment between its two
\* reads, unless settings and groups both changed between them: then it may be
\* the answer to settings and groups that never were together.
AnswersAreFounded ==
  \A r \in Request :
    answer[r] # "none" =>
      \/ \E v \in verdicts[r] : answer[r] = Answer(v)
      \/ {"settings", "groups"} \subseteq changed[r]

\* Whatever overlaps: the settings of an item are put by an admin or by its
\* owner, who remains the owner; and those of a locked item only when the lock
\* was set after the request looked at it.
SettingsArePutByTheOwner ==
  [][settings' # settings /\ settings' # NoSettings =>
       /\ settings'.owner = settings.owner
       /\ \E r \in Request :
            /\ pc[r] = "putSettings" /\ pc'[r] = "done"
            /\ asks[r].admin \/ asks[r].user = settings.owner
            /\ lockFlag => "lock" \in changed[r]]_<<itemVars, pc>>
=============================================================================
