------------------------------- MODULE UserLinks -------------------------------
(***************************************************************************)
(* The link between a username and the PERSON item that stands for it (the *)
(* link routes of apps/api/src/routers/auth/index.ts over the              *)
(* user_person_link table of packages/db/src/repos/auxiliary.ts), while    *)
(* the registry registers, completes and deletes persons.                  *)
(*                                                                         *)
(* An assignment looks the link up, validates the person, and writes the   *)
(* link: three awaits, and an upsert that does not look again.             *)
(*                                                                         *)
(* Abstractions.  The registry is the state of each person's item; an item *)
(* that is no PERSON is one that is not there.                             *)
(***************************************************************************)
EXTENDS RequestPool, Naturals

CONSTANTS
  Person,       \* ids of PERSON items
  NoPerson      \* "no person"

ASSUME NoPersonAssumption == NoPerson \notin Person

VARIABLES
  person,       \* per person: the state of its item in the registry
  link,         \* user_person_link: the person of a username
  assign,       \* per request: its username, person and flags
  links,        \* history variable: how often the link of a username changed
  linksSeen,    \* history variable, per request: that number at its lookup
  wasComplete,  \* history variable: persons that have been complete
  unchecked     \* history variable: usernames linked without validation

linkVars == <<person, link, assign, links, linksSeen, wasComplete, unchecked>>

-----------------------------------------------------------------------------
ItemState == {"absent", "seed", "complete"}
Assignment == [user : User \cup {NoUser}, person : Person \cup {NoPerson},
               force : BOOLEAN, validate : BOOLEAN]
NoAssignment == [user |-> NoUser, person |-> NoPerson,
                 force |-> FALSE, validate |-> TRUE]

LinkInit ==
  /\ person \in [Person -> ItemState]
  /\ link = [u \in User |-> NoPerson]
  /\ assign = [r \in Request |-> NoAssignment]
  /\ links = [u \in User |-> 0]
  /\ linksSeen = [r \in Request |-> 0]
  /\ wasComplete = {p \in Person : person[p] = "complete"}
  /\ unchecked = {}

\* A request to the registry completes a seed person, or deletes a person.
ChangePerson(r) ==
  /\ pc[r] = "idle"
  /\ \E p \in Person :
       \/ /\ person[p] = "seed"
          /\ person' = [person EXCEPT ![p] = "complete"]
          /\ wasComplete' = wasComplete \cup {p}
       \/ /\ person[p] # "absent"
          /\ person' = [person EXCEPT ![p] = "absent"]
          /\ UNCHANGED wasComplete
  /\ Goto(r, "done")
  /\ UNCHANGED <<link, assign, links, linksSeen, unchecked>>

-----------------------------------------------------------------------------
(* The handlers.                                                           *)

\* (seeded bug) force is not looked at
MayAssign_Always(u, force) == TRUE
\* links.lookup: only an administrator's force replaces a link.
MayAssign(u, force) == link[u] = NoPerson \/ force

\* A user may set no flags: person is validated, and no link replaced.
BeginAssign(r) ==
  /\ pc[r] = "idle"
  /\ \E u \in User, p \in Person, force, validate \in BOOLEAN :
       /\ MayAssign(u, force)
       /\ assign' = [assign EXCEPT ![r] =
            [user |-> u, person |-> p, force |-> force, validate |-> validate]]
       /\ linksSeen' = [linksSeen EXCEPT ![r] = links[u]]
       /\ Goto(r, IF validate THEN "validate" ELSE "assign")
  /\ UNCHANGED <<person, link, links, wasComplete, unchecked>>

\* (seeded bug) a person that exists is enough
ValidPerson_Exists(p) == person[p] # "absent"
\* validatePersonLink: the item is there, and no seed.
ValidPerson(p) == person[p] = "complete"

Validate(r) ==
  /\ pc[r] = "validate"
  /\ Goto(r, IF ValidPerson(assign[r].person) THEN "assign" ELSE "failed")
  /\ UNCHANGED linkVars

\* links.assign.
Assign(r) ==
  LET u == assign[r].user IN
  /\ pc[r] = "assign"
  /\ link' = [link EXCEPT ![u] = assign[r].person]
  /\ links' = [links EXCEPT ![u] = @ + 1]
  /\ unchecked' = IF assign[r].validate THEN unchecked \ {u}
                  ELSE unchecked \cup {u}
  /\ Goto(r, "done")
  /\ UNCHANGED <<person, assign, linksSeen, wasComplete>>

\* links.clear.
ClearLink(r) ==
  /\ pc[r] = "idle"
  /\ \E u \in User :
       /\ link' = [link EXCEPT ![u] = NoPerson]
       /\ links' = [links EXCEPT ![u] = @ + 1]
  /\ Goto(r, "done")
  /\ UNCHANGED <<person, assign, linksSeen, wasComplete, unchecked>>

LinkNext ==
  \E r \in Request :
    \/ ChangePerson(r)
    \/ BeginAssign(r)
    \/ Validate(r)
    \/ Assign(r)
    \/ ClearLink(r)

-----------------------------------------------------------------------------
(* Properties.                                                             *)

LinkTypeOK ==
  /\ person \in [Person -> ItemState]
  /\ link \in [User -> Person \cup {NoPerson}]
  /\ assign \in [Request -> Assignment]
  /\ links \in [User -> Nat]
  /\ linksSeen \in [Request -> Nat]
  /\ wasComplete \subseteq Person
  /\ unchecked \subseteq User

\* Unless an administrator waived validation, the person of a username was at
\* some time a complete person, though it need not be there any more.
LinkedPersonWasComplete ==
  \A u \in User : link[u] \notin wasComplete \cup {NoPerson} => u \in unchecked

\* Without force a link is replaced only by a request that overlapped the one
\* that made it.
UnforcedAssignmentOverlapped ==
  [][\A r \in Request :
       pc[r] = "assign" /\ pc'[r] = "done" /\ ~assign[r].force
       /\ link[assign[r].user] # NoPerson
       => links[assign[r].user] > linksSeen[r]]_<<linkVars, pc>>
=============================================================================
