--------------------------- MODULE ActivityLedger ---------------------------
(***************************************************************************)
(* What the job handlers promise of the activities that record how items   *)
(* came to be: whoever registers an item asks for an activity, a retry     *)
(* asks again, and there are never more activities of an item than it was  *)
(* asked for; an activity is complete in the registry before the graph     *)
(* says anything final of it, and they take neither record back.  What     *)
(* administrators take back is outside: deletions of items, an import that *)
(* deletes, and clearing the graph.                                        *)
(***************************************************************************)
EXTENDS Naturals, FiniteSets

CONSTANTS Item, NoItem, Activity

VARIABLES
  asked,      \* how often an activity of the item was asked for
  recorded,   \* the item an activity in the registry is about
  lodged      \* the activities whose edges are all in the graph

ledger == <<asked, recorded, lodged>>

LedgerInit ==
  /\ asked = [i \in Item |-> 0]
  /\ recorded = [a \in Activity |-> NoItem]
  /\ lodged = {}

Ask(i) ==
  /\ asked' = [asked EXCEPT ![i] = @ + 1]
  /\ UNCHANGED <<recorded, lodged>>

Record(a, i) ==
  /\ recorded[a] = NoItem
  /\ Cardinality({b \in Activity : recorded[b] = i}) < asked[i]
  /\ recorded' = [recorded EXCEPT ![a] = i]
  /\ UNCHANGED <<asked, lodged>>

Lodge(a) ==
  /\ recorded[a] # NoItem
  /\ lodged' = lodged \cup {a}
  /\ UNCHANGED <<asked, recorded>>

LedgerNext ==
  \/ \E i \in Item : Ask(i) \/ \E a \in Activity : Record(a, i)
  \/ \E a \in Activity : Lodge(a)

LedgerSpec == LedgerInit /\ [][LedgerNext]_ledger
=============================================================================
