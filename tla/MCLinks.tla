------------------------------ MODULE MCLinks ------------------------------
(***************************************************************************)
(* The places where a row depends on a row that another request replaces:  *)
(* a reimbursement has its expense in the ledger, an event of the board    *)
(* its event in the calendar, a party the event of its roll, a row of the  *)
(* ledger its category.  They have no state in common, so a behaviour of   *)
(* this module is one of Reimbursements, Programming, Parties or           *)
(* Catalogue: part says which, and the others do not move.                 *)
(***************************************************************************)
EXTENDS MCReimbursements, FiniteSets

CONSTANTS
  Days, Events, MaxCals,                         \* Programming
  Nights, MaxRolls,                              \* Parties
  Labels, Seeded, Rows, MaxCategories, MaxSuffix, Across \* Catalogue

\* Nothing decided yet, and a day, for a service event or for another one.
MCPlans ==
  {[service |-> FALSE, when |-> None]} \cup [service : BOOLEAN, when : Days]

\* An edit of other fields, of the category, of the category and the date.
MCBodies ==
  {[service |-> Keep, when |-> Keep], [service |-> TRUE, when |-> Keep],
   [service |-> FALSE, when |-> None]}

VARIABLES part, board, cal, used, boardPc, boardJob, strayed,
          party, rollEvents, mandatory, rolled, created, partyPc, partyJob, stranded,
          label, filed, away, clerkPc, clerkJob, twinned, orphaned

boardVars == <<board, cal, used, boardPc, boardJob, strayed>>
partyVars == <<party, rollEvents, mandatory, rolled, created, partyPc, partyJob, stranded>>
clerkVars == <<label, filed, away, clerkPc, clerkJob, twinned, orphaned>>

Board == INSTANCE Programming
  WITH pc <- boardPc, job <- boardJob, Whens <- Days, Plans <- MCPlans,
       Bodies <- MCBodies

Night == INSTANCE Parties
  WITH pc <- partyPc, job <- partyJob, events <- rollEvents, Parties <- Nights,
       MaxEvents <- MaxRolls

Clerk == INSTANCE Catalogue
  WITH pc <- clerkPc, job <- clerkJob, Clerks <- Workers, Nobody <- None

ASSUME BoardAssumption ==
  /\ MaxCals \in Nat
  /\ None \notin Nat /\ None \notin Events
  /\ None \notin Board!BoardRow /\ None \notin Board!CalRow
ASSUME NightAssumption == MaxRolls \in Nat
ASSUME ClerkAssumption ==
  /\ None \notin Labels /\ Seeded \in Labels /\ MaxSuffix \in Nat
  /\ Across \subseteq Clerk!Slugs
  /\ IsFiniteSet(Workers) /\ MaxCategories \in Nat /\ MaxCategories > 1

MCInit ==
  /\ part \in {"money", "events", "parties", "categories"}
  /\ Init /\ Board!Init /\ Night!Init /\ Clerk!Init

MCNext ==
  \/ part = "money" /\ Next
     /\ UNCHANGED <<part, boardVars, partyVars, clerkVars>>
  \/ part = "events" /\ Board!Next
     /\ UNCHANGED <<part, vars, partyVars, clerkVars>>
  \/ part = "parties" /\ Night!Next
     /\ UNCHANGED <<part, vars, boardVars, clerkVars>>
  \/ part = "categories" /\ Clerk!Next
     /\ UNCHANGED <<part, vars, boardVars, partyVars>>

MCSpec == MCInit /\ [][MCNext]_<<part, vars, boardVars, partyVars, clerkVars>>

\* See Programming for these: its well-formed tables with the publish boundary and the
\* calendar events that belong to the board, what Confirmed asks for, and the only
\* way to Done.
OnTheBoard == Board!TypeOK /\ Board!OnTheBoard
PublishedComplete == Board!PublishedComplete
DoneAfterConfirm == Board!DoneAfterConfirm

\* See Parties: the events in the calendar that parties have left behind.
PartyBacked == Night!TypeOK /\ Night!PartyBacked

\* See Catalogue for these: rows whose category is gone, categories of one name, and
\* how many there may be.
UsesNamed == Clerk!TypeOK /\ Clerk!UsesNamed
LabelTwins == Clerk!LabelTwins
CapBounded == Clerk!CapBounded

\* And for these, which the code does not keep.
ServiceDeletable == Board!ServiceDeletable
FrozenOnTimeline == Board!FrozenOnTimeline
RollsGoToo == Night!RollsGoToo
NoneOrphaned == Clerk!NoneOrphaned

LinkSymmetry ==
  Symmetry \cup Permutations(Events) \cup Permutations(Labels \ {Seeded})
=============================================================================
