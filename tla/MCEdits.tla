------------------------------ MODULE MCEdits ------------------------------
(***************************************************************************)
(* What lands on something else than it was made for: edits of a poll and  *)
(* of its votes, edits of the rows of a page, and the answers to a load of *)
(* the store behind the pages.  They have no state in common, so a         *)
(* behaviour of this module is one of Polls, of PageEdits or of            *)
(* ClientStore: part says which, and the others do not move.               *)
(***************************************************************************)
EXTENDS Polls, TLC

CONSTANTS
  Rows, Values, Wholesale,                                        \* PageEdits
  Sections, Paths, Needs, Landing,                                \* ClientStore
  MaxLoads, MaxMoves, MaxVersion, MaxChanges

\* For everybody in a role, or for members by name.
MCBallots == {{Role}, Members}

\* Other options, other options and an end to it, nobody by name.
NoEdit == [options |-> FALSE, status |-> Keep, members |-> Keep, role |-> Keep]
MCEditSet ==
  {[NoEdit EXCEPT !.options = TRUE],
   [NoEdit EXCEPT !.options = TRUE, !.status = "closed"],
   [NoEdit EXCEPT !.members = {}]}

\* The roster is read by every page, and the treasury page reads a section of its own.
MCNeeds == [p \in Paths |-> {"brothers"} \cup (IF p = "treasury" THEN {"treasury"} ELSE {})]

VARIABLES
  part,
  server, list, dialog, temp, pagePc, pageJob, reload, doubt,             \* PageEdits
  version, changes, path, moves, viewer, held, loaded, errors,    \* ClientStore
  isLoading, hasLoaded, latest, loads, due, promised, overrun

pageVars == <<server, list, dialog, temp, pagePc, pageJob, reload, doubt>>
storeVars == <<version, changes, path, moves, viewer, held, loaded, errors, isLoading,
               hasLoaded, latest, loads, due, promised, overrun>>

Page == INSTANCE PageEdits
  WITH shown <- list, pc <- pagePc, job <- pageJob, Edits <- Workers, Nil <- None

Store == INSTANCE ClientStore WITH shown <- held

ASSUME PageAssumption == None \notin Rows /\ Values \cap Page!Absent = {}

ASSUME StoreAssumption ==
  /\ Needs \in [Paths -> SUBSET Sections] /\ Landing \in Paths
  /\ MaxLoads \in Nat \ {0} /\ MaxMoves \in Nat
  /\ MaxVersion \in Nat \ {0} /\ MaxChanges \in Nat

MCInit ==
  /\ part \in {"poll", "page", "store"}
  /\ Init /\ Page!Init /\ Store!Init
  /\ part # "page" => server = [k \in Rows |-> "unborn"]
  /\ part # "store" => hasLoaded

MCNext ==
  \/ part = "poll" /\ Next /\ UNCHANGED <<part, pageVars, storeVars>>
  \/ part = "page" /\ Page!Next /\ UNCHANGED <<part, vars, storeVars>>
  \/ part = "store" /\ Store!Next /\ UNCHANGED <<part, vars, pageVars>>

MCSpec == MCInit /\ [][MCNext]_<<part, vars, pageVars, storeVars>>

\* See PageEdits: its state is well typed, and the page shows what is saved, but for the
\* named accidents.
RowsTrue == Page!TypeOK /\ Page!RowsTrue

\* See ClientStore: its state is well typed, and a page at rest has what it reads.
PagesServed == Store!TypeOK /\ Store!Served

\* See ClientStore: no answer takes a section of a page back to older data.
NoGoingBack == Store!NoGoingBack

\* Where there are two rows they bear the names of the members in the configuration, so
\* that their symmetry is the same.
Symmetry ==
  Permutations(Workers) \cup Permutations(Members) \cup Permutations(Values)
=============================================================================
