----------------------------- MODULE ClientStore -----------------------------
(***************************************************************************)
(* The store behind every page in the browser                              *)
(* (app/context/ChapterContext.tsx): which sections of a chapter's data    *)
(* are loaded, by the first load, by refreshChapterData after a change,    *)
(* and by the top-up of an effect that runs after a navigation, and what   *)
(* becomes of the answers of a load that another one has superseded.       *)
(*                                                                         *)
(* The data of a section is its version at the server; 0 is no data.  A    *)
(* request is answered, with what the server has at that moment, or fails, *)
(* and its answer is applied later; a fetch is cut off after 30 seconds.   *)
(* A session exists: what a visitor without one is answered, and the       *)
(* redirect that follows, are left out, and so are optimistic edits.       *)
(***************************************************************************)
EXTENDS Naturals

CONSTANTS
  Sections,    \* what can be loaded (DataSection)
  Paths,       \* the pages
  Needs,       \* the sections that each page reads (sectionsForPath)
  Landing,     \* the page of the first load
  MaxLoads,    \* bound: loads in one session
  MaxMoves,    \* bound: navigations
  MaxVersion,  \* bound: versions of a section
  MaxChanges   \* bound: changes of all sections together

ASSUME NeedsAssumption == Needs \in [Paths -> SUBSET Sections] /\ Landing \in Paths
ASSUME BoundsAssumption ==
  MaxLoads \in Nat \ {0} /\ MaxMoves \in Nat /\ MaxVersion \in Nat \ {0} /\ MaxChanges \in Nat

VARIABLES
  version,     \* the data at the server
  changes,     \* changes of it so far
  path,        \* pathname
  moves,       \* navigations so far
  viewer,      \* is currentUser set?
  shown,       \* the data of each section
  loaded,      \* loadedSections, and its ref
  errors,      \* sectionErrors
  isLoading, hasLoaded,
  latest,      \* refreshIdRef: the number of loads begun
  loads,       \* the loads
  due,         \* will the top-up effect run?
  promised,    \* ghost: what each section was when a refresh was last asked for that
               \* has not said that it failed
  overrun      \* ghost: sections asked for by a load that was superseded by one
               \* that does not ask for them

server == <<version, changes>>
page == <<viewer, shown, loaded, errors>>
flags == <<isLoading, hasLoaded>>
ghosts == <<promised, overrun>>
vars == <<server, path, moves, page, flags, latest, loads, due, ghosts>>

\* me: does the load wait for /api/auth/me, and what has come of it; got: how far each
\* section is; data: what was answered; over: has the load been settled?
Load == [me   : {"unasked", "asked", "yes", "no"},
         got  : [Sections -> {"unasked", "asked", "answered", "done"}],
         data : [Sections -> 0..MaxVersion],
         over : BOOLEAN]
NoLoad == [me |-> "unasked", got |-> [s \in Sections |-> "unasked"],
           data |-> [s \in Sections |-> 0], over |-> TRUE]

Started == 1..latest

\* A fresh page, or one whose first load has come and gone.
Init ==
  /\ version = [s \in Sections |-> 1]
  /\ changes = 0
  /\ path = Landing /\ moves = 0
  /\ hasLoaded \in BOOLEAN /\ isLoading = ~hasLoaded
  /\ viewer = hasLoaded
  /\ loaded = IF hasLoaded THEN Needs[Landing] ELSE {}
  /\ shown = [s \in Sections |-> IF s \in loaded THEN 1 ELSE 0]
  /\ errors = {}
  /\ latest = 0
  /\ loads = [i \in 1..MaxLoads |-> NoLoad]
  /\ due = FALSE
  /\ promised = [s \in Sections |-> 0]
  /\ overrun = {}

\* Does nothing but its number matter: is load i the latest?
AnyLoad(i) == TRUE                         \* mutant: every answer is welcome
IsLatest(i) == i = latest

-----------------------------------------------------------------------------
(* Around the store *)

\* Somebody changes the data of a section.
Change(s) ==
  /\ version[s] < MaxVersion
  /\ changes < MaxChanges /\ changes' = changes + 1
  /\ version' = [version EXCEPT ![s] = @ + 1]
  /\ UNCHANGED <<path, moves, page, flags, latest, loads, due, ghosts>>

\* A navigation within the chapter; the effect depends on the pathname.
Navigate(p) ==
  /\ moves < MaxMoves /\ p # path
  /\ path' = p /\ moves' = moves + 1
  /\ due' = TRUE
  /\ UNCHANGED <<server, page, flags, latest, loads, ghosts>>

-----------------------------------------------------------------------------
(* loadSections *)

Pending(i) == {s \in Sections : loads[i].got[s] \in {"asked", "answered"}}

AskedOf(wanted) == [s \in Sections |-> IF s \in wanted THEN "asked" ELSE "unasked"]

Begin(wanted, me) ==
  /\ latest < MaxLoads
  /\ latest' = latest + 1
  /\ loads' = [loads EXCEPT ![latest + 1] =
       [NoLoad EXCEPT !.me = me, !.over = FALSE,
          !.got = AskedOf(wanted)]]
  /\ isLoading' = TRUE
  /\ overrun' = overrun \cup (IF latest = 0 THEN {} ELSE Pending(latest) \ wanted)

MissingOnly == Needs[path] \ loaded         \* mutant: what is loaded stays
Refetched == loaded \cup Needs[path]

\* refreshChapterData: the first load, and after a change.
Refresh ==
  /\ Begin(Refetched, "asked")
  /\ promised' = [s \in Sections |-> IF s \in loaded \cup Needs[path] THEN version[s]
                                     ELSE promised[s]]
  /\ UNCHANGED <<server, path, moves, page, hasLoaded, due>>

Missing == Needs[path] \ loaded

\* The effect: only what the page lacks, and without the account.
TopUp ==
  /\ due
  /\ due' = FALSE
  /\ IF hasLoaded /\ viewer /\ Missing # {}
     THEN Begin(Missing, "unasked") /\ UNCHANGED promised
     ELSE UNCHANGED <<isLoading, latest, loads, ghosts>>
  /\ UNCHANGED <<server, path, moves, page, hasLoaded>>

Without(i) == [s \in Sections |-> IF loads[i].got[s] = "answered" THEN "done"
                                 ELSE loads[i].got[s]]

\* /api/auth/me: an account, which replaces currentUser and so triggers the effect;
\* or none, or an error, and then nothing of the load is applied.
AnswerMe(i) ==
  /\ i \in Started /\ loads[i].me = "asked"
  /\ \/ /\ IsLatest(i)
        /\ loads' = [loads EXCEPT ![i].me = "yes"]
        /\ viewer' = TRUE /\ due' = TRUE
        /\ UNCHANGED promised
     \/ /\ loads' = [loads EXCEPT ![i].me = "no",
                                 ![i].got = Without(i),
                                 ![i].data = [s \in Sections |-> 0]]
        /\ promised' = IF IsLatest(i) THEN [s \in Sections |-> 0] ELSE promised
        /\ UNCHANGED <<viewer, due>>
  /\ UNCHANGED <<server, path, moves, shown, loaded, errors, flags, latest, overrun>>

\* The server answers a section.
Answer(i, s) ==
  /\ i \in Started /\ loads[i].got[s] = "asked"
  /\ loads' = [loads EXCEPT ![i].got[s] = IF loads[i].me = "no" THEN "done" ELSE "answered",
                            ![i].data[s] = IF loads[i].me = "no" THEN 0 ELSE version[s]]
  /\ UNCHANGED <<server, path, moves, page, flags, latest, due, ghosts>>

\* A failed section has to stay eligible for a retry.
Failure(s) == loaded

FailSection(i, s) ==
  /\ i \in Started /\ loads[i].got[s] = "asked"
  /\ loads' = [loads EXCEPT ![i].got[s] = "done"]
  /\ errors' = IF IsLatest(i) THEN errors \cup {s} ELSE errors
  /\ loaded' = Failure(s)
  /\ UNCHANGED <<server, path, moves, viewer, shown, flags, latest, due, ghosts>>

ViewerKnown(i) == loads[i].me \in {"yes", "unasked"}

\* An answer is applied once the account is known, if the load is still the latest.
Commit(i, s) ==
  /\ i \in Started /\ loads[i].got[s] = "answered"
  /\ ViewerKnown(i) /\ IsLatest(i)
  /\ shown' = [shown EXCEPT ![s] = loads[i].data[s]]
  /\ loaded' = loaded \cup {s}
  /\ errors' = errors \ {s}
  /\ overrun' = overrun \ {s}
  /\ loads' = [loads EXCEPT ![i].got[s] = "done", ![i].data[s] = 0]
  /\ UNCHANGED <<server, path, moves, viewer, flags, latest, due, promised>>

Abandon(i, s) ==
  /\ i \in Started /\ loads[i].got[s] = "answered"
  /\ i # latest /\ loads[i].me # "asked"
  /\ loads' = [loads EXCEPT ![i].got[s] = "done", ![i].data[s] = 0]
  /\ UNCHANGED <<server, path, moves, page, flags, latest, due, ghosts>>

SettledWell(i) == Pending(i) = {} /\ loads[i].me # "no"   \* mutant: returns too early
Settled(i) == Pending(i) = {}

\* All is settled.  Only the latest load says so.
Finish(i) ==
  /\ i \in Started /\ ~loads[i].over
  /\ loads[i].me # "asked" /\ Settled(i)
  /\ IsLatest(i)
  /\ loads' = [loads EXCEPT ![i].over = TRUE]
  /\ isLoading' = FALSE /\ hasLoaded' = TRUE
  /\ due' = (due \/ ~hasLoaded)
  /\ UNCHANGED <<server, path, moves, page, latest, ghosts>>

Progress(i) ==
  \/ AnswerMe(i) \/ Finish(i)
  \/ \E s \in Sections : Answer(i, s) \/ FailSection(i, s) \/ Commit(i, s) \/ Abandon(i, s)

Next ==
  \/ \E s \in Sections : Change(s)
  \/ \E p \in Paths : Navigate(p)
  \/ Refresh \/ TopUp
  \/ \E i \in 1..MaxLoads : Progress(i)

Spec == Init /\ [][Next]_vars

(***************************************************************************)
(* Fairness.  A page makes its first load; every fetch is answered or cut  *)
(* off; what has been answered is applied; the effect runs.                *)
(***************************************************************************)
Fairness ==
  /\ WF_vars(latest = 0 /\ ~hasLoaded /\ Refresh)
  /\ WF_vars(TopUp)
  /\ \A i \in 1..MaxLoads : WF_vars(Progress(i))

FairSpec == Spec /\ Fairness

-----------------------------------------------------------------------------

TypeOK ==
  /\ version \in [Sections -> 1..MaxVersion]
  /\ changes \in 0..MaxChanges
  /\ path \in Paths /\ moves \in 0..MaxMoves
  /\ viewer \in BOOLEAN
  /\ shown \in [Sections -> 0..MaxVersion]
  /\ loaded = {s \in Sections : shown[s] > 0} /\ errors \subseteq Sections
  /\ isLoading \in BOOLEAN /\ hasLoaded \in BOOLEAN
  /\ latest \in 0..MaxLoads
  /\ loads \in [1..MaxLoads -> Load]
  /\ due \in BOOLEAN
  /\ promised \in [Sections -> 0..MaxVersion] /\ overrun \subseteq Sections

AtRest == latest > 0 /\ loads[latest].over /\ ~due

\* A page never goes back to older data, however the
\* answers of overlapping loads come in.
NoGoingBack == [][\A s \in Sections : shown'[s] >= shown[s]]_vars

\* When nothing is in flight and the last load had its account, the page has asked
\* for all that it reads.
RouteServed ==
  AtRest /\ viewer /\ loads[latest].me # "no" => Needs[path] \subseteq loaded \cup errors

\* refreshChapterData: "Refetch everything currently loaded, plus whatever the
\* current route needs", read strictly: a section that has loaded is as new as it
\* was when the last refresh was asked for.
ResyncKept ==
  AtRest => \A s \in loaded \ errors : shown[s] >= promised[s]

\* That sentence, with its exception: what a later load has overrun.
Resynced ==
  AtRest =>
    \A s \in loaded \ (errors \cup overrun) : shown[s] >= promised[s]

\* A page at rest has all that it reads, and nothing older than the last refresh.
Served == RouteServed /\ Resynced

\* Loading comes to an end.
LoadingEnds == isLoading ~> ~isLoading

-----------------------------------------------------------------------------
(***************************************************************************)
(* The inductive invariant: only the latest load counts, and what the page *)
(* lacks or has to renew is still on its way in it, or has been given up.  *)
(***************************************************************************)

\* What the page shows, and what a refresh promised, is or was at the server.
VersionInv == \A s \in Sections : shown[s] <= version[s] /\ promised[s] <= version[s]

\* An answer to the latest load is no older than what it will replace, nor than what
\* was promised.
AnswersInv ==
  latest > 0 => \A s \in Sections : loads[latest].got[s] = "answered" =>
    /\ 0 < loads[latest].data[s] /\ loads[latest].data[s] <= version[s]
    /\ shown[s] <= loads[latest].data[s] /\ promised[s] <= loads[latest].data[s]

\* A load that is over has nothing on its way, and the page is no longer a first load's.
OverInv ==
  \A i \in Started : loads[i].over => loads[i].me # "asked" /\ Pending(i) = {} /\ hasLoaded

\* A load without its account takes back what was promised.
RefusedInv == latest > 0 /\ loads[latest].me = "no" => \A s \in Sections : promised[s] = 0

\* Unless the effect will run, what the page reads is here, has failed or is on its way.
RouteInv ==
  latest > 0 /\ ~due /\ hasLoaded /\ viewer /\ loads[latest].me # "no" =>
    Needs[path] \subseteq loaded \cup errors \cup Pending(latest)

\* What is older than it was promised has failed, was overrun or is on its way.
ResyncInv ==
  \A s \in loaded :
    \/ shown[s] >= promised[s]
    \/ s \in errors \cup overrun
    \/ latest > 0 /\ s \in Pending(latest)

IInv ==
  /\ TypeOK
  /\ VersionInv /\ AnswersInv /\ OverInv /\ RefusedInv /\ RouteInv /\ ResyncInv

=============================================================================
