---------------------------- MODULE ServiceHours ----------------------------
(***************************************************************************)
(* Service hours of one chapter: the participations of members in service  *)
(* events, and the total on the roster that is derived from them           *)
(* (service-participation-service.ts, deleteServiceEvent, deleteCalendar,  *)
(* lib/service-hours.ts and the handlers of recalc-service-hours.ts), and  *)
(* what else writes the total: updateBrother, and the approval that makes  *)
(* a new row for who has left.                                             *)
(*                                                                         *)
(* The entries of one log are separate statements, not a transaction, and  *)
(* which of them are updates was decided before the first one.             *)
(***************************************************************************)
EXTENDS Naturals, FiniteSetsExt

CONSTANTS
  Members,      \* the roster, ghosts left out
  Events,       \* service events, each linked to a calendar event
  Workers,      \* concurrent requests, with their handlers
  MaxHours,     \* bound: hours of one participation
  MaxRequests,  \* bound: requests in one history
  None          \* null

VARIABLES
  events,       \* the service events that exist
  hours,        \* ServiceParticipation, unique for event and member
  total,        \* Membership.serviceHours
  pc, job,      \* where each worker is, and what it remembers
  requests,     \* requests begun, up to MaxRequests
  doubt,        \* ghost: members whose recalculation died or was overtaken
  unheard,      \* ghost: members whose hours changed without an event
  typed         \* ghost: members whose total was set without regard to the hours

vars == <<events, hours, total, pc, job, requests, doubt, unheard, typed>>

Hours == 0..MaxHours
Totals == 0..MaxHours * Cardinality(Events)

\* event, entry, known: a log (with the same hours for all of its members), and who
\* had a row when it began;
\* left: the entries to write; who: whom to recalculate; totals, overtaken: as
\* in Attendance.
NoJob == [event |-> None, entry |-> 0, known |-> {}, left |-> {},
          who |-> {}, totals |-> [m \in Members |-> 0], overtaken |-> FALSE]

Steps == {"idle", "logging", "emitted", "read"}

SumOver(m, S) == MapThenSumSet(LAMBDA e : hours[e][m], S)

TotalOfLatest(m) ==                           \* mutant: one row is read
  IF \E e \in events : hours[e][m] # None
  THEN LET e == CHOOSE x \in events : hours[x][m] # None IN hours[e][m] ELSE 0

\* All rows of m, whatever the event.
TotalOf(m) == SumOver(m, {e \in events : hours[e][m] # None})

Init ==
  /\ events = Events
  /\ hours = [e \in Events |-> [m \in Members |-> None]]
  /\ total = [m \in Members |-> 0]
  /\ pc = [w \in Workers |-> "idle"]
  /\ job = [w \in Workers |-> NoJob]
  /\ requests = 0
  /\ doubt = {} /\ unheard = {} /\ typed = {}

Begin(w) == pc[w] = "idle" /\ requests < MaxRequests /\ requests' = requests + 1
Goto(w, step) == pc' = [pc EXCEPT ![w] = step]

Overtake(w, S, j) ==
  job' = [x \in Workers |->
            IF x = w THEN j
            ELSE [job[x] EXCEPT !.overtaken = @ \/ (pc[x] = "read" /\ job[x].who \cap S # {})]]

Emit(w, S) == Goto(w, "emitted") /\ Overtake(w, S, [NoJob EXCEPT !.who = S])

Attending(e) == {m \in Members : hours[e][m] # None}

-----------------------------------------------------------------------------
(* service-participation-service.ts *)

\* logParticipation reads which members have a row already.
StartLog(w, e, S, h) ==
  /\ Begin(w)
  /\ e \in events
  /\ job' = [job EXCEPT ![w] =
       [NoJob EXCEPT !.event = e, !.entry = h, !.left = S, !.who = S,
          !.known = Attending(e)]]
  /\ Goto(w, "logging")
  /\ UNCHANGED <<events, hours, total, doubt, unheard, typed>>

\* An update needs its row, and a create must not find one, nor miss the event.  (A
\* row that was removed and made again in between counts as the same.)
Writable(w, m) ==
  LET e == job[w].event IN
  e \in events /\ (m \in job[w].known <=> hours[e][m] # None)

\* One entry; after the last one the event is emitted.
LogEntry(w, m) ==
  LET j == job[w]
      left == j.left \ {m}
  IN
  /\ pc[w] = "logging" /\ m \in j.left
  /\ Writable(w, m)
  /\ hours' = [hours EXCEPT ![j.event][m] = j.entry]
  /\ IF left = {} THEN Emit(w, j.who)
     ELSE Overtake(w, {m}, [j EXCEPT !.left = left]) /\ UNCHANGED pc
  /\ UNCHANGED <<events, total, requests, doubt, unheard, typed>>

UpdateParticipation(w, e, m, h) ==
  /\ Begin(w)
  /\ e \in events /\ hours[e][m] # None
  /\ hours' = [hours EXCEPT ![e][m] = h]
  /\ Emit(w, {m})
  /\ UNCHANGED <<events, total, doubt, unheard, typed>>

RemoveParticipation(w, e, m) ==
  /\ Begin(w)
  /\ e \in events /\ hours[e][m] # None
  /\ hours' = [hours EXCEPT ![e][m] = None]
  /\ Emit(w, {m})
  /\ UNCHANGED <<events, total, doubt, unheard, typed>>

-----------------------------------------------------------------------------
(* The deletion of a service event takes its participations along *)

Cascade(e) ==
  /\ events' = events \ {e}
  /\ hours' = [hours EXCEPT ![e] = [m \in Members |-> None]]

DeleteServiceEvent(w, e) ==
  /\ Begin(w)
  /\ e \in events
  /\ Cascade(e)
  /\ Emit(w, Members)
  /\ UNCHANGED <<total, doubt, unheard, typed>>

\* deleteCalendar deletes the service event of a calendar event.  Its own event
\* has no handler.
DeleteCalendar(w, e) ==
  /\ Begin(w)
  /\ e \in events
  /\ Cascade(e)
  /\ Overtake(w, Attending(e), NoJob)
  /\ unheard' = unheard \cup Attending(e)
  /\ UNCHANGED <<total, pc, doubt, typed>>

-----------------------------------------------------------------------------
(* Other writers of the total, after which nobody recalculates *)

SetTotal(w, m, h) ==
  /\ Begin(w)
  /\ total' = [total EXCEPT ![m] = h]
  /\ typed' = typed \cup {m}
  /\ UNCHANGED <<events, hours, pc, job, doubt, unheard>>

\* updateBrother takes serviceHours from the body, from an officer or the member.
UpdateBrother(w, m, h) == SetTotal(w, m, h)

\* leaveOrg drops the row of the roster and keeps the participations, and
\* approveJoinRequest makes a new one that starts at nought.  (The time in between,
\* when there is no total to be true or false, is left out.)
Return(w, m) == SetTotal(w, m, 0)

-----------------------------------------------------------------------------
(* The handlers, and what may end a worker early *)

ReadTotals(w) ==
  /\ pc[w] = "emitted"
  /\ Goto(w, "read")
  /\ job' = [job EXCEPT ![w].totals = [m \in Members |-> TotalOf(m)]]
  /\ UNCHANGED <<events, hours, total, requests, doubt, unheard, typed>>

\* recalcBrotherServiceHours writes one total; the other two write all of them in
\* one transaction.
WriteTotals(w) ==
  LET j == job[w] IN
  /\ pc[w] = "read"
  /\ total' = [m \in Members |-> IF m \in j.who THEN j.totals[m] ELSE total[m]]
  /\ doubt' = IF j.overtaken THEN doubt \cup j.who ELSE doubt \ j.who
  /\ unheard' = IF j.overtaken THEN unheard ELSE unheard \ j.who
  /\ typed' = IF j.overtaken THEN typed ELSE typed \ j.who
  /\ Goto(w, "idle")
  /\ job' = [job EXCEPT ![w] = NoJob]
  /\ UNCHANGED <<events, hours, requests>>

\* A statement fails, the process dies, or the handler is frozen for good.
Die(w) ==
  /\ pc[w] # "idle"
  /\ doubt' = doubt \cup (job[w].who \ job[w].left)
  /\ Goto(w, "idle")
  /\ job' = [job EXCEPT ![w] = NoJob]
  /\ UNCHANGED <<events, hours, total, requests, unheard, typed>>

Next ==
  \E w \in Workers :
    \/ \E e \in Events, S \in SUBSET Members \ {{}}, h \in Hours : StartLog(w, e, S, h)
    \/ \E m \in Members : LogEntry(w, m)
    \/ \E e \in Events, m \in Members, h \in Hours : UpdateParticipation(w, e, m, h)
    \/ \E e \in Events, m \in Members : RemoveParticipation(w, e, m)
    \/ \E e \in Events : DeleteServiceEvent(w, e) \/ DeleteCalendar(w, e)
    \/ \E m \in Members, h \in Totals : UpdateBrother(w, m, h)
    \/ \E m \in Members : Return(w, m)
    \/ ReadTotals(w) \/ WriteTotals(w) \/ Die(w)

Spec == Init /\ [][Next]_vars

-----------------------------------------------------------------------------

TypeOK ==
  /\ events \subseteq Events
  /\ hours \in [Events -> [Members -> Hours \cup {None}]]
  /\ total \in [Members -> Totals]
  /\ pc \in [Workers -> Steps]
  /\ \A w \in Workers : job[w].left \subseteq job[w].who /\ job[w].who \subseteq Members
  /\ requests \in 0..MaxRequests
  /\ doubt \subseteq Members /\ unheard \subseteq Members /\ typed \subseteq Members

\* A recalculation of m is on its way, or a log that has written m will ask for it.
Owed(m) == \E w \in Workers : m \in job[w].who \ job[w].left

Sum(m) == MapThenSumSet(LAMBDA e : hours[e][m], {e \in Events : hours[e][m] # None})

\* lib/service-hours.ts: the total is the sum of the participations, unless a
\* recalculation is still to come or the last one died or was overtaken, or the
\* calendar event was deleted, or somebody has set the total since.
TotalTrue ==
  \A m \in Members \ (doubt \cup unheard \cup typed) : ~Owed(m) => total[m] = Sum(m)

\* service-hours.ts: the total is "recomputed ... whenever participation rows
\* change".
TotalFollows == \A m \in Members \ (doubt \cup typed) : ~Owed(m) => total[m] = Sum(m)

\* service-hours.ts: "services never write serviceHours directly".
TotalDerived == \A m \in Members \ (doubt \cup unheard) : ~Owed(m) => total[m] = Sum(m)

\* The invariant is inductive with what the rows and the workers remember.
Job == [event : Events \cup {None}, entry : Hours, known : SUBSET Members,
        left : SUBSET Members, who : SUBSET Members,
        totals : [Members -> Totals], overtaken : BOOLEAN]

\* A participation goes with its event.
RowsInv == \A e \in Events, m \in Members : hours[e][m] # None => e \in events

\* Only a log has entries left, and a recalculation that was not overtaken holds the sums.
JobOK(w) ==
  /\ pc[w] = "idle" => job[w].who = {}
  /\ pc[w] = "logging" => job[w].event \in Events
  /\ pc[w] # "logging" => job[w].left = {}
  /\ pc[w] = "read" /\ ~job[w].overtaken =>
       \A m \in job[w].who : job[w].totals[m] = Sum(m)

JobsInv == job \in [Workers -> Job] /\ \A w \in Workers : JobOK(w)

IInv == TypeOK /\ RowsInv /\ JobsInv /\ TotalTrue

=============================================================================
