----------------------------- MODULE Attendance -----------------------------
(***************************************************************************)
(* The attendance of one chapter: rolls, excuses, exemptions, semesters,   *)
(* and the percentage on the roster that is derived from them              *)
(* (lib/attendance.ts, attendance-, excuse-, exemption- and                *)
(* semester-service.ts, and the handlers of recalc-attendance.ts).         *)
(*                                                                         *)
(* A request commits its change, emits an event, and the handler of that   *)
(* event reads the records of a semester and then writes the percentages   *)
(* it has computed.  Requests and handlers of several workers interleave   *)
(* between any two statements, and may die there.  The reads of one        *)
(* recalculation run side by side and are one step: a commit among them    *)
(* counts as one that comes after them.                                    *)
(*                                                                         *)
(* A semester is its number in the order of creation.  A calendar event    *)
(* with a record or an excuse cannot be deleted (the foreign keys          *)
(* restrict it), so deletions are left out.                                *)
(***************************************************************************)
EXTENDS Integers, FiniteSets

CONSTANTS
  Members,      \* the roster, ghosts left out (member.listIds)
  Events,       \* calendar events
  Workers,      \* concurrent requests, with their handlers
  MaxTerms,     \* bound: semesters
  MaxRequests,  \* bound: requests in one history
  None          \* null

ASSUME BoundsAssumption ==
  /\ MaxTerms \in Nat \ {0} /\ MaxRequests \in Nat
  /\ None \notin Nat
  /\ IsFiniteSet(Events)
  /\ IsFiniteSet(Workers) /\ Workers # {}

VARIABLES
  terms,      \* semesters created so far
  active,     \* those with isActive
  mandatory,  \* the mandatory events
  records,    \* AttendanceRecord, unique for event and member
  excuses,    \* AttendanceExcuse, unique for event and member
  exempt,     \* AttendanceExemption: pairs of semester and member
  ratio,      \* Membership.attendance
  pc,         \* where each worker is
  job,        \* what each worker remembers
  requests,   \* requests begun, up to MaxRequests
  doubt,      \* ghost: members whose number no recalculation vouches for
  mishaps     \* ghost: what happened to the switches since one began alone

sources == <<terms, active, mandatory, records, excuses, exempt>>
vars == <<sources, ratio, pc, job, requests, doubt, mishaps>>

Terms == 1..MaxTerms
Exempt == -1
Mishaps == {"raced", "failed"}

Record == [term : Terms, attended : BOOLEAN]
Excuse == [term : Terms, status : {"pending", "approved", "rejected"}]

\* kind: what the worker is about; who, term: whom to recalculate, for which
\* semester; event, present, prior: the input and what was read for it; ratios:
\* what the recalculation computed; overtaken: has something it depends on been
\* changed since?
Job == [who : SUBSET Members, term : Terms \cup {None}, event : Events \cup {None},
        present : SUBSET Members, officer : BOOLEAN, prior : Excuse \cup {None},
        ratios : [Members -> Exempt..100], overtaken : BOOLEAN]
NoJob == [who |-> {}, term |-> None, event |-> None, present |-> {}, officer |-> FALSE,
          prior |-> None, ratios |-> [m \in Members |-> 0], overtaken |-> FALSE]

Steps == {"idle", "recording", "excusing", "switching", "emitted", "read"}

-----------------------------------------------------------------------------
(* The derived percentage *)

\* Math.round of a hundred times the quotient.
Percent(num, den) == IF den = 0 THEN 0 ELSE (200 * num + den) \div (2 * den)

Excused(e, m, t) ==
  excuses[e][m] # None /\ excuses[e][m].term = t /\ excuses[e][m].status = "approved"

UnfilteredEligible(m, t) ==                  \* mutant: optional events count too
  {e \in Events : /\ records[e][m] # None /\ records[e][m].term = t
                  /\ ~Excused(e, m, t)}
Eligible(m, t) ==
  {e \in mandatory : /\ records[e][m] # None /\ records[e][m].term = t
                     /\ ~Excused(e, m, t)}

Attended(m, t) == {e \in Eligible(m, t) : records[e][m].attended}

RatioOf(m, t) ==
  IF <<t, m>> \in exempt THEN Exempt
  ELSE Percent(Cardinality(Attended(m, t)), Cardinality(Eligible(m, t)))

-----------------------------------------------------------------------------

\* A chapter that was provisioned with its first semester.
Init ==
  /\ terms = 1 /\ active = {1}
  /\ mandatory = Events
  /\ records = [e \in Events |-> [m \in Members |-> None]]
  /\ excuses = [e \in Events |-> [m \in Members |-> None]]
  /\ exempt = {}
  /\ ratio = [m \in Members |-> 0]
  /\ pc = [w \in Workers |-> "idle"]
  /\ job = [w \in Workers |-> NoJob]
  /\ requests = 0
  /\ doubt = {}
  /\ mishaps = {}

\* Worker w begins a request, goes on to a step, or is done.
Begin(w) == pc[w] = "idle" /\ requests < MaxRequests /\ requests' = requests + 1
Goto(w, step) == pc' = [pc EXCEPT ![w] = step]

\* Whoever has read a percentage of S and not written it yet is overtaken.
Overtake(w, S, j) ==
  job' = [x \in Workers |->
            IF x = w THEN j
            ELSE [job[x] EXCEPT !.overtaken = @ \/ (pc[x] = "read" /\ job[x].who \cap S # {})]]

\* A change of what the percentages of S are derived from, with its event.
Emit(w, S, t) ==
  /\ Goto(w, "emitted")
  /\ Overtake(w, S, [NoJob EXCEPT !.who = S, !.term = t])

\* The same without an event that anybody recalculates for.
EmitUnheard(w) ==
  /\ Goto(w, "idle")
  /\ Overtake(w, Members, NoJob)
  /\ doubt' = Members

Switching == {w \in Workers : pc[w] = "switching"}

-----------------------------------------------------------------------------
(* attendance-service.ts *)

\* recordAttendance reads the event, the semester and who is eligible.
StartRoll(w, e, present) ==
  /\ Begin(w)
  /\ e \in mandatory
  /\ \E t \in active :
       job' = [job EXCEPT ![w] =
                 [NoJob EXCEPT !.event = e, !.term = t, !.present = present,
                    !.who = {m \in Members : ~Excused(e, m, t) /\ <<t, m>> \notin exempt}]]
  /\ Goto(w, "recording")
  /\ UNCHANGED <<sources, ratio, doubt, mishaps>>

\* In one transaction the rows of the eligible are deleted and made anew.
RecordAttendance(w) ==
  LET j == job[w] IN
  /\ pc[w] = "recording"
  /\ records' = [records EXCEPT ![j.event] =
       [m \in Members |-> IF m \in j.who THEN [term |-> j.term, attended |-> m \in j.present]
                          ELSE @[m]]]
  /\ Emit(w, Members, j.term)
  /\ UNCHANGED <<terms, active, mandatory, excuses, exempt, ratio, requests, doubt, mishaps>>

-----------------------------------------------------------------------------
(* excuse-service.ts *)

OpenAgain(x) == x # None => x.status # "pending"      \* mutant: an approval may be redone
Open(x) == x # None => x.status = "rejected"

\* submitExcuse reads the semester and, in its transaction, the excuse that is
\* there: a member may not replace one that is pending or approved.
StartExcuse(w, e, m, officer) ==
  /\ Begin(w)
  /\ ~officer => Open(excuses[e][m])
  /\ \E t \in active :
       job' = [job EXCEPT ![w] =
                 [NoJob EXCEPT !.event = e, !.term = t, !.who = {m}, !.officer = officer,
                    !.prior = excuses[e][m]]]
  /\ Goto(w, "excusing")
  /\ UNCHANGED <<sources, ratio, doubt, mishaps>>

\* The upsert.  An update leaves the semester as it is.
SubmitExcuse(w) ==
  LET j == job[w]
      m == CHOOSE x \in Members : j.who = {x}
      old == excuses[j.event][m]
      status == IF j.officer THEN "approved" ELSE "pending"
  IN
  /\ pc[w] = "excusing"
  /\ excuses' = [excuses EXCEPT ![j.event][m] =
       [term |-> IF old = None THEN j.term ELSE old.term, status |-> status]]
  /\ IF j.officer THEN Emit(w, {m}, j.term) ELSE Goto(w, "idle") /\ Overtake(w, {m}, NoJob)
  /\ doubt' = IF ~j.officer /\ old # j.prior THEN doubt \cup {m} ELSE doubt
  /\ UNCHANGED <<terms, active, mandatory, records, exempt, ratio, requests, mishaps>>

\* decideExcuse is a compare-and-set on the pending status; only an approval
\* recalculates, and for the semester of the excuse.
Decide(w, e, m, verdict) ==
  /\ Begin(w)
  /\ excuses[e][m] # None /\ excuses[e][m].status = "pending"
  /\ excuses' = [excuses EXCEPT ![e][m].status = verdict]
  /\ IF verdict = "approved" THEN Emit(w, {m}, excuses[e][m].term) ELSE UNCHANGED <<pc, job>>
  /\ UNCHANGED <<terms, active, mandatory, records, exempt, ratio, doubt, mishaps>>

-----------------------------------------------------------------------------
(* exemption-service.ts: for a semester that is named, or the active one *)

Exemption(w, m, t, pairs) ==
  /\ Begin(w)
  /\ t \in 1..terms
  /\ exempt' = pairs
  /\ Emit(w, {m}, t)
  /\ UNCHANGED <<terms, active, mandatory, records, excuses, ratio, doubt, mishaps>>

SetExemption(w, m, t) == Exemption(w, m, t, exempt \cup {<<t, m>>})
ClearExemption(w, m, t) == Exemption(w, m, t, exempt \ {<<t, m>>})

-----------------------------------------------------------------------------
(* calendar-service.ts *)

\* updateCalendar with a new mandatory flag: nobody listens to calendar.updated.
ToggleMandatory(w, e) ==
  /\ Begin(w)
  /\ mandatory' = IF e \in mandatory THEN mandatory \ {e} ELSE mandatory \cup {e}
  /\ EmitUnheard(w)
  /\ UNCHANGED <<terms, active, records, excuses, exempt, ratio, mishaps>>

-----------------------------------------------------------------------------
(* semester-service.ts *)

KeptActive == active                         \* mutant: the first statement is forgotten
Cleared == {}

\* createSemester (t is the next one), updateSemester and activateSemester begin
\* by deactivating every semester.
Deactivate(w, t) ==
  /\ Begin(w)
  /\ t \in 1..terms + 1 /\ t \in Terms
  /\ active' = Cleared
  /\ job' = [job EXCEPT ![w] = [NoJob EXCEPT !.term = t]]
  /\ Goto(w, "switching")
  /\ mishaps' = IF Switching = {} THEN {} ELSE mishaps \cup {"raced"}
  /\ UNCHANGED <<terms, mandatory, records, excuses, exempt, ratio, doubt>>

\* The second statement flags one.  It fails if the label is taken, or if there
\* is no semester with that id.
Activate(w) ==
  LET t == job[w].term IN
  /\ pc[w] = "switching"
  /\ active' = active \cup {t}
  /\ terms' = IF t > terms THEN t ELSE terms
  /\ EmitUnheard(w)
  /\ UNCHANGED <<mandatory, records, excuses, exempt, ratio, requests, mishaps>>

-----------------------------------------------------------------------------
(* membership-service.ts and join-request-service.ts *)

\* leaveOrg drops the row of the roster and keeps the records, and
\* approveJoinRequest makes a new one that starts at nought, of which no handler of
\* this module hears.  (The time in between, when there is no percentage to be true
\* or false, is left out.)
Return(w, m) ==
  /\ Begin(w)
  /\ ratio' = [ratio EXCEPT ![m] = 0]
  /\ doubt' = doubt \cup {m}
  /\ UNCHANGED <<sources, pc, job, mishaps>>

-----------------------------------------------------------------------------
(* The handlers, and what may end a worker early *)

\* recalcBrotherAttendance and recalcAllBrothersInSemester: the reads ...
ReadRatios(w) ==
  LET j == job[w] IN
  /\ pc[w] = "emitted"
  /\ Goto(w, "read")
  /\ job' = [job EXCEPT ![w].ratios =
               [m \in Members |-> IF m \in j.who THEN RatioOf(m, j.term) ELSE 0]]
  /\ UNCHANGED <<sources, ratio, requests, doubt, mishaps>>

\* ... and the write, which nobody can vouch for if something came in between, or
\* if the percentage is not that of the active semester.
WriteRatios(w) ==
  LET j == job[w] IN
  /\ pc[w] = "read"
  /\ ratio' = [m \in Members |-> IF m \in j.who THEN j.ratios[m] ELSE ratio[m]]
  /\ doubt' = IF j.overtaken \/ active # {j.term} THEN doubt \cup j.who ELSE doubt \ j.who
  /\ Goto(w, "idle")
  /\ job' = [job EXCEPT ![w] = NoJob]
  /\ UNCHANGED <<sources, requests, mishaps>>

\* A statement fails, the process dies, or the handler is frozen for good.
Die(w) ==
  /\ pc[w] # "idle"
  /\ doubt' = IF pc[w] \in {"emitted", "read"} THEN doubt \cup job[w].who ELSE doubt
  /\ mishaps' = IF pc[w] = "switching" THEN mishaps \cup {"failed"} ELSE mishaps
  /\ Goto(w, "idle")
  /\ job' = [job EXCEPT ![w] = NoJob]
  /\ UNCHANGED <<sources, ratio, requests>>

Next ==
  \E w \in Workers :
    \/ \E e \in Events, present \in SUBSET Members : StartRoll(w, e, present)
    \/ RecordAttendance(w)
    \/ \E e \in Events, m \in Members, officer \in BOOLEAN : StartExcuse(w, e, m, officer)
    \/ SubmitExcuse(w)
    \/ \E e \in Events, m \in Members, v \in {"approved", "rejected"} : Decide(w, e, m, v)
    \/ \E m \in Members, t \in Terms : SetExemption(w, m, t) \/ ClearExemption(w, m, t)
    \/ \E e \in Events : ToggleMandatory(w, e)
    \/ \E t \in Terms : Deactivate(w, t)
    \/ \E m \in Members : Return(w, m)
    \/ Activate(w) \/ ReadRatios(w) \/ WriteRatios(w) \/ Die(w)

Spec == Init /\ [][Next]_vars

-----------------------------------------------------------------------------

TypeOK ==
  /\ terms \in Terms /\ active \subseteq 1..terms
  /\ mandatory \subseteq Events
  /\ records \in [Events -> [Members -> Record \cup {None}]]
  /\ excuses \in [Events -> [Members -> Excuse \cup {None}]]
  /\ exempt \subseteq (1..terms) \X Members
  /\ ratio \in [Members -> Exempt..100]
  /\ pc \in [Workers -> Steps]
  /\ job \in [Workers -> Job]
  /\ requests \in 0..MaxRequests
  /\ doubt \subseteq Members
  /\ mishaps \subseteq Mishaps

\* A recalculation of m is on its way.
Owed(m) == \E w \in Workers : pc[w] \in {"emitted", "read"} /\ m \in job[w].who

\* The share of the mandatory events of semester t that m attended, of those that
\* have been recorded and not excused; nothing to share is nothing.
Truth(m, t) ==
  LET due == {e \in mandatory :
                /\ records[e][m] # None
                /\ records[e][m].term = t
                /\ excuses[e][m] # None /\ excuses[e][m].term = t
                     => excuses[e][m].status # "approved"}
      came == {e \in due : records[e][m].attended}
  IN
  IF <<t, m>> \in exempt THEN Exempt
  ELSE IF came = {} THEN 0
  ELSE CHOOSE p \in 0..100 : 2 * p * Cardinality(due) - 200 * Cardinality(came)
                                \in -Cardinality(due) + 1..Cardinality(due)

\* lib/attendance.ts: the roster shows what the records of the active semester
\* say, unless a recalculation is still to come, or the last one died, was
\* overtaken, was for another semester, or was never asked for (a mandatory flag, a
\* switch, a new row for who returns).
RatioTrue ==
  \A m \in Members \ doubt : \A t \in active :
    active = {t} /\ ~Owed(m) => ratio[m] = Truth(m, t)

\* excuse-service.ts: an approval is the officers' to take back.  Whatever overlaps,
\* it is undone by nobody but its member, with a resubmission that found no excuse or
\* a rejected one before the approval; and it is not lost then, but pending again, for
\* the semester it was given for.
Stale(w, e, m) ==
  /\ pc[w] = "excusing" /\ job[w].event = e /\ job[w].who = {m} /\ ~job[w].officer
  /\ job[w].prior # None => job[w].prior.status = "rejected"
ApprovalStands ==
  [][\A e \in Events, m \in Members :
       /\ excuses[e][m] # None /\ excuses[e][m].status = "approved"
       /\ excuses'[e][m] # excuses[e][m]
       => /\ \E w \in Workers : Stale(w, e, m) /\ pc'[w] = "idle"
          /\ excuses'[e][m] = [excuses[e][m] EXCEPT !.status = "pending"]]_vars

\* semester-service.ts: "One active per org".
OneActive == Cardinality(active) = 1

\* What holds of it, a switch being two statements.  The active semesters and the
\* switches under way are together no more than the requests that run at a time, so
\* that many is the most that overlapping switches leave; none is left only by one
\* that stopped half way; and one switch that began alone and ended puts it right.
SwitchBound == Cardinality(active) + Cardinality(Switching) <= Cardinality(Workers)
TermStands ==
  /\ SwitchBound
  /\ Switching = {} /\ "failed" \notin mishaps => active # {}
  /\ Switching = {} /\ mishaps = {} => OneActive

-----------------------------------------------------------------------------
(* What these follow from *)

\* What a request knows of itself, and a percentage that has been read and not been
\* overtaken is still the one that the rolls give.
JobOK(w) ==
  /\ pc[w] \in {"recording", "excusing"} => job[w].event \in Events
  /\ pc[w] # "idle" => job[w].term \in Terms
  /\ pc[w] = "excusing" =>
       /\ \E m \in Members : job[w].who = {m}
       /\ ~job[w].officer => Open(job[w].prior)
  /\ pc[w] = "read" /\ ~job[w].overtaken =>
       \A m \in job[w].who, t \in Terms : job[w].term = t => job[w].ratios[m] = RatioOf(m, t)

JobsInv == \A w \in Workers : JobOK(w)

\* While one request switches there is no active semester, and there is no other one.
SwitchInv ==
  /\ mishaps = {} =>
       /\ \A w, x \in Switching : w = x
       /\ Switching # {} => active = {}
       /\ Switching = {} => \E t \in Terms : active = {t}
  /\ Switching = {} /\ "failed" \notin mishaps => active # {}
  /\ SwitchBound

\* The same as RatioTrue, with the percentage as the code computes it.
RatioInv ==
  \A m \in Members \ doubt : \A t \in active :
    active = {t} /\ ~Owed(m) => ratio[m] = RatioOf(m, t)

IInv == TypeOK /\ JobsInv /\ SwitchInv /\ RatioInv

=============================================================================
