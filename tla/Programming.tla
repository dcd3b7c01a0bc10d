---------------------------- MODULE Programming ----------------------------
(***************************************************************************)
(* The events board of one chapter and the calendar it publishes to        *)
(* (programming-service.ts, and what calendar-service.ts and               *)
(* service-event-service.ts do to the same rows).                          *)
(*                                                                         *)
(* A board event goes through idea, planning, confirmed and done; from     *)
(* confirmed on it is published: it is linked to a calendar event, and a   *)
(* service event hangs on that one if the category says so.  A request     *)
(* reads the board event, decides, and commits one transaction; others     *)
(* commit in between.                                                      *)
(*                                                                         *)
(* Of an event's fields there are the category, as far as it means         *)
(* service, and one value for what Confirmed asks for, the date and the    *)
(* place.  The owner, which Planning asks for and anybody may take away    *)
(* later, is left out; so are documents, fields nothing depends on, and    *)
(* the bounds of the semester.                                             *)
(***************************************************************************)
EXTENDS Naturals, FiniteSets

CONSTANTS
  Events,   \* ids of board events
  Whens,    \* dates with places
  Plans,    \* what the forms of the board are filled in with
  Bodies,   \* what the bodies of later edits hold, of the fields of a plan
  Workers,  \* concurrent requests
  MaxCals,  \* bound: calendar events in one history
  None,     \* null
  Keep      \* a field that the body of a request leaves out

VARIABLES
  board,    \* ProgrammingEvent, None for one that does not exist
  cal,      \* CalendarEvent, by its id, None for one that does not exist
  used,     \* ids of calendar events given so far (autoincrement)
  pc, job,  \* where each request is, and what it remembers
  strayed   \* ghost: calendar events somebody wrote past the board, or who was overtaken

vars == <<board, cal, used, pc, job, strayed>>

Cals == 1..MaxCals

Stages == {"idea", "planning", "confirmed", "done"}
Order == [idea |-> 0, planning |-> 1, confirmed |-> 2, done |-> 3]
StageIsPublished(stage) == stage \in {"confirmed", "done"}

Plan == [service : BOOLEAN, when : Whens \cup {None}]
BoardRow == [stage : Stages, link : Cals \cup {None}, plan : Plan]

\* What the calendar shows, whether a service event hangs on it, whether a roll or
\* an excuse refers to it, and whether the board made it.
CalRow == [plan : Plan, service : BOOLEAN, roll : BOOLEAN, published : BOOLEAN]

\* row: the board event as it was read; next, body: the input; overtaken: has it been
\* written since?
Body == [service : BOOLEAN \cup {Keep}, when : Whens \cup {None, Keep}]
Job == [event : Events \cup {None}, row : BoardRow \cup {None}, next : Stages,
        body : Body, overtaken : BOOLEAN]
Untouched == [service |-> Keep, when |-> Keep]
NoJob == [event |-> None, row |-> None, next |-> "idea", body |-> Untouched,
          overtaken |-> FALSE]

Init ==
  /\ board = [e \in Events |-> None]
  /\ cal = [c \in Cals |-> None]
  /\ used = 0
  /\ pc = [w \in Workers |-> "idle"]
  /\ job = [w \in Workers |-> NoJob]
  /\ strayed = {}

\* programming_event_publish_check, on every statement.
CheckHolds(row) == StageIsPublished(row.stage) <=> row.link # None

\* Worker w, if any, is done; whoever has read event e before is overtaken.
Commit(w, e) ==
  /\ pc' = [v \in Workers |-> IF v = w THEN "idle" ELSE pc[v]]
  /\ job' = [v \in Workers |->
               IF v = w THEN NoJob
               ELSE [job[v] EXCEPT !.overtaken = @ \/ (e # None /\ job[v].event = e)]]

Linked(c) == {e \in Events : board[e] # None /\ board[e].link = c}
LinkedTo(c) == IF Linked(c) = {} THEN None ELSE CHOOSE e \in Linked(c) : TRUE

\* A roll and an excuse restrict the deletion of their calendar event.
Deletable(c) == cal[c] # None /\ ~cal[c].roll

Stray(S, happens) == strayed' = IF happens THEN strayed \cup S ELSE strayed

-----------------------------------------------------------------------------
(* createProgrammingTask *)

CreateProgrammingTask(e, plan) ==
  /\ board[e] = None
  /\ \A w \in Workers : job[w].event # e
  /\ board' = [board EXCEPT ![e] = [stage |-> "idea", link |-> None, plan |-> plan]]
  /\ UNCHANGED <<cal, used, pc, job, strayed>>

\* The other operations begin by reading the event.
Read(w, step, e, next, body) ==
  /\ pc[w] = "idle"
  /\ board[e] # None
  /\ pc' = [pc EXCEPT ![w] = step]
  /\ job' = [job EXCEPT ![w] = [event |-> e, row |-> board[e], next |-> next,
                                body |-> body, overtaken |-> FALSE]]
  /\ UNCHANGED <<board, cal, used, strayed>>

-----------------------------------------------------------------------------
(* setStage *)

CanEnter(row, next) == StageIsPublished(next) => row.plan.when # None
NeedsConfirmFirst(row, next) == next = "done" /\ row.stage # "confirmed"

FieldsOnly(row, next) ==                     \* mutant: nothing says where done comes from
  Order[next] > Order[row.stage] => CanEnter(row, next)
NoFields(row, next) ==                       \* mutant: an event may be confirmed as it is
  Order[next] > Order[row.stage] => ~NeedsConfirmFirst(row, next)
\* Backward moves are free.
Gate(row, next) ==
  Order[next] > Order[row.stage] => CanEnter(row, next) /\ ~NeedsConfirmFirst(row, next)

StartStage(w, e, next) ==
  /\ board[e] # None => board[e].stage # next /\ Gate(board[e], next)
  /\ Read(w, "staging", e, next, Untouched)

ClaimedBlindly(e) == board[e] # None         \* mutant: the link is overwritten
Claimed(e) == board[e] # None /\ board[e].link = None

\* Into confirmed: a calendar event, made from what was read, and the claim of a
\* link that must be empty still; otherwise everything is rolled back.
Promote(w) ==
  LET j == job[w]
      c == used + 1
  IN
  /\ pc[w] = "staging"
  /\ StageIsPublished(j.next) /\ j.row.link = None
  /\ c \in Cals
  /\ Claimed(j.event)
  /\ board' = [board EXCEPT ![j.event] = [@ EXCEPT !.stage = j.next, !.link = c]]
  /\ cal' = [cal EXCEPT ![c] = [plan |-> j.row.plan, service |-> j.row.plan.service,
                                roll |-> FALSE, published |-> TRUE]]
  /\ used' = c
  /\ Stray({c}, j.overtaken)
  /\ Commit(w, j.event)

\* Out of it: the release of the link that was read earns the deletion.
Demote(w) ==
  LET j == job[w] IN
  /\ pc[w] = "staging"
  /\ ~StageIsPublished(j.next) /\ j.row.link # None
  /\ board[j.event] # None /\ board[j.event].link = j.row.link
  /\ Deletable(j.row.link)
  /\ board' = [board EXCEPT ![j.event] = [@ EXCEPT !.stage = j.next, !.link = None]]
  /\ cal' = [cal EXCEPT ![j.row.link] = None]
  /\ Commit(w, j.event)
  /\ UNCHANGED <<used, strayed>>

\* Between idea and planning, or confirmed and done: only the stage is written.
MoveLaterally(w) ==
  LET j == job[w] IN
  /\ pc[w] = "staging"
  /\ StageIsPublished(j.next) <=> j.row.link # None
  /\ board[j.event] # None
  /\ CheckHolds([board[j.event] EXCEPT !.stage = j.next])
  /\ board' = [board EXCEPT ![j.event] = [@ EXCEPT !.stage = j.next]]
  /\ Commit(w, j.event)
  /\ UNCHANGED <<cal, used, strayed>>

-----------------------------------------------------------------------------
(* updateProgrammingTask *)

\* Of a published event only fields that are no part of the plan can be edited.
Frozen(row) == StageIsPublished(row.stage)

StartUpdate(w, e, body) ==
  /\ board[e] # None /\ Frozen(board[e]) => body = Untouched
  /\ Read(w, "updating", e, "idea", body)

Or(field, default) == IF field = Keep THEN default ELSE field
Onto(plan, body) ==
  [service |-> Or(body.service, plan.service), when |-> Or(body.when, plan.when)]

\* The fields of the body are written, and all are mirrored onto the calendar event that
\* is linked by then; whether a service event hangs on it, and is to be removed, is
\* decided on the category that was read.
Mirrored(c, j, plan) ==
  [cal[c] EXCEPT !.plan = plan,
                 !.service = Or(j.body.service, j.row.plan.service)
                               \/ (@ /\ ~j.row.plan.service)]

UpdateProgrammingTask(w) ==
  LET j == job[w]
      c == board[j.event].link
      plan == Onto(board[j.event].plan, j.body)
  IN
  /\ pc[w] = "updating"
  /\ board[j.event] # None
  /\ board' = [board EXCEPT ![j.event] = [@ EXCEPT !.plan = plan]]
  /\ cal' = IF c = None THEN cal ELSE [cal EXCEPT ![c] = Mirrored(c, j, plan)]
  /\ Stray({c}, c # None /\ j.overtaken)
  /\ Commit(w, j.event)
  /\ UNCHANGED used

-----------------------------------------------------------------------------
(* deleteProgrammingTask *)

StartDelete(w, e) == Read(w, "deleting", e, "idea", Untouched)

\* The calendar event that was read goes first, if there was one.
DeleteProgrammingTask(w) ==
  LET j == job[w]
      c == board[j.event].link
  IN
  /\ pc[w] = "deleting"
  /\ board[j.event] # None
  /\ j.row.link # None => Deletable(j.row.link)
  /\ board' = [board EXCEPT ![j.event] = None]
  /\ cal' = IF j.row.link = None THEN cal ELSE [cal EXCEPT ![j.row.link] = None]
  /\ Stray({c}, c # None /\ j.overtaken)
  /\ Commit(w, j.event)
  /\ UNCHANGED used

-----------------------------------------------------------------------------
(* The pages of the calendar and of service, which know nothing of the board *)

\* updateCalendar and updateServiceEvent.
UpdateCalendar(c, when) ==
  /\ cal[c] # None
  /\ cal[c].plan.when # when
  /\ cal' = [cal EXCEPT ![c].plan.when = when]
  /\ strayed' = strayed \cup {c}
  /\ UNCHANGED <<board, used, pc, job>>

BackToIdea(row) == [row EXCEPT !.stage = "idea", !.link = None]

\* deleteCalendar takes the service event along and sends the board event back.
DeleteCalendar(c) ==
  /\ Deletable(c)
  /\ board' = [e \in Events |-> IF e \in Linked(c) THEN BackToIdea(board[e]) ELSE board[e]]
  /\ cal' = [cal EXCEPT ![c] = None]
  /\ Commit(None, LinkedTo(c))
  /\ UNCHANGED <<used, strayed>>

CreateServiceEvent(when) ==
  LET c == used + 1 IN
  /\ c \in Cals
  /\ cal' = [cal EXCEPT ![c] = [plan |-> [service |-> TRUE, when |-> when],
                                service |-> TRUE, roll |-> FALSE, published |-> FALSE]]
  /\ used' = c
  /\ UNCHANGED <<board, pc, job, strayed>>

\* What the foreign key makes of the board when c is deleted: ON DELETE SET NULL.
SetNull(e, c) == [board[e] EXCEPT !.link = None]
DeletionPasses(c) == \A e \in Linked(c) : CheckHolds(SetNull(e, c))

DeleteServiceEvent(c) ==
  /\ Deletable(c)
  /\ cal[c].service
  /\ DeletionPasses(c)
  /\ board' = [e \in Events |-> IF e \in Linked(c) THEN SetNull(e, c) ELSE board[e]]
  /\ cal' = [cal EXCEPT ![c] = None]
  /\ Commit(None, LinkedTo(c))
  /\ UNCHANGED <<used, strayed>>

\* recordAttendance and submitExcuse; see Attendance.
TakeRoll(c) ==
  /\ cal[c] # None
  /\ cal' = [cal EXCEPT ![c].roll = TRUE]
  /\ UNCHANGED <<board, used, pc, job, strayed>>

-----------------------------------------------------------------------------

\* A lost claim, a row that is gone, a constraint, a failure: nothing is written.
RollBack(w) ==
  /\ pc[w] # "idle"
  /\ Commit(w, None)
  /\ UNCHANGED <<board, cal, used, strayed>>

SetStage(w) == Promote(w) \/ Demote(w) \/ MoveLaterally(w)

Start(w) ==
  \E e \in Events :
    \/ \E next \in Stages : StartStage(w, e, next)
    \/ \E body \in Bodies : StartUpdate(w, e, body)
    \/ StartDelete(w, e)

OtherPages ==
  \/ \E c \in Cals :
       \/ DeleteCalendar(c) \/ DeleteServiceEvent(c) \/ TakeRoll(c)
       \/ \E when \in Whens : UpdateCalendar(c, when)
  \/ \E when \in Whens : CreateServiceEvent(when)

Next ==
  \/ \E e \in Events, plan \in Plans : CreateProgrammingTask(e, plan)
  \/ \E w \in Workers :
       \/ Start(w) \/ SetStage(w) \/ UpdateProgrammingTask(w)
       \/ DeleteProgrammingTask(w) \/ RollBack(w)
  \/ OtherPages

Spec == Init /\ [][Next]_vars

-----------------------------------------------------------------------------

\* The tables are well formed: what their columns hold; the foreign key of the link;
\* and the publish boundary, an event being confirmed or done exactly while it has a
\* calendar event.
TypeOK ==
  /\ board \in [Events -> BoardRow \cup {None}]
  /\ cal \in [Cals -> CalRow \cup {None}]
  /\ used \in 0..MaxCals
  /\ pc \in [Workers -> {"idle", "staging", "updating", "deleting"}]
  /\ job \in [Workers -> Job]
  /\ strayed \subseteq Cals
  /\ \A e \in Events : board[e] # None =>
       /\ board[e].stage \in {"confirmed", "done"} <=> board[e].link # None
       /\ board[e].link # None => cal[board[e].link] # None

\* programming-service.ts: no calendar event is left on the timeline "with nothing
\* able to edit or delete it".  One that the board has made belongs to one board
\* event, shows what that says, and is a service event if that is; unless
\* somebody wrote past the board, or was overtaken.
OnTheBoard ==
  \A c \in Cals \ strayed : cal[c] # None /\ cal[c].published =>
    \E e \in Events : /\ Linked(c) = {e}
                      /\ cal[c].plan = board[e].plan
                      /\ cal[c].service = board[e].plan.service

\* programming.ts: Confirmed asks for a date and a place.
PublishedComplete ==
  \A e \in Events :
    board[e] # None /\ StageIsPublished(board[e].stage) /\ board[e].link \notin strayed
      => board[e].plan.when # None

\* programming.ts: "Done is reachable only from Confirmed", whoever was overtaken.
DoneAfterConfirm ==
  [][\A e \in Events :
       board[e] # None /\ board'[e] # None =>
         (board'[e].stage = "done" => board[e].stage \in {"confirmed", "done"})]_vars

\* programming-service.ts: moving the date of a published event "changes a plan
\* people have already made around.  The rule belongs on the server".
FrozenOnTimeline ==
  [][\A e \in Events :
       (/\ board[e] # None /\ board'[e] = board[e]
        /\ StageIsPublished(board[e].stage))
       => cal'[board[e].link].plan = cal[board[e].link].plan]_vars

\* A service event whose calendar event nothing refers to can be deleted.
ServiceDeletable ==
  \A c \in Cals : Deletable(c) /\ cal[c].service => DeletionPasses(c)

-----------------------------------------------------------------------------
(* What the invariants follow from *)

\* An id is not given twice, and a calendar event is linked to one board event.
LinksInv ==
  /\ \A c \in Cals : cal[c] # None => c <= used
  /\ \A c \in Cals, e, f \in Events : e \in Linked(c) /\ f \in Linked(c) => e = f

\* What a request has read: the link is nobody else's, now or later; the row is still so,
\* unless the request was overtaken; and what was decided on it.
WorkerOK(w) ==
  LET j == job[w] IN
  pc[w] # "idle" =>
    /\ j.event \in Events /\ j.row \in BoardRow /\ CheckHolds(j.row)
    /\ j.row.link # None => j.row.link <= used /\ Linked(j.row.link) \subseteq {j.event}
    /\ ~j.overtaken => board[j.event] = j.row
    /\ pc[w] = "staging" => Gate(j.row, j.next)
    /\ pc[w] = "updating" /\ Frozen(j.row) => j.body = Untouched

WorkersInv == \A w \in Workers : WorkerOK(w)

IInv ==
  TypeOK /\ LinksInv /\ WorkersInv /\ OnTheBoard /\ PublishedComplete

=============================================================================
