------------------------------ MODULE Parties ------------------------------
(***************************************************************************)
(* Parties and the calendar events behind their rolls (party-service.ts).  *)
(*                                                                         *)
(* The roll of a party is kept by an event of the calendar which the first *)
(* wrap-up with a roll creates.  A wrap-up is a read and up to four        *)
(* statements without a transaction, and a deletion a read and two, the    *)
(* last of which may fail without a word.                                  *)
(*                                                                         *)
(* All events here are those of parties.  A roll is a fact: rows of        *)
(* attendance, or excuses, refer to the event, and restrict its deletion.  *)
(* A semester is active and somebody is eligible; a wrap-up without a      *)
(* semester is refused before it writes.  Names, money and notes are left  *)
(* out.                                                                    *)
(***************************************************************************)
EXTENDS Naturals

CONSTANTS
  Parties,   \* parties that are ever created
  Workers,   \* concurrent requests that read before they write
  MaxEvents, \* bound: events created in one history
  None       \* no party

VARIABLES
  party,     \* PartyEvent, by party
  events,    \* CalendarEvents of parties
  mandatory, \* those that count for the attendance of the chapter
  rolled,    \* those that attendance rows or excuses refer to
  created,   \* events created so far (autoincrement)
  pc, job,   \* where each request is, and what it remembers
  stranded   \* ghost: events that an accident has left without a party

calendar == <<events, mandatory, rolled>>
vars == <<party, calendar, created, pc, job, stranded>>

Ids == 1..MaxEvents
Party == [state : {"new", "live", "deleted"}, completed : BOOLEAN, event : Ids \cup {0}]

\* link: attendanceEventId as it was read; event: what is to be linked, or was;
\* roll, mandatory: the body; missed: events that others linked since the read.
Job == [party : Parties \cup {None}, link : Ids \cup {0}, event : Ids \cup {0},
        roll : BOOLEAN, mandatory : BOOLEAN, missed : SUBSET Ids]
NoJob == [party |-> None, link |-> 0, event |-> 0, roll |-> FALSE,
          mandatory |-> FALSE, missed |-> {}]

Init ==
  /\ party = [p \in Parties |-> [state |-> "new", completed |-> FALSE, event |-> 0]]
  /\ events = {} /\ mandatory = {} /\ rolled = {}
  /\ created = 0
  /\ pc = [w \in Workers |-> "idle"]
  /\ job = [w \in Workers |-> NoJob]
  /\ stranded = {}

Live(p) == party[p].state = "live"
\* The event a request is to link, or to clean up.
Holding(w) == IF pc[w] = "cleaning" THEN job[w].link ELSE job[w].event
Go(w, step, j) == pc' = [pc EXCEPT ![w] = step] /\ job' = [job EXCEPT ![w] = j]
Finish(w) == Go(w, "idle", NoJob)
Marked(set, e, yes) == IF yes THEN set \cup {e} ELSE set \ {e}

-----------------------------------------------------------------------------
(* createParty, updateParty *)

CreateParty(p) ==
  /\ party[p].state = "new"
  /\ party' = [party EXCEPT ![p].state = "live"]
  /\ UNCHANGED <<calendar, created, pc, job, stranded>>

UpdateParty(p, completed) ==
  /\ Live(p)
  /\ party' = [party EXCEPT ![p].completed = completed]
  /\ UNCHANGED <<calendar, created, pc, job, stranded>>

-----------------------------------------------------------------------------
(* wrapUpParty *)

LinkForgotten(p) == 0                          \* mutant: always an event of its own
Link(p) == party[p].event

StartWrapUp(w, p, roll, required) ==
  /\ pc[w] = "idle"
  /\ Live(p)
  /\ Go(w, "completing", [NoJob EXCEPT !.party = p, !.link = Link(p),
                                       !.roll = roll, !.mandatory = required])
  /\ UNCHANGED <<party, calendar, created, stranded>>

\* The money and the end of it.
Complete(w) ==
  /\ pc[w] = "completing"
  /\ Live(job[w].party)
  /\ party' = [party EXCEPT ![job[w].party].completed = TRUE]
  /\ IF job[w].roll THEN Go(w, "rolling", job[w]) ELSE Finish(w)
  /\ UNCHANGED <<calendar, created, stranded>>

CreateEvent(w) ==
  /\ pc[w] = "rolling" /\ job[w].link = 0
  /\ created + 1 \in Ids
  /\ created' = created + 1
  /\ events' = events \cup {created'}
  /\ mandatory' = Marked(mandatory, created', job[w].mandatory)
  /\ Go(w, "linking", [job[w] EXCEPT !.event = created'])
  /\ UNCHANGED <<party, rolled, stranded>>

\* Whoever is at the same party will not have seen this.
LinkEvent(w) ==
  LET p == job[w].party
      others(v) == v # w /\ job[v].party = p
  IN
  /\ pc[w] = "linking"
  /\ Live(p) /\ job[w].event \in events
  /\ party' = [party EXCEPT ![p].event = job[w].event]
  /\ stranded' = stranded \cup ({party[p].event} \cap job[w].missed)
  /\ pc' = [pc EXCEPT ![w] = "taking"]
  /\ job' = [v \in Workers |->
               IF others(v) THEN [job[v] EXCEPT !.missed = @ \cup {job[w].event}]
               ELSE job[v]]
  /\ UNCHANGED <<calendar, created>>

\* The event that was there keeps in step with the toggle.
KeepEvent(w) ==
  LET e == job[w].link IN
  /\ pc[w] = "rolling" /\ e \in events
  /\ mandatory' = Marked(mandatory, e, job[w].mandatory)
  /\ Go(w, "taking", [job[w] EXCEPT !.event = e])
  /\ UNCHANGED <<party, events, rolled, created, stranded>>

TakeRoll(w) ==
  /\ pc[w] = "taking" /\ job[w].event \in events
  /\ rolled' = rolled \cup {job[w].event}
  /\ Finish(w)
  /\ UNCHANGED <<party, events, mandatory, created, stranded>>

-----------------------------------------------------------------------------
(* deleteParty *)

StartDelete(w, p) ==
  /\ pc[w] = "idle"
  /\ Live(p)
  /\ Go(w, "deleting", [NoJob EXCEPT !.party = p, !.link = party[p].event])
  /\ UNCHANGED <<party, calendar, created, stranded>>

NothingToClean(w) == job[w].link = 0

DeleteParty(w) ==
  LET p == job[w].party IN
  /\ pc[w] = "deleting"
  /\ Live(p)
  /\ party' = [party EXCEPT ![p].state = "deleted", ![p].event = 0]
  /\ stranded' = stranded \cup ({party[p].event} \cap job[w].missed)
  /\ IF NothingToClean(w) THEN Finish(w) ELSE Go(w, "cleaning", job[w])
  /\ UNCHANGED <<calendar, created>>

\* "Best-effort cleanup": the foreign keys refuse it once a roll was taken, and the
\* error is logged.
CleanUp(w) ==
  LET e == job[w].link IN
  /\ pc[w] = "cleaning"
  /\ IF e \in rolled
     THEN stranded' = stranded \cup {e} /\ UNCHANGED calendar
     ELSE /\ events' = events \ {e} /\ mandatory' = mandatory \ {e}
          /\ UNCHANGED <<rolled, stranded>>
  /\ Finish(w)
  /\ UNCHANGED <<party, created>>

-----------------------------------------------------------------------------
(* What others do to these events *)

\* deleteCalendar: the party is detached by its foreign key.
DeleteCalendar(e) ==
  /\ e \in events \ rolled
  /\ events' = events \ {e} /\ mandatory' = mandatory \ {e}
  /\ party' = [p \in Parties |-> IF party[p].event = e THEN [party[p] EXCEPT !.event = 0]
                                 ELSE party[p]]
  /\ UNCHANGED <<rolled, created, pc, job, stranded>>

\* recordAttendance, and an excuse.
Refer(e) ==
  /\ e \in mandatory
  /\ rolled' = rolled \cup {e}
  /\ UNCHANGED <<party, events, mandatory, created, pc, job, stranded>>

\* The only member it knew is erased.
EraseRoll(e) ==
  /\ e \in rolled
  /\ rolled' = rolled \ {e}
  /\ UNCHANGED <<party, events, mandatory, created, pc, job, stranded>>

\* A statement finds nothing to write, or the process dies.
Die(w) ==
  /\ pc[w] # "idle"
  /\ stranded' = IF pc[w] \in {"linking", "cleaning"} /\ Holding(w) \in events
                 THEN stranded \cup {Holding(w)} ELSE stranded
  /\ Finish(w)
  /\ UNCHANGED <<party, calendar, created>>

Next ==
  \/ \E p \in Parties : CreateParty(p) \/ \E completed \in BOOLEAN : UpdateParty(p, completed)
  \/ \E w \in Workers :
       \/ \E p \in Parties, roll \in BOOLEAN, required \in BOOLEAN :
            StartWrapUp(w, p, roll, required)
       \/ Complete(w) \/ CreateEvent(w) \/ LinkEvent(w) \/ KeepEvent(w) \/ TakeRoll(w)
       \/ \E p \in Parties : StartDelete(w, p)
       \/ DeleteParty(w) \/ CleanUp(w) \/ Die(w)
  \/ \E e \in Ids : DeleteCalendar(e) \/ Refer(e) \/ EraseRoll(e)

Spec == Init /\ [][Next]_vars

-----------------------------------------------------------------------------
(* Properties *)

\* Well typed; the foreign keys and the unique key of attendanceEventId hold.
TypeOK ==
  /\ party \in [Parties -> Party]
  /\ \A p \in Parties : party[p].event # 0 => Live(p) /\ party[p].event \in events
  /\ \A p, q \in Parties : party[p].event = party[q].event => p = q \/ party[p].event = 0
  /\ events \subseteq 1..created /\ mandatory \subseteq events /\ rolled \subseteq events
  /\ created \in 0..MaxEvents
  /\ pc \in [Workers -> {"idle", "completing", "rolling", "linking", "taking",
                         "deleting", "cleaning"}]
  /\ job \in [Workers -> Job]
  /\ stranded \subseteq Ids

Owned(e) == \E p \in Parties : party[p].event = e
InHand(e) == \E w \in Workers : pc[w] \in {"linking", "cleaning"} /\ Holding(w) = e

\* wrapUpParty: "If the party already has a backing event we update its roll in place
\* and do not create a second one."  Every event of a party in the calendar is its
\* party's, so that a roll counts once, but for the accidents: a wrap-up or deletion
\* that was cut short or that overlapped another wrap-up of the same party, and a
\* deletion that a roll has stopped.
PartyBacked == \A e \in events : Owned(e) \/ InHand(e) \/ e \in stranded

\* deleteParty says that it cleans up "the backing attendance event (and its records
\* cascade via FK)".  They do not.
RollsGoToo ==
  [][\A w \in Workers : CleanUp(w) => job[w].link \notin events']_vars

-----------------------------------------------------------------------------
(* What the invariants follow from *)

\* An event is nobody's and in no other hand until it is linked.
Fresh(w) ==
  /\ job[w].event \in 1..created /\ ~Owned(job[w].event)
  /\ \A v \in Workers \ {w} : pc[v] = "linking" => job[v].event # job[w].event

\* And never another party's once it was linked to this one.
Settled(w) ==
  /\ job[w].link \in 1..created
  /\ \A p \in Parties : party[p].event = job[w].link => p = job[w].party
  /\ \A v \in Workers : pc[v] = "linking" => job[v].event # job[w].link

\* A request knows the event of its party, or has missed it.
WorkerOK(w) ==
  LET j == job[w] IN
  /\ pc[w] # "idle" => j.party \in Parties
  /\ pc[w] \in {"completing", "rolling", "linking", "deleting"} =>
       party[j.party].event \in {0, j.link} \cup j.missed
  /\ pc[w] = "linking" => j.link = 0 /\ Fresh(w)
  /\ pc[w] \in {"deleting", "cleaning"} /\ j.link # 0 => Settled(w)
  /\ pc[w] = "cleaning" => j.link # 0 /\ party[j.party].state = "deleted"

WorkersInv == \A w \in Workers : WorkerOK(w)

IInv == TypeOK /\ WorkersInv /\ PartyBacked

=============================================================================
