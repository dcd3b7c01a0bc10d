----------------------------- MODULE PageEdits -----------------------------
(***************************************************************************)
(* The optimistic edits of the pages: parties, the timeline, the treasury, *)
(* the dashboard and tasks change their list first and send the request    *)
(* then; a reply puts in what was saved, an error puts back what was       *)
(* there.  A reload replaces the list under them (ChapterContext.tsx).     *)
(*                                                                         *)
(* What is put back is the one row that the handler has found in the list; *)
(* on the treasury page, the row that its dialog was opened on; and on the *)
(* tasks page, the whole list as it was: Wholesale.                        *)
(*                                                                         *)
(* One tab and one list; a row is the value the officer edits, and what    *)
(* others do to it comes from elsewhere.  The order of the rows, which     *)
(* every page computes for itself, and edits of a row that stands for an   *)
(* addition, which the server does not know, are left out.                 *)
(***************************************************************************)
EXTENDS Sequences

CONSTANTS
  Rows,      \* rows that are ever saved
  Values,    \* what a row may hold
  Edits,     \* requests that are under way together
  Wholesale, \* an error puts back the whole list
  Nil        \* no row, no value

VARIABLES
  server,    \* the rows as they are saved
  shown,     \* the rows on the page; a sequence, for a row may be there twice
  dialog,    \* the row a dialog of the treasury page was opened on, as it was then
  temp,      \* additions for which a temporary row stands
  pc, job,   \* where each request is, and what its handler remembers
  reload,    \* an answer with the list, on its way
  doubt      \* ghost: rows that an accident has left to the next reload

vars == <<server, shown, dialog, temp, pc, job, reload, doubt>>

Absent == {"unborn", "deleted"}

\* before: what the handler keeps, to put it back; ghosts: did it keep another row than
\* was shown (outdated), and is it left to the order of the answers what will be
\* (clouded)?
NoJob == [op |-> "none", row |-> Nil, value |-> Nil, before |-> <<>>, outdated |-> FALSE,
          clouded |-> FALSE]
NoReload == [list |-> <<>>, muddled |-> {}]

\* The list as an answer brings it.
Saved == [k \in Rows |-> IF server[k] \in Absent THEN <<>> ELSE <<server[k]>>]

Init ==
  /\ server \in [Rows -> {"unborn"} \cup Values]
  /\ shown = Saved
  /\ dialog = Nil
  /\ temp = {}
  /\ pc = [w \in Edits |-> "idle"]
  /\ job = [w \in Edits |-> NoJob]
  /\ reload = NoReload
  /\ doubt = {}

Reloading == reload # NoReload
At(k) == {w \in Edits : pc[w] # "idle" /\ job[w].row = k}
Muddle(k) == reload' = IF Reloading THEN [reload EXCEPT !.muddled = @ \cup {k}] ELSE reload

\* The handler sends a request.  Two on one row, or a reload under way, leave it to the
\* order of the answers what is shown in the end.
Send(w, op, k, v, before) ==
  /\ pc[w] = "idle"
  /\ pc' = [pc EXCEPT ![w] = "sent"]
  /\ job' = [u \in Edits |->
               IF u = w
               THEN [op |-> op, row |-> k, value |-> v, before |-> before,
                     outdated |-> k # Nil /\ ~Wholesale /\ shown[k] # <<before>>,
                     clouded |-> Reloading \/ (k # Nil /\ At(k) # {})]
               ELSE IF u \in At(k) /\ k # Nil THEN [job[u] EXCEPT !.clouded = TRUE]
               ELSE job[u]]
  /\ Muddle(k)
  /\ UNCHANGED <<server, doubt>>

\* What the handler finds in the list and keeps.
Kept(k) == IF Wholesale THEN shown ELSE Head(shown[k])

Onto(list, v) == [i \in DOMAIN list |-> v]

-----------------------------------------------------------------------------
(* The handlers *)

\* handleAdd, handleCreateEvent, handleAddTx; the tasks page waits for the answer.
Add(w, v) ==
  /\ temp' = IF Wholesale THEN temp ELSE temp \cup {w}
  /\ Send(w, "add", Nil, v, <<>>)
  /\ UNCHANGED <<shown, dialog>>

\* handleEdit, handleWrapUp, completeDeadline, handleUpdateEvent, handleMarkPaid, setStatus;
\* what changes nothing is not an edit.
Edit(w, k, v) ==
  /\ shown[k] # <<>> /\ v # Head(shown[k])
  /\ shown' = [shown EXCEPT ![k] = Onto(@, v)]
  /\ Send(w, "edit", k, v, Kept(k))
  /\ UNCHANGED <<dialog, temp>>

\* handleDelete, executeDeleteEvent, confirmDeleteDeadline, doDelete.
Remove(w, k) ==
  /\ shown[k] # <<>>
  /\ shown' = [shown EXCEPT ![k] = <<>>]
  /\ Send(w, "remove", k, Nil, Kept(k))
  /\ UNCHANGED <<dialog, temp>>

\* The treasury page opens a dialog on a row, and closes it again ...
OpenDialog(k) ==
  /\ ~Wholesale /\ dialog = Nil
  /\ shown[k] # <<>>
  /\ dialog' = [row |-> k, value |-> Head(shown[k])]
  /\ UNCHANGED <<server, shown, temp, pc, job, reload, doubt>>

CloseDialog ==
  /\ dialog # Nil
  /\ dialog' = Nil
  /\ UNCHANGED <<server, shown, temp, pc, job, reload, doubt>>

\* ... or gives the row it was opened on to handleEditTx (handleEditParty) ...
EditInDialog(w, v) ==
  /\ dialog # Nil
  /\ shown' = [shown EXCEPT ![dialog.row] = Onto(@, v)]
  /\ Send(w, "edit", dialog.row, v, dialog.value)
  /\ dialog' = Nil
  /\ UNCHANGED temp

\* ... or to handleDeleteTx (handleDeleteParty).
RemoveInDialog(w) ==
  /\ dialog # Nil
  /\ shown' = [shown EXCEPT ![dialog.row] = <<>>]
  /\ Send(w, "remove", dialog.row, Nil, dialog.value)
  /\ dialog' = Nil
  /\ UNCHANGED temp

-----------------------------------------------------------------------------
(* The server and the answers *)

\* The request is carried out; the answer is on its way.
Carry(w, k) ==
  /\ pc[w] = "sent"
  /\ IF job[w].op = "add" THEN server[k] = "unborn"
     ELSE k = job[w].row /\ server[k] \notin Absent
  /\ server' = [server EXCEPT ![k] = IF job[w].op = "remove" THEN "deleted" ELSE job[w].value]
  /\ pc' = [pc EXCEPT ![w] = "carried"]
  /\ job' = [job EXCEPT ![w].row = k]
  /\ Muddle(k)
  /\ UNCHANGED <<shown, dialog, temp, doubt>>

\* Another officer, or another tab.
Elsewhere(k, v) ==
  /\ server[k] # "deleted" /\ v # server[k]
  /\ server' = [server EXCEPT ![k] = v]
  /\ doubt' = doubt \cup {k}
  /\ Muddle(k)
  /\ UNCHANGED <<shown, dialog, temp, pc, job>>

\* The handler is done.  What was unsure stays so until the next reload.
Close(w, unsure) ==
  /\ temp' = temp \ {w}
  /\ doubt' = IF unsure THEN doubt \cup ({job[w].row} \cap Rows) ELSE doubt
  /\ pc' = [pc EXCEPT ![w] = "idle"]
  /\ job' = [job EXCEPT ![w] = NoJob]
  /\ UNCHANGED <<server, dialog, reload>>

\* What was saved takes the place of the temporary row, if that is still there, and of
\* the row where it is shown (some handlers leave it, as they have it already); the
\* tasks page appends what it has added.
Confirm(w) ==
  LET k == job[w].row
      v == job[w].value
  IN
  /\ pc[w] = "carried"
  /\ shown' = CASE job[w].op = "edit" -> [shown EXCEPT ![k] = Onto(@, v)]
                [] job[w].op = "add" /\ (Wholesale \/ w \in temp) ->
                     [shown EXCEPT ![k] = Append(@, v)]
                [] OTHER -> shown
  /\ Close(w, job[w].clouded)

NotReverted(w) == shown                        \* mutant: an error is only reported
Reverted(w) ==
  LET k == job[w].row IN
  CASE job[w].op = "add" -> shown
    [] job[w].op # "add" /\ Wholesale -> job[w].before
    [] job[w].op = "edit" /\ ~Wholesale -> [shown EXCEPT ![k] = Onto(@, job[w].before)]
    [] job[w].op = "remove" /\ ~Wholesale -> [shown EXCEPT ![k] = Append(@, job[w].before)]

\* The request was refused, or got lost on the way there or back.
Revert(w) ==
  /\ pc[w] # "idle"
  /\ shown' = Reverted(w)
  /\ Close(w, job[w].clouded \/ job[w].outdated \/ pc[w] = "carried")

\* A reload is answered by the server with what is saved, and arrives later.
Reload ==
  /\ ~Reloading
  /\ reload' = [list |-> Saved,
                muddled |-> {k \in Rows : At(k) # {}}]
  /\ job' = [w \in Edits |-> IF pc[w] = "idle" THEN job[w] ELSE [job[w] EXCEPT !.clouded = TRUE]]
  /\ UNCHANGED <<server, shown, dialog, temp, pc, doubt>>

Arrive ==
  /\ Reloading
  /\ shown' = reload.list
  /\ temp' = {}
  /\ doubt' = reload.muddled \cap Rows
  /\ reload' = NoReload
  /\ UNCHANGED <<server, dialog, pc, job>>

Next ==
  \/ \E w \in Edits :
       \/ \E v \in Values : Add(w, v)
       \/ \E k \in Rows, v \in Values : Edit(w, k, v)
       \/ \E k \in Rows : Remove(w, k)
       \/ \E v \in Values : EditInDialog(w, v)
       \/ RemoveInDialog(w)
       \/ \E k \in Rows : Carry(w, k)
       \/ Confirm(w) \/ Revert(w)
  \/ \E k \in Rows : OpenDialog(k)
  \/ CloseDialog
  \/ \E k \in Rows, v \in Values \cup {"deleted"} : Elsewhere(k, v)
  \/ Reload \/ Arrive

Spec == Init /\ [][Next]_vars

-----------------------------------------------------------------------------
(* Properties *)

\* Well typed.
TypeOK ==
  /\ server \in [Rows -> Absent \cup Values]
  /\ DOMAIN shown = Rows /\ \A k \in Rows : shown[k] \in Seq(Values)
  /\ dialog \in [row : Rows, value : Values] \cup {Nil}
  /\ temp \subseteq {w \in Edits : pc[w] # "idle" /\ job[w].op = "add"}
  /\ pc \in [Edits -> {"idle", "sent", "carried"}]
  /\ \A w \in Edits : job[w].row \in Rows \cup {Nil}
  /\ doubt \subseteq Rows

\* Once the requests on a row are answered, in either way, the page shows it as it is
\* saved, once, or not at all if it is not; but for rows that were edited twice at a
\* time, edited during a reload, changed elsewhere, or whose reply was lost, or for which
\* an error has put back the row of an outdated dialog: those wait for a reload that
\* nothing disturbs.
RowsTrue == \A k \in Rows : At(k) = {} /\ k \notin doubt => shown[k] = Saved[k]

\* treasury/page.tsx: "It was restored".  A request that had its row to itself, and is
\* refused, leaves the row on the page as it is saved.
Restored ==
  [][\A w \in Edits :
       /\ pc[w] = "sent" /\ pc'[w] = "idle" /\ ~job[w].clouded
       /\ job[w].row \in Rows \ doubt
       => shown'[job[w].row] = Saved[job[w].row]]_vars

-----------------------------------------------------------------------------
(* Why RowsTrue holds, where an error puts back one row *)

Job == [op : {"none", "add", "edit", "remove"}, row : Rows \cup {Nil},
        value : Values \cup {Nil}, before : Values \cup {<<>>}, outdated : BOOLEAN,
        clouded : BOOLEAN]

Answer == [list : [Rows -> Seq(Values)], muddled : SUBSET (Rows \cup {Nil})]

\* What a handler remembers of its request; all that are under way when a list is asked
\* for, or are sent before it arrives, are clouded.
JobOK(w) ==
  IF pc[w] = "idle" THEN job[w] = NoJob
  ELSE /\ job[w].op \in {"add", "edit", "remove"}
       /\ job[w].op # "remove" => job[w].value \in Values
       /\ job[w].op # "add" => job[w].row \in Rows /\ job[w].before \in Values
       /\ pc[w] = "carried" => job[w].row \in Rows
       /\ pc[w] = "sent" /\ job[w].op = "add" => job[w].row = Nil
       /\ Reloading => job[w].clouded

JobsInv == job \in [Edits -> Job] /\ \A w \in Edits : JobOK(w)

\* Nobody has heard of a row that was never saved.
BornInv ==
  \A k \in Rows : server[k] = "unborn" =>
    /\ shown[k] = <<>> /\ At(k) = {} /\ (Reloading => reload.list[k] = <<>>)
    /\ dialog # Nil => dialog.row # k

\* The list on its way is what is saved, but for the rows that were touched since.
ReloadInv ==
  Reloading => /\ reload \in Answer
               /\ \A k \in Rows \ reload.muddled : reload.list[k] = Saved[k]

\* A request that nothing has clouded has its row to itself: what is shown is what it
\* asked for, and what is saved what it will put back, if that is not outdated, or has
\* brought about.
Pending(w) ==
  LET k == job[w].row IN
  /\ shown[k] = IF job[w].op = "edit" THEN Onto(Saved[k], job[w].value) ELSE <<>>
  /\ IF pc[w] = "sent" THEN job[w].outdated \/ Saved[k] = <<job[w].before>>
     ELSE Saved[k] = IF job[w].op = "remove" THEN <<>> ELSE <<job[w].value>>

ClearInv ==
  \A w \in Edits : pc[w] # "idle" /\ ~job[w].clouded =>
    /\ job[w].op = "add" => w \in temp
    /\ job[w].row # Nil => At(job[w].row) = {w}
    /\ job[w].row # Nil /\ job[w].row \notin doubt => Pending(w)

IInv ==
  /\ TypeOK /\ shown \in [Rows -> Seq(Values)]
  /\ JobsInv /\ BornInv /\ ReloadInv /\ ClearInv /\ RowsTrue
=============================================================================
