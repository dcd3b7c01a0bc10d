------------------------------- MODULE Polls -------------------------------
(***************************************************************************)
(* One poll of a chapter after another, its ballot and its managers        *)
(* (poll-service.ts).                                                      *)
(*                                                                         *)
(* A vote is admitted on the poll as it was read and written by an upsert  *)
(* that does not look at the poll again.  An edit is decided on a read as  *)
(* well, and its transaction deletes and creates anew: under READ          *)
(* COMMITTED the deletion takes the rows that were there when it began, so *)
(* that of two edits which overlap the rows of both remain.                *)
(*                                                                         *)
(* The options of one list are not told apart: an option is the number of  *)
(* the list it came with.  Who holds a role changes all the time, so a     *)
(* role lets anybody in.  Members are those who may not manage polls;      *)
(* whoever may sees every tally.  The question, the closing date, which    *)
(* nothing acts upon, and names are left out.                              *)
(***************************************************************************)
EXTENDS Naturals, FiniteSets

CONSTANTS
  Members,   \* members who may not manage polls
  Role,      \* the role polls are assigned to
  Ballots,   \* sets of assignees that managers create polls for
  Edits,     \* what managers ask for in a PATCH
  Workers,   \* concurrent requests that read before they write
  MaxLists,  \* bound: lists of options and of assignees written in one history
  None,      \* null
  Keep       \* a field that a request leaves alone

VARIABLES
  poll,      \* Poll with its PollOptions and PollAssignments, NoPoll if there is none
  vote,      \* PollVote by member: the option, 0 for who has not voted
  used,      \* numbers given to polls and lists so far (autoincrement)
  pc, job,   \* where each request is, and what it remembers
  shown,     \* ghost: members whom the tally of this poll was shown
  closedOnce,\* ghost: this poll has been closed before
  lapsed,    \* ghost: members whose vote on this poll was taken from them
  late       \* ghost: votes written since the poll was closed

vars == <<poll, vote, used, pc, job, shown, closedOnce, lapsed, late>>
ghosts == <<shown, closedOnce, lapsed, late>>

Lists == 1..MaxLists
Targets == Members \cup {Role}
Assignment == Targets \X Lists

\* The body of a PATCH: new options or not, a status, and either side of the
\* assignees.
Edit == [options : BOOLEAN, status : {Keep, "open", "closed"},
         members : {Keep} \cup SUBSET Members, role : {Keep, TRUE, FALSE}]

\* id: the poll that was read; option: what is voted for; edit: what is to be written,
\* with the assignees it comes to; options, assigned: rows its transaction has
\* deleted; missed: who has voted since it read, if it is to replace the options.
Job == [id : Lists \cup {0}, who : Members \cup {None}, option : Lists \cup {0},
        options : SUBSET Lists, assigned : SUBSET Assignment,
        newOptions : BOOLEAN, status : {Keep, "open", "closed"},
        targets : {Keep} \cup SUBSET Targets, missed : SUBSET Members]
NoJob == [id |-> 0, who |-> None, option |-> 0, options |-> {}, assigned |-> {},
          newOptions |-> FALSE, status |-> Keep, targets |-> Keep, missed |-> {}]

PollRow == [id : Lists \cup {0}, open : BOOLEAN, options : SUBSET Lists,
            assigned : SUBSET Assignment]
NoPoll == [id |-> 0, open |-> FALSE, options |-> {}, assigned |-> {}]
ThereIsOne == poll.id # 0

NoVotes == [m \in Members |-> 0]

Init ==
  /\ poll = NoPoll
  /\ vote = NoVotes
  /\ used = 0
  /\ pc = [w \in Workers |-> "idle"]
  /\ job = [w \in Workers |-> NoJob]
  /\ shown = {} /\ closedOnce = FALSE /\ lapsed = {} /\ late = 0

Exists(w) == ThereIsOne /\ poll.id = job[w].id

Go(w, step, j) == pc' = [pc EXCEPT ![w] = step] /\ job' = [job EXCEPT ![w] = j]
Finish(w) == Go(w, "idle", NoJob)

\* Rows that a transaction under way has deleted, which others wait for.
Locked(option) == \E w \in Workers : pc[w] = "swapping" /\ option \in job[w].options
\* A transaction that has written the row of the poll keeps others off it.
RowLocked == \E w \in Workers : pc[w] = "swapping" /\ job[w].status # Keep

-----------------------------------------------------------------------------
(* createPoll, deletePoll *)

CreatePoll(targets) ==
  /\ ~ThereIsOne /\ used + 1 \in Lists
  /\ targets # {} /\ targets \subseteq Targets
  /\ used' = used + 1
  /\ poll' = [id |-> used', open |-> TRUE, options |-> {used'},
              assigned |-> targets \X {used'}]
  /\ UNCHANGED <<vote, pc, job, ghosts>>

\* Options, assignments and votes go with it.
DeletePoll ==
  /\ ThereIsOne /\ ~RowLocked
  /\ poll' = NoPoll
  /\ vote' = NoVotes
  /\ shown' = {} /\ closedOnce' = FALSE /\ lapsed' = {} /\ late' = 0
  /\ UNCHANGED <<used, pc, job>>

-----------------------------------------------------------------------------
(* listPolls, buildDTOs *)

AnyVote(m) == ~poll.open \/ \E x \in Members : vote[x] # 0   \* mutant: not one's own
Revealed(m) == ~poll.open \/ vote[m] # 0

ListPolls(m) ==
  /\ ThereIsOne /\ Revealed(m)
  /\ shown' = shown \cup {m}
  /\ UNCHANGED <<poll, vote, used, pc, job, closedOnce, lapsed, late>>

-----------------------------------------------------------------------------
(* castVote *)

Assigned(m) == \E a \in poll.assigned : a[1] \in {m, Role}

AnyAssignee(m) == Assigned(m)                   \* mutant: a closed poll takes votes
MayVote(m) == poll.open /\ Assigned(m)

StartVote(w, m, option) ==
  /\ pc[w] = "idle"
  /\ ThereIsOne /\ option \in poll.options
  /\ MayVote(m)
  /\ Go(w, "voting", [NoJob EXCEPT !.id = poll.id, !.who = m, !.option = option])
  /\ UNCHANGED <<poll, vote, used, ghosts>>

\* The upsert.  The foreign key to the option waits for who is deleting it.
CastVote(w) ==
  LET m == job[w].who IN
  /\ pc[w] = "voting"
  /\ Exists(w) /\ job[w].option \in poll.options /\ ~Locked(job[w].option)
  /\ vote' = [vote EXCEPT ![m] = job[w].option]
  /\ pc' = [pc EXCEPT ![w] = "idle"]
  /\ job' = [v \in Workers |->
               IF v = w THEN NoJob
               ELSE IF job[v].newOptions
               THEN [job[v] EXCEPT !.missed = @ \cup {m}]
               ELSE job[v]]
  /\ late' = IF poll.open THEN late ELSE late + 1
  /\ UNCHANGED <<poll, used, shown, closedOnce, lapsed>>

-----------------------------------------------------------------------------
(* setStatus, by closePoll and reopenPoll: one statement that looks at nothing *)

Written(status) == IF status = Keep THEN poll.open ELSE status = "open"

\* The ghosts' view of a status that is written.
Note(open) ==
  /\ closedOnce' = (closedOnce \/ ~open)
  /\ late' = IF poll.open /\ ~open THEN 0 ELSE late

SetStatus(status) ==
  /\ ThereIsOne /\ ~RowLocked
  /\ poll' = [poll EXCEPT !.open = Written(status)]
  /\ Note(Written(status))
  /\ UNCHANGED <<vote, used, pc, job, shown, lapsed>>

-----------------------------------------------------------------------------
(* updatePoll *)

AnyTime(edit) == TRUE                           \* mutant: options may always change
Permitted(edit) == edit.options => vote = NoVotes

\* The side that is given replaces, the other one is written back as it was read.
Targeted(edit) ==
  LET read == {a[1] : a \in poll.assigned}
      members == IF edit.members = Keep THEN read \ {Role} ELSE edit.members
      role == IF edit.role = Keep THEN Role \in read ELSE edit.role
  IN
  IF edit.members = Keep /\ edit.role = Keep THEN Keep
  ELSE members \cup (IF role THEN {Role} ELSE {})

\* A status that the poll has already is not written.
Changed(status) == IF Written(status) = poll.open THEN Keep ELSE status

UpdatePoll(w, edit) ==
  /\ pc[w] = "idle"
  /\ edit \in Edit
  /\ ThereIsOne
  /\ Permitted(edit)
  /\ Targeted(edit) # {}
  /\ Go(w, "editing", [NoJob EXCEPT !.id = poll.id, !.newOptions = edit.options,
                                    !.status = Changed(edit.status),
                                    !.targets = Targeted(edit)])
  /\ UNCHANGED <<poll, vote, used, ghosts>>

\* The row of the poll, if it changes, and the deletions.
Swap(w) ==
  /\ pc[w] = "editing"
  /\ Exists(w)
  /\ job[w].status # Keep => ~RowLocked
  /\ Go(w, "swapping",
        [job[w] EXCEPT !.options = IF job[w].newOptions THEN poll.options ELSE {},
                       !.assigned = IF job[w].targets # Keep THEN poll.assigned ELSE {}])
  /\ UNCHANGED <<poll, vote, used, ghosts>>

\* The rows created anew, and the commit; votes follow their option.
CommitEdit(w) ==
  LET j == job[w]
      gone == {m \in Members : vote[m] \in j.options}
  IN
  /\ pc[w] = "swapping"
  /\ Exists(w)
  /\ used' = IF j.newOptions \/ j.targets # Keep THEN used + 1 ELSE used
  /\ used' \in Lists
  /\ poll' = [poll EXCEPT
       !.open = Written(j.status),
       !.options = (@ \ j.options) \cup (IF j.newOptions THEN {used'} ELSE {}),
       !.assigned = (@ \ j.assigned)
                      \cup (IF j.targets = Keep THEN {} ELSE j.targets \X {used'})]
  /\ vote' = [m \in Members |-> IF m \in gone THEN 0 ELSE vote[m]]
  /\ lapsed' = lapsed \cup gone
  /\ Note(Written(j.status))
  /\ Finish(w)
  /\ UNCHANGED shown

-----------------------------------------------------------------------------
(* eraseOrgScopedRecords of brother-service; the account, by its foreign keys *)

RemoveMember(m) ==
  /\ ThereIsOne
  /\ vote' = [vote EXCEPT ![m] = 0]
  /\ poll' = [poll EXCEPT !.assigned = {a \in @ : a[1] # m}]
  /\ lapsed' = IF vote[m] = 0 THEN lapsed ELSE lapsed \cup {m}
  /\ UNCHANGED <<used, pc, job, shown, closedOnce, late>>

\* The process dies, or a statement fails: nothing of a transaction is kept.
Abort(w) ==
  /\ pc[w] # "idle"
  /\ Finish(w)
  /\ UNCHANGED <<poll, vote, used, ghosts>>

Next ==
  \/ \E targets \in Ballots : CreatePoll(targets)
  \/ DeletePoll
  \/ \E m \in Members : ListPolls(m) \/ RemoveMember(m)
  \/ \E status \in {"open", "closed"} : SetStatus(status)
  \/ \E w \in Workers :
       \/ \E m \in Members, option \in Lists : StartVote(w, m, option)
       \/ CastVote(w)
       \/ \E edit \in Edits : UpdatePoll(w, edit)
       \/ Swap(w) \/ CommitEdit(w) \/ Abort(w)

Spec == Init /\ [][Next]_vars

-----------------------------------------------------------------------------
(* Properties *)

\* Well typed; the foreign keys hold: a vote is for an option of the poll.
TypeOK ==
  /\ poll \in PollRow /\ (~ThereIsOne => poll = NoPoll)
  /\ vote \in [Members -> Lists \cup {0}]
  /\ \A m \in Members : vote[m] # 0 => vote[m] \in poll.options
  /\ used \in Nat
  /\ pc \in [Workers -> {"idle", "voting", "editing", "swapping"}]
  /\ job \in [Workers -> Job]
  /\ shown \subseteq Members /\ closedOnce \in BOOLEAN /\ lapsed \subseteq Members
  /\ late \in Nat

\* After a poll is closed there come in at most the votes that were under way then:
\* at most one for each request, however long it stays closed and however often
\* somebody votes again.
LateBounded == ThereIsOne /\ ~poll.open => late <= Cardinality(Workers)

\* updatePoll: "Options can't change once anyone has voted".  A vote is taken from a
\* member only if the poll is deleted, if they are removed, or by an edit that read
\* the poll before they voted: every other vote stands through any number of edits.
TallyStands ==
  [][\A m \in Members :
       vote[m] # 0 /\ vote'[m] = 0 =>
         DeletePoll \/ RemoveMember(m)
           \/ \E w \in Workers : CommitEdit(w) /\ m \in job[w].missed]_vars

\* buildDTOs: a blind ballot.  Nobody gives a first vote who has seen how the others
\* voted, unless the poll was closed before and opened again, or they had voted on it
\* before and the vote was taken from them.
BlindBallot ==
  [][\A m \in Members :
       vote[m] = 0 /\ vote'[m] # 0 /\ m \in shown =>
         closedOnce \/ m \in lapsed]_vars

-----------------------------------------------------------------------------
(* What the three follow from *)

\* Requests know polls that exist, or existed; only an edit of the options deletes any.
IdInv == poll.id <= used
JobsInv ==
  \A w \in Workers :
    /\ pc[w] = "voting" => job[w].who \in Members
    /\ job[w].newOptions => job[w].id \in 1..used
    /\ job[w].options # {} => job[w].newOptions

\* An edit of the options read a poll without votes: it has missed all there are.
MissedInv ==
  \A w \in Workers : Exists(w) /\ job[w].newOptions =>
    \A m \in Members : vote[m] # 0 => m \in job[w].missed

\* Who has been shown the tally has voted, or is excused.
ShownInv ==
  /\ ~ThereIsOne => shown = {}
  /\ ThereIsOne /\ ~poll.open => closedOnce
  /\ \A m \in shown : vote[m] # 0 \/ closedOnce \/ m \in lapsed

\* Votes that came in late, and those that still may.
Voting == {w \in Workers : pc[w] = "voting"}
LateInv ==
  ThereIsOne /\ ~poll.open => late + Cardinality(Voting) <= Cardinality(Workers)

IInv == TypeOK /\ IdInv /\ JobsInv /\ MissedInv /\ ShownInv /\ LateInv

-----------------------------------------------------------------------------

\* updatePoll says of the options that they can't change once anyone has voted, and
\* of a list that it replaces the whole set.  A vote that arrives while an edit is
\* under way is deleted, and of two edits at once both lists remain.
VotesAreSafe ==
  [][\A m \in Members :
       vote[m] # 0 /\ vote'[m] = 0 => DeletePoll \/ RemoveMember(m)]_vars
OneList == ThereIsOne => Cardinality(poll.options) = 1
=============================================================================
